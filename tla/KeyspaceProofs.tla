--------------------------- MODULE KeyspaceProofs ---------------------------
(***************************************************************************)
(* Proofs about Keyspace, for every set of keys, clients and cleaners,     *)
(* every set of commands and every width of the integers.                  *)
(***************************************************************************)
EXTENDS Keyspace, TLAPS

USE ProcsAssumption, LimitAssumption, CommandsAssumption, NullAssumption,
    NoProcAssumption

Labels == {"idle", "read", "reading", "write", "writing", "evict", "evicting"}

WriteEnd(c) == Set(c) \/ Del(c) \/ EX(c) \/ PERSIST(c) \/ Append(c) \/ IncrBy(c)

ReadEnd(c) == Get(c) \/ Exists(c) \/ TTL(c)

(***************************************************************************)
(* Wrap brings the sum of two ints back into the range of int.             *)
(***************************************************************************)
LEMMA WrapInRange ==
    /\ \A m, n \in Ints : Wrap(m + n) \in Ints
    /\ \A m \in Ints : Wrap(-m) \in Ints
BY DEF Wrap, Ints

(***************************************************************************)
(* The operations under the write lock end alike: one key gets a value and *)
(* an expiry, and only DEL takes a value away.                             *)
(***************************************************************************)
Leaves(c, v, e) ==
    /\ pc[c] = "writing"
    /\ store' = [store EXCEPT ![cmd[c].key] = v]
    /\ expiries' = [expiries EXCEPT ![cmd[c].key] = e]
    /\ pc' = [pc EXCEPT ![c] = "idle"]
    /\ cmd' = [cmd EXCEPT ![c] = NoCommand]
    /\ loaded' = [loaded EXCEPT ![c] = NoValue]
    /\ Unlock
    /\ reply' \in {[reply EXCEPT ![c] = r] : r \in Replies}
    /\ UNCHANGED <<now, seen, doomed>>
    /\ v = NoValue => store[cmd[c].key] = NoValue \/ cmd[c].op = "DEL"

(***************************************************************************)
(* What the return from a section that wrote changes.                      *)
(***************************************************************************)
LEMMA WriteEndShape ==
    ASSUME NEW c \in Clients, TypeOK, StableReads, WriteEnd(c)
    PROVE  \E v \in Values \cup {NoValue}, e \in Int \cup {NoExpiry} : Leaves(c, v, e)
<1> DEFINE k == cmd[c].key
           Goal == \E v \in Values \cup {NoValue}, e \in Int \cup {NoExpiry} : Leaves(c, v, e)
<1>1. /\ pc[c] = "writing" /\ cmd[c] \in Commands /\ k \in Keys
      /\ loaded[c] = store[k] /\ store[k] \in Values \cup {NoValue}
      /\ expiries[k] \in Int \cup {NoExpiry} /\ now \in Nat
  <2>1. pc[c] = "writing"
    BY DEF WriteEnd, Set, Del, EX, PERSIST, Append, IncrBy, FinishWrite
  <2> QED  BY <2>1 DEF TypeOK, StableReads
<1>2. ASSUME NEW v \in Values \cup {NoValue}, NEW e \in Int \cup {NoExpiry}, Leaves(c, v, e)
      PROVE  Goal
  BY <1>2
<1> HIDE DEF Goal
<1>3. CASE Set(c)
  <2> DEFINE e == IF cmd[c].ttl > 0 THEN now + cmd[c].ttl ELSE NoExpiry
  <2>1. cmd[c].val \in Values /\ e \in Int \cup {NoExpiry} /\ cmd[c].val # NoValue
    BY <1>1 DEF Values, Ints
  <2>2. Leaves(c, cmd[c].val, e)
    BY <1>3, <2>1 DEF Set, FinishWrite, Answer, Goto, Leaves, Replies
  <2> HIDE DEF e
  <2> QED  BY <1>2, <2>1, <2>2
<1>4. CASE Del(c)
  <2>1. CASE loaded[c] # NoValue
    <3>1. Leaves(c, NoValue, NoExpiry)
      BY <1>4, <2>1 DEF Del, FinishWrite, Answer, Goto, Leaves, Replies
    <3> QED  BY <1>2, <3>1
  <2>2. CASE loaded[c] = NoValue
    <3>1. Leaves(c, NoValue, expiries[k])
      BY <1>4, <2>2 DEF Del, FinishWrite, Answer, Goto, Leaves, Replies
    <3> QED  BY <1>1, <1>2, <3>1
  <2> QED  BY <2>1, <2>2
<1>5. CASE EX(c)
  <2>1. Leaves(c, store[k], now + cmd[c].ttl)
    BY <1>5 DEF EX, FinishWrite, Answer, Goto, Leaves, Replies
  <2>2. now + cmd[c].ttl \in Int
    BY <1>1
  <2> QED  BY <1>1, <1>2, <2>1, <2>2
<1>6. CASE PERSIST(c)
  <2>1. CASE loaded[c] # NoValue /\ expiries[k] # NoExpiry
    <3>1. Leaves(c, store[k], NoExpiry)
      BY <1>1, <1>6, <2>1 DEF PERSIST, FinishWrite, Answer, Goto, Leaves, Replies
    <3> QED  BY <1>1, <1>2, <3>1
  <2>2. CASE ~ (loaded[c] # NoValue /\ expiries[k] # NoExpiry)
    <3>1. Leaves(c, store[k], expiries[k])
      BY <1>1, <1>6, <2>2 DEF PERSIST, FinishWrite, Answer, Goto, Leaves, Replies
    <3> QED  BY <1>1, <1>2, <3>1
  <2> QED  BY <2>1, <2>2
<1>7. CASE Append(c)
  <2>1. Leaves(c, Text, expiries[k])
    BY <1>7 DEF Append, FinishWrite, Answer, Goto, Leaves, Replies
  <2> QED  BY <1>1, <1>2, <2>1 DEF Values
<1>8. CASE IncrBy(c)
  <2>1. cmd[c].val \in Ints /\ Increment(cmd[c]) \in Ints
    BY <1>1, <1>8, WrapInRange DEF IncrBy, FinishWrite, Increment
  <2>2. CASE loaded[c] = Text
    <3>1. Leaves(c, Text, expiries[k])
      BY <1>8, <2>2 DEF IncrBy, FinishWrite, Answer, Goto, Leaves, Replies
    <3> QED  BY <1>1, <1>2, <3>1 DEF Values
  <2>3. CASE loaded[c] = NoValue
    <3>1. Leaves(c, Increment(cmd[c]), expiries[k])
      BY <1>1, <1>8, <2>1, <2>3 DEF IncrBy, FinishWrite, Answer, Goto, Leaves,
         Replies, Ints
    <3> QED  BY <1>1, <1>2, <2>1, <3>1 DEF Values
  <2>4. CASE loaded[c] \in Ints
    <3> DEFINE v == Wrap(loaded[c] + Increment(cmd[c]))
    <3>0. v \in Ints
      BY <2>1, <2>4, WrapInRange, Zenon
    <3>1. v \in Ints /\ v # NoValue
      BY <3>0 DEF Ints
    <3>2. loaded[c] # Text /\ loaded[c] # NoValue
      BY <2>4 DEF Ints
    <3>3. Leaves(c, v, expiries[k])
      BY <1>8, <3>1, <3>2 DEF IncrBy, FinishWrite, Answer, Goto, Leaves, Replies, Ints
    <3> HIDE DEF v
    <3> QED  BY <1>1, <1>2, <3>1, <3>3 DEF Values
  <2> QED  BY <1>1, <2>2, <2>3, <2>4 DEF Values
<1> QED  BY <1>3, <1>4, <1>5, <1>6, <1>7, <1>8 DEF WriteEnd, Goal
-----------------------------------------------------------------------------
(***************************************************************************)
(* Initially the lock is free and every client rests.                      *)
(***************************************************************************)
LEMMA InitIInv == Init => IInv
BY DEF Init, MutexInit, IInv, TypeOK, MutexTypeOK, LockInv, Holding, StableReads,
       EvictInv, ExpiredAt, Values, Replies

(***************************************************************************)
(* The steps of Next, with the ends of the operations taken together.      *)
(***************************************************************************)
LEMMA NextCases ==
    Next => \/ Tick
            \/ \E c \in Clients :
                  CallRead(c) \/ CallWrite(c) \/ EnterRead(c) \/ GetExpired(c)
                     \/ ReadEnd(c) \/ EnterWrite(c) \/ WriteEnd(c)
            \/ \E p \in Cleaners : CleanerWake(p)
            \/ \E p \in Procs : Lock(p) \/ EnterEvict(p) \/ Evict(p) \/ FinishEvict(p)
BY DEF Next, ClientNext, ReadStep, WriteStep, ReadEnd, WriteEnd, EvictStep

(***************************************************************************)
(* The parts of the invariant carry each other through a step.             *)
(***************************************************************************)
LEMMA NextIInv == IInv /\ [Next]_vars => IInv'
<1> SUFFICES ASSUME IInv, [Next]_vars PROVE IInv'
  OBVIOUS
<1> USE DEF IInv
<1>1. ASSUME Tick PROVE IInv'
  <2>1. TypeOK'
    BY <1>1 DEF Tick, TypeOK, MutexTypeOK, keyspaceVars, procVars, mutexVars
  <2>2. LockInv'
    BY <1>1 DEF Tick, TypeOK, MutexTypeOK, LockInv, Holding, keyspaceVars, procVars,
       mutexVars
  <2>3. StableReads'
    BY <1>1 DEF Tick, TypeOK, MutexTypeOK, LockInv, Holding, StableReads,
       keyspaceVars, procVars, mutexVars
  <2>4. EvictInv'
    BY <1>1 DEF Tick, TypeOK, MutexTypeOK, LockInv, Holding, EvictInv, ExpiredAt,
       keyspaceVars, procVars, mutexVars
  <2> QED  BY <2>1, <2>2, <2>3, <2>4
<1>2. ASSUME NEW c \in Clients, CallRead(c) PROVE IInv'
  <2>1. TypeOK'
    BY <1>2 DEF CallRead, Call, Goto, RLock, TypeOK, MutexTypeOK, Replies,
       keyspaceVars, procVars, mutexVars
  <2>2. LockInv'
    BY <1>2 DEF CallRead, Call, Goto, RLock, TypeOK, MutexTypeOK, LockInv, Holding,
       keyspaceVars, procVars, mutexVars
  <2>3. StableReads'
    BY <1>2 DEF CallRead, Call, Goto, RLock, TypeOK, MutexTypeOK, LockInv, Holding,
       StableReads, keyspaceVars, procVars, mutexVars
  <2>4. EvictInv'
    BY <1>2 DEF CallRead, Call, Goto, RLock, TypeOK, MutexTypeOK, LockInv, Holding,
       EvictInv, ExpiredAt, keyspaceVars, procVars, mutexVars
  <2> QED  BY <2>1, <2>2, <2>3, <2>4
<1>3. ASSUME NEW c \in Clients, CallWrite(c) PROVE IInv'
  <2>1. TypeOK'
    BY <1>3 DEF CallWrite, Call, Goto, TypeOK, MutexTypeOK, Replies, keyspaceVars,
       procVars, mutexVars
  <2>2. LockInv'
    BY <1>3 DEF CallWrite, Call, Goto, TypeOK, MutexTypeOK, LockInv, Holding,
       keyspaceVars, procVars, mutexVars
  <2>3. StableReads'
    BY <1>3 DEF CallWrite, Call, Goto, TypeOK, MutexTypeOK, LockInv, Holding,
       StableReads, keyspaceVars, procVars, mutexVars
  <2>4. EvictInv'
    BY <1>3 DEF CallWrite, Call, Goto, TypeOK, MutexTypeOK, LockInv, Holding,
       EvictInv, ExpiredAt, keyspaceVars, procVars, mutexVars
  <2> QED  BY <2>1, <2>2, <2>3, <2>4
<1>4. ASSUME NEW p \in Cleaners, CleanerWake(p) PROVE IInv'
  <2>1. TypeOK'
    BY <1>4 DEF CleanerWake, Goto, TypeOK, MutexTypeOK, keyspaceVars, procVars,
       mutexVars
  <2>2. LockInv'
    BY <1>4 DEF CleanerWake, Goto, TypeOK, MutexTypeOK, LockInv, Holding,
       keyspaceVars, procVars, mutexVars
  <2>3. StableReads'
    BY <1>4 DEF CleanerWake, Goto, TypeOK, MutexTypeOK, LockInv, Holding,
       StableReads, keyspaceVars, procVars, mutexVars
  <2>4. EvictInv'
    BY <1>4 DEF CleanerWake, Goto, TypeOK, MutexTypeOK, LockInv, Holding, EvictInv,
       ExpiredAt, keyspaceVars, procVars, mutexVars
  <2> QED  BY <2>1, <2>2, <2>3, <2>4
<1>5. ASSUME NEW p \in Procs, Lock(p) PROVE IInv'
  <2>1. TypeOK'
    BY <1>5 DEF Lock, Announce, TypeOK, MutexTypeOK, keyspaceVars, procVars, mutexVars
  <2>2. LockInv'
    BY <1>5 DEF Lock, Announce, TypeOK, MutexTypeOK, LockInv, Holding, keyspaceVars,
       procVars, mutexVars
  <2>3. StableReads'
    BY <1>5 DEF Lock, Announce, TypeOK, MutexTypeOK, LockInv, Holding, StableReads,
       keyspaceVars, procVars, mutexVars
  <2>4. EvictInv'
    BY <1>5 DEF Lock, Announce, TypeOK, MutexTypeOK, LockInv, Holding, EvictInv,
       ExpiredAt, keyspaceVars, procVars, mutexVars
  <2> QED  BY <2>1, <2>2, <2>3, <2>4
<1>6. ASSUME NEW c \in Clients, EnterWrite(c) PROVE IInv'
  <2>1. TypeOK'
    BY <1>6 DEF EnterWrite, Load, Goto, WriteReady, TypeOK, MutexTypeOK,
       keyspaceVars, procVars, mutexVars
  <2>2. LockInv'
    BY <1>6 DEF EnterWrite, Load, Goto, WriteReady, TypeOK, MutexTypeOK, LockInv,
       Holding, keyspaceVars, procVars, mutexVars
  <2>3. StableReads'
    BY <1>6 DEF EnterWrite, Load, Goto, WriteReady, TypeOK, MutexTypeOK, LockInv,
       Holding, StableReads, keyspaceVars, procVars, mutexVars
  <2>4. EvictInv'
    BY <1>6 DEF EnterWrite, Load, Goto, WriteReady, TypeOK, MutexTypeOK, LockInv,
       Holding, EvictInv, ExpiredAt, keyspaceVars, procVars, mutexVars
  <2> QED  BY <2>1, <2>2, <2>3, <2>4
<1>7. ASSUME NEW c \in Clients, EnterRead(c) PROVE IInv'
  <2>1. TypeOK'
    BY <1>7 DEF EnterRead, Load, Goto, TypeOK, MutexTypeOK, keyspaceVars, procVars,
       mutexVars
  <2>2. LockInv'
    BY <1>7 DEF EnterRead, Load, Goto, TypeOK, MutexTypeOK, LockInv, Holding,
       keyspaceVars, procVars, mutexVars
  <2>3. StableReads'
    BY <1>7 DEF EnterRead, Load, Goto, TypeOK, MutexTypeOK, LockInv, Holding,
       StableReads, keyspaceVars, procVars, mutexVars
  <2>4. EvictInv'
    BY <1>7 DEF EnterRead, Load, Goto, TypeOK, MutexTypeOK, LockInv, Holding,
       EvictInv, ExpiredAt, keyspaceVars, procVars, mutexVars
  <2> QED  BY <2>1, <2>2, <2>3, <2>4
<1>8. ASSUME NEW c \in Clients, GetExpired(c) PROVE IInv'
  <2>1. TypeOK'
    BY <1>8 DEF GetExpired, MustEvict, Goto, TypeOK, MutexTypeOK, keyspaceVars,
       procVars, mutexVars
  <2>2. LockInv'
    BY <1>8 DEF GetExpired, MustEvict, Goto, TypeOK, MutexTypeOK, LockInv, Holding,
       keyspaceVars, procVars, mutexVars
  <2>3. StableReads'
    BY <1>8 DEF GetExpired, MustEvict, Goto, TypeOK, MutexTypeOK, LockInv, Holding,
       StableReads, keyspaceVars, procVars, mutexVars
  <2>4. EvictInv'
    BY <1>8 DEF GetExpired, MustEvict, Goto, TypeOK, MutexTypeOK, LockInv, Holding,
       EvictInv, ExpiredAt, keyspaceVars, procVars, mutexVars
  <2> QED  BY <2>1, <2>2, <2>3, <2>4
<1>9. ASSUME NEW c \in Clients, ReadEnd(c) PROVE IInv'
  <2>1. TypeOK'
    <3>1. PICK r \in Replies : reply' = [reply EXCEPT ![c] = r]
      <4>1. CASE Get(c)
        <5>1. reply' = [reply EXCEPT ![c] = loaded[c]]
          BY <4>1 DEF Get, FinishRead, Answer
        <5>2. loaded[c] \in Values \cup {NoValue}
          BY DEF TypeOK
        <5>3. loaded[c] \in Replies
          BY <5>2 DEF Values, Ints, Replies
        <5> QED  BY <5>1, <5>3
      <4>2. CASE Exists(c)
        <5>1. \/ reply' = [reply EXCEPT ![c] = 0]
              \/ reply' = [reply EXCEPT ![c] = 1]
          BY <4>2 DEF Exists, FinishRead, Answer
        <5> QED  BY <5>1 DEF Replies
      <4>3. CASE TTL(c)
        <5>1. \/ reply' = [reply EXCEPT ![c] = -2]
              \/ reply' = [reply EXCEPT ![c] = -1]
              \/ /\ reply' = [reply EXCEPT ![c] = expiries[cmd[c].key] - now]
                 /\ pc[c] = "reading" /\ expiries[cmd[c].key] # NoExpiry
          BY <4>3 DEF TTL, FinishRead, Answer
        <5> QED  BY <5>1 DEF TypeOK, Replies
      <4> QED  BY <1>9, <4>1, <4>2, <4>3 DEF ReadEnd
    <3>2. reply' \in [Clients -> Replies]
      BY <3>1 DEF TypeOK
    <3>3. /\ pc' = [pc EXCEPT ![c] = "idle"]
          /\ cmd' = [cmd EXCEPT ![c] = NoCommand]
          /\ loaded' = [loaded EXCEPT ![c] = NoValue]
          /\ active' = active \ {c}
          /\ UNCHANGED <<store, expiries, now, seen, doomed, blocked, writer>>
      BY <1>9 DEF ReadEnd, Get, Exists, TTL, FinishRead, Answer, Goto, RUnlock, keyspaceVars
    <3> QED  BY <3>2, <3>3 DEF TypeOK, MutexTypeOK
  <2>2. LockInv'
    BY <1>9 DEF ReadEnd, Get, Exists, TTL, FinishRead, Answer, Goto, RUnlock, TypeOK,
       MutexTypeOK, LockInv, Holding, keyspaceVars, procVars, mutexVars
  <2>3. StableReads'
    BY <1>9 DEF ReadEnd, Get, Exists, TTL, FinishRead, Answer, Goto, RUnlock, TypeOK,
       MutexTypeOK, LockInv, Holding, StableReads, keyspaceVars, procVars, mutexVars
  <2>4. EvictInv'
    BY <1>9 DEF ReadEnd, Get, Exists, TTL, FinishRead, Answer, Goto, RUnlock, TypeOK,
       MutexTypeOK, LockInv, Holding, EvictInv, ExpiredAt, keyspaceVars, procVars, mutexVars
  <2> QED  BY <2>1, <2>2, <2>3, <2>4
<1>10. ASSUME NEW c \in Clients, WriteEnd(c) PROVE IInv'
  <2>0. PICK v \in Values \cup {NoValue}, e \in Int \cup {NoExpiry} : Leaves(c, v, e)
    BY <1>10, WriteEndShape
  <2>1. TypeOK'
    BY <2>0 DEF Leaves, Unlock, TypeOK, MutexTypeOK, keyspaceVars, procVars, mutexVars
  <2>2. LockInv'
    BY <2>0 DEF Leaves, Unlock, TypeOK, MutexTypeOK, LockInv, Holding, keyspaceVars,
       procVars, mutexVars
  <2>3. StableReads'
    BY <2>0 DEF Leaves, Unlock, TypeOK, MutexTypeOK, LockInv, Holding, StableReads,
       keyspaceVars, procVars, mutexVars
  <2>4. EvictInv'
    BY <2>0 DEF Leaves, Unlock, TypeOK, MutexTypeOK, LockInv, Holding, EvictInv,
       ExpiredAt, keyspaceVars, procVars, mutexVars
  <2> QED  BY <2>1, <2>2, <2>3, <2>4
<1>11. ASSUME NEW p \in Procs, EnterEvict(p) PROVE IInv'
  <2>1. TypeOK'
    BY <1>11 DEF EnterEvict, Goto, WriteReady, TypeOK, MutexTypeOK, keyspaceVars,
       procVars, mutexVars
  <2>2. LockInv'
    BY <1>11 DEF EnterEvict, Goto, WriteReady, TypeOK, MutexTypeOK, LockInv, Holding,
       keyspaceVars, procVars, mutexVars
  <2>3. StableReads'
    BY <1>11 DEF EnterEvict, Goto, WriteReady, TypeOK, MutexTypeOK, LockInv, Holding,
       StableReads, keyspaceVars, procVars, mutexVars
  <2>4. EvictInv'
    BY <1>11 DEF EnterEvict, Goto, WriteReady, TypeOK, MutexTypeOK, LockInv, Holding,
       EvictInv, ExpiredAt, keyspaceVars, procVars, mutexVars
  <2> QED  BY <2>1, <2>2, <2>3, <2>4
<1>12. ASSUME NEW p \in Procs, Evict(p) PROVE IInv'
  <2>1. TypeOK'
    BY <1>12 DEF Evict, TypeOK, MutexTypeOK, keyspaceVars, procVars, mutexVars
  <2>2. LockInv'
    BY <1>12 DEF Evict, TypeOK, MutexTypeOK, LockInv, Holding, keyspaceVars,
       procVars, mutexVars
  <2>3. StableReads'
    BY <1>12 DEF Evict, TypeOK, MutexTypeOK, LockInv, Holding, StableReads,
       keyspaceVars, procVars, mutexVars
  <2>4. EvictInv'
    BY <1>12 DEF Evict, TypeOK, MutexTypeOK, LockInv, Holding, EvictInv, ExpiredAt,
       keyspaceVars, procVars, mutexVars
  <2> QED  BY <2>1, <2>2, <2>3, <2>4
<1>13. ASSUME NEW p \in Procs, FinishEvict(p) PROVE IInv'
  <2>1. TypeOK'
    BY <1>13 DEF FinishEvict, Goto, TypeOK, MutexTypeOK, keyspaceVars, procVars,
       mutexVars
  <2>2. LockInv'
    BY <1>13 DEF FinishEvict, Goto, TypeOK, MutexTypeOK, LockInv, Holding,
       keyspaceVars, procVars, mutexVars
  <2>3. StableReads'
    BY <1>13 DEF FinishEvict, Goto, TypeOK, MutexTypeOK, LockInv, Holding,
       StableReads, keyspaceVars, procVars, mutexVars
  <2>4. EvictInv'
    BY <1>13 DEF FinishEvict, Goto, TypeOK, MutexTypeOK, LockInv, Holding, EvictInv,
       ExpiredAt, keyspaceVars, procVars, mutexVars
  <2> QED  BY <2>1, <2>2, <2>3, <2>4
<1>14. CASE UNCHANGED vars
  BY <1>14 DEF vars, keyspaceVars, procVars, mutexVars, TypeOK, MutexTypeOK, LockInv,
     StableReads, EvictInv, ExpiredAt
<1> QED  BY <1>1, <1>2, <1>3, <1>4, <1>5, <1>6, <1>7, <1>8, <1>9, <1>10, <1>11, <1>12,
            <1>13, <1>14, NextCases

(***************************************************************************)
(* Every reachable state satisfies the inductive invariant: the program    *)
(* counters agree with the lock, and whoever is about to evict a key looks *)
(* at a deadline that has passed.                                          *)
(***************************************************************************)
THEOREM Invariance == Spec => []IInv
BY InitIInv, NextIInv, PTL DEF Spec

(***************************************************************************)
(* Every value is of its type; in particular an int that INCRBY stores is  *)
(* one of the machine's.                                                   *)
(***************************************************************************)
THEOREM TypeCorrect == Spec => []TypeOK
BY Invariance, PTL DEF IInv

(***************************************************************************)
(* A goroutine inside a section of the write lock is alone.                *)
(***************************************************************************)
THEOREM Exclusion == Spec => []MutualExclusion
<1>1. IInv => MutualExclusion
  BY DEF IInv, TypeOK, LockInv, MutualExclusion, Holding
<1> QED  BY <1>1, Invariance, PTL

(***************************************************************************)
(* What an operation has read from Store does not change under it.         *)
(***************************************************************************)
THEOREM NoStaleRead == Spec => []StableReads
BY Invariance, PTL DEF IInv

(***************************************************************************)
(* Only the end of a writing operation and an eviction change the store.   *)
(***************************************************************************)
LEMMA StoreChanges ==
    ASSUME IInv, [Next]_vars, ~ UNCHANGED keyspaceVars
    PROVE  \/ \E c \in Clients, v \in Values \cup {NoValue}, e \in Int \cup {NoExpiry} :
                  Leaves(c, v, e)
           \/ \E p \in Procs : Evict(p)
<1>1. CASE Next
  <2>1. \/ \E c \in Clients : WriteEnd(c)
        \/ \E p \in Procs : Evict(p)
    BY <1>1, NextCases DEF Tick, CallRead, CallWrite, Call, EnterRead, GetExpired,
       ReadEnd, Get, Exists, TTL, FinishRead, EnterWrite, CleanerWake, Lock,
       EnterEvict, FinishEvict
  <2> QED  BY <2>1, WriteEndShape DEF IInv
<1>2. CASE UNCHANGED vars
  BY <1>2 DEF vars
<1> QED  BY <1>1, <1>2

(***************************************************************************)
(* A key leaves the store only by a DEL of it or after its deadline,       *)
(* although the cleaner works with an old reading of the clock.            *)
(***************************************************************************)
THEOREM LiveKeysSurviveThm == Spec => LiveKeysSurvive
<1> DEFINE Survive(k) == store[k] # NoValue /\ store'[k] = NoValue =>
                           \/ expiries[k] # NoExpiry /\ expiries[k] < now
                           \/ \E c \in Clients : /\ pc[c] = "writing"
                                                 /\ cmd[c].op = "DEL"
                                                 /\ cmd[c].key = k
<1>1. ASSUME IInv, [Next]_vars, NEW k \in Keys, store[k] # NoValue, store'[k] = NoValue
      PROVE  Survive(k)
  <2>1. ~ UNCHANGED keyspaceVars
    BY <1>1 DEF keyspaceVars
  <2>2. CASE \E p \in Procs : Evict(p)
    <3>1. PICK p \in Procs : Evict(p)
      BY <2>2
    <3>2. k \in doomed[p]
      BY <1>1, <3>1 DEF Evict, IInv, TypeOK
    <3> QED  BY <1>1, <3>1, <3>2 DEF IInv, TypeOK, EvictInv, ExpiredAt
  <2>3. ASSUME NEW c \in Clients, NEW v \in Values \cup {NoValue},
               NEW e \in Int \cup {NoExpiry}, Leaves(c, v, e)
        PROVE  Survive(k)
    BY <1>1, <2>3 DEF Leaves, IInv, TypeOK
  <2> QED  BY <1>1, <2>1, <2>2, <2>3, StoreChanges
<1>2. IInv /\ [Next]_vars => [\A k \in Keys : Survive(k)]_vars
  BY <1>1
<1> QED  BY <1>2, Invariance, PTL DEF Spec, LiveKeysSurvive

(***************************************************************************)
(* A Get of an expired key stops the store for good: it waits for a lock   *)
(* that only it keeps busy, and every writer waits behind it.              *)
(***************************************************************************)
THEOREM WedgedIsForeverThm == Spec => WedgedIsForever
<1>1. ASSUME IInv, [Next]_vars, NEW c \in Clients, pc[c] \in {"evict", "evicting"}
      PROVE  Wedged' /\ UNCHANGED keyspaceVars
  <2>1. c \in active /\ pc[c] = "evict" /\ \A p \in Procs : pc[p] \notin Holding
    BY <1>1 DEF IInv, LockInv, TypeOK, Holding
  <2>2. UNCHANGED keyspaceVars
    BY <1>1, <2>1, StoreChanges DEF Leaves, Evict, Holding
  <2>3. CASE Next
    <3>1. \/ \E p \in Procs : /\ p # c
                              /\ \E l \in Labels : pc' = [pc EXCEPT ![p] = l]
          \/ pc' = pc
      BY <1>1, <2>1, <2>3, NextCases
         DEF Tick, CallRead, CallWrite, Call, EnterRead, GetExpired, ReadEnd, Get,
             Exists, TTL, FinishRead, Answer, EnterWrite, CleanerWake, Lock, Announce,
             EnterEvict, FinishEvict, Evict, WriteReady, WriteEnd, Set, Del, EX,
             PERSIST, Append, IncrBy, FinishWrite, Goto, procVars, Labels, IInv, TypeOK
    <3> QED  BY <1>1, <2>2, <3>1 DEF Wedged, IInv, TypeOK
  <2>4. CASE UNCHANGED vars
    BY <1>1, <2>2, <2>4 DEF vars, procVars, Wedged
  <2> QED  BY <1>1, <2>2, <2>3, <2>4
<1>2. IInv /\ [Next]_vars => [Wedged => Wedged' /\ UNCHANGED keyspaceVars]_vars
  BY <1>1 DEF Wedged
<1> QED  BY <1>2, Invariance, PTL DEF Spec, WedgedIsForever
-----------------------------------------------------------------------------
(***************************************************************************)
(* Refinement.  AbsCmd and AbsReply are the refinement mapping: a client   *)
(* that has read its value in a GET has been answered.                     *)
(***************************************************************************)
(***************************************************************************)
(* The answer r to the command of c maps to an answer.                     *)
(***************************************************************************)
LEMMA AnswerMaps ==
    ASSUME IInv, NEW c \in Clients, pc[c] \in {"reading", "writing"}, ~ HasGot(c),
           cmd' = [cmd EXCEPT ![c] = NoCommand],
           loaded' = [loaded EXCEPT ![c] = NoValue],
           pc' = [pc EXCEPT ![c] = "idle"]
    PROVE  /\ cmd[c] \in Commands
           /\ AbsCmd[c] = cmd[c]
           /\ AbsCmd' = [AbsCmd EXCEPT ![c] = NoCommand]
           /\ \A r : reply' = [reply EXCEPT ![c] = r]
                         => AbsReply' = [AbsReply EXCEPT ![c] = r]
BY DEF IInv, TypeOK, AbsCmd, AbsReply, HasGot

(***************************************************************************)
(* The client c is between two accesses to the maps.                       *)
(***************************************************************************)
LEMMA InternalMaps ==
    ASSUME IInv, NEW p \in Procs, NEW l \in Labels \ {"reading"},
           pc[p] # "reading", pc' = [pc EXCEPT ![p] = l],
           UNCHANGED <<cmd, reply, loaded>>
    PROVE  UNCHANGED <<AbsCmd, AbsReply>>
<1>1. \A c \in Clients : HasGot(c)' <=> HasGot(c)
  BY DEF IInv, TypeOK, HasGot, Labels
<1> QED  BY <1>1 DEF AbsCmd, AbsReply

(***************************************************************************)
(* The end of a writing operation is the command's one step in             *)
(* ExpiringStore.                                                          *)
(***************************************************************************)
LEMMA WriteMaps ==
    ASSUME IInv, NEW c \in Clients, WriteEnd(c)
    PROVE  Promise!Serve(c)
<1> DEFINE k == cmd[c].key
<1>1. /\ pc[c] = "writing" /\ cmd[c] \in Commands /\ k \in Keys
      /\ loaded[c] = store[k] /\ store[k] \in Values \cup {NoValue}
      /\ expiries[k] \in Int \cup {NoExpiry} /\ now \in Nat /\ ~ HasGot(c)
  <2>1. pc[c] = "writing"
    BY DEF WriteEnd, Set, Del, EX, PERSIST, Append, IncrBy, FinishWrite
  <2> QED  BY <2>1 DEF IInv, TypeOK, StableReads, HasGot
<1>2. /\ cmd' = [cmd EXCEPT ![c] = NoCommand]
      /\ loaded' = [loaded EXCEPT ![c] = NoValue]
      /\ pc' = [pc EXCEPT ![c] = "idle"]
      /\ now' = now
  BY WriteEndShape DEF Leaves, IInv
<1>3. /\ AbsCmd[c] = cmd[c]
      /\ AbsCmd' = [AbsCmd EXCEPT ![c] = NoCommand]
      /\ \A r : reply' = [reply EXCEPT ![c] = r] => AbsReply' = [AbsReply EXCEPT ![c] = r]
  BY <1>1, <1>2, AnswerMaps
<1>4. AbsCmd[c] # NoCommand
  BY <1>1, <1>3
<1>5. CASE Set(c)
  <2>1. AbsReply' = [AbsReply EXCEPT ![c] = Ok]
    BY <1>3, <1>5 DEF Set, FinishWrite, Answer
  <2>2. cmd[c].op = "SET" /\ cmd[c].ttl \in Int
    BY <1>1, <1>5 DEF Set, FinishWrite
  <2>3. CASE cmd[c].ttl > 0
    <3>1. /\ store' = [store EXCEPT ![k] = cmd[c].val]
          /\ expiries' = [expiries EXCEPT ![k] = now + cmd[c].ttl]
      BY <1>5, <2>3 DEF Set, FinishWrite
    <3>2. Promise!Perform(c, {"SET"}, cmd[c].val, now + cmd[c].ttl, Ok)
      BY <1>1, <1>2, <1>3, <2>1, <2>2, <3>1 DEF Promise!Perform
    <3> QED  BY <1>3, <1>4, <2>3, <3>2 DEF Promise!Serve, Promise!Set
  <2>4. CASE cmd[c].ttl <= 0
    <3>0. ~ (cmd[c].ttl > 0)
      BY <2>2, <2>4
    <3>1. /\ store' = [store EXCEPT ![k] = cmd[c].val]
          /\ expiries' = [expiries EXCEPT ![k] = NoExpiry]
      BY <1>5, <3>0 DEF Set, FinishWrite
    <3>2. Promise!Perform(c, {"SET"}, cmd[c].val, NoExpiry, Ok)
      BY <1>1, <1>2, <1>3, <2>1, <2>2, <3>1 DEF Promise!Perform
    <3> QED  BY <1>3, <1>4, <2>4, <3>2 DEF Promise!Serve, Promise!Set
  <2> QED  BY <2>2, <2>3, <2>4
<1>6. CASE Del(c)
  <2>1. CASE loaded[c] # NoValue
    <3>1. /\ store' = [store EXCEPT ![k] = NoValue]
          /\ expiries' = [expiries EXCEPT ![k] = NoExpiry]
          /\ reply' = [reply EXCEPT ![c] = 1]
          /\ cmd[c].op \in {"DEL"}
      BY <1>1, <1>6, <2>1 DEF Del, FinishWrite, Answer
    <3>2. Promise!Perform(c, {"DEL"}, NoValue, NoExpiry, 1)
      BY <1>1, <1>2, <1>3, <3>1 DEF Promise!Perform
    <3> QED  BY <1>1, <1>3, <1>4, <2>1, <3>2 DEF Promise!Serve, Promise!Del, Promise!Value
  <2>2. CASE loaded[c] = NoValue
    <3>1. /\ store' = [store EXCEPT ![k] = store[k]]
          /\ expiries' = [expiries EXCEPT ![k] = expiries[k]]
          /\ reply' = [reply EXCEPT ![c] = 0]
          /\ cmd[c].op \in {"DEL"}
      BY <1>1, <1>6, <2>2 DEF Del, FinishWrite, Answer
    <3>2. Promise!Perform(c, {"DEL"}, store[k], expiries[k], 0)
      BY <1>1, <1>2, <1>3, <3>1 DEF Promise!Perform
    <3> QED  BY <1>1, <1>3, <1>4, <2>2, <3>2 DEF Promise!Serve, Promise!Del,
                Promise!Observe, Promise!Value, Promise!Deadline
  <2> QED  BY <2>1, <2>2
<1>7. CASE EX(c)
  <2>1. /\ store' = [store EXCEPT ![k] = store[k]]
        /\ expiries' = [expiries EXCEPT ![k] = now + cmd[c].ttl]
        /\ reply' = [reply EXCEPT ![c] = Ok]
        /\ cmd[c].op \in {"EX"}
    BY <1>1, <1>7 DEF EX, FinishWrite, Answer
  <2>2. Promise!Perform(c, {"EX"}, store[k], now + cmd[c].ttl, Ok)
    BY <1>1, <1>2, <1>3, <2>1 DEF Promise!Perform
  <2> QED  BY <1>1, <1>3, <1>4, <2>2 DEF Promise!Serve, Promise!EX, Promise!Value
<1>8. CASE PERSIST(c)
  <2>1. CASE loaded[c] # NoValue /\ expiries[k] # NoExpiry
    <3>1. /\ store' = [store EXCEPT ![k] = store[k]]
          /\ expiries' = [expiries EXCEPT ![k] = NoExpiry]
          /\ reply' = [reply EXCEPT ![c] = 1]
          /\ cmd[c].op \in {"PERSIST"}
      BY <1>1, <1>8, <2>1 DEF PERSIST, FinishWrite, Answer
    <3>2. Promise!Perform(c, {"PERSIST"}, store[k], NoExpiry, 1)
      BY <1>1, <1>2, <1>3, <3>1 DEF Promise!Perform
    <3> QED  BY <1>1, <1>3, <1>4, <2>1, <3>2 DEF Promise!Serve, Promise!PERSIST,
                Promise!Value, Promise!Deadline, Promise!HasDeadline
  <2>2. CASE ~ (loaded[c] # NoValue /\ expiries[k] # NoExpiry)
    <3>1. /\ store' = [store EXCEPT ![k] = store[k]]
          /\ expiries' = [expiries EXCEPT ![k] = expiries[k]]
          /\ reply' = [reply EXCEPT ![c] = 0]
          /\ cmd[c].op \in {"PERSIST"}
      BY <1>1, <1>8, <2>2 DEF PERSIST, FinishWrite, Answer
    <3>2. Promise!Perform(c, {"PERSIST"}, store[k], expiries[k], 0)
      BY <1>1, <1>2, <1>3, <3>1 DEF Promise!Perform
    <3> QED  BY <1>1, <1>3, <1>4, <2>2, <3>2 DEF Promise!Serve, Promise!PERSIST,
              Promise!Observe, Promise!Value, Promise!Deadline, Promise!HasDeadline
  <2> QED  BY <2>1, <2>2
<1>9. CASE Append(c)
  <2>1. /\ store' = [store EXCEPT ![k] = Text]
        /\ expiries' = [expiries EXCEPT ![k] = expiries[k]]
        /\ reply' = [reply EXCEPT ![c] = Ok]
        /\ cmd[c].op \in {"APPEND"}
    BY <1>1, <1>9 DEF Append, FinishWrite, Answer
  <2>2. Promise!Perform(c, {"APPEND"}, Text, expiries[k], Ok)
    BY <1>1, <1>2, <1>3, <2>1 DEF Promise!Perform
  <2> QED  BY <1>1, <1>3, <1>4, <2>2 DEF Promise!Serve, Promise!Append, Promise!Deadline
<1>10. CASE IncrBy(c)
  <2>1. CASE loaded[c] = Text
    <3>1. /\ store' = [store EXCEPT ![k] = Text]
          /\ expiries' = [expiries EXCEPT ![k] = expiries[k]]
          /\ reply' = [reply EXCEPT ![c] = Error]
          /\ cmd[c].op \in {"INCRBY", "DECRBY"}
      BY <1>1, <1>10, <2>1 DEF IncrBy, FinishWrite, Answer
    <3>2. Promise!Perform(c, {"INCRBY", "DECRBY"}, Text, expiries[k], Error)
      BY <1>1, <1>2, <1>3, <3>1 DEF Promise!Perform
    <3> QED  BY <1>1, <1>3, <1>4, <2>1, <3>2 DEF Promise!Serve, Promise!IncrBy,
                Promise!Value, Promise!Deadline
  <2>2. CASE loaded[c] # Text
    <3> DEFINE base == IF loaded[c] = NoValue THEN 0 ELSE loaded[c]
               i == Increment(cmd[c])
               sign == IF cmd[c].op = "DECRBY" THEN -1 ELSE 1
               n == Wrap(base + i)
    <3>1. cmd[c].op \in {"INCRBY", "DECRBY"} /\ cmd[c].val \in Ints
      BY <1>1, <1>10 DEF IncrBy, FinishWrite
    <3>2. i \in Ints /\ base \in Ints /\ n \in Ints
      BY <1>1, <2>2, <3>1, WrapInRange, LimitAssumption DEF Increment, Values, Ints
    <3>3. /\ store' = [store EXCEPT ![k] = n]
          /\ expiries' = [expiries EXCEPT ![k] = expiries[k]]
          /\ reply' = [reply EXCEPT ![c] = n]
      <4>1. loaded[c] = NoValue => n = i
        BY <3>2 DEF Wrap, Ints
      <4> QED  BY <1>10, <2>2, <4>1 DEF IncrBy, FinishWrite, Answer
    <3>4. Promise!Perform(c, {cmd[c].op}, n, expiries[k], n)
      BY <1>1, <1>2, <1>3, <3>3 DEF Promise!Perform
    <3>5. Promise!Congruent(i, sign * cmd[c].val)
      BY <3>1 DEF Promise!Congruent, Increment, Wrap, Ints
    <3>6. Promise!Congruent(n, base + i)
      BY <3>2 DEF Promise!Congruent, Wrap, Ints
    <3> HIDE DEF n, i
    <3>7. Promise!Counts(c, cmd[c].op, base, sign)
      BY <1>3, <3>2, <3>4, <3>5, <3>6 DEF Promise!Counts, Promise!Ints, Promise!Deadline,
         Ints
    <3>8. Promise!IncrBy(c)
      BY <1>1, <1>3, <2>2, <3>1, <3>2, <3>7 DEF Promise!IncrBy, Promise!Value, Values,
         Promise!Ints, Ints
    <3> QED  BY <1>4, <3>8 DEF Promise!Serve
  <2> QED  BY <2>1, <2>2
<1> QED  BY <1>5, <1>6, <1>7, <1>8, <1>9, <1>10 DEF WriteEnd

(***************************************************************************)
(* The steps of a reading operation: the access to the map answers a GET,  *)
(* and the end of the operation answers EXISTS and TTL.                    *)
(***************************************************************************)
LEMMA ReadMaps ==
    ASSUME IInv, NEW c \in Clients, ReadEnd(c)
    PROVE  Promise!Serve(c) \/ UNCHANGED Promise!vars
<1> DEFINE k == cmd[c].key
<1>1. /\ pc[c] = "reading" /\ cmd[c] \in Commands /\ k \in Keys
      /\ loaded[c] = store[k] /\ store[k] \in Values \cup {NoValue}
      /\ expiries[k] \in Int \cup {NoExpiry} /\ now \in Nat
  <2>1. pc[c] = "reading"
    BY DEF ReadEnd, Get, Exists, TTL, FinishRead
  <2> QED  BY <2>1 DEF IInv, TypeOK, StableReads
<1>2. /\ cmd' = [cmd EXCEPT ![c] = NoCommand]
      /\ loaded' = [loaded EXCEPT ![c] = NoValue]
      /\ pc' = [pc EXCEPT ![c] = "idle"]
      /\ UNCHANGED <<store, expiries, now>>
  BY DEF ReadEnd, Get, Exists, TTL, FinishRead, Answer, Goto, keyspaceVars
<1>3. CASE Get(c)
  <2>1. HasGot(c) /\ reply' = [reply EXCEPT ![c] = loaded[c]]
    BY <1>3 DEF Get, FinishRead, Answer, HasGot
  <2>2. UNCHANGED <<AbsCmd, AbsReply>>
    BY <1>2, <2>1 DEF AbsCmd, AbsReply, HasGot, IInv, TypeOK
  <2> QED  BY <1>2, <2>2 DEF Promise!vars
<1>4. CASE Exists(c) \/ TTL(c)
  <2>1. ~ HasGot(c)
    BY <1>4 DEF Exists, TTL, FinishRead, HasGot
  <2>2. /\ AbsCmd[c] = cmd[c] /\ AbsCmd[c] # NoCommand
        /\ AbsCmd' = [AbsCmd EXCEPT ![c] = NoCommand]
        /\ \A r : reply' = [reply EXCEPT ![c] = r] => AbsReply' = [AbsReply EXCEPT ![c] = r]
    BY <1>1, <1>2, <2>1, AnswerMaps
  <2>3. /\ store' = [store EXCEPT ![k] = store[k]]
        /\ expiries' = [expiries EXCEPT ![k] = expiries[k]]
    BY <1>2 DEF IInv, TypeOK
  <2>4. CASE Exists(c)
    <3>1. cmd[c].op = "EXISTS"
      BY <2>4 DEF Exists, FinishRead
    <3>2. CASE loaded[c] = NoValue
      <4>1. reply' = [reply EXCEPT ![c] = 0]
        BY <2>4, <3>2 DEF Exists, FinishRead, Answer
      <4>2. Promise!Perform(c, {"EXISTS"}, store[k], expiries[k], 0)
        BY <1>1, <1>2, <2>2, <2>3, <3>1, <4>1 DEF Promise!Perform
      <4> QED  BY <1>1, <2>2, <3>2, <4>2 DEF Promise!Serve, Promise!Exists,
                  Promise!Observe, Promise!Value, Promise!Deadline
    <3>3. CASE loaded[c] # NoValue
      <4>1. reply' = [reply EXCEPT ![c] = 1]
        BY <2>4, <3>3 DEF Exists, FinishRead, Answer
      <4>2. Promise!Perform(c, {"EXISTS"}, store[k], expiries[k], 1)
        BY <1>1, <1>2, <2>2, <2>3, <3>1, <4>1 DEF Promise!Perform
      <4> QED  BY <1>1, <2>2, <3>3, <4>2 DEF Promise!Serve, Promise!Exists,
                  Promise!Observe, Promise!Value, Promise!Deadline
    <3> QED  BY <3>2, <3>3
  <2>5. CASE TTL(c)
    <3> DEFINE r == IF loaded[c] = NoValue THEN -2
                    ELSE IF expiries[k] = NoExpiry THEN -1
                    ELSE IF expiries[k] > now THEN expiries[k] - now ELSE -2
    <3>1. cmd[c].op = "TTL" /\ reply' = [reply EXCEPT ![c] = r]
      BY <2>5 DEF TTL, FinishRead, Answer
    <3> HIDE DEF r
    <3>2. Promise!Perform(c, {"TTL"}, store[k], expiries[k], r)
      BY <1>1, <1>2, <2>2, <2>3, <3>1 DEF Promise!Perform
    <3>3. Promise!Observe(c, "TTL", r)
      BY <2>2, <3>2 DEF Promise!Observe, Promise!Value, Promise!Deadline
    <3>4. Promise!TTL(c)
      BY <1>1, <2>2, <3>3 DEF r, Promise!TTL, Promise!Value, Promise!Deadline,
         Promise!HasDeadline
    <3> QED  BY <2>2, <3>4 DEF Promise!Serve
  <2> QED  BY <1>4, <2>4, <2>5
<1> QED  BY <1>3, <1>4 DEF ReadEnd

(***************************************************************************)
(* A section that reads is, seen as one step, a command that reads.        *)
(***************************************************************************)
LEMMA EnterReadMaps ==
    ASSUME IInv, NEW c \in Clients, EnterRead(c)
    PROVE  Promise!Serve(c) \/ UNCHANGED Promise!vars
<1> DEFINE k == cmd[c].key
<1>1. /\ pc[c] = "read" /\ cmd[c] \in Commands /\ k \in Keys /\ ~ HasGot(c)
      /\ pc' = [pc EXCEPT ![c] = "reading"]
      /\ loaded' = [loaded EXCEPT ![c] = store[k]]
      /\ UNCHANGED <<store, expiries, now, cmd, reply>>
  BY DEF EnterRead, Load, Goto, HasGot, keyspaceVars, IInv, TypeOK
<1>2. CASE cmd[c].op = "GET"
  <2>1. /\ AbsCmd[c] = cmd[c]
        /\ AbsCmd' = [AbsCmd EXCEPT ![c] = NoCommand]
        /\ AbsReply' = [AbsReply EXCEPT ![c] = store[k]]
    BY <1>1, <1>2 DEF AbsCmd, AbsReply, HasGot, IInv, TypeOK
  <2>2. /\ store' = [store EXCEPT ![k] = store[k]]
        /\ expiries' = [expiries EXCEPT ![k] = expiries[k]]
    BY <1>1 DEF IInv, TypeOK
  <2>3. Promise!Perform(c, {"GET"}, store[k], expiries[k], store[k])
    BY <1>1, <1>2, <2>1, <2>2 DEF Promise!Perform
  <2>4. Promise!Observe(c, "GET", Promise!Value(c))
    BY <2>1, <2>3 DEF Promise!Observe, Promise!Value, Promise!Deadline
  <2>5. ~ (Promise!HasDeadline(c) /\ now > Promise!Deadline(c))
    BY <1>2, <2>1 DEF EnterRead, MustEvict, ExpiredAt, Promise!HasDeadline, Promise!Deadline
  <2> QED  BY <1>1, <2>1, <2>4, <2>5 DEF Promise!Serve, Promise!Get
<1>3. CASE cmd[c].op # "GET"
  <2>1. UNCHANGED <<AbsCmd, AbsReply>>
    BY <1>1, <1>3 DEF AbsCmd, AbsReply, HasGot, IInv, TypeOK
  <2> QED  BY <1>1, <2>1 DEF Promise!vars
<1> QED  BY <1>2, <1>3

(***************************************************************************)
(* The call of a handler is where a client asks.                           *)
(***************************************************************************)
LEMMA CallMaps ==
    ASSUME IInv, NEW c \in Clients, CallRead(c) \/ CallWrite(c)
    PROVE  Promise!Ask(c)
<1>1. PICK m \in Commands, l \in {"read", "write"} :
        /\ pc[c] = "idle"
        /\ pc' = [pc EXCEPT ![c] = l]
        /\ cmd' = [cmd EXCEPT ![c] = m]
        /\ reply' = [reply EXCEPT ![c] = NoValue]
        /\ UNCHANGED <<store, expiries, now, loaded>>
  BY DEF CallRead, CallWrite, Call, Goto, keyspaceVars
<1>2. \A d \in Clients : HasGot(d)' <=> HasGot(d)
  BY <1>1 DEF HasGot, IInv, TypeOK
<1>3. /\ AbsCmd[c] = NoCommand /\ ~ HasGot(c)
      /\ AbsCmd' = [AbsCmd EXCEPT ![c] = m]
      /\ AbsReply' = [AbsReply EXCEPT ![c] = NoValue]
  BY <1>1, <1>2 DEF AbsCmd, AbsReply, HasGot, IInv, TypeOK
<1> QED  BY <1>1, <1>3 DEF Promise!Ask

(***************************************************************************)
(* Every eviction is a Collect; a Get never gets that far.                 *)
(***************************************************************************)
LEMMA EvictMaps ==
    ASSUME IInv, NEW p \in Procs, Evict(p)
    PROVE  \E k \in Keys : Promise!Collect(k)
<1>1. PICK k \in doomed[p] : /\ store' = [store EXCEPT ![k] = NoValue]
                             /\ expiries' = [expiries EXCEPT ![k] = NoExpiry]
                             /\ UNCHANGED <<now, pc, cmd, loaded, reply>>
  BY DEF Evict
<1>2. k \in Keys /\ expiries[k] # NoExpiry /\ now > expiries[k]
  BY DEF IInv, TypeOK, EvictInv, ExpiredAt
<1>3. UNCHANGED <<AbsCmd, AbsReply>>
  BY <1>1 DEF AbsCmd, AbsReply, HasGot
<1> QED  BY <1>1, <1>2, <1>3 DEF Promise!Collect

(***************************************************************************)
(* The keyspace implements ExpiringStore: every operation takes effect in  *)
(* one step, and a key is collected only after its deadline.               *)
(***************************************************************************)
THEOREM Refinement == Spec => Linearizable
<1>1. Init => Promise!Init
  BY DEF Init, Promise!Init, AbsCmd, AbsReply, HasGot
<1>2. ASSUME IInv, [Next]_vars PROVE [Promise!Next]_(Promise!vars)
  <2>1. CASE Tick
    <3>1. UNCHANGED <<AbsCmd, AbsReply>>
      BY <2>1 DEF Tick, AbsCmd, AbsReply, HasGot, procVars
    <3> QED  BY <2>1, <3>1 DEF Tick, keyspaceVars, Promise!Next, Promise!Tick
  <2>2. ASSUME NEW c \in Clients, CallRead(c) \/ CallWrite(c)
        PROVE  [Promise!Next]_(Promise!vars)
    BY <1>2, <2>2, CallMaps DEF Promise!Next
  <2>3. ASSUME NEW c \in Clients, EnterRead(c) PROVE [Promise!Next]_(Promise!vars)
    BY <1>2, <2>3, EnterReadMaps DEF Promise!Next
  <2>4. ASSUME NEW c \in Clients, ReadEnd(c) PROVE [Promise!Next]_(Promise!vars)
    BY <1>2, <2>4, ReadMaps DEF Promise!Next
  <2>5. ASSUME NEW c \in Clients, WriteEnd(c) PROVE [Promise!Next]_(Promise!vars)
    BY <1>2, <2>5, WriteMaps DEF Promise!Next
  <2>6. ASSUME NEW p \in Procs, Evict(p) PROVE [Promise!Next]_(Promise!vars)
    BY <1>2, <2>6, EvictMaps DEF Promise!Next
  <2>7. ASSUME NEW c \in Clients, GetExpired(c) PROVE UNCHANGED Promise!vars
    BY <1>2, <2>7, InternalMaps DEF GetExpired, Goto, keyspaceVars, Labels, Promise!vars
  <2>8. ASSUME NEW c \in Clients, EnterWrite(c) PROVE UNCHANGED Promise!vars
    <3>1. UNCHANGED <<AbsCmd, AbsReply>>
      BY <1>2, <2>8 DEF EnterWrite, Load, Goto, AbsCmd, AbsReply, HasGot, IInv, TypeOK
    <3> QED  BY <2>8, <3>1 DEF EnterWrite, keyspaceVars, Promise!vars
  <2>9. ASSUME NEW p \in Cleaners, CleanerWake(p) PROVE UNCHANGED Promise!vars
    BY <1>2, <2>9, InternalMaps DEF CleanerWake, Goto, keyspaceVars, Labels, Promise!vars
  <2>10. ASSUME NEW p \in Procs, Lock(p) PROVE UNCHANGED Promise!vars
    BY <2>10 DEF Lock, keyspaceVars, procVars, Promise!vars, AbsCmd, AbsReply, HasGot
  <2>11. ASSUME NEW p \in Procs, EnterEvict(p) PROVE UNCHANGED Promise!vars
    BY <1>2, <2>11, InternalMaps DEF EnterEvict, Goto, keyspaceVars, Labels, Promise!vars
  <2>12. ASSUME NEW p \in Procs, FinishEvict(p) PROVE UNCHANGED Promise!vars
    <3>1. pc[p] = "evicting" /\ p \notin Clients
      BY <1>2, <2>12 DEF FinishEvict, IInv, LockInv, Holding
    <3>2. cmd' = cmd
      BY <1>2, <2>12, <3>1 DEF FinishEvict, IInv, TypeOK
    <3> QED  BY <1>2, <2>12, <3>1, <3>2, InternalMaps
             DEF FinishEvict, Goto, keyspaceVars, Labels, Promise!vars
  <2>13. CASE UNCHANGED vars
    BY <2>13 DEF vars, keyspaceVars, procVars, Promise!vars, AbsCmd, AbsReply, HasGot
  <2> QED  BY <1>2, <2>1, <2>2, <2>3, <2>4, <2>5, <2>6, <2>7, <2>8, <2>9, <2>10,
              <2>11, <2>12, <2>13, NextCases
<1> QED  BY <1>1, <1>2, Invariance, PTL DEF Spec, Linearizable, Promise!Spec
=============================================================================
