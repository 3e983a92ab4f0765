------------------------------ MODULE Keyspace ------------------------------
(***************************************************************************)
(* The string keys of the Tealis store and their expiry: string.go and the *)
(* expiry operations of tealis.go, run by the client goroutines and by the *)
(* cleanup goroutines under the lock Tealis.Mu.                            *)
(*                                                                         *)
(* Every operation is split where another goroutine can run: the call, the *)
(* acquisition of the lock, the first access to the maps and the end of    *)
(* the critical section, which releases the lock.  What was read at the    *)
(* first access is kept in loaded, as the code keeps it in a local.        *)
(*                                                                         *)
(* One unit of time is a second.  A value is a decimal integer or the one  *)
(* representative Text of the strings that strconv.Atoi refuses.           *)
(***************************************************************************)
EXTENDS Integers, RWMutex

CONSTANTS
    Keys,         \* the keys
    Clients,      \* the goroutines that serve a connection
    Cleaners,     \* the goroutines of StartCleanup (tealis.go:63, main.go:30)
    Commands,     \* the parsed commands that clients send
    Text,         \* a string that is not an integer
    NoValue,      \* the value of a key that is not in Store
    NoExpiry,     \* the expiry of a key that is not in Expiries
    NoCommand,    \* the command of a client that is idle
    Ok,           \* the reply of a command that has no result
    Error,        \* the reply "value is not an integer"
    IntLimit,     \* int holds -IntLimit .. IntLimit - 1
    MaxTime       \* bound of the model: the clock stops here

VARIABLES
    store,        \* Tealis.Store
    expiries,     \* Tealis.Expiries
    now,          \* time.Now()
    pc,           \* where each goroutine is
    cmd,          \* the command a client executes
    loaded,       \* what a client read from Store in its critical section
    seen,         \* the time a cleaner captured before it took the lock
    doomed,       \* the keys left to delete in the section of an eviction
    reply         \* the reply to the last command of a client

keyspaceVars == <<store, expiries>>
procVars == <<pc, cmd, loaded, seen, doomed, reply>>
vars == <<keyspaceVars, now, procVars, mutexVars>>

Ints == -IntLimit .. IntLimit - 1
Values == Ints \cup {Text}
Replies == Int \cup {Text, NoValue, Ok, Error}
ReadOps == {"GET", "EXISTS", "TTL"}
WriteOps == {"SET", "DEL", "EX", "PERSIST", "APPEND", "INCRBY", "DECRBY"}

ASSUME ProcsAssumption == Procs = Clients \cup Cleaners
                          /\ Clients \cap Cleaners = {}

ASSUME LimitAssumption == IntLimit \in Nat \ {0} /\ MaxTime \in Nat

(* Durations are whole seconds; EX accepts negative ones and SET takes     *)
(* them for none.  APPEND is called with texts only.                       *)
ASSUME CommandsAssumption ==
    \A m \in Commands :
        /\ m \in [op : ReadOps \cup WriteOps, key : Keys, val : Values, ttl : Int]
        /\ m.op \in {"INCRBY", "DECRBY"} => m.val \in Ints
        /\ m.op = "APPEND" => m.val = Text

ASSUME NullAssumption == /\ Text \notin Int
                         /\ NoValue \notin Int \cup {Text}
                         /\ NoExpiry \notin Int
                         /\ NoCommand \notin Commands

(* Mutant: a key expires at its deadline.                                  *)
ExpiredAtDeadline(k, t) == expiries[k] # NoExpiry /\ t >= expiries[k]

(***************************************************************************)
(* time.After is strict.                                                   *)
(***************************************************************************)
ExpiredAt(k, t) == expiries[k] # NoExpiry /\ t > expiries[k]

Present(k) == store[k] # NoValue

(***************************************************************************)
(* The sum of two ints and the negation of an int, which wrap around.      *)
(***************************************************************************)
Wrap(n) == IF n >= IntLimit THEN n - 2 * IntLimit
           ELSE IF n < -IntLimit THEN n + 2 * IntLimit ELSE n

Increment(m) == IF m.op = "DECRBY" THEN Wrap(-m.val) ELSE m.val
-----------------------------------------------------------------------------
Init == /\ store = [k \in Keys |-> NoValue]
        /\ expiries = [k \in Keys |-> NoExpiry]
        /\ now = 0
        /\ pc = [p \in Procs |-> "idle"]
        /\ cmd = [c \in Clients |-> NoCommand]
        /\ loaded = [c \in Clients |-> NoValue]
        /\ seen = [p \in Cleaners |-> 0]
        /\ doomed = [p \in Procs |-> {}]
        /\ reply = [c \in Clients |-> NoValue]
        /\ MutexInit

Tick == /\ now < MaxTime
        /\ now' = now + 1
        /\ UNCHANGED <<keyspaceVars, procVars, mutexVars>>

Goto(p, label) == pc' = [pc EXCEPT ![p] = label]

(***************************************************************************)
(* A client calls an operation, which begins with RLock or with Lock.      *)
(***************************************************************************)
Call(c, m) == /\ pc[c] = "idle"
              /\ cmd' = [cmd EXCEPT ![c] = m]
              /\ reply' = [reply EXCEPT ![c] = NoValue]
              /\ UNCHANGED <<keyspaceVars, now, loaded, seen, doomed>>

CallRead(c) == \E m \in Commands : /\ m.op \in ReadOps
                                   /\ Call(c, m)
                                   /\ Goto(c, "read")
                                   /\ RLock(c)

CallWrite(c) == \E m \in Commands : /\ m.op \in WriteOps
                                    /\ Call(c, m)
                                    /\ Goto(c, "write")
                                    /\ UNCHANGED mutexVars

(* Mutant: the cleanup goroutine runs one round.                           *)
CleanerWakeOnce(p) == /\ pc[p] = "idle"
                      /\ seen[p] = 0 /\ now > 0
                      /\ seen' = [seen EXCEPT ![p] = now]
                      /\ Goto(p, "evict")
                      /\ UNCHANGED <<keyspaceVars, now, cmd, loaded, doomed, reply, mutexVars>>

(***************************************************************************)
(* The cleanup goroutine wakes a second after its last round and captures  *)
(* the time before it asks for the lock.                                   *)
(***************************************************************************)
CleanerWake(p) == /\ pc[p] = "idle"
                  /\ seen[p] < now
                  /\ seen' = [seen EXCEPT ![p] = now]
                  /\ Goto(p, "evict")
                  /\ UNCHANGED <<keyspaceVars, now, cmd, loaded, doomed, reply, mutexVars>>

(***************************************************************************)
(* Everyone who waits in Lock competes to be the next announced writer.    *)
(***************************************************************************)
Lock(p) == /\ pc[p] \in {"write", "evict"}
           /\ Announce(p)
           /\ UNCHANGED <<keyspaceVars, now, procVars>>

Load(c) == loaded' = [loaded EXCEPT ![c] = store[cmd[c].key]]

EnterWrite(c) == /\ pc[c] = "write"
                 /\ WriteReady(c)
                 /\ Load(c)
                 /\ Goto(c, "writing")
                 /\ UNCHANGED <<keyspaceVars, now, cmd, seen, doomed, reply, mutexVars>>

(***************************************************************************)
(* Get looks at the expiry before it reads the value.  For an expired key  *)
(* it asks for the write lock and still holds its read lock (string.go:30).*)
(***************************************************************************)
MustEvict(c) == cmd[c].op = "GET" /\ ExpiredAt(cmd[c].key, now)

EnterRead(c) == /\ pc[c] = "read"
                /\ c \in active
                /\ ~ MustEvict(c)
                /\ Load(c)
                /\ Goto(c, "reading")
                /\ UNCHANGED <<keyspaceVars, now, cmd, seen, doomed, reply, mutexVars>>

GetExpired(c) == /\ pc[c] = "read"
                 /\ c \in active
                 /\ MustEvict(c)
                 /\ Goto(c, "evict")
                 /\ UNCHANGED <<keyspaceVars, now, cmd, loaded, seen, doomed, reply, mutexVars>>
-----------------------------------------------------------------------------
(***************************************************************************)
(* The ends of the operations under the read lock.  The client answers and *)
(* its locals go out of scope.                                             *)
(***************************************************************************)
Answer(c, r) == /\ reply' = [reply EXCEPT ![c] = r]
                /\ cmd' = [cmd EXCEPT ![c] = NoCommand]
                /\ loaded' = [loaded EXCEPT ![c] = NoValue]
                /\ Goto(c, "idle")
                /\ UNCHANGED <<now, seen, doomed>>

FinishRead(c, op, r) == /\ pc[c] = "reading"
                        /\ cmd[c].op = op
                        /\ Answer(c, r)
                        /\ RUnlock(c)
                        /\ UNCHANGED keyspaceVars

Get(c) == FinishRead(c, "GET", loaded[c])

Exists(c) == FinishRead(c, "EXISTS", IF loaded[c] # NoValue THEN 1 ELSE 0)

TTL(c) == LET k == cmd[c].key
          IN  FinishRead(c, "TTL",
                  IF loaded[c] = NoValue THEN -2
                  ELSE IF expiries[k] = NoExpiry THEN -1
                  ELSE IF expiries[k] > now THEN expiries[k] - now ELSE -2)

(***************************************************************************)
(* The ends of the operations under the write lock.                        *)
(***************************************************************************)
FinishWrite(c, ops, v, e, r) ==
    LET k == cmd[c].key
    IN  /\ pc[c] = "writing"
        /\ cmd[c].op \in ops
        /\ store' = [store EXCEPT ![k] = v]
        /\ expiries' = [expiries EXCEPT ![k] = e]
        /\ Answer(c, r)
        /\ Unlock

Set(c) == LET m == cmd[c]
          IN  FinishWrite(c, {"SET"}, m.val,
                          IF m.ttl > 0 THEN now + m.ttl ELSE NoExpiry, Ok)

(* Mutant: DEL forgets the deadline of the key it deletes.                 *)
DelValueOnly(c) == FinishWrite(c, {"DEL"}, NoValue, expiries[cmd[c].key],
                               IF loaded[c] # NoValue THEN 1 ELSE 0)

(* DEL of a key that is not in Store leaves an entry of Expiries alone.    *)
Del(c) == LET e == expiries[cmd[c].key]
          IN  IF loaded[c] # NoValue
              THEN FinishWrite(c, {"DEL"}, NoValue, NoExpiry, 1)
              ELSE FinishWrite(c, {"DEL"}, NoValue, e, 0)

(* EX does not ask whether the key exists.                                 *)
EX(c) == FinishWrite(c, {"EX"}, store[cmd[c].key], now + cmd[c].ttl, Ok)

PERSIST(c) == LET e == expiries[cmd[c].key]
              IN  IF loaded[c] # NoValue /\ e # NoExpiry
                  THEN FinishWrite(c, {"PERSIST"}, loaded[c], NoExpiry, 1)
                  ELSE FinishWrite(c, {"PERSIST"}, loaded[c], e, 0)

(* APPEND and INCRBY keep whatever expiry they find.                       *)
Append(c) == FinishWrite(c, {"APPEND"}, Text, expiries[cmd[c].key], Ok)

IncrBy(c) == LET m == cmd[c]
                 v == IF loaded[c] = NoValue THEN Increment(m)
                      ELSE Wrap(loaded[c] + Increment(m))
             IN  IF loaded[c] = Text
                 THEN FinishWrite(c, {"INCRBY", "DECRBY"}, Text, expiries[m.key], Error)
                 ELSE FinishWrite(c, {"INCRBY", "DECRBY"}, v, expiries[m.key], v)
-----------------------------------------------------------------------------
(***************************************************************************)
(* The critical section of an eviction: the round of a cleaner deletes the *)
(* keys that had expired when it looked at the clock, and a Get its key.   *)
(***************************************************************************)
EnterEvict(p) == /\ pc[p] = "evict"
                 /\ WriteReady(p)
                 /\ doomed' = [doomed EXCEPT ![p] =
                                 IF p \in Cleaners
                                 THEN {k \in Keys : ExpiredAt(k, seen[p])}
                                 ELSE {cmd[p].key}]
                 /\ Goto(p, "evicting")
                 /\ UNCHANGED <<keyspaceVars, now, cmd, loaded, seen, reply, mutexVars>>

Evict(p) == /\ pc[p] = "evicting"
            /\ \E k \in doomed[p] :
                  /\ store' = [store EXCEPT ![k] = NoValue]
                  /\ expiries' = [expiries EXCEPT ![k] = NoExpiry]
                  /\ doomed' = [doomed EXCEPT ![p] = @ \ {k}]
            /\ UNCHANGED <<now, pc, cmd, loaded, seen, reply, mutexVars>>

(* A Get also runs its deferred RUnlock, and answers NoValue: the reply it *)
(* was given at the call.                                                  *)
FinishEvict(p) == /\ pc[p] = "evicting"
                  /\ doomed[p] = {}
                  /\ writer' = NoProc
                  /\ active' = (active \cup blocked) \ {p}
                  /\ blocked' = {}
                  /\ cmd' = [c \in Clients |-> IF c = p THEN NoCommand ELSE cmd[c]]
                  /\ Goto(p, "idle")
                  /\ UNCHANGED <<keyspaceVars, now, loaded, seen, doomed, reply>>
-----------------------------------------------------------------------------
ReadStep(c) == EnterRead(c) \/ GetExpired(c) \/ Get(c) \/ Exists(c) \/ TTL(c)

WriteStep(c) == EnterWrite(c) \/ Set(c) \/ Del(c) \/ EX(c) \/ PERSIST(c)
                    \/ Append(c) \/ IncrBy(c)

EvictStep(p) == EnterEvict(p) \/ Evict(p) \/ FinishEvict(p)

ClientNext(c) == CallRead(c) \/ CallWrite(c) \/ ReadStep(c) \/ WriteStep(c)

Next == \/ Tick
        \/ \E c \in Clients : ClientNext(c)
        \/ \E p \in Cleaners : CleanerWake(p)
        \/ \E p \in Procs : Lock(p) \/ EvictStep(p)

Spec == Init /\ [][Next]_vars

(***************************************************************************)
(* Goroutines are scheduled, time passes, and the mutex that orders the    *)
(* writers starves nobody (sync.Mutex hands over in FIFO order after 1 ms).*)
(* Clients are not obliged to send commands.                               *)
(***************************************************************************)
Fairness == /\ WF_vars(Tick)
            /\ \A c \in Clients : WF_vars(ReadStep(c) \/ WriteStep(c))
            /\ \A p \in Cleaners : WF_vars(CleanerWake(p))
            /\ \A p \in Procs : WF_vars(EvictStep(p)) /\ SF_vars(Lock(p))

FairSpec == Spec /\ Fairness
-----------------------------------------------------------------------------
TypeOK ==
    /\ store \in [Keys -> Values \cup {NoValue}]
    /\ expiries \in [Keys -> Int \cup {NoExpiry}]
    /\ now \in 0 .. MaxTime
    /\ pc \in [Procs -> {"idle", "read", "reading", "write", "writing", "evict", "evicting"}]
    /\ cmd \in [Clients -> Commands \cup {NoCommand}]
    /\ loaded \in [Clients -> Values \cup {NoValue}]
    /\ seen \in [Cleaners -> 0 .. MaxTime]
    /\ doomed \in [Procs -> SUBSET Keys]
    /\ reply \in [Clients -> Replies]
    /\ MutexTypeOK
    /\ \A c \in Clients :
          /\ cmd[c] \in Commands <=> pc[c] # "idle"
          /\ pc[c] \in {"read", "reading"} => cmd[c].op \in ReadOps
          /\ pc[c] \in {"write", "writing"} => cmd[c].op \in WriteOps
          /\ pc[c] \in {"evict", "evicting"} => cmd[c].op = "GET"
    /\ \A p \in Cleaners : pc[p] \in {"idle", "evict", "evicting"}
-----------------------------------------------------------------------------
Holding == {"writing", "evicting"}     \* inside a section of the write lock

(***************************************************************************)
(* A goroutine inside a section of the write lock is alone: nobody else    *)
(* reads or writes Store and Expiries.  Every method of string.go and      *)
(* tealis.go relies on it.                                                 *)
(***************************************************************************)
MutualExclusion ==
    \A p, q \in Procs : pc[p] \in Holding /\ p # q => pc[q] \notin Holding \cup {"reading"}

(***************************************************************************)
(* What an operation read from Store is still there when it ends, and so   *)
(* INCRBY loses no update (string.go:94-106) and the value that GET        *)
(* returns is not one of an earlier moment.                                *)
(***************************************************************************)
StableReads ==
    \A c \in Clients :
        pc[c] \in {"reading", "writing"} => loaded[c] = store[cmd[c].key]

(***************************************************************************)
(* What ties the program counters to the state of the lock: readers are    *)
(* registered in it, and a section of the write lock starts after the last *)
(* of them left.                                                           *)
(***************************************************************************)
LockInv ==
    /\ active \cap blocked = {}
    /\ \A p \in active \cup blocked :
          p \in Clients /\ pc[p] \in {"read", "reading", "evict", "evicting"}
    /\ \A c \in Clients : pc[c] = "read" => c \in active \cup blocked
    /\ \A c \in Clients : pc[c] \in {"reading", "evict", "evicting"} => c \in active
    /\ \A p \in Procs : pc[p] \in Holding => writer = p /\ active = {}

(***************************************************************************)
(* A key that a goroutine is about to evict has expired, and stays so.     *)
(***************************************************************************)
EvictInv ==
    /\ \A p \in Procs : \A k \in doomed[p] : pc[p] = "evicting" /\ ExpiredAt(k, now)
    /\ \A c \in Clients : pc[c] = "evict" => ExpiredAt(cmd[c].key, now)
    /\ \A p \in Cleaners : seen[p] <= now

(***************************************************************************)
(* The inductive invariant of the proofs.                                  *)
(***************************************************************************)
IInv == TypeOK /\ LockInv /\ StableReads /\ EvictInv

(***************************************************************************)
(* A key leaves the store only by a DEL of that key or when its deadline   *)
(* has passed: the cleaner compares deadlines, which clients move while it *)
(* waits for the lock, with a clock it read before (tealis.go:126-129).    *)
(***************************************************************************)
LiveKeysSurvive ==
    [][\A k \in Keys :
          store[k] # NoValue /\ store'[k] = NoValue =>
             \/ expiries[k] # NoExpiry /\ expiries[k] < now
             \/ \E c \in Clients : /\ pc[c] = "writing"
                                   /\ cmd[c].op = "DEL"
                                   /\ cmd[c].key = k]_vars

(***************************************************************************)
(* Once a Get met an expired key it waits for itself (string.go:26-30): it *)
(* never gets out, and no operation changes the store any more.            *)
(***************************************************************************)
Wedged == \E c \in Clients : pc[c] \in {"evict", "evicting"}

WedgedIsForever == [][Wedged => Wedged' /\ UNCHANGED keyspaceVars]_vars

(***************************************************************************)
(* The keyspace implements ExpiringStore.  A GET takes effect when it      *)
(* reads the value, the other commands when they leave their section.      *)
(***************************************************************************)
HasGot(c) == pc[c] = "reading" /\ cmd[c].op = "GET"

AbsCmd == [c \in Clients |-> IF HasGot(c) THEN NoCommand ELSE cmd[c]]

AbsReply == [c \in Clients |-> IF HasGot(c) THEN loaded[c] ELSE reply[c]]

Promise == INSTANCE ExpiringStore WITH cmd <- AbsCmd, reply <- AbsReply

Linearizable == Promise!Spec

(***************************************************************************)
(* Every call returns, unless a Get has wedged the store: readers and      *)
(* writers do not starve each other.                                       *)
(***************************************************************************)
CallsReturn == \A c \in Clients : pc[c] # "idle" ~> pc[c] = "idle" \/ Wedged

(***************************************************************************)
(* A key past its deadline is collected, or rescued by a command, even if  *)
(* no client ever asks for it (tealis.go:119-138).                         *)
(***************************************************************************)
ExpiredKeysCollected ==
    \A k \in Keys : Present(k) /\ ExpiredAt(k, now)
                        ~> ~ (Present(k) /\ ExpiredAt(k, now)) \/ Wedged

(***************************************************************************)
(* tests/storage_test.go:64-65 asks for the key after its deadline and     *)
(* expects an answer.                                                      *)
(***************************************************************************)
ExpiredGetReturns == \A c \in Clients : pc[c] = "evict" ~> pc[c] = "idle"
=============================================================================
