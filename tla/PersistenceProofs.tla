-------------------------- MODULE PersistenceProofs --------------------------
(***************************************************************************)
(* Proofs about Persistence, for every set of keys, clients, savers and    *)
(* files and any number of commands and crashes.                           *)
(***************************************************************************)
EXTENDS Persistence, FiniteSetTheorems, WellFoundedInduction, TLAPS

USE PersistenceProcs, KindsAssumption, BoundsAssumption, NullsAssumption, NoProcAssumption

(***************************************************************************)
(* A set of natural numbers has a least one.                               *)
(***************************************************************************)
LEMMA LeastNat ==
    ASSUME NEW S \in SUBSET Nat, S # {}
    PROVE  \E n \in S : \A m \in S : n <= m
<1> DEFINE R == OpToRel(<, Nat)
<1>1. IsWellFoundedOn(R, Nat)
  BY NatLessThanWellFounded
<1>2. PICK x \in S : \A y \in S : ~ (<<y, x>> \in R)
  <2> HIDE DEF R
  <2> QED  BY <1>1, WFMin
<1>3. \A y \in S : ~ (y < x)
  BY <1>2 DEF OpToRel
<1> QED  BY <1>3

(***************************************************************************)
(* What holds of 0, and with each number below n of the next, holds of all *)
(* numbers up to n.                                                        *)
(***************************************************************************)
LEMMA AllUpTo ==
    ASSUME NEW n \in Nat, NEW P, 0 \in P, \A m \in 0 .. n - 1 : m \in P => m + 1 \in P
    PROVE  \A m \in 0 .. n : m \in P
<1> SUFFICES ASSUME NEW a \in 0 .. n, a \notin P PROVE FALSE
  OBVIOUS
<1> DEFINE S == {m \in 0 .. n : m \notin P}
<1>1. S \in SUBSET Nat /\ S # {}
  OBVIOUS
<1>2. PICK m \in S : \A k \in S : m <= k
  <2> HIDE DEF S
  <2> QED  BY <1>1, LeastNat
<1>3. m # 0 /\ m - 1 \in 0 .. n - 1 /\ m - 1 \notin S
  BY <1>2
<1> QED  BY <1>2, <1>3

(***************************************************************************)
(* What JSON gives back is a state again.                                  *)
(***************************************************************************)
LEMMA DecodedIsState ==
    ASSUME NEW s \in States
    PROVE  Decoded(s) \in States
<1>1. ASSUME NEW k \in Keys, s[k] # NoEntry
      PROVE  [s[k] EXCEPT !.kind = DecodedKind(@)] \in Entries
  <2>1. s[k] \in Entries
    BY <1>1 DEF States
  <2> QED  BY <2>1 DEF Entries
<1> QED  BY <1>1 DEF Decoded, States

(***************************************************************************)
(* A line written anywhere, behind the end too, leaves a file.             *)
(***************************************************************************)
LEMMA PutAtIsFile ==
    ASSUME NEW f \in Seq(Lines), NEW n \in Nat \ {0}, NEW line \in Lines
    PROVE  PutAt(f, n, line) \in Seq(Lines)
<1> DEFINE m == IF n > Len(f) THEN n ELSE Len(f)
<1>1. m \in Nat /\ Hole \in Lines
  BY DEF Lines
<1>2. \A i \in 1 .. Len(f) : f[i] \in Lines
  OBVIOUS
<1>3. PutAt(f, n, line) \in [1 .. m -> Lines]
  BY <1>1, <1>2 DEF PutAt
<1> QED  BY <1>1, <1>3
-----------------------------------------------------------------------------
(***************************************************************************)
(* The types are kept.                                                     *)
(***************************************************************************)
LEMMA CallKeepsTypes ==
    ASSUME Types, NEW c \in Clients, NEW m \in Commands,
           NEW label \in {"update", "save", "restore", "rewrite"}, Call(c, m, label), MutexTypeOK'
    PROVE  Types'
<1> USE DEF Types, Call
<1>1. files' \in [Inodes -> Seq(Lines)]
  <2>1. Append(files[aofFile], m) \in Seq(Lines)
    BY DEF Lines
  <2> QED  BY <2>1 DEF AppendToAOF
<1>2. calls' \in [Clients -> Nat] /\ cmd' \in [Clients -> Commands]
  OBVIOUS
<1> QED  BY <1>1, <1>2 DEF Goto, snapshotVars, rewriteVars

(***************************************************************************)
(* What a command carries by its name.                                     *)
(***************************************************************************)
LEMMA CommandTypes ==
    ASSUME NEW m \in Commands
    PROVE  /\ m.op = "WRITE" => m.key \in Keys /\ m.entry \in Entries
           /\ m.op = "DEL" => m.key \in Keys
           /\ m.op \in {"WRITE", "DEL", "SAVE", "RESTORE", "REWRITE"}
BY DEF Commands

(***************************************************************************)
(* Every step keeps the types.                                             *)
(***************************************************************************)
LEMMA NextTypes ==
    ASSUME Types, CommandInv, EncodeInv, [Next]_vars
    PROVE  Types'
<1> USE DEF Types, MutexTypeOK
<1>1. ASSUME NEW c \in Clients, CallUpdate(c) PROVE Types'
  <2>1. PICK m \in Commands : Call(c, m, "update")
    BY <1>1 DEF CallUpdate, Commands, Entries
  <2>2. MutexTypeOK'
    BY <1>1 DEF CallUpdate, mutexVars
  <2> QED  BY <2>1, <2>2, CallKeepsTypes
<1>2. ASSUME NEW c \in Clients, CallSave(c) \/ CallRestore(c) \/ CallRewrite(c) PROVE Types'
  <2>1. \E m \in Commands :
           Call(c, m, "save") \/ Call(c, m, "restore") \/ Call(c, m, "rewrite")
    BY <1>2 DEF CallSave, CallRestore, CallRewrite, Commands
  <2>2. MutexTypeOK'
    BY <1>2 DEF CallSave, CallRestore, CallRewrite, RLock, mutexVars
  <2> QED  BY <2>1, <2>2, CallKeepsTypes
<1>3. ASSUME NEW c \in Clients, Update(c) PROVE Types'
  <2>1. cmd[c] \in Commands /\ cmd[c].op \in {"WRITE", "DEL"}
    BY <1>3 DEF Update, CommandInv
  <2>2. store' \in States
    <3>1. cmd[c].op = "WRITE" => cmd[c].entry \in Entries
      BY <2>1, CommandTypes
    <3> QED  BY <1>3, <2>1, <3>1 DEF Update, Effect, States
  <2> QED  BY <1>3, <2>2 DEF Update, Unlock, Goto, fileVars, snapshotVars, rewriteVars
<1>4. ASSUME NEW c \in Clients, RestoreRead(c) PROVE Types'
  <2>1. CASE snapshot \in {NoImage, Torn}
    BY <1>4, <2>1 DEF RestoreRead, Goto, fileVars, rewriteVars, mutexVars
  <2>2. CASE snapshot \notin {NoImage, Torn}
    <3>1. Decoded(snapshot) \in States
      BY <2>2, DecodedIsState
    <3>2. /\ image' = [image EXCEPT ![c] = Decoded(snapshot)]
          /\ snapshotMutex' = c /\ pc' = [pc EXCEPT ![c] = "install"]
      BY <1>4, <2>2 DEF RestoreRead, Goto
    <3>3. image' \in [Procs -> States]
      BY <3>1, <3>2
    <3> QED  BY <1>4, <3>2, <3>3 DEF RestoreRead, fileVars, rewriteVars, mutexVars
  <2> QED  BY <2>1, <2>2
<1>5. Empty \in States
  BY DEF Empty, States
<1>6. ASSUME NEW c \in Clients, RestoreInstall(c) PROVE Types'
  <2>1. store' \in States /\ image' \in [Procs -> States]
    BY <1>5, <1>6 DEF RestoreInstall
  <2> QED  BY <1>6, <2>1 DEF RestoreInstall, Unlock, Goto, fileVars, rewriteVars
<1>7. ASSUME NEW c \in Clients, RewriteOpen(c) PROVE Types'
  <2>1. PICK i \in Inodes : /\ tempPath' = i /\ fd' = [fd EXCEPT ![c] = i]
                            /\ files' = [files EXCEPT ![i] = <<>>]
    BY <1>7 DEF RewriteOpen, CreateTemp, TempInode
  <2>2. files' \in [Inodes -> Seq(Lines)] /\ fd' \in [Clients -> Inodes \cup {NoFile}]
    BY <2>1
  <2>3. todo' \in [Procs -> SUBSET Keys] /\ offset' \in [Clients -> Nat]
    BY <1>7 DEF RewriteOpen, Present
  <2> QED  BY <1>7, <2>1, <2>2, <2>3 DEF RewriteOpen, Goto, snapshotVars, mutexVars
<1>8. ASSUME NEW c \in Clients, RewriteKey(c) PROVE Types'
  <2>1. PICK k \in todo[c] :
           /\ files' = [files EXCEPT ![fd[c]] =
                           PutAt(@, offset[c] + 1, Record(k))]
           /\ todo' = [todo EXCEPT ![c] = @ \ {k}]
    BY <1>8 DEF RewriteKey
  <2>2. fd[c] \in Inodes /\ k \in Keys /\ store[k] \in Entries
    BY <1>8, <2>1 DEF RewriteKey, CommandInv, Present, States
  <2>3. Record(k) \in Lines
    BY <2>2 DEF Record, Lines, Commands
  <2>4. offset[c] + 1 \in Nat \ {0} /\ files[fd[c]] \in Seq(Lines)
    BY <2>2
  <2>5. files' \in [Inodes -> Seq(Lines)]
    BY <2>1, <2>2, <2>3, <2>4, PutAtIsFile
  <2>6. todo' \in [Procs -> SUBSET Keys]
    BY <2>1
  <2> QED  BY <1>8, <2>5, <2>6 DEF RewriteKey, snapshotVars, mutexVars
<1>9. ASSUME NEW c \in Clients, RewriteFails(c) \/ RewriteRename(c) PROVE Types'
  <2>1. aofPath' \in Inodes /\ tempPath' \in Inodes \cup {NoFile} /\ RewriteEnd(c)
    BY <1>9 DEF RewriteFails, RewriteRename
  <2> QED  BY <2>1 DEF RewriteEnd, RUnlock, Goto, snapshotVars
<1>10. ASSUME NEW p \in Procs, WakeSaver(p) PROVE Types'
  BY <1>10 DEF WakeSaver, Goto, fileVars, snapshotVars, rewriteVars, mutexVars
<1>11. ASSUME NEW p \in Procs, Lock(p) PROVE Types'
  BY <1>11 DEF Lock, Announce, fileVars, snapshotVars, rewriteVars, procVars
<1>12. ASSUME NEW p \in Procs, SaveBegin(p) PROVE Types'
  BY <1>12 DEF SaveBegin, RLock, Goto, fileVars, rewriteVars
<1>13. ASSUME NEW p \in Procs, SaveCreate(p) PROVE Types'
  <2>1. image' \in [Procs -> States] /\ todo' \in [Procs -> SUBSET Keys]
    BY <1>5, <1>13 DEF SaveCreate
  <2> QED  BY <1>13, <2>1 DEF SaveCreate, Goto, fileVars, rewriteVars, mutexVars
<1>14. ASSUME NEW p \in Procs, SaveEncode(p) PROVE Types'
  <2>1. PICK k \in todo[p] : /\ image' = [image EXCEPT ![p][k] = store[k]]
                             /\ todo' = [todo EXCEPT ![p] = @ \ {k}]
    BY <1>14 DEF SaveEncode
  <2>2. [image[p] EXCEPT ![k] = store[k]] \in States
    BY <2>1 DEF States
  <2>3. image' \in [Procs -> States] /\ todo' \in [Procs -> SUBSET Keys]
    BY <2>1, <2>2
  <2> QED  BY <1>14, <2>3 DEF SaveEncode, fileVars, rewriteVars, mutexVars
<1>15. ASSUME NEW p \in Procs, SaveWrite(p) \/ SaveFails(p) PROVE Types'
  <2>1. snapshot' \in States \cup {NoImage, Torn} /\ SaveEnd(p)
    BY <1>15 DEF SaveWrite, SaveFails
  <2>2. image' \in [Procs -> States] /\ todo' \in [Procs -> SUBSET Keys]
    BY <1>5, <2>1 DEF SaveEnd
  <2> QED  BY <2>1, <2>2 DEF SaveEnd, RUnlock, Goto, fileVars, rewriteVars
<1>16. CASE Crash
  BY <1>5, <1>16 DEF Crash
<1>17. CASE UNCHANGED vars
  BY <1>17 DEF vars, fileVars, snapshotVars, rewriteVars, procVars, mutexVars
<1> QED  BY <1>1, <1>2, <1>3, <1>4, <1>6, <1>7, <1>8, <1>9, <1>10, <1>11, <1>12, <1>13,
            <1>14, <1>15, <1>16, <1>17 DEF Next, Save, Restore, Rewrite

(***************************************************************************)
(* What a client that asks for a write, a save or a restore changes.       *)
(***************************************************************************)
LEMMA Asks ==
    ASSUME NEW c \in Clients, CallUpdate(c) \/ CallSave(c) \/ CallRestore(c)
    PROVE  \E l \in {"update", "save", "restore"}, m \in Commands :
              /\ pc[c] = "idle" /\ pc' = [pc EXCEPT ![c] = l]
              /\ cmd' = [cmd EXCEPT ![c] = m]
              /\ l = "update" => m.op \in {"WRITE", "DEL"}
              /\ UNCHANGED <<store, snapshotVars, rewriteVars, todo, mutexVars>>
<1>1. CASE CallUpdate(c)
  <2>1. PICK m \in Commands : Call(c, m, "update") /\ m.op \in {"WRITE", "DEL"}
    <3>1. PICK k \in Keys :
             \/ Call(c, [op |-> "DEL", key |-> k, by |-> c], "update")
             \/ \E kind \in Kinds :
                   Call(c, [op |-> "WRITE", key |-> k,
                            entry |-> [kind |-> kind, by |-> c]], "update")
      BY <1>1 DEF CallUpdate
    <3>2. CASE Call(c, [op |-> "DEL", key |-> k, by |-> c], "update")
      <4> DEFINE m == [op |-> "DEL", key |-> k, by |-> c]
      <4>1. m \in Commands /\ m.op \in {"WRITE", "DEL"} /\ Call(c, m, "update")
        BY <3>2 DEF Commands
      <4> QED  BY <4>1
    <3>3. ASSUME NEW kind \in Kinds,
                 Call(c, [op |-> "WRITE", key |-> k, entry |-> [kind |-> kind, by |-> c]], "update")
          PROVE  \E m \in Commands : Call(c, m, "update") /\ m.op \in {"WRITE", "DEL"}
      <4> DEFINE m == [op |-> "WRITE", key |-> k, entry |-> [kind |-> kind, by |-> c]]
      <4>1. m \in Commands /\ m.op \in {"WRITE", "DEL"} /\ Call(c, m, "update")
        BY <3>3 DEF Commands, Entries
      <4> HIDE DEF m
      <4> QED  BY <4>1
    <3> QED  BY <3>1, <3>2, <3>3
  <2> QED  BY <1>1, <2>1 DEF CallUpdate, Call, Goto
<1>2. CASE CallSave(c)
  BY <1>2 DEF CallSave, Call, Goto, Commands
<1>3. CASE CallRestore(c)
  BY <1>3 DEF CallRestore, Call, Goto, Commands
<1> QED  BY <1>1, <1>2, <1>3

(***************************************************************************)
(* Both locks have the holders that the program counters say.              *)
(***************************************************************************)
LEMMA NextLocks ==
    ASSUME Types, LockInv, SnapshotMutexInv, [Next]_vars
    PROVE  LockInv' /\ SnapshotMutexInv'
<1> USE DEF Types, MutexTypeOK, LockInv, SnapshotMutexInv, snapshotVars, procVars, mutexVars
<1>1. ASSUME NEW c \in Clients, CallUpdate(c) \/ CallSave(c) \/ CallRestore(c)
      PROVE  LockInv' /\ SnapshotMutexInv'
  <2>1. PICK l \in {"update", "save", "restore"}, m \in Commands :
           /\ pc[c] = "idle" /\ pc' = [pc EXCEPT ![c] = l]
           /\ cmd' = [cmd EXCEPT ![c] = m]
           /\ l = "update" => m.op \in {"WRITE", "DEL"}
           /\ UNCHANGED <<store, snapshotVars, rewriteVars, todo, mutexVars>>
    BY <1>1, Asks
  <2> QED  BY <2>1
<1>2. ASSUME NEW c \in Clients, CallRewrite(c) PROVE LockInv' /\ SnapshotMutexInv'
  BY <1>2 DEF CallRewrite, Call, RLock, Goto
<1>3. ASSUME NEW c \in Clients, Update(c) PROVE LockInv' /\ SnapshotMutexInv'
  BY <1>3 DEF Update, WriteReady, Unlock, Goto
<1>4. ASSUME NEW c \in Clients, RestoreRead(c) PROVE LockInv' /\ SnapshotMutexInv'
  <2>0. /\ pc[c] = "restore" /\ snapshotMutex = NoProc /\ c # NoProc
        /\ UNCHANGED <<store, snapshot, basis, todo, mutexVars>>
    BY <1>4 DEF RestoreRead
  <2>1. CASE snapshot \in {NoImage, Torn}
    <3>1. pc' = [pc EXCEPT ![c] = "idle"] /\ UNCHANGED <<image, snapshotMutex>>
      BY <1>4, <2>1 DEF RestoreRead, Goto
    <3> QED  BY <2>0, <3>1
  <2>2. CASE snapshot \notin {NoImage, Torn}
    <3>1. /\ pc' = [pc EXCEPT ![c] = "install"] /\ snapshotMutex' = c
          /\ image' = [image EXCEPT ![c] = Decoded(snapshot)]
      BY <1>4, <2>2 DEF RestoreRead, Goto
    <3> QED  BY <2>0, <2>2, <3>1
  <2> QED  BY <2>1, <2>2
<1>5. ASSUME NEW c \in Clients, RestoreInstall(c) PROVE LockInv' /\ SnapshotMutexInv'
  BY <1>5 DEF RestoreInstall, WriteReady, Unlock, Goto
<1>6. ASSUME NEW c \in Clients, RewriteOpen(c) PROVE LockInv' /\ SnapshotMutexInv'
  BY <1>6 DEF RewriteOpen, Goto
<1>7. ASSUME NEW c \in Clients, RewriteKey(c) PROVE LockInv' /\ SnapshotMutexInv'
  BY <1>7 DEF RewriteKey
<1>8. ASSUME NEW c \in Clients, RewriteFails(c) PROVE LockInv' /\ SnapshotMutexInv'
  BY <1>8 DEF RewriteFails, RewriteEnd, RUnlock, Goto
<1>9. ASSUME NEW c \in Clients, RewriteRename(c) PROVE LockInv' /\ SnapshotMutexInv'
  BY <1>9 DEF RewriteRename, RewriteEnd, RUnlock, Goto
<1>10. ASSUME NEW p \in Procs, WakeSaver(p) PROVE LockInv' /\ SnapshotMutexInv'
  BY <1>10 DEF WakeSaver, Goto
<1>11. ASSUME NEW p \in Procs, Lock(p) PROVE LockInv' /\ SnapshotMutexInv'
  BY <1>11 DEF Lock, Announce
<1>12. ASSUME NEW p \in Procs, SaveBegin(p) PROVE LockInv' /\ SnapshotMutexInv'
  <2>1. /\ pc[p] = "save" /\ pc' = [pc EXCEPT ![p] = "create"]
        /\ snapshotMutex = NoProc /\ snapshotMutex' = p /\ writer' = writer
        /\ \/ writer = NoProc /\ active' = active \cup {p} /\ blocked' = blocked
           \/ writer # NoProc /\ active' = active /\ blocked' = blocked \cup {p}
    BY <1>12 DEF SaveBegin, RLock, Goto
  <2>2. LockInv'
    BY <2>1
  <2>3. SnapshotMutexInv'
    BY ONLY <2>1, Types, SnapshotMutexInv, NoProcAssumption DEF Types, SnapshotMutexInv
  <2> QED  BY <2>2, <2>3
<1>13. ASSUME NEW p \in Procs, SaveCreate(p) PROVE LockInv' /\ SnapshotMutexInv'
  BY <1>13 DEF SaveCreate, Goto
<1>14. ASSUME NEW p \in Procs, SaveEncode(p) PROVE LockInv' /\ SnapshotMutexInv'
  BY <1>14 DEF SaveEncode
<1>15. ASSUME NEW p \in Procs, SaveWrite(p) PROVE LockInv' /\ SnapshotMutexInv'
  BY <1>15 DEF SaveWrite, SaveEnd, RUnlock, Goto
<1>16. ASSUME NEW p \in Procs, SaveFails(p) PROVE LockInv' /\ SnapshotMutexInv'
  BY <1>16 DEF SaveFails, SaveEnd, RUnlock, Goto
<1>17. CASE Crash
  BY <1>17 DEF Crash
<1>18. CASE UNCHANGED vars
  BY <1>18 DEF vars
<1> QED  BY <1>1, <1>2, <1>3, <1>4, <1>5, <1>6, <1>7, <1>8, <1>9, <1>10, <1>11, <1>12,
            <1>13, <1>14, <1>15, <1>16, <1>17, <1>18
         DEF Next, Save, Restore, Rewrite

(***************************************************************************)
(* A goroutine that executes a command knows its operands.                 *)
(***************************************************************************)
LEMMA NextCommandInv ==
    ASSUME Types, LockInv, CommandInv, [Next]_vars
    PROVE  CommandInv'
<1> USE DEF Types, MutexTypeOK, LockInv, CommandInv, Present, fileVars, rewriteVars,
            procVars, mutexVars
<1>1. ASSUME NEW c \in Clients, CallUpdate(c) \/ CallSave(c) \/ CallRestore(c)
      PROVE  CommandInv'
  <2>1. PICK l \in {"update", "save", "restore"}, m \in Commands :
           /\ pc[c] = "idle" /\ pc' = [pc EXCEPT ![c] = l]
           /\ cmd' = [cmd EXCEPT ![c] = m]
           /\ l = "update" => m.op \in {"WRITE", "DEL"}
           /\ UNCHANGED <<store, snapshotVars, rewriteVars, todo, mutexVars>>
    BY <1>1, Asks
  <2> QED  BY <2>1
<1>2. ASSUME NEW c \in Clients, CallRewrite(c) PROVE CommandInv'
  BY <1>2 DEF CallRewrite, Call, RLock, Goto
<1>3. ASSUME NEW c \in Clients, Update(c) PROVE CommandInv'
  BY <1>3 DEF Update, WriteReady, Unlock, Goto
<1>4. ASSUME NEW c \in Clients, RestoreRead(c) PROVE CommandInv'
  BY <1>4 DEF RestoreRead, Goto
<1>5. ASSUME NEW c \in Clients, RestoreInstall(c) PROVE CommandInv'
  BY <1>5 DEF RestoreInstall, WriteReady, Unlock, Goto
<1>6. ASSUME NEW c \in Clients, RewriteOpen(c) PROVE CommandInv'
  BY <1>6 DEF RewriteOpen, CreateTemp, TempInode, Goto
<1>7. ASSUME NEW c \in Clients, RewriteKey(c) PROVE CommandInv'
  BY <1>7 DEF RewriteKey
<1>8. ASSUME NEW c \in Clients, RewriteFails(c) PROVE CommandInv'
  BY <1>8 DEF RewriteFails, RewriteEnd, RUnlock, Goto
<1>9. ASSUME NEW c \in Clients, RewriteRename(c) PROVE CommandInv'
  BY <1>9 DEF RewriteRename, RewriteEnd, RUnlock, Goto
<1>10. ASSUME NEW p \in Procs, WakeSaver(p) PROVE CommandInv'
  BY <1>10 DEF WakeSaver, Goto
<1>11. ASSUME NEW p \in Procs, Lock(p) PROVE CommandInv'
  BY <1>11 DEF Lock, Announce
<1>12. ASSUME NEW p \in Procs, SaveBegin(p) PROVE CommandInv'
  BY <1>12 DEF SaveBegin, RLock, Goto
<1>13. ASSUME NEW p \in Procs, SaveCreate(p) PROVE CommandInv'
  BY <1>13 DEF SaveCreate, Goto
<1>14. ASSUME NEW p \in Procs, SaveEncode(p) PROVE CommandInv'
  BY <1>14 DEF SaveEncode
<1>15. ASSUME NEW p \in Procs, SaveWrite(p) PROVE CommandInv'
  BY <1>15 DEF SaveWrite, SaveEnd, RUnlock, Goto
<1>16. ASSUME NEW p \in Procs, SaveFails(p) PROVE CommandInv'
  BY <1>16 DEF SaveFails, SaveEnd, RUnlock, Goto
<1>17. CASE Crash
  BY <1>17 DEF Crash
<1>18. CASE UNCHANGED vars
  BY <1>18 DEF vars
<1> QED  BY <1>1, <1>2, <1>3, <1>4, <1>5, <1>6, <1>7, <1>8, <1>9, <1>10, <1>11, <1>12,
            <1>13, <1>14, <1>15, <1>16, <1>17, <1>18
         DEF Next, Save, Restore, Rewrite

(***************************************************************************)
(* A save encodes one state, and what was read is what is installed.       *)
(***************************************************************************)
LEMMA NextSnapshotInv ==
    ASSUME Types, LockInv, SnapshotMutexInv, CommandInv, EncodeInv, InstallInv,
           SnapshotOfOneMoment, [Next]_vars
    PROVE  EncodeInv' /\ InstallInv' /\ SnapshotOfOneMoment'
<1> USE DEF Types, MutexTypeOK, LockInv, SnapshotMutexInv, CommandInv, EncodeInv,
            InstallInv,
       SnapshotOfOneMoment, snapshotVars, procVars, mutexVars
<1>1. ASSUME NEW c \in Clients, CallUpdate(c) \/ CallSave(c) \/ CallRestore(c)
      PROVE  EncodeInv' /\ InstallInv' /\ SnapshotOfOneMoment'
  <2>1. PICK l \in {"update", "save", "restore"}, m \in Commands :
           /\ pc[c] = "idle" /\ pc' = [pc EXCEPT ![c] = l]
           /\ cmd' = [cmd EXCEPT ![c] = m]
           /\ l = "update" => m.op \in {"WRITE", "DEL"}
           /\ UNCHANGED <<store, snapshotVars, rewriteVars, todo, mutexVars>>
    BY <1>1, Asks
  <2> QED  BY <2>1
<1>2. ASSUME NEW c \in Clients, CallRewrite(c)
      PROVE  EncodeInv' /\ InstallInv' /\ SnapshotOfOneMoment'
  BY <1>2 DEF CallRewrite, Call, RLock, Goto
<1>3. ASSUME NEW c \in Clients, Update(c)
      PROVE  EncodeInv' /\ InstallInv' /\ SnapshotOfOneMoment'
  BY <1>3 DEF Update, WriteReady, Unlock, Goto
<1>4. ASSUME NEW c \in Clients, RestoreRead(c)
      PROVE  EncodeInv' /\ InstallInv' /\ SnapshotOfOneMoment'
  <2>0. /\ pc[c] = "restore" /\ snapshotMutex = NoProc /\ c # NoProc
        /\ UNCHANGED <<store, snapshot, basis, todo, mutexVars>>
    BY <1>4 DEF RestoreRead
  <2>1. CASE snapshot \in {NoImage, Torn}
    <3>1. pc' = [pc EXCEPT ![c] = "idle"] /\ UNCHANGED <<image, snapshotMutex>>
      BY <1>4, <2>1 DEF RestoreRead, Goto
    <3> QED  BY <2>0, <3>1
  <2>2. CASE snapshot \notin {NoImage, Torn}
    <3>1. /\ pc' = [pc EXCEPT ![c] = "install"] /\ snapshotMutex' = c
          /\ image' = [image EXCEPT ![c] = Decoded(snapshot)]
      BY <1>4, <2>2 DEF RestoreRead, Goto
    <3> QED  BY <2>0, <2>2, <3>1
  <2> QED  BY <2>1, <2>2
<1>5. ASSUME NEW c \in Clients, RestoreInstall(c)
      PROVE  EncodeInv' /\ InstallInv' /\ SnapshotOfOneMoment'
  BY <1>5 DEF RestoreInstall, WriteReady, Unlock, Goto
<1>6. ASSUME NEW c \in Clients, RewriteOpen(c)
      PROVE  EncodeInv' /\ InstallInv' /\ SnapshotOfOneMoment'
  BY <1>6 DEF RewriteOpen, CreateTemp, TempInode, Goto
<1>7. ASSUME NEW c \in Clients, RewriteKey(c)
      PROVE  EncodeInv' /\ InstallInv' /\ SnapshotOfOneMoment'
  BY <1>7 DEF RewriteKey
<1>8. ASSUME NEW c \in Clients, RewriteFails(c)
      PROVE  EncodeInv' /\ InstallInv' /\ SnapshotOfOneMoment'
  BY <1>8 DEF RewriteFails, RewriteEnd, RUnlock, Goto
<1>9. ASSUME NEW c \in Clients, RewriteRename(c)
      PROVE  EncodeInv' /\ InstallInv' /\ SnapshotOfOneMoment'
  BY <1>9 DEF RewriteRename, RewriteEnd, RUnlock, Goto
<1>10. ASSUME NEW p \in Procs, WakeSaver(p)
       PROVE  EncodeInv' /\ InstallInv' /\ SnapshotOfOneMoment'
  BY <1>10 DEF WakeSaver, Goto
<1>11. ASSUME NEW p \in Procs, Lock(p)
       PROVE  EncodeInv' /\ InstallInv' /\ SnapshotOfOneMoment'
  BY <1>11 DEF Lock, Announce
<1>12. ASSUME NEW p \in Procs, SaveBegin(p)
       PROVE  EncodeInv' /\ InstallInv' /\ SnapshotOfOneMoment'
  BY <1>12 DEF SaveBegin, RLock, Goto
<1>13. ASSUME NEW p \in Procs, SaveCreate(p)
       PROVE  EncodeInv' /\ InstallInv' /\ SnapshotOfOneMoment'
  BY <1>13 DEF SaveCreate, Goto
<1>14. ASSUME NEW p \in Procs, SaveEncode(p)
       PROVE  EncodeInv' /\ InstallInv' /\ SnapshotOfOneMoment'
  <2>1. PICK k \in todo[p] : /\ image' = [image EXCEPT ![p][k] = store[k]]
                             /\ todo' = [todo EXCEPT ![p] = @ \ {k}]
    BY <1>14 DEF SaveEncode
  <2>2. pc[p] = "encode" /\ UNCHANGED <<store, snapshot, snapshotMutex, basis, pc>>
    BY <1>14 DEF SaveEncode
  <2>3. /\ \A j \in Keys : image'[p][j] = IF j = k THEN store[k] ELSE image[p][j]
        /\ \A q \in Procs \ {p} : image'[q] = image[q] /\ todo'[q] = todo[q]
    BY <2>1 DEF States
  <2> QED  BY <2>1, <2>2, <2>3
<1>15. ASSUME NEW p \in Procs, SaveWrite(p)
       PROVE  EncodeInv' /\ InstallInv' /\ SnapshotOfOneMoment'
  <2>1. /\ pc[p] = "encode" /\ todo[p] = {} /\ basis' = basis
        /\ snapshot' = image[p] /\ pc' = [pc EXCEPT ![p] = "idle"]
    BY <1>15 DEF SaveWrite, SaveEnd, Goto
  <2>2. image[p] = basis
    <3>1. \A k \in Keys : image[p][k] = store[k]
      BY <2>1
    <3> QED  BY <2>1, <3>1 DEF States
  <2>3. \A q \in Procs : pc'[q] \notin {"encode", "install"}
    BY <2>1
  <2> QED  BY <2>1, <2>2, <2>3
<1>16. ASSUME NEW p \in Procs, SaveFails(p)
       PROVE  EncodeInv' /\ InstallInv' /\ SnapshotOfOneMoment'
  BY <1>16 DEF SaveFails, SaveEnd, RUnlock, Goto
<1>17. CASE Crash
  BY <1>17 DEF Crash
<1>18. CASE UNCHANGED vars
  BY <1>18 DEF vars
<1> QED  BY <1>1, <1>2, <1>3, <1>4, <1>5, <1>6, <1>7, <1>8, <1>9, <1>10, <1>11, <1>12,
            <1>13, <1>14, <1>15, <1>16, <1>17, <1>18
         DEF Next, Save, Restore, Rewrite
-----------------------------------------------------------------------------
(***************************************************************************)
(* No rewrite writes to the file that takes the commands.                  *)
(***************************************************************************)
LEMMA NextFilesApart ==
    ASSUME Types, FilesApart, [Next]_vars
    PROVE  FilesApart'
<1> USE DEF Types, FilesApart, fileVars, rewriteVars
<1>1. ASSUME NEW c \in Clients, CallUpdate(c) \/ CallSave(c) \/ CallRestore(c) \/ CallRewrite(c)
      PROVE  FilesApart'
  BY <1>1 DEF CallUpdate, CallSave, CallRestore, CallRewrite, Call
<1>2. ASSUME NEW c \in Clients, Update(c) \/ Restore(c) PROVE FilesApart'
  BY <1>2 DEF Update, Restore, RestoreRead, RestoreInstall
<1>3. ASSUME NEW c \in Clients, RewriteOpen(c) PROVE FilesApart'
  BY <1>3 DEF RewriteOpen, CreateTemp, TempInode
<1>4. ASSUME NEW c \in Clients, RewriteKey(c) PROVE FilesApart'
  BY <1>4 DEF RewriteKey
<1>5. ASSUME NEW c \in Clients, RewriteFails(c) \/ RewriteRename(c) PROVE FilesApart'
  BY <1>5 DEF RewriteFails, RewriteRename, RewriteEnd
<1>6. ASSUME NEW p \in Procs, WakeSaver(p) \/ Lock(p) \/ Save(p) PROVE FilesApart'
  BY <1>6 DEF WakeSaver, Lock, Save, SaveBegin, SaveCreate, SaveEncode, SaveWrite,
     SaveFails, SaveEnd
<1>7. CASE Crash
  BY <1>7 DEF Crash
<1>8. CASE UNCHANGED vars
  BY <1>8 DEF vars
<1> QED  BY <1>1, <1>2, <1>3, <1>4, <1>5, <1>6, <1>7, <1>8 DEF Next, Rewrite

(***************************************************************************)
(* Steps that have no part in commands on keys and in rewrites, and what   *)
(* they leave alone.                                                       *)
(***************************************************************************)
Aside == \/ \E c \in Clients : RestoreRead(c)
         \/ \E p \in Procs : WakeSaver(p) \/ Lock(p) \/ Save(p)
         \/ UNCHANGED vars

(***************************************************************************)
(* Such a step changes no file, no descriptor and nothing that a command or*)
(* a rewrite holds; who is in a rewrite or in a command was there before.  *)
(***************************************************************************)
LEMMA AsideChanges ==
    ASSUME Types, Aside
    PROVE  /\ UNCHANGED <<store, files, aofPath, tempPath, aofFile, fd, offset, cmd, crashes>>
           /\ \A q \in Procs :
                 /\ pc'[q] \in {"update", "rewrite", "rewriting"} => pc[q] = pc'[q]
                 /\ pc[q] \in {"update", "rewrite", "rewriting"} => pc'[q] = pc[q]
                 /\ pc'[q] \in {"restore", "install"} => pc[q] \in {"restore", "install"}
                 /\ pc[q] = "rewriting" => todo'[q] = todo[q]
<1> USE DEF Types, fileVars, rewriteVars, procVars
<1>1. ASSUME NEW c \in Clients, RestoreRead(c)
      PROVE  /\ UNCHANGED <<store, fileVars, rewriteVars, cmd, todo, crashes>>
             /\ pc[c] = "restore"
             /\ pc' = [pc EXCEPT ![c] = "idle"] \/ pc' = [pc EXCEPT ![c] = "install"]
  BY <1>1 DEF RestoreRead, Goto
<1>2. ASSUME NEW p \in Procs, WakeSaver(p) \/ Lock(p) \/ Save(p)
      PROVE  /\ UNCHANGED <<store, fileVars, rewriteVars, cmd, crashes>>
             /\ \/ UNCHANGED <<pc, todo>>
                \/ /\ pc[p] \in {"idle", "save", "create", "encode"}
                   /\ \/ pc' = pc
                      \/ \E l \in {"idle", "save", "create", "encode"} :
                            pc' = [pc EXCEPT ![p] = l]
                   /\ \A q \in Procs \ {p} : todo'[q] = todo[q]
  <2>1. CASE WakeSaver(p) \/ Lock(p)
    BY <2>1 DEF WakeSaver, Lock, Goto
  <2>2. CASE SaveBegin(p) \/ SaveCreate(p)
    BY <2>2 DEF SaveBegin, SaveCreate, Goto
  <2>3. CASE SaveEncode(p)
    BY <2>3 DEF SaveEncode
  <2>4. CASE SaveWrite(p) \/ SaveFails(p)
    BY <2>4 DEF SaveWrite, SaveFails, SaveEnd, Goto
  <2> QED  BY <1>2, <2>1, <2>2, <2>3, <2>4 DEF Save
<1>3. CASE UNCHANGED vars
  BY <1>3 DEF vars
<1>4. ASSUME NEW c \in Clients, RestoreRead(c)
      PROVE  \A q \in Procs :
                 /\ pc'[q] \in {"update", "rewrite", "rewriting"} => pc[q] = pc'[q]
                 /\ pc[q] \in {"update", "rewrite", "rewriting"} => pc'[q] = pc[q]
                 /\ pc'[q] \in {"restore", "install"} => pc[q] \in {"restore", "install"}
  <2>1. PICK l \in {"idle", "install"} : pc[c] = "restore" /\ pc' = [pc EXCEPT ![c] = l]
    BY <1>1, <1>4
  <2> QED  BY <2>1
<1>5. ASSUME NEW p \in Procs, WakeSaver(p) \/ Lock(p) \/ Save(p)
      PROVE  \A q \in Procs :
                 /\ pc'[q] \in {"update", "rewrite", "rewriting"} => pc[q] = pc'[q]
                 /\ pc[q] \in {"update", "rewrite", "rewriting"} => pc'[q] = pc[q]
                 /\ pc'[q] \in {"restore", "install"} => pc[q] \in {"restore", "install"}
                 /\ pc[q] = "rewriting" => todo'[q] = todo[q]
  <2>1. CASE UNCHANGED <<pc, todo>>
    BY <2>1
  <2>2. CASE /\ pc[p] \in {"idle", "save", "create", "encode"}
             /\ \/ pc' = pc
                \/ \E l \in {"idle", "save", "create", "encode"} :
                      pc' = [pc EXCEPT ![p] = l]
             /\ \A q \in Procs \ {p} : todo'[q] = todo[q]
    <3>1. \A q \in Procs : q # p => pc'[q] = pc[q] /\ todo'[q] = todo[q]
      BY <2>2
    <3>2. pc'[p] \in {"idle", "save", "create", "encode"}
      BY <2>2
    <3> QED  BY <2>2, <3>1, <3>2
  <2> QED  BY <1>2, <1>5, <2>1, <2>2
<1> QED  BY <1>1, <1>2, <1>3, <1>4, <1>5 DEF Aside
-----------------------------------------------------------------------------
(***************************************************************************)
(* Steps that record, execute and restore nothing.                         *)
(***************************************************************************)
LEMMA KeepsRecorded ==
    ASSUME RecordedInv, UNCHANGED <<store, cmd, crashes, aofFile>>,
           files'[aofFile] = files[aofFile],
           \A c \in Clients :
              /\ pc'[c] = "update" <=> pc[c] = "update"
              /\ pc'[c] \in {"restore", "install"} => pc[c] \in {"restore", "install"}
    PROVE  RecordedInv'
<1>1. \A c, k : ChangesBy(c, k)' = ChangesBy(c, k)
  BY DEF ChangesBy
<1>2. \A c \in Clients : \A i : Awaits(c, i)' <=> Awaits(c, i)
  BY <1>1 DEF Awaits
<1>3. Restored' <=> Restored
  BY DEF Restored
<1> QED  BY <1>1, <1>2, <1>3 DEF RecordedInv

(***************************************************************************)
(* A command is recorded at the end of the file, and its client awaits it  *)
(* if it changes a key.                                                    *)
(***************************************************************************)
LEMMA CallIsRecorded ==
    ASSUME Types, RecordedInv, NEW c \in Clients, NEW m \in Commands,
           NEW label \in {"update", "save", "restore", "rewrite"}, Call(c, m, label),
           m.op \in {"WRITE", "DEL"} <=> label = "update",
           label = "update" => ClientOf(m) = c,
           label = "restore" => m.op = "RESTORE"
    PROVE  RecordedInv'
<1> SUFFICES ASSUME crashes' = 0 PROVE RecordedInv'
  BY DEF RecordedInv
<1>1. /\ pc[c] = "idle" /\ pc' = [pc EXCEPT ![c] = label]
      /\ cmd' = [cmd EXCEPT ![c] = m]
      /\ UNCHANGED <<store, aofFile, crashes>>
      /\ files' = [files EXCEPT ![aofFile] = Append(@, m)]
  BY DEF Call, Goto, AppendToAOF
<1>2. PICK f, g : /\ f = files[aofFile] /\ g = files'[aofFile'] /\ g = Append(f, m)
                  /\ f \in Seq(Lines)
  BY <1>1 DEF Types
<1>3. /\ Len(f) \in Nat /\ DOMAIN f = 1 .. Len(f) /\ DOMAIN g = 1 .. Len(f) + 1
      /\ g[Len(f) + 1] = m /\ \A i \in 1 .. Len(f) : g[i] = f[i]
  <2>1. m \in Lines
    BY DEF Lines
  <2> QED  BY <1>2, <2>1
<1>4. PICK n \in Nat : n = Len(f)
  BY <1>3
<1>5. m # Hole
  BY NullsAssumption
<1>6. ASSUME NEW d \in Clients, NEW k \in Keys
      PROVE  /\ ChangesBy(d, k) \subseteq 1 .. n
             /\ ChangesBy(d, k)' \subseteq 1 .. n + 1
             /\ ChangesBy(d, k)' \cap 1 .. n = ChangesBy(d, k)
             /\ n + 1 \in ChangesBy(d, k)' <=> label = "update" /\ m.key = k /\ d = c
  BY <1>2, <1>3, <1>4, <1>5 DEF ChangesBy, IsChange
<1>7. ASSUME NEW d \in Clients, d # c, NEW i \in 1 .. n
      PROVE  Awaits(d, i) => Awaits(d, i)'
  <2> SUFFICES ASSUME Awaits(d, i) PROVE Awaits(d, i)'
    OBVIOUS
  <2>1. cmd'[d] = cmd[d] /\ pc'[d] = pc[d]
    BY <1>1, <1>7 DEF Types
  <2>2. cmd[d].key \in Keys
    <3>1. i \in ChangesBy(d, cmd[d].key) /\ f[i] = cmd[d]
      BY <1>2 DEF Awaits
    <3>2. cmd[d].op \in {"WRITE", "DEL"}
      BY <1>2, <3>1 DEF ChangesBy, IsChange
    <3> QED  BY <3>2, CommandTypes DEF Types
  <2>3. ASSUME NEW k \in Keys PROVE ChangesBy(d, k)' = ChangesBy(d, k)
    <3>1. n + 1 \notin ChangesBy(d, k)'
      BY <1>6, <1>7
    <3>2. \A x \in ChangesBy(d, k)' : x \in 1 .. n
      BY <1>6, <3>1
    <3> QED  BY <1>6, <3>2
  <2> QED  BY <1>2, <1>3, <1>4, <2>1, <2>2, <2>3 DEF Awaits
<1>8. \A i : ~ Awaits(c, i)
  BY <1>1 DEF Awaits
<1>9. label = "update" => Awaits(c, n + 1)'
  <2> SUFFICES ASSUME label = "update" PROVE Awaits(c, n + 1)'
    OBVIOUS
  <2>1. cmd'[c] = m /\ pc'[c] = "update" /\ m.key \in Keys
    BY <1>1, CommandTypes DEF Types
  <2>2. n + 1 \in ChangesBy(c, m.key)'
    BY <1>6, <2>1
  <2>3. \A k \in Keys : \A j \in ChangesBy(c, k)' : j <= n + 1
    BY <1>4, <1>6
  <2> QED  BY <1>2, <1>3, <1>4, <2>1, <2>2, <2>3 DEF Awaits
<1>10. Restored => Restored'
  BY <1>2, <1>3 DEF Restored
<1>11. label = "restore" => Restored'
  BY <1>2, <1>3, <1>5 DEF Restored
<1>12. ASSUME NEW d \in Clients
       PROVE  /\ pc'[d] = "update" => \E i \in DOMAIN g : Awaits(d, i)'
              /\ pc'[d] \in {"restore", "install"} => Restored'
  <2>1. CASE d = c
    <3>1. pc'[d] = label /\ n + 1 \in DOMAIN g
      BY <1>1, <1>3, <1>4, <2>1 DEF Types
    <3> QED  BY <1>9, <1>11, <2>1, <3>1
  <2>2. CASE d # c
    <3>1. pc'[d] = pc[d]
      BY <1>1, <2>2 DEF Types
    <3>2. /\ pc[d] = "update" => \E i \in 1 .. n : Awaits(d, i)
          /\ pc[d] \in {"restore", "install"} => Restored
      BY <1>1, <1>2, <1>3, <1>4 DEF RecordedInv
    <3>3. 1 .. n \subseteq DOMAIN g
      BY <1>3, <1>4
    <3> QED  BY <1>7, <1>10, <2>2, <3>1, <3>2, <3>3
  <2> QED  BY <2>1, <2>2
<1>13. ASSUME ~ Restored', NEW k \in Keys
       PROVE  \/ /\ store'[k] = NoEntry
                 /\ \A d \in Clients : \A i \in ChangesBy(d, k)' : Awaits(d, i)'
              \/ \E d \in Clients : \E i \in ChangesBy(d, k)' :
                    /\ store'[k] = Effect(g[i])
                    /\ \A j \in ChangesBy(d, k)' : j > i => Awaits(d, j)'
  <2>1. ASSUME NEW d \in Clients, NEW i \in ChangesBy(d, k)', i \in ChangesBy(d, k) => Awaits(d, i)
        PROVE  Awaits(d, i)'
    <3>1. CASE i = n + 1
      BY <1>6, <1>9, <2>1, <3>1
    <3>2. CASE i # n + 1
      <4>1. i \in 1 .. n /\ i \in ChangesBy(d, k)
        BY <1>4, <1>6, <2>1, <3>2
      <4> QED  BY <1>7, <1>8, <2>1, <4>1
    <3> QED  BY <3>1, <3>2
  <2>2. CASE store[k] = NoEntry /\ \A d \in Clients : \A i \in ChangesBy(d, k) : Awaits(d, i)
    BY <1>1, <2>1, <2>2
  <2>3. CASE \E d \in Clients : \E i \in ChangesBy(d, k) :
                /\ store[k] = Effect(f[i])
                /\ \A j \in ChangesBy(d, k) : j > i => Awaits(d, j)
    <3>1. PICK d \in Clients : \E i \in ChangesBy(d, k) :
             /\ store[k] = Effect(f[i])
             /\ \A j \in ChangesBy(d, k) : j > i => Awaits(d, j)
      BY <2>3
    <3> PICK i \in ChangesBy(d, k) : /\ store[k] = Effect(f[i])
                                     /\ \A j \in ChangesBy(d, k) : j > i => Awaits(d, j)
      BY <3>1
    <3>2. i \in ChangesBy(d, k)' /\ g[i] = f[i] /\ store'[k] = Effect(g[i])
      BY <1>1, <1>3, <1>4, <1>6 DEF Effect
    <3>3. \A j \in ChangesBy(d, k)' : j > i => Awaits(d, j)'
      BY <2>1
    <3> QED  BY <3>2, <3>3
  <2> QED  BY <1>1, <1>2, <1>10, <1>13, <2>2, <2>3 DEF RecordedInv
<1> QED  BY <1>2, <1>12, <1>13 DEF RecordedInv

(***************************************************************************)
(* A command that is executed is the last one that its client recorded.    *)
(***************************************************************************)
LEMMA UpdateIsRecorded ==
    ASSUME Types, CommandInv, RecordedInv, NEW c \in Clients, Update(c)
    PROVE  RecordedInv'
<1> SUFFICES ASSUME crashes' = 0 PROVE RecordedInv'
  BY DEF RecordedInv
<1>1. /\ pc[c] = "update" /\ pc' = [pc EXCEPT ![c] = "idle"]
      /\ store' = [store EXCEPT ![cmd[c].key] = Effect(cmd[c])]
      /\ UNCHANGED <<files, aofFile, cmd, crashes>>
  BY DEF Update, Goto, fileVars
<1>2. PICK f : f = files[aofFile]
  OBVIOUS
<1>3. \A d, k : ChangesBy(d, k)' = ChangesBy(d, k)
  BY <1>1 DEF ChangesBy
<1>4. \A d \in Clients \ {c} : \A i : Awaits(d, i) => Awaits(d, i)'
  <2>1. \A d \in Clients \ {c} : pc'[d] = pc[d]
    BY <1>1 DEF Types
  <2> QED  BY <1>1, <1>3, <2>1 DEF Awaits
<1>5. Restored' <=> Restored
  BY <1>1 DEF Restored
<1>6. PICK i \in DOMAIN f : Awaits(c, i)
  BY <1>1, <1>2 DEF RecordedInv
<1>7. PICK key \in Keys : key = cmd[c].key
  BY <1>1, CommandTypes DEF Types, CommandInv
<1>8. i \in ChangesBy(c, key) /\ f[i] = cmd[c] /\ \A j \in ChangesBy(c, key) : j <= i
  BY <1>2, <1>6, <1>7 DEF Awaits
<1>9. ASSUME NEW d \in Clients
      PROVE  /\ pc'[d] = "update" => \E j \in DOMAIN f : Awaits(d, j)'
             /\ pc'[d] \in {"restore", "install"} => Restored'
  <2>1. CASE d = c
    BY <1>1, <2>1 DEF Types
  <2>2. CASE d # c
    <3>1. pc'[d] = pc[d]
      BY <1>1, <2>2 DEF Types
    <3> QED  BY <1>1, <1>2, <1>4, <1>5, <2>2, <3>1 DEF RecordedInv
  <2> QED  BY <2>1, <2>2
<1>10. ASSUME ~ Restored', NEW k \in Keys
       PROVE  \/ /\ store'[k] = NoEntry
                 /\ \A d \in Clients : \A j \in ChangesBy(d, k) : Awaits(d, j)'
              \/ \E d \in Clients : \E j \in ChangesBy(d, k) :
                    /\ store'[k] = Effect(f[j])
                    /\ \A l \in ChangesBy(d, k) : l > j => Awaits(d, l)'
  <2>1. CASE k = key
    <3>1. store'[k] = Effect(f[i])
      BY <1>1, <1>7, <1>8, <2>1 DEF Types, States
    <3>2. \A j \in ChangesBy(c, k) : ~ j > i
      <4>1. \A j \in ChangesBy(c, k) : j \in Nat /\ i \in Nat
        <5>1. DOMAIN f = 1 .. Len(f) /\ Len(f) \in Nat
          BY <1>2 DEF Types
        <5> QED  BY <1>2, <1>6, <5>1 DEF ChangesBy
      <4> QED  BY <1>8, <2>1, <4>1
    <3> QED  BY <1>8, <2>1, <3>1, <3>2
  <2>2. CASE k # key
    <3>1. store'[k] = store[k]
      BY <1>1, <1>7, <2>2 DEF Types, States
    <3>2. ASSUME NEW d \in Clients, NEW j \in ChangesBy(d, k), Awaits(d, j)
          PROVE  Awaits(d, j)'
      <4>1. d # c
        <5>1. f[j].key = k
          BY <1>2 DEF ChangesBy
        <5>2. f[j] = cmd[d]
          BY <1>2, <3>2 DEF Awaits
        <5> QED  BY <1>7, <2>2, <5>1, <5>2
      <4> QED  BY <1>4, <3>2, <4>1
    <3>3. CASE store[k] = NoEntry /\ \A d \in Clients : \A j \in ChangesBy(d, k) : Awaits(d, j)
      BY <3>1, <3>2, <3>3
    <3>4. CASE \E d \in Clients : \E j \in ChangesBy(d, k) :
                  /\ store[k] = Effect(f[j])
                  /\ \A l \in ChangesBy(d, k) : l > j => Awaits(d, l)
      BY <3>1, <3>2, <3>4
    <3> QED  BY <1>1, <1>2, <1>5, <1>10, <3>3, <3>4 DEF RecordedInv
  <2> QED  BY <2>1, <2>2
<1> QED  BY <1>1, <1>2, <1>3, <1>9, <1>10 DEF RecordedInv

(***************************************************************************)
(* Every step keeps the file an explanation of the store.                  *)
(***************************************************************************)
LEMMA NextRecorded ==
    ASSUME Types, CommandInv, FilesApart, RecordedInv, [Next]_vars
    PROVE  RecordedInv'
<1>1. ASSUME NEW c \in Clients, CallUpdate(c) PROVE RecordedInv'
  <2>1. PICK k \in Keys :
           \/ Call(c, [op |-> "DEL", key |-> k, by |-> c], "update")
           \/ \E kind \in Kinds :
                 Call(c, [op |-> "WRITE", key |-> k,
                          entry |-> [kind |-> kind, by |-> c]], "update")
    BY <1>1 DEF CallUpdate
  <2>2. CASE Call(c, [op |-> "DEL", key |-> k, by |-> c], "update")
    <3>1. PICK m : m = [op |-> "DEL", key |-> k, by |-> c]
      OBVIOUS
    <3>2. m \in Commands /\ m.op = "DEL" /\ ClientOf(m) = c /\ Call(c, m, "update")
      BY <2>2, <3>1 DEF Commands, ClientOf
    <3> QED  BY <3>2, CallIsRecorded
  <2>3. ASSUME NEW kind \in Kinds,
               Call(c, [op |-> "WRITE", key |-> k, entry |-> [kind |-> kind, by |-> c]], "update")
        PROVE  RecordedInv'
    <3>1. PICK m : m = [op |-> "WRITE", key |-> k, entry |-> [kind |-> kind, by |-> c]]
      OBVIOUS
    <3>2. m \in Commands /\ m.op = "WRITE" /\ ClientOf(m) = c /\ Call(c, m, "update")
      BY <2>3, <3>1 DEF Commands, Entries, ClientOf
    <3> QED  BY <3>2, CallIsRecorded
  <2> QED  BY <2>1, <2>2, <2>3
<1>2. ASSUME NEW c \in Clients, CallSave(c) \/ CallRestore(c) \/ CallRewrite(c) PROVE RecordedInv'
  <2>1. PICK m \in Commands, label \in {"save", "restore", "rewrite"} :
           /\ Call(c, m, label) /\ m.op \notin {"WRITE", "DEL"}
           /\ label = "restore" => m.op = "RESTORE"
    BY <1>2 DEF CallSave, CallRestore, CallRewrite, Commands
  <2> QED  BY <2>1, CallIsRecorded
<1>3. ASSUME NEW c \in Clients, RestoreInstall(c) PROVE RecordedInv'
  <2>1. /\ pc[c] = "install" /\ pc' = [pc EXCEPT ![c] = "idle"]
        /\ UNCHANGED <<files, aofFile, cmd, crashes>>
    BY <1>3 DEF RestoreInstall, Goto, fileVars
  <2>2. \A d, k : ChangesBy(d, k)' = ChangesBy(d, k)
    BY <2>1 DEF ChangesBy
  <2>3. \A d \in Clients : pc'[d] = pc[d] \/ pc'[d] = "idle"
    BY <2>1 DEF Types
  <2>4. \A d \in Clients : \A i : pc'[d] = pc[d] /\ Awaits(d, i) => Awaits(d, i)'
    BY <2>1, <2>2 DEF Awaits
  <2>5. Restored' <=> Restored
    BY <2>1 DEF Restored
  <2>6. crashes = 0 => Restored
    BY <2>1 DEF RecordedInv
  <2> QED  BY <2>1, <2>3, <2>4, <2>5, <2>6 DEF RecordedInv
<1>4. ASSUME NEW c \in Clients, Rewrite(c) PROVE RecordedInv'
  <2>1. /\ UNCHANGED <<store, cmd, crashes, aofFile>> /\ files'[aofFile] = files[aofFile]
        /\ pc[c] \in {"rewrite", "rewriting"}
        /\ \/ pc' = pc \/ pc' = [pc EXCEPT ![c] = "rewriting"] \/ pc' = [pc EXCEPT ![c] = "idle"]
    <3>1. CASE RewriteOpen(c)
      BY <3>1 DEF RewriteOpen, CreateTemp, TempInode, Goto, Types, FilesApart
    <3>2. CASE RewriteKey(c)
      BY <3>2 DEF RewriteKey, Types, FilesApart
    <3>3. CASE RewriteFails(c) \/ RewriteRename(c)
      BY <3>3 DEF RewriteFails, RewriteRename, RewriteEnd, Goto
    <3> QED  BY <1>4, <3>1, <3>2, <3>3 DEF Rewrite
  <2>2. \A d \in Clients :
           /\ pc'[d] = "update" <=> pc[d] = "update"
           /\ pc'[d] \in {"restore", "install"} => pc[d] \in {"restore", "install"}
    BY <2>1 DEF Types
  <2> QED  BY <2>1, <2>2, KeepsRecorded
<1>5. CASE Aside
  <2>1. /\ UNCHANGED <<store, cmd, crashes, aofFile>> /\ files'[aofFile] = files[aofFile]
        /\ \A d \in Clients :
           /\ pc'[d] = "update" <=> pc[d] = "update"
           /\ pc'[d] \in {"restore", "install"} => pc[d] \in {"restore", "install"}
    BY <1>5, AsideChanges
  <2> QED  BY <2>1, KeepsRecorded
<1>6. CASE Crash
  <2>1. crashes' # 0
    BY <1>6 DEF Crash, Types
  <2> QED  BY <2>1 DEF RecordedInv
<1> QED  BY <1>1, <1>2, <1>3, <1>4, <1>5, <1>6, UpdateIsRecorded DEF Next, Restore, Aside
-----------------------------------------------------------------------------
(***************************************************************************)
(* A line written at the end of a file is one more line.                   *)
(***************************************************************************)
LEMMA PutAtEnd ==
    ASSUME NEW f \in Seq(Lines), NEW line \in Lines, NEW g, g = PutAt(f, Len(f) + 1, line)
    PROVE  /\ DOMAIN f = 1 .. Len(f) /\ Len(f) \in Nat
           /\ Len(g) = Len(f) + 1 /\ DOMAIN g = 1 .. Len(f) + 1
           /\ g[Len(f) + 1] = line
           /\ \A i \in 1 .. Len(f) : g[i] = f[i]
<1>1. PICK n \in Nat : n = Len(f) /\ DOMAIN f = 1 .. n
  OBVIOUS
<1>2. n + 1 \in Nat \ {0} /\ (IF n + 1 > n THEN n + 1 ELSE n) = n + 1
  OBVIOUS
<1>3. g \in Seq(Lines)
  BY <1>1, <1>2, PutAtIsFile
<1>4. g = [i \in 1 .. n + 1 |-> IF i = n + 1 THEN line ELSE IF i <= n THEN f[i] ELSE Hole]
  BY <1>1, <1>2 DEF PutAt
<1>5. DOMAIN g = 1 .. n + 1 /\ g[n + 1] = line /\ \A i \in 1 .. n : g[i] = f[i]
  BY <1>4
<1>6. Len(g) = n + 1
  BY <1>3, <1>5
<1> QED  BY <1>1, <1>5, <1>6

(***************************************************************************)
(* What has been written so far, with one more key.                        *)
(***************************************************************************)
LEMMA OneMoreKey ==
    ASSUME NEW f \in Seq(Lines), NEW ks \in SUBSET Keys, Records(f, ks),
           NEW k \in Keys \ ks, Record(k) \in Lines,
           NEW g, g = PutAt(f, Len(f) + 1, Record(k))
    PROVE  Records(g, ks \cup {k}) /\ Len(g) = Len(f) + 1
<1>1. PICK n \in Nat : n = Len(f)
  OBVIOUS
<1>2. /\ DOMAIN f = 1 .. n /\ DOMAIN g = 1 .. n + 1 /\ Len(g) = n + 1
      /\ g[n + 1] = Record(k) /\ \A i \in 1 .. n : g[i] = f[i]
  BY <1>1, PutAtEnd
<1>3. \A j : Record(j).key = j
  BY DEF Record
<1>4. /\ \A i \in 1 .. n : \E j \in ks : f[i] = Record(j)
      /\ \A j \in ks : \E i \in 1 .. n : f[i].key = j
      /\ \A i, j \in 1 .. n : f[i].key = f[j].key => i = j
  BY <1>2 DEF Records
<1>5. \A i \in 1 .. n + 1 : i = n + 1 \/ i \in 1 .. n
  OBVIOUS
<1>6. 1 .. n \subseteq 1 .. n + 1 /\ n + 1 \in 1 .. n + 1
  OBVIOUS
<1>7. \A i \in 1 .. n + 1 : \E j \in ks \cup {k} : g[i] = Record(j)
  BY ONLY <1>2, <1>4, <1>5
<1>8. \A j \in ks \cup {k} : \E i \in 1 .. n + 1 : g[i].key = j
  BY ONLY <1>2, <1>3, <1>4, <1>6
<1>9. ASSUME NEW i \in 1 .. n + 1, NEW j \in 1 .. n + 1, g[i].key = g[j].key PROVE i = j
  <2>1. \A a \in 1 .. n : g[a].key \in ks
    BY <1>2, <1>3, <1>4
  <2>2. g[n + 1].key = k
    BY <1>2, <1>3
  <2>3. CASE i \in 1 .. n /\ j \in 1 .. n
    BY <1>2, <1>4, <1>9, <2>3
  <2>4. CASE i = n + 1 /\ j \in 1 .. n
    BY <1>9, <2>1, <2>2, <2>4
  <2>5. CASE j = n + 1 /\ i \in 1 .. n
    BY <1>9, <2>1, <2>2, <2>5
  <2> QED  BY <1>5, <2>3, <2>4, <2>5
<1>10. Records(g, ks \cup {k})
  <2>1. \A i, j \in 1 .. n + 1 : g[i].key = g[j].key => i = j
    BY <1>9
  <2> QED  BY ONLY <1>2, <1>7, <1>8, <2>1 DEF Records
<1> QED  BY <1>1, <1>2, <1>10

(***************************************************************************)
(* A line written anywhere is the only line that can be wrong.             *)
(***************************************************************************)
LEMMA PutAtIsCurrent ==
    ASSUME NEW f \in Seq(Lines), Current(f), NEW n \in Nat, NEW k \in Present(store)
    PROVE  Current(PutAt(f, n + 1, Record(k)))
<1> DEFINE g == PutAt(f, n + 1, Record(k))
<1>1. PICK len \in Nat : len = Len(f) /\ DOMAIN f = 1 .. len
  OBVIOUS
<1>2. \A i \in DOMAIN g : g[i] = Record(k) \/ g[i] = Hole \/ (i \in DOMAIN f /\ g[i] = f[i])
  BY <1>1 DEF PutAt
<1> HIDE DEF g
<1>3. Current(g)
  BY <1>2 DEF Current
<1> QED  BY <1>3 DEF g

(***************************************************************************)
(* What is said of a file is said of the keys and the values of the store. *)
(***************************************************************************)
LEMMA SameStore ==
    ASSUME UNCHANGED store
    PROVE  /\ Present(store)' = Present(store)
           /\ \A f : Current(f) => Current(f)'
           /\ \A f, ks : Records(f, ks) => Records(f, ks)'
BY DEF Present, Current, Records, Record

(***************************************************************************)
(* Steps that leave the work of the rewriters alone.                       *)
(***************************************************************************)
LEMMA KeepsRewrite ==
    ASSUME RewriteInv, UNCHANGED <<store, tempPath>>,
           tempPath # NoFile => files'[tempPath] = files[tempPath],
           \A d \in Clients :
               /\ (pc'[d] = "rewriting") <=> (pc[d] = "rewriting")
               /\ pc[d] = "rewriting" => UNCHANGED <<fd[d], offset[d], todo[d]>>
    PROVE  RewriteInv'
<1>1. Present(store)' = Present(store)
  BY SameStore
<1>2. DoneIsRewritable'
  BY <1>1 DEF RewriteInv, DoneIsRewritable
<1>3. TempIsCurrent'
  <2> SUFFICES ASSUME tempPath' # NoFile, NEW c \in Clients, pc'[c] = "rewriting"
               PROVE  Current(files[tempPath])'
    BY DEF TempIsCurrent
  <2>1. Current(files[tempPath])
    BY DEF RewriteInv, TempIsCurrent
  <2>2. Current(files[tempPath])'
    BY ONLY UNCHANGED <<store, tempPath>>, files'[tempPath] = files[tempPath], <2>1
       DEF Current, Present, Record
  <2> QED  BY <2>2
<1>4. AloneIsWhole'
  <2> SUFFICES ASSUME NEW c \in Clients,
                      pc'[c] = "rewriting", AloneIn(c)', tempPath' # NoFile,
                      (\A k \in Present(store) : Rewritable(store[k].kind))'
               PROVE  /\ fd'[c] = tempPath' /\ offset'[c] = Len(files'[tempPath'])
                      /\ Records(files[tempPath], Present(store) \ todo[c])'
    BY DEF AloneIsWhole
  <2>1. AloneIn(c)
    BY DEF AloneIn
  <2>2. /\ fd[c] = tempPath /\ offset[c] = Len(files[tempPath])
        /\ Records(files[tempPath], Present(store) \ todo[c])
    BY <1>1, <2>1 DEF RewriteInv, AloneIsWhole
  <2>3. fd'[c] = fd[c] /\ offset'[c] = offset[c] /\ todo'[c] = todo[c]
    OBVIOUS
  <2>4. PICK f, ks : f = files[tempPath] /\ ks = Present(store) \ todo[c]
    OBVIOUS
  <2>5. f = files'[tempPath'] /\ ks = Present(store)' \ todo'[c]
    BY <1>1, <2>3, <2>4
  <2>6. Records(f, ks)'
    BY <2>2, <2>4, SameStore
  <2>7. Records(files[tempPath], Present(store) \ todo[c])'
    BY ONLY <2>5, <2>6 DEF Records
  <2> QED  BY <2>2, <2>3, <2>7
<1> QED  BY <1>2, <1>3, <1>4 DEF RewriteInv

(***************************************************************************)
(* One more key in the temporary file, if it is still the one that this    *)
(* rewriter has opened.                                                    *)
(***************************************************************************)
LEMMA KeyKeepsRewrite ==
    ASSUME Types, CommandInv, RewriteInv, NEW c \in Clients, RewriteKey(c)
    PROVE  RewriteInv'
<1> USE DEF Types
<1>1. /\ pc[c] = "rewriting" /\ UNCHANGED <<pc, store, tempPath, fd>>
      /\ offset' = [offset EXCEPT ![c] = @ + 1]
  BY DEF RewriteKey
<1>2. PICK k \in todo[c] :
         /\ Rewritable(store[k].kind)
         /\ files' = [files EXCEPT ![fd[c]] = PutAt(@, offset[c] + 1, Record(k))]
         /\ todo' = [todo EXCEPT ![c] = @ \ {k}]
  BY DEF RewriteKey
<1>3. /\ fd[c] \in Inodes /\ todo[c] \subseteq Present(store) /\ Present(store) \subseteq Keys
      /\ Present(store)' = Present(store)
  BY <1>1 DEF CommandInv, Present
<1>4. Record(k) \in Lines
  BY <1>2, <1>3 DEF Record, Lines, Commands, Present, States
<1>5. DoneIsRewritable'
  <2> SUFFICES ASSUME NEW d \in Clients, pc'[d] = "rewriting",
                      NEW j \in Present(store)', j \notin todo'[d]
               PROVE  Rewritable(store'[j].kind)
    BY DEF DoneIsRewritable
  <2>1. j = k \/ j \notin todo[d]
    BY <1>2
  <2> QED  BY <1>1, <1>2, <1>3, <2>1 DEF RewriteInv, DoneIsRewritable
<1>6. TempIsCurrent'
  <2> SUFFICES ASSUME tempPath # NoFile PROVE Current(files[tempPath])'
    BY <1>1 DEF TempIsCurrent
  <2>1. Current(files[tempPath]) /\ files[tempPath] \in Seq(Lines)
    BY <1>1 DEF RewriteInv, TempIsCurrent
  <2>2. \/ files'[tempPath] = files[tempPath]
        \/ files'[tempPath] = PutAt(files[tempPath], offset[c] + 1, Record(k))
    BY <1>2
  <2>3. Current(files'[tempPath])
    BY <1>2, <1>3, <2>1, <2>2, PutAtIsCurrent
  <2> QED  BY <1>1, <2>3 DEF Current, Present, Record
<1>7. AloneIsWhole'
  <2> SUFFICES ASSUME NEW d \in Clients,
                      pc'[d] = "rewriting", AloneIn(d)', tempPath' # NoFile,
                      (\A j \in Present(store) : Rewritable(store[j].kind))'
               PROVE  /\ fd'[d] = tempPath' /\ offset'[d] = Len(files'[tempPath'])
                      /\ Records(files[tempPath], Present(store) \ todo[d])'
    BY DEF AloneIsWhole
  <2>1. d = c /\ AloneIn(c)
    BY <1>1 DEF AloneIn
  <2>2. PICK f, ks : f = files[tempPath] /\ ks = Present(store) \ todo[c]
    OBVIOUS
  <2>3. fd[c] = tempPath /\ offset[c] = Len(f) /\ Records(f, ks)
    BY <1>1, <1>3, <2>1, <2>2 DEF RewriteInv, AloneIsWhole
  <2>4. f \in Seq(Lines) /\ ks \in SUBSET Keys /\ k \in Keys \ ks
    BY <1>1, <1>2, <1>3, <2>2, <2>3
  <2>5. PICK g : g = PutAt(f, Len(f) + 1, Record(k))
    OBVIOUS
  <2>6. Records(g, ks \cup {k}) /\ Len(g) = Len(f) + 1
    BY ONLY <1>4, <2>3, <2>4, <2>5, OneMoreKey
  <2>7. files'[tempPath'] = g
    BY <1>1, <1>2, <1>3, <2>2, <2>3, <2>5
  <2>8. PICK us : us = ks \cup {k}
    OBVIOUS
  <2>9. us = Present(store)' \ todo'[c]
    BY <1>2, <1>3, <2>2, <2>8
  <2>10. Records(g, us)'
    BY <1>1, <2>6, <2>8, SameStore
  <2>11. Records(files[tempPath], Present(store) \ todo[c])'
    BY ONLY <2>7, <2>9, <2>10 DEF Records
  <2> QED  BY <1>1, <2>1, <2>3, <2>6, <2>7, <2>11
<1> QED  BY <1>5, <1>6, <1>7 DEF RewriteInv

(***************************************************************************)
(* Every step keeps what the rewriters have written a part of the store.   *)
(***************************************************************************)
LEMMA NextRewrite ==
    ASSUME Types, LockInv, CommandInv, FilesApart, RewriteInv, [Next]_vars
    PROVE  RewriteInv'
<1> USE DEF Types
<1>1. ASSUME NEW c \in Clients, CallUpdate(c) \/ CallSave(c) \/ CallRestore(c) \/ CallRewrite(c)
      PROVE  RewriteInv'
  <2>1. PICK m \in Commands, label \in {"update", "save", "restore", "rewrite"} :
           Call(c, m, label)
    BY <1>1 DEF CallUpdate, CallSave, CallRestore, CallRewrite, Commands, Entries
  <2>2. /\ UNCHANGED <<store, tempPath, fd, offset, todo>>
        /\ tempPath # NoFile => files'[tempPath] = files[tempPath]
        /\ pc[c] = "idle" /\ pc' = [pc EXCEPT ![c] = label]
    BY <2>1 DEF Call, AppendToAOF, Goto, rewriteVars, FilesApart
  <2>3. \A d \in Clients : (pc'[d] = "rewriting") <=> (pc[d] = "rewriting")
    BY <2>2
  <2> QED  BY <2>2, <2>3, KeepsRewrite
<1>2. ASSUME NEW c \in Clients, Update(c) \/ RestoreInstall(c) PROVE RewriteInv'
  <2>1. active = {} /\ pc' = [pc EXCEPT ![c] = "idle"]
    BY <1>2 DEF Update, RestoreInstall, WriteReady, Goto
  <2>2. \A d \in Clients : pc'[d] # "rewriting"
    BY <2>1 DEF LockInv
  <2> QED  BY <2>2 DEF RewriteInv, DoneIsRewritable, TempIsCurrent, AloneIsWhole
<1>3. ASSUME NEW c \in Clients, RewriteOpen(c) PROVE RewriteInv'
  <2>1. /\ pc' = [pc EXCEPT ![c] = "rewriting"] /\ UNCHANGED store
        /\ \A d \in Clients : pc'[d] = "rewriting" => d = c \/ pc[d] = "rewriting"
    BY <1>3 DEF RewriteOpen, Goto
  <2>2. /\ fd'[c] = tempPath' /\ files'[tempPath'] = <<>> /\ offset'[c] = 0
        /\ todo' = [todo EXCEPT ![c] = Present(store)]
    BY <1>3 DEF RewriteOpen, CreateTemp, TempInode
  <2>3. Present(store)' \ todo'[c] = {}
    BY <2>1, <2>2 DEF Present
  <2>4. DOMAIN (files'[tempPath']) = {} /\ Len(files'[tempPath']) = 0
    BY <2>2
  <2>5. DoneIsRewritable'
    <3> SUFFICES ASSUME NEW d \in Clients, pc'[d] = "rewriting",
                        NEW j \in Present(store)' \ todo'[d]
                 PROVE  Rewritable(store'[j].kind)
      BY DEF DoneIsRewritable
    <3>1. d # c /\ pc[d] = "rewriting" /\ todo'[d] = todo[d] /\ j \in Present(store)
      BY <2>1, <2>2, <2>3, SameStore
    <3> QED  BY <2>1, <3>1 DEF RewriteInv, DoneIsRewritable
  <2>6. TempIsCurrent'
    BY <2>4 DEF TempIsCurrent, Current
  <2>7. Records(files[tempPath], Present(store) \ todo[c])'
    BY <2>3, <2>4 DEF Records
  <2>8. \A d \in Clients : AloneIn(d)' => d = c
    BY <2>1 DEF AloneIn
  <2>9. AloneIsWhole'
    BY <2>2, <2>4, <2>7, <2>8 DEF AloneIsWhole
  <2> QED  BY <2>5, <2>6, <2>9 DEF RewriteInv
<1>4. ASSUME NEW c \in Clients, RewriteKey(c) PROVE RewriteInv'
  BY <1>4, KeyKeepsRewrite
<1>5. ASSUME NEW c \in Clients, RewriteFails(c) \/ RewriteRename(c) PROVE RewriteInv'
  <2>1. /\ pc[c] = "rewriting" /\ UNCHANGED <<store, files>>
        /\ todo' = [todo EXCEPT ![c] = {}]
        /\ \A d \in Clients : pc'[d] = "rewriting" => d # c /\ pc[d] = "rewriting"
    BY <1>5 DEF RewriteFails, RewriteRename, RewriteEnd, Goto
  <2>2. Present(store)' = Present(store)
    BY <2>1, SameStore
  <2>3. DoneIsRewritable'
    BY <2>1, <2>2 DEF RewriteInv, DoneIsRewritable
  <2>4. CASE RewriteFails(c)
    <3>1. /\ UNCHANGED tempPath
          /\ \E k \in Present(store) : ~ Rewritable(store[k].kind)
      BY <2>1, <2>4 DEF RewriteFails, CommandInv
    <3>2. TempIsCurrent'
      <4> SUFFICES ASSUME tempPath # NoFile PROVE Current(files[tempPath])'
        BY <3>1 DEF TempIsCurrent
      <4>1. Current(files[tempPath])
        BY <2>1 DEF RewriteInv, TempIsCurrent
      <4> QED  BY <2>1, <3>1, <4>1 DEF Current, Present, Record
    <3>3. AloneIsWhole'
      BY <2>1, <2>2, <3>1 DEF AloneIsWhole
    <3> QED  BY <2>3, <3>2, <3>3 DEF RewriteInv
  <2>5. CASE RewriteRename(c)
    <3>1. tempPath' = NoFile
      BY <2>5 DEF RewriteRename
    <3> QED  BY <2>3, <3>1 DEF RewriteInv, TempIsCurrent, AloneIsWhole
  <2> QED  BY <1>5, <2>4, <2>5
<1>6. CASE Aside
  <2>1. /\ UNCHANGED <<store, files, tempPath, fd, offset>>
        /\ \A q \in Procs :
              /\ (pc'[q] = "rewriting") <=> (pc[q] = "rewriting")
              /\ pc[q] = "rewriting" => todo'[q] = todo[q]
    BY <1>6, AsideChanges
  <2> QED  BY <2>1, KeepsRewrite
<1>7. CASE Crash
  BY <1>7 DEF Crash, RewriteInv, DoneIsRewritable, TempIsCurrent, AloneIsWhole
<1> QED  BY <1>1, <1>2, <1>3, <1>4, <1>5, <1>6, <1>7 DEF Next, Restore, Rewrite, Aside
-----------------------------------------------------------------------------
(***************************************************************************)
(* Initially every goroutine rests and both locks are free.                *)
(***************************************************************************)
LEMMA InitIInv == Init => IInv
<1> SUFFICES ASSUME Init PROVE IInv
  OBVIOUS
<1> USE DEF Init, MutexInit
<1>1. TypeOK
  BY DEF TypeOK, Types, MutexTypeOK, IdleHoldsNothing, Empty, States, Commands, Lines
<1>2. LockInv /\ SnapshotMutexInv /\ CommandInv
  BY DEF LockInv, SnapshotMutexInv, CommandInv
<1>3. EncodeInv /\ InstallInv /\ SnapshotOfOneMoment
  BY DEF EncodeInv, InstallInv, SnapshotOfOneMoment
<1>4. FilesApart /\ RewriteInv
  BY DEF FilesApart, RewriteInv, DoneIsRewritable, TempIsCurrent, AloneIsWhole
<1>5. RecordedInv
  <2>1. files[aofFile] = <<>> /\ DOMAIN <<>> = {}
    OBVIOUS
  <2>2. \A c \in Clients, k \in Keys : ChangesBy(c, k) = {}
    BY <2>1 DEF ChangesBy
  <2>3. \A c \in Clients : pc[c] = "idle"
    BY PersistenceProcs
  <2>4. \A k \in Keys : store[k] = NoEntry
    BY DEF Empty
  <2> QED  BY <2>2, <2>3, <2>4 DEF RecordedInv
<1> QED  BY <1>1, <1>2, <1>3, <1>4, <1>5 DEF IInv

(***************************************************************************)
(* The parts of the invariant carry each other through a step.             *)
(***************************************************************************)
LEMMA NextIInv == IInv /\ [Next]_vars => IInv'
<1> SUFFICES ASSUME IInv, [Next]_vars PROVE IInv'
  OBVIOUS
<1> USE DEF IInv, TypeOK
<1>1. Types'
  BY NextTypes
<1>2. LockInv' /\ SnapshotMutexInv'
  BY NextLocks
<1>3. IdleHoldsNothing'
  <2> SUFFICES ASSUME NEW p \in Procs, pc'[p] = "idle"
               PROVE  p \notin active' \cup blocked' /\ p # writer' /\ p # snapshotMutex'
    BY DEF IdleHoldsNothing
  <2>1. p \notin active' /\ p \notin blocked'
    BY <1>2 DEF LockInv
  <2>2. p # writer'
    BY <1>2 DEF LockInv
  <2>3. p # snapshotMutex'
    BY <1>2 DEF SnapshotMutexInv
  <2> QED  BY <2>1, <2>2, <2>3
<1>4. CommandInv'
  BY NextCommandInv
<1>5. EncodeInv' /\ InstallInv' /\ SnapshotOfOneMoment'
  BY NextSnapshotInv
<1>6. FilesApart' /\ RecordedInv' /\ RewriteInv'
  BY NextFilesApart, NextRecorded, NextRewrite
<1> QED  BY <1>1, <1>2, <1>3, <1>4, <1>5, <1>6

(***************************************************************************)
(* Both locks, the commands in hand, what a save has encoded and what a    *)
(* restore has read stay in step with the store and the snapshot.          *)
(***************************************************************************)
THEOREM Invariance == Spec => []IInv
BY InitIInv, NextIInv, PTL DEF Spec

(* Whoever is done with a command has left both locks, also after an error.*)
THEOREM TypeCorrect == Spec => []TypeOK
<1>1. IInv => TypeOK
  BY DEF IInv
<1> QED  BY <1>1, Invariance, PTL

(***************************************************************************)
(* A snapshot that can be read is the store at which the last save began,  *)
(* whatever crashes and errors there were.                                 *)
(***************************************************************************)
THEOREM OneMoment == Spec => []SnapshotOfOneMoment
<1>1. IInv => SnapshotOfOneMoment
  BY DEF IInv
<1> QED  BY <1>1, Invariance, PTL

(***************************************************************************)
(* A RESTORE installs the snapshot that is on the disk when it does.       *)
(***************************************************************************)
THEOREM RestoreInstalls == Spec => RestoreInstallsSnapshot
<1>1. ASSUME IInv, [Next]_vars, NEW c \in Clients,
             pc[c] = "install", pc'[c] = "idle", crashes' = crashes
      PROVE  snapshot \notin {NoImage, Torn} /\ store' = Decoded(snapshot)
  <2> USE DEF IInv, TypeOK, Types
  <2>1. snapshot \notin {NoImage, Torn} /\ image[c] = Decoded(snapshot)
    BY <1>1 DEF InstallInv
  <2>2. ASSUME NEW d \in Clients, RestoreInstall(d) PROVE store' = image[c]
    <3>1. d = c
      BY <1>1, <2>2 DEF RestoreInstall, Goto
    <3> QED  BY <2>2, <3>1 DEF RestoreInstall
  <2>3. ~ Crash
    BY <1>1 DEF Crash
  <2>4. ASSUME NEW d \in Clients,
               \/ CallUpdate(d) \/ CallSave(d) \/ CallRestore(d) \/ CallRewrite(d) \/ Update(d)
               \/ RestoreRead(d) \/ Rewrite(d)
        PROVE  FALSE
    BY <1>1, <2>4 DEF CallUpdate, CallSave, CallRestore, CallRewrite, Call, Update,
       RestoreRead,
       Rewrite, RewriteOpen, RewriteKey, RewriteFails, RewriteRename, RewriteEnd, Goto
  <2>5. ASSUME NEW p \in Procs, WakeSaver(p) \/ Lock(p) \/ Save(p) PROVE FALSE
    BY <1>1, <2>5 DEF WakeSaver, Lock, procVars, Save, SaveBegin, SaveCreate, SaveEncode,
       SaveWrite, SaveFails, SaveEnd, Goto
  <2>6. ~ UNCHANGED vars
    BY <1>1 DEF vars, procVars
  <2> QED  BY <1>1, <2>1, <2>2, <2>3, <2>4, <2>5, <2>6 DEF Next, Restore
<1>2. IInv /\ [Next]_vars =>
         [\A c \in Clients :
             pc[c] = "install" /\ pc'[c] = "idle" /\ crashes' = crashes
                => snapshot \notin {NoImage, Torn} /\ store' = Decoded(snapshot)]_vars
  BY <1>1
<1> QED  BY <1>2, Invariance, PTL DEF Spec, RestoreInstallsSnapshot

(***************************************************************************)
(* While nobody is at work, a key holds what the last line of a client for *)
(* it made of it: in a process that neither crashed nor restored.          *)
(***************************************************************************)
THEOREM FileExplains == Spec => []FileExplainsStore
<1>1. IInv => FileExplainsStore
  <2> SUFFICES ASSUME IInv, crashes = 0, ~ Restored, \A c \in Clients : pc[c] = "idle",
                      NEW k \in Keys
               PROVE  \/ store[k] = NoEntry /\ \A c \in Clients : ChangesBy(c, k) = {}
                      \/ \E c \in Clients : \E i \in ChangesBy(c, k) :
                            /\ \A j \in ChangesBy(c, k) : j <= i
                            /\ store = Replayed(store, files[aofFile][i])
    BY DEF FileExplainsStore
  <2>1. \A c \in Clients : \A i : ~ Awaits(c, i)
    BY DEF Awaits
  <2>2. CASE store[k] = NoEntry /\ \A c \in Clients : \A i \in ChangesBy(c, k) : Awaits(c, i)
    BY <2>1, <2>2
  <2>3. CASE \E c \in Clients : \E i \in ChangesBy(c, k) :
                /\ store[k] = Effect(files[aofFile][i])
                /\ \A j \in ChangesBy(c, k) : j > i => Awaits(c, j)
    <3>1. PICK c \in Clients : \E i \in ChangesBy(c, k) :
                                  /\ store[k] = Effect(files[aofFile][i])
                                  /\ \A j \in ChangesBy(c, k) : j > i => Awaits(c, j)
      BY <2>3
    <3> PICK i \in ChangesBy(c, k) : /\ store[k] = Effect(files[aofFile][i])
                                     /\ \A j \in ChangesBy(c, k) : j > i => Awaits(c, j)
      BY <3>1
    <3>2. ChangesBy(c, k) \subseteq Nat
      <4>1. DOMAIN files[aofFile] \subseteq Nat
        BY DEF IInv, TypeOK, Types
      <4> QED  BY <4>1 DEF ChangesBy
    <3>3. \A j \in ChangesBy(c, k) : j <= i
      BY <2>1, <3>2
    <3>4. IsChange(files[aofFile][i]) /\ files[aofFile][i].key = k
      BY DEF ChangesBy
    <3>5. store = Replayed(store, files[aofFile][i])
      BY <3>4 DEF Replayed, IInv, TypeOK, Types, States
    <3> QED  BY <3>3, <3>5
  <2> QED  BY <2>2, <2>3 DEF IInv, RecordedInv
<1> QED  BY <1>1, Invariance, PTL

(***************************************************************************)
(* A file that records each key of the store once is replayed to the store *)
(* and has as many lines as the store has keys.                            *)
(***************************************************************************)
LEMMA WholeFile ==
    ASSUME Types, NEW f \in Seq(Lines), Records(f, Present(store))
    PROVE  Replay(f) = store /\ Len(f) = Cardinality(Present(store))
<1>1. PICK n \in Nat : n = Len(f) /\ DOMAIN f = 1 .. n
  OBVIOUS
<1>2. store \in [Keys -> Entries \cup {NoEntry}] /\ Present(store) \subseteq Keys
  BY DEF Types, States, Present
<1>3. ASSUME NEW i \in 1 .. n
      PROVE  /\ f[i].key \in Present(store) /\ f[i].key \in Keys
             /\ IsChange(f[i]) /\ Effect(f[i]) = store[f[i].key]
  <2>1. PICK k \in Present(store) : f[i] = [op |-> "WRITE", key |-> k, entry |-> store[k]]
    BY <1>1 DEF Records, Record
  <2>2. store[k] \in Entries /\ k \in Keys
    BY <1>2, <2>1 DEF Present
  <2>3. f[i] # Hole
    BY <2>1, <2>2 DEF Commands
  <2> QED  BY <2>1, <2>2, <2>3 DEF IsChange, Effect
<1>4. /\ \A k \in Present(store) : \E i \in 1 .. n : f[i].key = k
      /\ \A i, j \in 1 .. n : f[i].key = f[j].key => i = j
  BY <1>1 DEF Records
<1>5. Len(f) = Cardinality(Present(store))
  <2> DEFINE keyOf == [i \in 1 .. n |-> f[i].key]
  <2>1. keyOf \in Bijection(1 .. n, Present(store))
    BY <1>3, <1>4 DEF Bijection, Injection, Surjection, IsInjective
  <2> HIDE DEF keyOf
  <2> QED  BY <1>1, <2>1, FS_CountingElements DEF ExistsBijection
<1> DEFINE Value(r, i) == IF i = 0 THEN Empty ELSE Replayed(r[i - 1], f[i])
           Equation(r) == r = [i \in 0 .. Len(f) |-> Value(r, i)]
           replay == CHOOSE r : Equation(r)
           so == [i \in 0 .. n |-> [k \in Keys |-> IF \E j \in 1 .. i : f[j].key = k
                                                   THEN store[k] ELSE NoEntry]]
<1>6. Replay(f) = replay[n]
  BY <1>1, Zenon DEF Replay
<1>7. so[0] = Empty /\ \A i \in 1 .. n : so[i] = Replayed(so[i - 1], f[i])
  <2>1. so[0] = Empty
    BY DEF Empty
  <2>2. ASSUME NEW i \in 1 .. n PROVE so[i] = Replayed(so[i - 1], f[i])
    <3>1. PICK k \in Keys : k = f[i].key
      BY <1>3
    <3>2. i - 1 \in 0 .. n /\ i \in 0 .. n /\ \A j : j \in 1 .. i <=> j = i \/ j \in 1 .. i - 1
      OBVIOUS
    <3>3. Replayed(so[i - 1], f[i]) = [so[i - 1] EXCEPT ![k] = store[k]]
      <4> HIDE DEF so
      <4> QED  BY <1>3, <3>1 DEF Replayed
    <3>4. so[i] = [so[i - 1] EXCEPT ![k] = store[k]]
      BY <3>1, <3>2
    <3> QED  BY <3>3, <3>4
  <2> QED  BY <2>1, <2>2
<1>8. Equation(replay)
  <2>1. so = [i \in 0 .. n |-> so[i]]
    OBVIOUS
  <2>2. \A i \in 0 .. n : so[i] = Value(so, i)
    <3> HIDE DEF so
    <3> QED  BY <1>7
  <2>3. Equation(so)
    <3> HIDE DEF so, Value
    <3> QED  BY <1>1, <2>1, <2>2
  <2> HIDE DEF Equation, so
  <2> QED  BY <2>3
<1> HIDE DEF replay
<1>9. replay[0] = Empty /\ \A i \in 1 .. n : replay[i] = Replayed(replay[i - 1], f[i])
  BY <1>1, <1>8
<1> DEFINE P == {i \in 0 .. n : replay[i] = so[i]}
<1>10. \A i \in 0 .. n : i \in P
  <2> HIDE DEF so
  <2>1. 0 \in P
    BY <1>7, <1>9
  <2>2. ASSUME NEW i \in 0 .. n - 1, i \in P PROVE i + 1 \in P
    <3>1. i + 1 \in 1 .. n /\ i + 1 - 1 = i /\ i + 1 \in 0 .. n
      OBVIOUS
    <3> QED  BY <1>7, <1>9, <2>2, <3>1
  <2> HIDE DEF P
  <2> QED  BY <2>1, <2>2, AllUpTo
<1>11. so[n] = store
  <2>1. so[n] = [k \in Keys |-> IF \E j \in 1 .. n : f[j].key = k THEN store[k] ELSE NoEntry]
    BY ONLY n \in Nat
  <2>2. \A k \in Keys : (\E j \in 1 .. n : f[j].key = k) <=> store[k] # NoEntry
    BY <1>3, <1>4 DEF Present
  <2> HIDE DEF so
  <2> QED  BY <1>2, <2>1, <2>2
<1>12. n \in P
  <2> HIDE DEF P
  <2> QED  BY <1>10
<1> HIDE DEF so
<1> QED  BY <1>5, <1>6, <1>11, <1>12

(***************************************************************************)
(* Only the end of a rewrite gives the name aof.txt to another file.       *)
(***************************************************************************)
LEMMA OnlyRename ==
    ASSUME [Next]_vars, aofPath' # aofPath
    PROVE  \E c \in Clients : RewriteRename(c)
<1>1. ASSUME NEW c \in Clients,
             \/ CallUpdate(c) \/ CallSave(c) \/ CallRestore(c) \/ CallRewrite(c)
             \/ Update(c) \/ Restore(c)
      PROVE  FALSE
  BY <1>1 DEF CallUpdate, CallSave, CallRestore, CallRewrite, Call, Update, Restore,
     RestoreRead, RestoreInstall, fileVars
<1>2. ASSUME NEW c \in Clients, RewriteOpen(c) \/ RewriteKey(c) \/ RewriteFails(c) PROVE FALSE
  BY <1>2 DEF RewriteOpen, RewriteKey, RewriteFails
<1>3. ASSUME NEW p \in Procs, WakeSaver(p) \/ Lock(p) \/ Save(p) PROVE FALSE
  BY <1>3 DEF WakeSaver, Lock, Save, SaveBegin, SaveCreate, SaveEncode, SaveWrite,
     SaveFails, SaveEnd, fileVars
<1>4. ~ Crash /\ ~ UNCHANGED vars
  BY DEF Crash, vars, fileVars
<1> QED  BY <1>1, <1>2, <1>3, <1>4 DEF Next, Rewrite

(***************************************************************************)
(* Whatever other rewrites do, fail to do or are doing, the file that one  *)
(* puts in the place of aof.txt has no line that is not current; and if it *)
(* is the only one at work when it does, the file is the whole store, each *)
(* key once.                                                               *)
(***************************************************************************)
THEOREM RewritesCurrent == Spec => RewriteIsCurrent
<1>1. ASSUME IInv, [Next]_vars, aofPath' # aofPath
      PROVE  /\ Current(files'[aofPath'])
             /\ (\E c \in Clients : AloneIn(c)) =>
                   /\ Replay(files'[aofPath']) = store'
                   /\ Len(files'[aofPath']) = Cardinality(Present(store'))
  <2> USE DEF IInv, TypeOK, Types
  <2>1. PICK c \in Clients : RewriteRename(c)
    BY <1>1, OnlyRename
  <2>2. /\ pc[c] = "rewriting" /\ todo[c] = {} /\ UNCHANGED <<store, files>>
        /\ aofPath' = IF tempPath = NoFile THEN aofPath ELSE tempPath
    BY <2>1 DEF RewriteRename, RewriteEnd
  <2>3. aofPath' = tempPath /\ tempPath \in Inodes
    BY <1>1, <2>2
  <2>4. PICK f : f = files[tempPath] /\ f \in Seq(Lines)
    BY <1>1, <2>3
  <2>5. f = files'[aofPath']
    BY <2>2, <2>3, <2>4
  <2>6. Current(f)
    BY <1>1, <2>2, <2>3, <2>4 DEF RewriteInv, TempIsCurrent
  <2>7. ASSUME NEW d \in Clients, AloneIn(d)
        PROVE  Replay(f) = store /\ Len(f) = Cardinality(Present(store))
    <3>1. AloneIn(c)
      BY <2>2, <2>7 DEF AloneIn
    <3>2. \A k \in Present(store) : Rewritable(store[k].kind)
      BY <1>1, <2>2 DEF RewriteInv, DoneIsRewritable
    <3>3. Records(files[tempPath], Present(store) \ todo[c])
      BY <1>1, <2>2, <2>3, <3>1, <3>2 DEF RewriteInv, AloneIsWhole
    <3>4. Present(store) \ todo[c] = Present(store)
      BY <2>2
    <3>5. Records(f, Present(store))
      BY <2>4, <3>3, <3>4 DEF Records
    <3> QED  BY <1>1, <2>4, <3>5, WholeFile
  <2> QED  BY <2>2, <2>5, <2>6, <2>7
<1>2. IInv /\ [Next]_vars =>
         [aofPath' # aofPath =>
             /\ Current(files'[aofPath'])
             /\ (\E c \in Clients : AloneIn(c)) =>
                   /\ Replay(files'[aofPath']) = store'
                   /\ Len(files'[aofPath']) = Cardinality(Present(store'))]_vars
  BY <1>1
<1> QED  BY <1>2, Invariance, PTL DEF Spec, RewriteIsCurrent
==============================================================================
