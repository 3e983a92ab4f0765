------------------------------ MODULE RWMutex ------------------------------
(***************************************************************************)
(* The readers-writer lock Tealis.Mu (tealis.go:16), a Go sync.RWMutex.    *)
(* The library is not part of the repository: the module models what the   *)
(* code in internal/storage sees of it.                                    *)
(*                                                                         *)
(*   - A writer first announces itself (it acquires the mutex that orders  *)
(*     writers and makes readerCount negative) and then waits for the      *)
(*     readers that were active at that moment.                            *)
(*   - A reader that arrives after a writer was announced is queued and is *)
(*     admitted when that writer unlocks: a writer is never overtaken.     *)
(*   - A goroutine that holds the lock and calls Lock waits for itself: the*)
(*     lock is neither reentrant nor upgradable.                           *)
(***************************************************************************)
EXTENDS FiniteSets

CONSTANT Procs    \* the goroutines that use the lock

VARIABLES
    active,       \* the goroutines that hold a read lock
    blocked,      \* the goroutines queued in RLock behind an announced writer
    writer        \* the announced writer, or NoProc

mutexVars == <<active, blocked, writer>>

NoProc == "no goroutine"

ASSUME NoProcAssumption == NoProc \notin Procs

MutexInit == active = {} /\ blocked = {} /\ writer = NoProc

MutexTypeOK == /\ active \in SUBSET Procs
               /\ blocked \in SUBSET Procs
               /\ writer \in Procs \cup {NoProc}

(***************************************************************************)
(* RLock enters at once, or queues when a writer has been announced.       *)
(***************************************************************************)
RLock(p) == /\ active' = IF writer = NoProc THEN active \cup {p} ELSE active
            /\ blocked' = IF writer = NoProc THEN blocked ELSE blocked \cup {p}
            /\ UNCHANGED writer

(* Mutant: RUnlock is forgotten.                                           *)
RUnlockMissing(p) == UNCHANGED mutexVars

RUnlock(p) == /\ active' = active \ {p}
              /\ UNCHANGED <<blocked, writer>>

(***************************************************************************)
(* Lock is Announce, and then waiting for WriteReady.                      *)
(***************************************************************************)
Announce(p) == /\ writer = NoProc
               /\ writer' = p
               /\ UNCHANGED <<active, blocked>>

(* Mutant: a writer does not wait for the readers inside.                  *)
WriteReadyAtOnce(p) == writer = p

WriteReady(p) == writer = p /\ active = {}

(* Mutant: Unlock forgets the queued readers.                              *)
UnlockAdmitsNobody == /\ writer' = NoProc
                      /\ UNCHANGED <<active, blocked>>

(***************************************************************************)
(* Unlock admits every queued reader and lets the next writer announce.    *)
(***************************************************************************)
Unlock == /\ writer' = NoProc
          /\ active' = active \cup blocked
          /\ blocked' = {}
=============================================================================
