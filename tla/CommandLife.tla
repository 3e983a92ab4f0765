----------------------------- MODULE CommandLife -----------------------------
(***************************************************************************)
(* What becomes of a command that a client sends: it is executed at most   *)
(* once, directly or after a stay in a queue, or it is dropped, and what   *)
(* is executed or dropped never comes back.  Transactions is shown to      *)
(* implement it whatever the clients do to each other's transactions.      *)
(***************************************************************************)
EXTENDS Sequences

CONSTANT Ids        \* the identities of the commands

VARIABLES
    status,         \* where each command is
    log             \* the commands that were executed, in order

Init == status = [d \in Ids |-> "new"] /\ log = <<>>

Send(d) == /\ status[d] = "new"
           /\ status' = [status EXCEPT ![d] = "sent"]
           /\ UNCHANGED log

Queue(d) == /\ status[d] = "sent"
            /\ status' = [status EXCEPT ![d] = "queued"]
            /\ UNCHANGED log

Execute(d) == /\ status[d] \in {"sent", "queued"}
              /\ status' = [status EXCEPT ![d] = "done"]
              /\ log' = Append(log, d)

Drop(D) == /\ \A d \in D : status[d] \in {"sent", "queued"}
           /\ status' = [d \in Ids |-> IF d \in D THEN "gone" ELSE status[d]]
           /\ UNCHANGED log

Next == \/ \E d \in Ids : Send(d) \/ Queue(d) \/ Execute(d)
        \/ \E D \in SUBSET Ids : Drop(D)

Spec == Init /\ [][Next]_<<status, log>>
=============================================================================
