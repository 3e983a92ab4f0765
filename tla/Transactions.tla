---------------------------- MODULE Transactions ----------------------------
(***************************************************************************)
(* MULTI, EXEC and DISCARD: the dispatch of ProcessCommand (handler.go)    *)
(* and the transaction operations of tealis.go, run by one goroutine per   *)
(* connection.                                                             *)
(*                                                                         *)
(* Each client has a queue of its own in Tealis.Transactions, under the    *)
(* lock Tealis.Mu.  Whether commands are queued at all is decided by the   *)
(* one flag Tealis.multi, which every goroutine reads, and EXEC clears,    *)
(* without the lock.  A section of the lock is one step here (Keyspace     *)
(* justifies it); the steps of different goroutines interleave between     *)
(* the sections.  A DATA command stands for every command that is neither  *)
(* MULTI, EXEC nor DISCARD, and its effect on the store for an entry of    *)
(* log.                                                                    *)
(***************************************************************************)
EXTENDS Naturals, Sequences, Functions

CONSTANTS
    Conns,          \* the connections, each served by a goroutine
    ClientIds,      \* the client IDs
    IdOf,           \* the client ID of each connection; all HTTP requests have one
    None,           \* no transaction, no batch
    MaxSent         \* bound of the model: how many commands each connection sends

VARIABLES
    transactions,   \* Tealis.Transactions: client ID -> queued commands
    multi,          \* Tealis.multi
    pc,             \* where each goroutine is
    current,        \* the command ProcessCommand works on
    batch,          \* what an EXEC still has to run: commandsToExecute
    sent,           \* how many commands each connection has sent
    controllers,    \* the connections that have sent a MULTI, EXEC or DISCARD
    log,            \* the DATA commands that took effect, in order
    session,        \* what the client takes for its open transaction: the
                    \* commands it sent since its MULTI was answered +OK
    refused         \* the client's last command was answered with an error

flagVars == <<transactions, multi>>
procVars == <<pc, current, batch>>
clientVars == <<sent, controllers, session, refused>>
vars == <<flagVars, procVars, log, clientVars>>

Kinds == {"MULTI", "EXEC", "DISCARD", "DATA"}
Commands == [kind : Kinds, conn : Conns, seq : Nat]

ASSUME ConnsAssumption == IdOf \in [Conns -> ClientIds]
ASSUME BoundAssumption == MaxSent \in [Conns -> Nat]
ASSUME NoneAssumption == None \notin Commands /\ None \notin Seq(Commands)

Init == /\ transactions = [i \in ClientIds |-> None]
        /\ multi = FALSE
        /\ pc = [c \in Conns |-> "idle"]
        /\ current = [c \in Conns |-> None]
        /\ batch = [c \in Conns |-> None]
        /\ sent = [c \in Conns |-> 0]
        /\ controllers = {}
        /\ log = <<>>
        /\ session = [c \in Conns |-> None]
        /\ refused = [c \in Conns |-> FALSE]

Goto(c, label) == pc' = [pc EXCEPT ![c] = label]

(***************************************************************************)
(* A client sends its next command.  One that is gone is one that sends    *)
(* nothing more: the cleanup of its connection (main.go:165-171) does not  *)
(* touch its transaction.                                                  *)
(***************************************************************************)
Send(c) == /\ pc[c] = "idle"
           /\ sent[c] < MaxSent[c]
           /\ sent' = [sent EXCEPT ![c] = @ + 1]
           /\ \E kind \in Kinds :
                 LET m == [kind |-> kind, conn |-> c, seq |-> sent[c] + 1]
                 IN  /\ current' = [current EXCEPT ![c] = m]
                     /\ controllers' = IF kind = "DATA" THEN controllers
                                       ELSE controllers \cup {c}
                     /\ session' = IF kind \in {"MULTI", "DATA"} /\ session[c] # None
                                   THEN [session EXCEPT ![c] = Append(@, m)]
                                   ELSE session
           /\ refused' = [refused EXCEPT ![c] = FALSE]
           /\ Goto(c, "dispatch")
           /\ UNCHANGED <<flagVars, batch, log>>

(* Mutant: the flag is not consulted.                                      *)
DispatchAlways(c) == /\ pc[c] = "dispatch"
                     /\ Goto(c, "run")
                     /\ UNCHANGED <<flagVars, current, batch, log, clientVars>>

(***************************************************************************)
(* handler.go:22 reads the flag without the lock.                          *)
(***************************************************************************)
Dispatch(c) == /\ pc[c] = "dispatch"
               /\ Goto(c, IF multi /\ current[c].kind \notin {"EXEC", "DISCARD"}
                          THEN "append" ELSE "run")
               /\ UNCHANGED <<flagVars, current, batch, log, clientVars>>

(***************************************************************************)
(* ProcessCommand returns: to the client, or to the loop of EXEC.          *)
(***************************************************************************)
Return(c, error) ==
    /\ Goto(c, IF batch[c] = None THEN "idle" ELSE "exec")
    /\ refused' = IF batch[c] = None THEN [refused EXCEPT ![c] = error] ELSE refused

(* Mutant: the command goes to the front of the queue.                     *)
AppendToFront(c) ==
    LET i == IdOf[c]
    IN  /\ pc[c] = "append"
        /\ transactions' = IF transactions[i] = None THEN transactions
                           ELSE [transactions EXCEPT ![i] = <<current[c]>> \o @]
        /\ Return(c, transactions[i] = None)
        /\ UNCHANGED <<multi, current, batch, log, sent, controllers, session>>

(* Mutant: a queued command is executed at once, too.                      *)
AppendToAndRun(c) ==
    /\ pc[c] = "append"
    /\ transactions[IdOf[c]] # None
    /\ transactions' = [transactions EXCEPT ![IdOf[c]] = Append(@, current[c])]
    /\ Goto(c, "run")
    /\ UNCHANGED <<multi, current, batch, log, clientVars>>

AppendTo(c) ==
    LET i == IdOf[c]
    IN  /\ pc[c] = "append"
        /\ transactions' = IF transactions[i] = None THEN transactions
                           ELSE [transactions EXCEPT ![i] = Append(@, current[c])]
        /\ Return(c, transactions[i] = None)
        /\ UNCHANGED <<multi, current, batch, log, sent, controllers, session>>

Running(c, kind) == pc[c] = "run" /\ current[c].kind = kind

Data(c) == /\ Running(c, "DATA")
           /\ log' = Append(log, current[c])
           /\ Return(c, FALSE)
           /\ UNCHANGED <<flagVars, current, batch, sent, controllers, session>>

(***************************************************************************)
(* MULTI starts an empty transaction, whatever the client had queued.  The *)
(* answer depends on a second look at the flag, after the section.         *)
(***************************************************************************)
Multi(c) == /\ Running(c, "MULTI")
            /\ transactions' = [transactions EXCEPT ![IdOf[c]] = <<>>]
            /\ multi' = TRUE
            /\ Goto(c, "multiReply")
            /\ UNCHANGED <<current, batch, log, clientVars>>

MultiReply(c) == /\ pc[c] = "multiReply"
                 /\ session' = IF multi /\ batch[c] = None
                               THEN [session EXCEPT ![c] = <<>>] ELSE session
                 /\ Return(c, ~ multi)
                 /\ UNCHANGED <<flagVars, current, batch, log, sent, controllers>>

(* Mutant: EXEC leaves the flag set while it runs the commands.            *)
ExecClearMissing(c) == /\ pc[c] = "execClear"
                       /\ Goto(c, "exec")
                       /\ UNCHANGED <<flagVars, current, batch, log, clientVars>>

(***************************************************************************)
(* EXEC takes the queue under the lock, clears the flag without it, and    *)
(* then hands the commands to ProcessCommand, which looks at the flag      *)
(* again.                                                                  *)
(***************************************************************************)
ExecTake(c) ==
    LET i == IdOf[c]
    IN  /\ Running(c, "EXEC")
        /\ IF transactions[i] = None
           THEN /\ Return(c, TRUE)
                /\ session' = [session EXCEPT ![c] = None]
                /\ UNCHANGED <<transactions, batch>>
           ELSE /\ batch' = [batch EXCEPT ![c] = transactions[i]]
                /\ transactions' = [transactions EXCEPT ![i] = None]
                /\ Goto(c, "execClear")
                /\ UNCHANGED <<session, refused>>
        /\ UNCHANGED <<multi, current, log, sent, controllers>>

ExecClear(c) == /\ pc[c] = "execClear"
                /\ multi' = FALSE
                /\ Goto(c, "exec")
                /\ UNCHANGED <<transactions, current, batch, log, clientVars>>

ExecNext(c) == /\ pc[c] = "exec"
               /\ batch[c] # <<>>
               /\ current' = [current EXCEPT ![c] = Head(batch[c])]
               /\ batch' = [batch EXCEPT ![c] = Tail(@)]
               /\ Goto(c, "dispatch")
               /\ UNCHANGED <<flagVars, log, clientVars>>

ExecDone(c) == /\ pc[c] = "exec"
               /\ batch[c] = <<>>
               /\ batch' = [batch EXCEPT ![c] = None]
               /\ session' = [session EXCEPT ![c] = None]
               /\ Goto(c, "idle")
               /\ UNCHANGED <<flagVars, current, log, sent, controllers, refused>>

(* Mutant: DISCARD does not clear the flag.                                *)
DiscardKeepsFlag(c) ==
    /\ Running(c, "DISCARD")
    /\ transactions' = [transactions EXCEPT ![IdOf[c]] = None]
    /\ session' = [session EXCEPT ![c] = None]
    /\ Return(c, FALSE)
    /\ UNCHANGED <<multi, current, batch, log, sent, controllers>>

(***************************************************************************)
(* DISCARD clears the flag for everyone, whether or not the client has a   *)
(* transaction.                                                            *)
(***************************************************************************)
Discard(c) == /\ Running(c, "DISCARD")
              /\ multi' = FALSE
              /\ transactions' = [transactions EXCEPT ![IdOf[c]] = None]
              /\ session' = [session EXCEPT ![c] = None]
              /\ Return(c, FALSE)
              /\ UNCHANGED <<current, batch, log, sent, controllers>>

ConnNext(c) == \/ Send(c) \/ Dispatch(c) \/ AppendTo(c) \/ Data(c)
               \/ Multi(c) \/ MultiReply(c)
               \/ ExecTake(c) \/ ExecClear(c) \/ ExecNext(c) \/ ExecDone(c)
               \/ Discard(c)

Next == \E c \in Conns : ConnNext(c)

Spec == Init /\ [][Next]_vars
-----------------------------------------------------------------------------
TypeOK ==
    /\ transactions \in [ClientIds -> Seq(Commands) \cup {None}]
    /\ multi \in BOOLEAN
    /\ pc \in [Conns -> {"idle", "dispatch", "append", "run", "multiReply",
                         "execClear", "exec"}]
    /\ current \in [Conns -> Commands \cup {None}]
    /\ batch \in [Conns -> Seq(Commands) \cup {None}]
    /\ sent \in [Conns -> Nat]
    /\ controllers \in SUBSET Conns
    /\ log \in Seq(Commands)
    /\ session \in [Conns -> Seq(Commands) \cup {None}]
    /\ refused \in [Conns -> BOOLEAN]
    /\ \A c \in Conns :
          /\ pc[c] \in {"dispatch", "append", "run"} => current[c] # None
          /\ pc[c] \in {"execClear", "exec"} => batch[c] # None

(***************************************************************************)
(* While commands are queued there is someone who can end it: a client ID  *)
(* with a transaction, or an EXEC that is about to clear the flag.  The    *)
(* flag and the queues are written under different rules (tealis.go:68-116)*)
(* and nothing but this relation ties them together.                       *)
(***************************************************************************)
MultiHasOwner ==
    multi => \/ \E i \in ClientIds : transactions[i] # None
             \/ \E c \in Conns : pc[c] = "execClear"

(***************************************************************************)
(* A client that is the only one with its ID finds its commands in its     *)
(* queue in the order in which it sent them, and nobody else's; so does    *)
(* the EXEC that took the queue.                                           *)
(***************************************************************************)
Alone(c) == \A d \in Conns : IdOf[d] = IdOf[c] => d = c

InOrder(c, q) ==
    q # None => \A i, j \in DOMAIN q : /\ q[i].conn = c
                                       /\ i < j => q[i].seq < q[j].seq

QueueInOrder ==
    \A c \in Conns : Alone(c) => InOrder(c, transactions[IdOf[c]]) /\ InOrder(c, batch[c])

(***************************************************************************)
(* QueueInOrder made inductive: what is in the queue is older than the     *)
(* command in hand, which is older than what an EXEC has still to run, and *)
(* none of it is younger than the last command sent.                       *)
(***************************************************************************)
Held(c) == pc[c] \in {"dispatch", "append", "run"}

OrderAt(c) ==
    LET q == transactions[IdOf[c]]
        b == batch[c]
    IN  /\ InOrder(c, q) /\ InOrder(c, b)
        /\ q # None => \A i \in DOMAIN q : q[i].seq <= sent[c]
        /\ b # None => \A j \in DOMAIN b : b[j].seq <= sent[c]
        /\ q # None /\ b # None =>
              \A i \in DOMAIN q, j \in DOMAIN b : q[i].seq < b[j].seq
        /\ Held(c) =>
              /\ current[c].conn = c /\ current[c].seq <= sent[c]
              /\ q # None => \A i \in DOMAIN q : q[i].seq < current[c].seq
              /\ b # None => \A j \in DOMAIN b : current[c].seq < b[j].seq

OrderInv == \A c \in Conns : Alone(c) => OrderAt(c)

(* Between two commands a connection has no batch.                         *)
IdleInv == \A c \in Conns : pc[c] = "idle" => batch[c] = None

(***************************************************************************)
(* Whatever the clients do to each other, a command is executed at most    *)
(* once, and one that was dropped or executed does not come back.          *)
(***************************************************************************)
Ident(m) == <<m.conn, m.seq>>

Has(q, d) == q # None /\ \E m \in Range(q) : Ident(m) = d

HasHeld(b, d) == Held(b) /\ Ident(current[b]) = d

Queued(d) == \/ \E i \in ClientIds : Has(transactions[i], d)
             \/ \E b \in Conns : batch[b] # None /\ (Has(batch[b], d) \/ HasHeld(b, d))

StatusOf(d) ==
    LET c == d[1]
    IN  IF d[2] > sent[c] THEN "new"
        ELSE IF Has(log, d) THEN "done"
        ELSE IF Queued(d) THEN "queued"
        ELSE IF Held(c) /\ batch[c] = None /\ sent[c] = d[2] THEN "sent" ELSE "gone"

CommandIds == UNION {{c} \X (1 .. MaxSent[c]) : c \in Conns}

Statuses == [d \in CommandIds |-> StatusOf(d)]

Executed == [k \in DOMAIN log |-> Ident(log[k])]

Life == INSTANCE CommandLife WITH Ids <- CommandIds, status <- Statuses, log <- Executed

EachCommandAtMostOnce == Life!Spec

(***************************************************************************)
(* readme.md:7, "Executes all commands issued after MULTI": when EXEC      *)
(* returns to a client whose MULTI was accepted, what the client sent in   *)
(* between (no second MULTI among it) has taken effect, as long as the     *)
(* other clients send nothing but commands on the store: those are         *)
(* refused, or queued, and change nobody's flag.  It is not so when        *)
(* another client sends a MULTI, EXEC or DISCARD in between.               *)
(***************************************************************************)
DataOnly(q) == \A m \in Range(q) : m.kind = "DATA"

ExecReturns(c) == pc[c] = "exec" /\ pc'[c] = "idle" /\ session[c] # None

OnlyController(c) == controllers \subseteq {c}

ExecRunsAllAlone ==
    [][\A c \in Conns : ExecReturns(c) /\ DataOnly(session[c]) /\ OnlyController(c)
                           => Range(session[c]) \subseteq Range(log)]_vars

(***************************************************************************)
(* readme.md:8, "Discards all commands issued after MULTI": under the same *)
(* condition none of them has taken effect when DISCARD is answered.       *)
(***************************************************************************)
DiscardReturns(c) == Running(c, "DISCARD") /\ pc'[c] = "idle" /\ session[c] # None

DiscardRunsNoneAlone ==
    [][\A c \in Conns : DiscardReturns(c) /\ OnlyController(c)
                           => Range(session[c]) \cap Range(log) = {}]_vars
-----------------------------------------------------------------------------
(***************************************************************************)
(* What makes EachCommandAtMostOnce inductive: a command that is not yet   *)
(* dropped is in one place only, a queue, a batch, the hands of a          *)
(* goroutine or the log, and there once.                                   *)
(***************************************************************************)
Once(q) == q # None => \A j, k \in DOMAIN q : Ident(q[j]) = Ident(q[k]) => j = k

OnceInv == /\ \A i \in ClientIds : Once(transactions[i])
           /\ \A b \in Conns : Once(batch[b])
           /\ Once(log)

InOnePlace(d) ==
    /\ \A i, j \in ClientIds : Has(transactions[i], d) /\ Has(transactions[j], d) => i = j
    /\ \A b, e \in Conns : Has(batch[b], d) /\ Has(batch[e], d) => b = e
    /\ \A b, e \in Conns : HasHeld(b, d) /\ HasHeld(e, d) => b = e
    /\ \A i \in ClientIds, b \in Conns :
          Has(transactions[i], d) => ~ Has(batch[b], d) /\ ~ HasHeld(b, d)
    /\ \A b, e \in Conns : Has(batch[b], d) => ~ HasHeld(e, d)
    /\ Has(log, d) => /\ \A i \in ClientIds : ~ Has(transactions[i], d)
                      /\ \A b \in Conns : ~ Has(batch[b], d) /\ ~ HasHeld(b, d)

PlaceInv == \A d \in CommandIds : InOnePlace(d)

(* What is anywhere has been sent, and a command that no EXEC took from a  *)
(* queue is the last one that its connection sent.                         *)
WasSent(m) == m.seq \in 1 .. sent[m.conn]

SentInv ==
    /\ \A c \in Conns : sent[c] <= MaxSent[c]
    /\ \A i \in ClientIds :
           transactions[i] # None => \A m \in Range(transactions[i]) : WasSent(m)
    /\ \A b \in Conns : batch[b] # None => \A m \in Range(batch[b]) : WasSent(m)
    /\ \A m \in Range(log) : WasSent(m)
    /\ \A b \in Conns : Held(b) => WasSent(current[b])
    /\ \A b \in Conns : Held(b) /\ batch[b] = None => Ident(current[b]) = <<b, sent[b]>>

(***************************************************************************)
(* What makes the two properties of a lone controller inductive: the other *)
(* connections do nothing but refuse, queue or execute commands on the     *)
(* store; and while c takes its transaction to be open, the flag is set    *)
(* and what it sent is in its queue, or in hand, and not executed, until   *)
(* an EXEC has it in its batch.                                            *)
(***************************************************************************)
OthersSendData(c) ==
    \A d \in Conns \ {c} : /\ pc[d] \in {"idle", "dispatch", "append", "run"}
                           /\ batch[d] = None
                           /\ Held(d) => current[d].kind = "DATA" /\ current[d].conn = d

Hand(c) == IF Held(c) THEN {current[c]} ELSE {}

SessionOpen(c) ==
    LET q == transactions[IdOf[c]]
    IN  /\ multi /\ q # None
        /\ pc[c] \in {"idle", "dispatch", "append", "run"}
        /\ Range(session[c]) \subseteq Range(q) \cup Hand(c)
        /\ Range(session[c]) \cap Range(log) = {}
        /\ \A m \in Range(session[c]) : m.conn = c
        /\ \A m \in Range(q) : m.kind = "DATA" \/ m \in Range(session[c])
        /\ Held(c) => IF current[c].kind \in {"EXEC", "DISCARD"}
                       THEN pc[c] # "append" /\ Range(session[c]) \subseteq Range(q)
                       ELSE pc[c] # "run" /\ current[c] \in Range(session[c])

SessionTaken(c) ==
    /\ pc[c] # "execClear" => ~ multi
    /\ pc[c] \in {"execClear", "exec", "dispatch", "run"}
    /\ Range(session[c]) \subseteq Range(batch[c]) \cup Hand(c) \cup Range(log)
    /\ DataOnly(batch[c])
    /\ Held(c) => current[c].kind = "DATA"

SessionAt(c) ==
    /\ OthersSendData(c)
    /\ pc[c] = "multiReply" => /\ multi /\ transactions[IdOf[c]] # None
                               /\ DataOnly(transactions[IdOf[c]])
    /\ session[c] # None /\ batch[c] = None => SessionOpen(c)
    /\ session[c] # None /\ batch[c] # None /\ DataOnly(session[c]) => SessionTaken(c)

SessionInv == \A c \in Conns : OnlyController(c) => SessionAt(c)

TransactionsInv ==
    /\ TypeOK /\ MultiHasOwner /\ IdleInv /\ OrderInv
    /\ OnceInv /\ PlaceInv /\ SentInv /\ SessionInv
=============================================================================
