-------------------------- MODULE TransactionsProofs --------------------------
(***************************************************************************)
(* Proofs about Transactions, for every set of connections and client IDs, *)
(* however the IDs are shared, and for clients that send any number of     *)
(* commands.                                                               *)
(***************************************************************************)
EXTENDS Transactions, SequenceTheorems, TLAPS

USE ConnsAssumption, BoundAssumption, NoneAssumption

(***************************************************************************)
(* A queue that is not None is a sequence of commands.                     *)
(***************************************************************************)
LEMMA QueueOps ==
    ASSUME NEW q \in Seq(Commands) \cup {None}, q # None
    PROVE  /\ \A m \in Commands : Append(q, m) \in Seq(Commands)
           /\ q # <<>> => Head(q) \in Commands /\ Tail(q) \in Seq(Commands)
BY HeadTailProperties, AppendProperties

(***************************************************************************)
(* The queue that MULTI makes is a queue and not a missing one.            *)
(***************************************************************************)
LEMMA EmptyQueue == <<>> \in Seq(Commands) /\ <<>> # None
BY EmptySeq

(***************************************************************************)
(* No queue is the missing one.                                            *)
(***************************************************************************)
LEMMA NoCommandIsNone == \A q \in Seq(Commands) : q # None
OBVIOUS

(***************************************************************************)
(* Initially there is no transaction.                                      *)
(***************************************************************************)
LEMMA InitTypeOK == Init => TypeOK
<1> SUFFICES ASSUME Init PROVE TypeOK
  OBVIOUS
<1>1. log \in Seq(Commands)
  BY EmptyQueue DEF Init
<1>2. refused \in [Conns -> BOOLEAN]
  BY Zenon DEF Init
<1> QED  BY <1>1, <1>2 DEF Init, TypeOK

(***************************************************************************)
(* Every step keeps the types.                                             *)
(***************************************************************************)
LEMMA NextTypeOK == TypeOK /\ [Next]_vars => TypeOK'
<1> SUFFICES ASSUME TypeOK, Next PROVE TypeOK'
  BY DEF TypeOK, vars, flagVars, procVars, clientVars
<1> PICK c \in Conns : ConnNext(c)
  BY DEF Next
<1> USE DEF TypeOK, flagVars, clientVars, Goto, Return
<1>1. CASE Send(c)
  <2>1. PICK kind \in Kinds :
          LET m == [kind |-> kind, conn |-> c, seq |-> sent[c] + 1]
          IN  /\ current' = [current EXCEPT ![c] = m]
              /\ session' = IF kind \in {"MULTI", "DATA"} /\ session[c] # None
                            THEN [session EXCEPT ![c] = Append(@, m)] ELSE session
    BY <1>1 DEF Send
  <2> DEFINE m == [kind |-> kind, conn |-> c, seq |-> sent[c] + 1]
  <2>2. m \in Commands
    BY DEF Commands
  <2>3. session' \in [Conns -> Seq(Commands) \cup {None}]
    BY <2>1, <2>2, QueueOps
  <2>4. current' \in [Conns -> Commands \cup {None}]
    BY <2>1, <2>2
  <2>5. ASSUME NEW d \in Conns, pc'[d] \in {"dispatch", "append", "run"}
        PROVE  current'[d] # None
    BY <1>1, <2>1, <2>2, <2>5, NoneAssumption DEF Send
  <2> QED  BY <1>1, <2>3, <2>4, <2>5 DEF Send
<1>2. CASE Dispatch(c)
  BY <1>2 DEF Dispatch
<1>3. CASE AppendTo(c)
  BY <1>3, QueueOps DEF AppendTo
<1>4. CASE Data(c)
  BY <1>4 DEF Data, Running
<1>5. CASE Multi(c)
  BY <1>5, EmptyQueue DEF Multi, Running
<1>6. CASE MultiReply(c)
  BY <1>6, EmptyQueue DEF MultiReply
<1>7. CASE ExecTake(c)
  BY <1>7 DEF ExecTake, Running
<1>8. CASE ExecClear(c)
  BY <1>8 DEF ExecClear
<1>9. CASE ExecNext(c)
  <2>1. Head(batch[c]) \in Commands /\ Tail(batch[c]) \in Seq(Commands)
    BY <1>9, QueueOps DEF ExecNext
  <2>2. Tail(batch[c]) # None
    BY <2>1, NoCommandIsNone
  <2> QED  BY <1>9, <2>1, <2>2 DEF ExecNext
<1>10. CASE ExecDone(c)
  BY <1>10 DEF ExecDone
<1>11. CASE Discard(c)
  BY <1>11 DEF Discard, Running
<1> QED  BY <1>1, <1>2, <1>3, <1>4, <1>5, <1>6, <1>7, <1>8, <1>9, <1>10, <1>11
         DEF ConnNext

(***************************************************************************)
(* MULTI sets the flag together with the transaction, EXEC takes the       *)
(* transaction and then owes the clearing, and DISCARD undoes both.        *)
(***************************************************************************)
LEMMA NextMultiHasOwner == TypeOK /\ MultiHasOwner /\ [Next]_vars => MultiHasOwner'
<1> SUFFICES ASSUME TypeOK, MultiHasOwner, Next PROVE MultiHasOwner'
  BY DEF MultiHasOwner, vars, flagVars, procVars
<1> PICK c \in Conns : ConnNext(c)
  BY DEF Next
<1> USE DEF TypeOK, MultiHasOwner, flagVars, Goto, Return
<1>1. CASE Send(c)
  BY <1>1 DEF Send
<1>2. CASE Dispatch(c)
  BY <1>2 DEF Dispatch
<1>3. CASE AppendTo(c)
  <2>1. \A i \in ClientIds : transactions[i] # None => transactions'[i] # None
    <3>1. transactions[IdOf[c]] # None =>
             /\ current[c] \in Commands
             /\ Append(transactions[IdOf[c]], current[c]) # None
      BY <1>3, QueueOps, NoCommandIsNone DEF AppendTo
    <3> QED  BY <1>3, <3>1 DEF AppendTo
  <2> QED  BY <1>3, <2>1 DEF AppendTo
<1>4. CASE Data(c)
  BY <1>4 DEF Data, Running
<1>5. CASE Multi(c)
  BY <1>5, EmptyQueue DEF Multi
<1>6. CASE MultiReply(c)
  BY <1>6 DEF MultiReply
<1>7. CASE ExecTake(c)
  BY <1>7 DEF ExecTake, Running
<1>8. CASE ExecClear(c)
  BY <1>8 DEF ExecClear
<1>9. CASE ExecNext(c)
  BY <1>9 DEF ExecNext
<1>10. CASE ExecDone(c)
  BY <1>10 DEF ExecDone
<1>11. CASE Discard(c)
  BY <1>11 DEF Discard
<1> QED  BY <1>1, <1>2, <1>3, <1>4, <1>5, <1>6, <1>7, <1>8, <1>9, <1>10, <1>11
         DEF ConnNext

(***************************************************************************)
(* A connection that rests works on nothing and has no batch.              *)
(***************************************************************************)
LEMMA NextIdleInv == TypeOK /\ IdleInv /\ [Next]_vars => IdleInv'
<1> SUFFICES ASSUME TypeOK, IdleInv, [Next]_vars PROVE IdleInv'
  OBVIOUS
<1>1. CASE UNCHANGED vars
  BY <1>1 DEF IdleInv, vars, procVars
<1>2. ASSUME NEW c \in Conns, ConnNext(c) PROVE IdleInv'
  BY <1>2 DEF TypeOK, IdleInv, ConnNext, Send, Dispatch, AppendTo, Data, Multi, MultiReply,
     ExecTake, ExecClear, ExecNext, ExecDone, Discard, Goto, Return
<1> QED  BY <1>1, <1>2 DEF Next

(***************************************************************************)
(* The steps of another connection do not touch what a client with an ID   *)
(* of its own has queued.                                                  *)
(***************************************************************************)
LEMMA OthersDoNotTouch ==
    ASSUME TypeOK, NEW c \in Conns, NEW d \in Conns, c # d, IdOf[c] # IdOf[d], ConnNext(c)
    PROVE  /\ transactions'[IdOf[d]] = transactions[IdOf[d]]
           /\ batch'[d] = batch[d] /\ pc'[d] = pc[d]
           /\ current'[d] = current[d] /\ sent'[d] = sent[d]
<1> USE DEF TypeOK, flagVars, clientVars, Goto, Return
<1>1. CASE Send(c)
  BY <1>1 DEF Send
<1>2. CASE Dispatch(c)
  BY <1>2 DEF Dispatch
<1>3. CASE AppendTo(c)
  BY <1>3 DEF AppendTo
<1>4. CASE Data(c)
  BY <1>4 DEF Data
<1>5. CASE Multi(c)
  BY <1>5 DEF Multi
<1>6. CASE MultiReply(c)
  BY <1>6 DEF MultiReply
<1>7. CASE ExecTake(c)
  BY <1>7 DEF ExecTake
<1>8. CASE ExecClear(c)
  BY <1>8 DEF ExecClear
<1>9. CASE ExecNext(c)
  BY <1>9 DEF ExecNext
<1>10. CASE ExecDone(c)
  BY <1>10 DEF ExecDone
<1>11. CASE Discard(c)
  BY <1>11 DEF Discard
<1> QED  BY <1>1, <1>2, <1>3, <1>4, <1>5, <1>6, <1>7, <1>8, <1>9, <1>10, <1>11
         DEF ConnNext

(***************************************************************************)
(* The steps of the client itself.                                         *)
(***************************************************************************)
LEMMA OwnStepKeepsOrder ==
    ASSUME TypeOK, IdleInv, NEW c \in Conns, OrderAt(c), ConnNext(c)
    PROVE  OrderAt(c)'
<1> DEFINE q == transactions[IdOf[c]]
           b == batch[c]
           m == current[c]
<1>0. /\ q \in Seq(Commands) \cup {None} /\ b \in Seq(Commands) \cup {None}
      /\ sent[c] \in Nat /\ IdOf[c] \in ClientIds
      /\ pc[c] \in {"dispatch", "append", "run"} => m \in Commands
      /\ q # None => \A i \in DOMAIN q : q[i] \in Commands /\ q[i].seq \in Nat
      /\ b # None => \A j \in DOMAIN b : b[j] \in Commands /\ b[j].seq \in Nat
  <2>1. /\ q \in Seq(Commands) \cup {None} /\ b \in Seq(Commands) \cup {None}
        /\ sent[c] \in Nat /\ IdOf[c] \in ClientIds
        /\ pc[c] \in {"dispatch", "append", "run"} => m \in Commands
    BY DEF TypeOK
  <2>2. ASSUME NEW s \in Seq(Commands), NEW i \in DOMAIN s
        PROVE  s[i] \in Commands /\ s[i].seq \in Nat
    <3>1. s[i] \in Commands
      BY ElementOfSeq, LenProperties
    <3> QED  BY <3>1 DEF Commands
  <2> HIDE DEF q, b
  <2> QED  BY <2>1, <2>2
<1> USE DEF TypeOK, flagVars, Goto, Return
<1>1. CASE Send(c)
  <2>1. /\ b = None /\ q' = q /\ b' = b /\ sent'[c] = sent[c] + 1
        /\ current'[c].conn = c /\ current'[c].seq = sent[c] + 1
    BY <1>1 DEF Send, IdleInv
  <2> QED  BY <1>0, <2>1 DEF OrderAt, InOrder
<1>2. CASE Dispatch(c)
  BY <1>2 DEF Dispatch, OrderAt, InOrder, Held, clientVars
<1>3. CASE AppendTo(c)
  <2>1. CASE q = None
    BY <1>3, <2>1 DEF AppendTo, OrderAt, InOrder, Held
  <2>2. CASE q # None
    <3>1. /\ q' = Append(q, m) /\ b' = b /\ sent'[c] = sent[c] /\ m \in Commands
          /\ Held(c) /\ ~ Held(c)'
      BY <1>3, <2>2 DEF AppendTo, Held
    <3>2. /\ q' \in Seq(Commands) /\ Len(q') = Len(q) + 1 /\ Len(q) \in Nat
          /\ \A i \in 1 .. Len(q) : q'[i] = q[i]
          /\ q'[Len(q) + 1] = m
      BY <1>0, <2>2, <3>1, AppendProperties
    <3>3. DOMAIN q' = 1 .. Len(q) + 1 /\ DOMAIN q = 1 .. Len(q)
      BY <1>0, <2>2, <3>2
    <3>4. m.seq \in Nat
      BY <3>1 DEF Commands
    <3> HIDE DEF q, b, m
    <3> QED  BY <1>0, <2>2, <3>1, <3>2, <3>3, <3>4 DEF OrderAt, InOrder, q, b, m
  <2> QED  BY <2>1, <2>2
<1>4. CASE Data(c)
  BY <1>4 DEF Data, Running, OrderAt, InOrder, Held
<1>5. CASE Multi(c)
  BY <1>0, <1>5 DEF Multi, Running, OrderAt, InOrder, Held, clientVars
<1>6. CASE MultiReply(c)
  BY <1>6 DEF MultiReply, OrderAt, InOrder, Held
<1>7. CASE ExecTake(c)
  BY <1>0, <1>7 DEF ExecTake, Running, OrderAt, InOrder, Held
<1>8. CASE ExecClear(c)
  BY <1>8 DEF ExecClear, OrderAt, InOrder, Held, clientVars
<1>9. CASE ExecNext(c)
  <2>1. /\ b # <<>> /\ b # None /\ b' = Tail(b) /\ current'[c] = Head(b)
        /\ sent'[c] = sent[c] /\ q' = q
    BY <1>9 DEF ExecNext, clientVars
  <2>2. /\ Tail(b) \in Seq(Commands) /\ Len(Tail(b)) = Len(b) - 1 /\ Len(b) \in Nat \ {0}
        /\ Head(b) = b[1]
        /\ \A j \in 1 .. Len(Tail(b)) : Tail(b)[j] = b[j + 1]
    BY <1>0, <2>1, HeadTailProperties, EmptySeq
  <2>3. DOMAIN Tail(b) = 1 .. Len(b) - 1 /\ DOMAIN b = 1 .. Len(b)
    BY <1>0, <2>1, <2>2
  <2>4. b' # None
    BY <2>1, <2>2, NoCommandIsNone
  <2> DEFINE n == Len(b)
  <2> HIDE DEF q, b, m
  <2>5. /\ \A j \in 1 .. n : b[j].conn = c /\ b[j].seq <= sent[c] /\ b[j].seq \in Nat
        /\ \A i, j \in 1 .. n : i < j => b[i].seq < b[j].seq
        /\ q # None => \A i \in DOMAIN q : /\ q[i].seq <= sent[c]
                                          /\ \A j \in 1 .. n : q[i].seq < b[j].seq
    BY <1>0, <2>1, <2>2, <2>3 DEF OrderAt, InOrder, q, b
  <2>6. n \in Nat \ {0} /\ DOMAIN Tail(b) = 1 .. n - 1
    BY <2>2, <2>3
  <2>7. ASSUME NEW j \in 1 .. n - 1
        PROVE  /\ Tail(b)[j] = b[j + 1] /\ j + 1 \in 1 .. n /\ 1 \in 1 .. n /\ 1 < j + 1
               /\ Tail(b)[j].conn = c /\ Tail(b)[j].seq <= sent[c]
               /\ b[1].seq < Tail(b)[j].seq
               /\ \A i \in 1 .. n - 1 : i < j => Tail(b)[i].seq < Tail(b)[j].seq
               /\ q # None => \A i \in DOMAIN q : q[i].seq < Tail(b)[j].seq
    <3>1. /\ j + 1 \in 1 .. n /\ 1 \in 1 .. n /\ 1 < j + 1 /\ Tail(b)[j] = b[j + 1]
      BY <2>2, <2>6
    <3>2. ASSUME NEW i \in 1 .. n - 1, i < j PROVE Tail(b)[i].seq < Tail(b)[j].seq
      <4>1. i + 1 \in 1 .. n /\ i + 1 < j + 1 /\ Tail(b)[i] = b[i + 1]
        BY <2>2, <2>6, <3>2
      <4> QED  BY <2>5, <3>1, <4>1
    <3> QED  BY <2>5, <3>1, <3>2
  <2>8. b[1].conn = c /\ b[1].seq <= sent[c]
    BY <2>5, <2>6
  <2>9. /\ InOrder(c, Tail(b))
        /\ q # None => \A i \in DOMAIN q : /\ q[i].seq < b[1].seq
                                          /\ \A j \in DOMAIN Tail(b) : q[i].seq < Tail(b)[j].seq
    <3>1. InOrder(c, Tail(b))
      <4>1. ASSUME NEW i \in DOMAIN Tail(b), NEW j \in DOMAIN Tail(b)
            PROVE  Tail(b)[i].conn = c /\ (i < j => Tail(b)[i].seq < Tail(b)[j].seq)
        BY <2>6, <2>7
      <4> QED  BY <4>1 DEF InOrder
    <3>2. ASSUME q # None, NEW i \in DOMAIN q
          PROVE  q[i].seq < b[1].seq /\ \A j \in DOMAIN Tail(b) : q[i].seq < Tail(b)[j].seq
      <4>1. 1 \in 1 .. n
        BY <2>6
      <4>2. ASSUME NEW j \in DOMAIN Tail(b) PROVE q[i].seq < Tail(b)[j].seq
        BY <2>6, <2>7, <3>2
      <4> QED  BY <2>5, <3>2, <4>1, <4>2
    <3> QED  BY <3>1, <3>2
  <2>10. InOrder(c, q)'
    BY <2>1 DEF OrderAt, InOrder, q
  <2>11. Held(c)'
    BY <1>9 DEF ExecNext, Held
  <2> QED
    BY <2>1, <2>2, <2>5, <2>6, <2>7, <2>8, <2>9, <2>10, <2>11 DEF OrderAt, InOrder, q, b, m
<1>10. CASE ExecDone(c)
  BY <1>10 DEF ExecDone, OrderAt, InOrder, Held
<1>11. CASE Discard(c)
  BY <1>0, <1>11 DEF Discard, Running, OrderAt, InOrder, Held
<1> QED  BY <1>1, <1>2, <1>3, <1>4, <1>5, <1>6, <1>7, <1>8, <1>9, <1>10, <1>11
         DEF ConnNext

(***************************************************************************)
(* What is in hand stays newer than the queue, and the queue in order.     *)
(***************************************************************************)
LEMMA NextOrderInv == TypeOK /\ IdleInv /\ OrderInv /\ [Next]_vars => OrderInv'
<1> SUFFICES ASSUME TypeOK, IdleInv, OrderInv, [Next]_vars,
                    NEW d \in Conns, Alone(d)
             PROVE  OrderAt(d)'
  BY DEF OrderInv, Alone
<1>1. CASE UNCHANGED vars
  BY <1>1 DEF OrderInv, OrderAt, InOrder, Held, vars, flagVars, procVars, clientVars
<1>2. ASSUME NEW c \in Conns, ConnNext(c) PROVE OrderAt(d)'
  <2>1. CASE c = d
    BY <1>2, <2>1, OwnStepKeepsOrder DEF OrderInv
  <2>2. CASE c # d
    <3>1. IdOf[c] # IdOf[d]
      BY <2>2 DEF Alone
    <3> QED  BY <1>2, <2>2, <3>1, OthersDoNotTouch DEF OrderInv, OrderAt, InOrder, Held
  <2> QED  BY <2>1, <2>2
<1> QED  BY <1>1, <1>2 DEF Next

(***************************************************************************)
(* What is in a queue after an append, and after its head is taken.        *)
(***************************************************************************)
LEMMA AppendContent ==
    ASSUME NEW q \in Seq(Commands), NEW m \in Commands
    PROVE  /\ Append(q, m) \in Seq(Commands) /\ Append(q, m) # None
           /\ Range(Append(q, m)) = Range(q) \cup {m}
           /\ \A d : Has(Append(q, m), d) <=> Has(q, d) \/ Ident(m) = d
           /\ Once(q) /\ ~ Has(q, Ident(m)) => Once(Append(q, m))
<1>1. /\ Append(q, m) \in Seq(Commands) /\ Len(q) \in Nat
      /\ DOMAIN q = 1 .. Len(q) /\ DOMAIN Append(q, m) = 1 .. Len(q) + 1
      /\ \A k \in 1 .. Len(q) : Append(q, m)[k] = q[k]
      /\ Append(q, m)[Len(q) + 1] = m
  BY AppendProperties, LenProperties
<1>2. Append(q, m) # None /\ q # None
  BY <1>1, NoCommandIsNone
<1>3. Range(Append(q, m)) = Range(q) \cup {m}
  BY <1>1 DEF Range
<1>4. \A d : Has(Append(q, m), d) <=> Has(q, d) \/ Ident(m) = d
  BY <1>2, <1>3 DEF Has
<1>5. Once(q) /\ ~ Has(q, Ident(m)) => Once(Append(q, m))
  <2>1. SUFFICES ASSUME Once(q), ~ Has(q, Ident(m)), NEW j \in 1 .. Len(q) + 1,
                        NEW k \in 1 .. Len(q) + 1, Ident(Append(q, m)[j]) = Ident(Append(q, m)[k])
                 PROVE  j = k
    BY <1>1 DEF Once
  <2>2. \A x \in 1 .. Len(q) : Ident(q[x]) # Ident(m)
    BY <1>1, <1>2, <2>1 DEF Has, Range
  <2> QED  BY <1>1, <1>2, <2>1, <2>2 DEF Once
<1> QED  BY <1>1, <1>2, <1>3, <1>4, <1>5

(***************************************************************************)
(* A queue holds its head and what its tail holds, and the head only once. *)
(***************************************************************************)
LEMMA HeadContent ==
    ASSUME NEW q \in Seq(Commands), q # <<>>
    PROVE  /\ Head(q) \in Commands /\ Tail(q) \in Seq(Commands) /\ Tail(q) # None
           /\ Range(q) = {Head(q)} \cup Range(Tail(q))
           /\ \A d : Has(q, d) <=> Ident(Head(q)) = d \/ Has(Tail(q), d)
           /\ Once(q) => Once(Tail(q)) /\ ~ Has(Tail(q), Ident(Head(q)))
<1>1. /\ Head(q) \in Commands /\ Tail(q) \in Seq(Commands) /\ Len(q) \in Nat \ {0}
      /\ DOMAIN q = 1 .. Len(q) /\ DOMAIN Tail(q) = 1 .. Len(q) - 1
      /\ \A k \in 1 .. Len(q) - 1 : Tail(q)[k] = q[k + 1]
      /\ Head(q) = q[1]
  BY HeadTailProperties, LenProperties, EmptySeq
<1>2. Tail(q) # None /\ q # None
  BY <1>1, NoCommandIsNone
<1>3. Range(q) = {Head(q)} \cup Range(Tail(q))
  <2>1. ASSUME NEW k \in 1 .. Len(q) PROVE q[k] = Head(q) \/ q[k] \in Range(Tail(q))
    <3>1. CASE k = 1
      BY <1>1, <3>1
    <3>2. CASE k # 1
      <4>1. k - 1 \in 1 .. Len(q) - 1 /\ (k - 1) + 1 = k
        BY <1>1, <3>2
      <4>2. Tail(q)[k - 1] = q[k]
        BY <1>1, <4>1
      <4> QED  BY <1>1, <4>1, <4>2 DEF Range
    <3> QED  BY <3>1, <3>2
  <2>2. ASSUME NEW k \in 1 .. Len(q) - 1 PROVE Tail(q)[k] \in Range(q)
    <3>1. k + 1 \in 1 .. Len(q)
      BY <1>1
    <3> QED  BY <1>1, <3>1 DEF Range
  <2>3. Head(q) \in Range(q)
    BY <1>1 DEF Range
  <2>4. Range(q) \subseteq {Head(q)} \cup Range(Tail(q))
    BY <1>1, <2>1 DEF Range
  <2>5. Range(Tail(q)) \subseteq Range(q)
    BY <1>1, <2>2 DEF Range
  <2> QED  BY <2>3, <2>4, <2>5
<1>4. \A d : Has(q, d) <=> Ident(Head(q)) = d \/ Has(Tail(q), d)
  BY <1>2, <1>3 DEF Has
<1>5. ASSUME Once(q) PROVE Once(Tail(q)) /\ ~ Has(Tail(q), Ident(Head(q)))
  <2>1. \A j, k \in 1 .. Len(q) : Ident(q[j]) = Ident(q[k]) => j = k
    BY <1>1, <1>2, <1>5 DEF Once
  <2>2. ASSUME NEW j \in 1 .. Len(q) - 1, NEW k \in 1 .. Len(q) - 1,
               Ident(Tail(q)[j]) = Ident(Tail(q)[k])
        PROVE  j = k
    <3>1. j + 1 \in 1 .. Len(q) /\ k + 1 \in 1 .. Len(q) /\ Ident(q[j + 1]) = Ident(q[k + 1])
      BY <1>1, <2>2
    <3> QED  BY <2>1, <3>1
  <2>3. ASSUME NEW k \in 1 .. Len(q) - 1 PROVE Ident(Tail(q)[k]) # Ident(Head(q))
    <3>1. 1 \in 1 .. Len(q) /\ k + 1 \in 1 .. Len(q) /\ k + 1 # 1
      BY <1>1
    <3> QED  BY <1>1, <2>1, <3>1
  <2>4. Once(Tail(q))
    BY <1>1, <2>2 DEF Once
  <2> QED  BY <1>1, <2>3, <2>4 DEF Has, Range
<1> QED  BY <1>1, <1>2, <1>3, <1>4, <1>5

(***************************************************************************)
(* Nothing is in an empty or a missing queue.                              *)
(***************************************************************************)
LEMMA NoContent ==
    /\ Range(<<>>) = {} /\ Once(<<>>) /\ Once(None)
    /\ \A d : ~ Has(<<>>, d) /\ ~ Has(None, d)
BY DEF Range, Once, Has

(***************************************************************************)
(* The log is a sequence of commands.                                      *)
(***************************************************************************)
LEMMA LogContent == ASSUME TypeOK PROVE log # None /\ log \in Seq(Commands)
BY NoCommandIsNone DEF TypeOK

(***************************************************************************)
(* What a goroutine works on, and what is anywhere, are commands.          *)
(***************************************************************************)
LEMMA Contents ==
    ASSUME TypeOK
    PROVE  /\ \A c \in Conns : Held(c) => current[c] \in Commands
           /\ \A q \in Seq(Commands) : \A m \in Range(q) : m \in Commands
           /\ \A m \in Commands : m.conn \in Conns /\ m.seq \in Nat
<1>1. ASSUME NEW q \in Seq(Commands), NEW m \in Range(q) PROVE m \in Commands
  BY ElementOfSeq, LenProperties DEF Range
<1> QED  BY <1>1 DEF TypeOK, Held, Commands

(***************************************************************************)
(* No command is twice in a queue, in a batch or in the log, and none is   *)
(* in two places.                                                          *)
(***************************************************************************)
LEMMA IdentKnown ==
    ASSUME TypeOK, SentInv, NEW m \in Commands, WasSent(m) PROVE Ident(m) \in CommandIds
<1>1. /\ m.conn \in Conns /\ m.seq \in 1 .. sent[m.conn] /\ sent[m.conn] \in Nat
      /\ sent[m.conn] <= MaxSent[m.conn] /\ MaxSent[m.conn] \in Nat
  BY DEF TypeOK, SentInv, WasSent, Commands
<1>2. m.seq \in 1 .. MaxSent[m.conn]
  BY <1>1
<1>3. Ident(m) \in {m.conn} \X (1 .. MaxSent[m.conn])
  BY <1>2 DEF Ident
<1> QED  BY <1>1, <1>3 DEF CommandIds

(***************************************************************************)
(* What is anywhere in the server was sent.                                *)
(***************************************************************************)
LEMMA NextSentInv == TypeOK /\ IdleInv /\ SentInv /\ [Next]_vars => SentInv'
<1> SUFFICES ASSUME TypeOK, IdleInv, SentInv, Next PROVE SentInv'
  BY DEF SentInv, WasSent, Held, vars, flagVars, procVars, clientVars
<1> PICK c \in Conns : ConnNext(c)
  BY DEF Next
<1> DEFINE i == IdOf[c]
<1>0. /\ i \in ClientIds /\ sent[c] \in Nat
      /\ transactions[i] \in Seq(Commands) \cup {None} /\ batch[c] \in Seq(Commands) \cup {None}
      /\ log \in Seq(Commands) /\ (Held(c) => current[c] \in Commands)
  BY DEF TypeOK, Held
<1> USE DEF TypeOK, flagVars, clientVars, Goto, Return, SentInv, WasSent, Held
<1>1. CASE Send(c)
  <2>1. /\ sent' = [sent EXCEPT ![c] = sent[c] + 1] /\ sent[c] < MaxSent[c] /\ batch[c] = None
        /\ pc' = [pc EXCEPT ![c] = "dispatch"] /\ UNCHANGED <<transactions, batch, log>>
        /\ \E kind \in Kinds : current' = [current EXCEPT ![c] =
              [kind |-> kind, conn |-> c, seq |-> sent[c] + 1]]
    BY <1>1 DEF Send, IdleInv
  <2>2. \A m \in Commands : WasSent(m) => WasSent(m)'
    BY <2>1 DEF Commands
  <2>3. /\ current'[c].conn = c /\ current'[c].seq = sent[c] + 1
        /\ \A d \in Conns \ {c} : current'[d] = current[d]
    BY <2>1
  <2> QED  BY <2>1, <2>2, <2>3, Contents DEF Ident
<1>2. CASE Dispatch(c)
  BY <1>2 DEF Dispatch
<1>3. CASE AppendTo(c)
  BY <1>0, <1>3, AppendContent DEF AppendTo
<1>4. CASE Data(c)
  BY <1>0, <1>4, AppendContent DEF Data, Running
<1>5. CASE Multi(c)
  BY <1>5, NoContent DEF Multi, Running
<1>6. CASE MultiReply(c)
  BY <1>6 DEF MultiReply
<1>7. CASE ExecTake(c)
  <2>1. CASE transactions[i] = None
    BY <1>7, <2>1 DEF ExecTake, Running
  <2>2. CASE transactions[i] # None
    <3>1. /\ batch' = [batch EXCEPT ![c] = transactions[i]] /\ ~ Held(c)'
          /\ transactions' = [transactions EXCEPT ![i] = None]
          /\ UNCHANGED <<current, log, sent>> /\ pc' = [pc EXCEPT ![c] = "execClear"]
      BY <1>7, <2>2 DEF ExecTake, Running
    <3> QED  BY <1>0, <2>2, <3>1
  <2> QED  BY <2>1, <2>2
<1>8. CASE ExecClear(c)
  BY <1>8 DEF ExecClear
<1>9. CASE ExecNext(c)
  BY <1>0, <1>9, HeadContent DEF ExecNext
<1>10. CASE ExecDone(c)
  BY <1>10 DEF ExecDone
<1>11. CASE Discard(c)
  BY <1>11 DEF Discard, Running
<1> QED  BY <1>1, <1>2, <1>3, <1>4, <1>5, <1>6, <1>7, <1>8, <1>9, <1>10, <1>11
         DEF ConnNext

(***************************************************************************)
(* A command that was not sent yet is nowhere in the server.               *)
(***************************************************************************)
LEMMA NewIsNowhere ==
    ASSUME TypeOK, SentInv, NEW c \in Conns, NEW s \in Nat, s > sent[c]
    PROVE  /\ ~ Has(log, <<c, s>>)
           /\ \A i \in ClientIds : ~ Has(transactions[i], <<c, s>>)
           /\ \A b \in Conns : ~ Has(batch[b], <<c, s>>) /\ ~ HasHeld(b, <<c, s>>)
<1>1. \A m \in Commands : WasSent(m) => Ident(m) # <<c, s>>
  BY DEF WasSent, Ident, TypeOK, Commands
<1>2. ASSUME NEW q \in Seq(Commands) \cup {None}, q # None => \A m \in Range(q) : WasSent(m)
      PROVE  ~ Has(q, <<c, s>>)
  BY <1>1, <1>2, Contents DEF Has
<1>3. \A b \in Conns : ~ HasHeld(b, <<c, s>>)
  BY <1>1, Contents DEF HasHeld, SentInv
<1>4. \A i \in ClientIds : ~ Has(transactions[i], <<c, s>>)
  BY <1>2 DEF SentInv, TypeOK
<1>5. \A b \in Conns : ~ Has(batch[b], <<c, s>>)
  BY <1>2 DEF SentInv, TypeOK
<1>6. ~ Has(log, <<c, s>>)
  BY <1>2 DEF SentInv, TypeOK
<1> QED  BY <1>3, <1>4, <1>5, <1>6

(***************************************************************************)
(* A command that is somewhere is in one place, once.                      *)
(***************************************************************************)
LEMMA NextPlaceInv ==
    ASSUME TypeOK, IdleInv, SentInv, OnceInv, PlaceInv, [Next]_vars
    PROVE  OnceInv' /\ PlaceInv'
<1>1. CASE UNCHANGED vars
  BY <1>1 DEF OnceInv, PlaceInv, InOnePlace, HasHeld, Held, vars, flagVars, procVars
<1>2. ASSUME NEW c \in Conns, ConnNext(c) PROVE OnceInv' /\ PlaceInv'
  <2> DEFINE i == IdOf[c]
  <2>0. /\ i \in ClientIds /\ sent[c] \in Nat
        /\ transactions[i] \in Seq(Commands) \cup {None} /\ batch[c] \in Seq(Commands) \cup {None}
        /\ log \in Seq(Commands) /\ (Held(c) => current[c] \in Commands)
    BY DEF TypeOK, Held
  <2>h. Held(c) => Ident(current[c]) \in CommandIds
    BY <2>0, IdentKnown DEF SentInv
  <2> USE DEF TypeOK, flagVars, clientVars, Goto, Return, OnceInv, PlaceInv, InOnePlace,
              HasHeld, Held
  <2>1. CASE Send(c)
    <3>1. /\ pc' = [pc EXCEPT ![c] = "dispatch"] /\ UNCHANGED <<transactions, batch, log>>
          /\ \E kind \in Kinds : current' = [current EXCEPT ![c] =
                [kind |-> kind, conn |-> c, seq |-> sent[c] + 1]]
      BY <2>1 DEF Send
    <3>2. /\ Ident(current'[c]) = <<c, sent[c] + 1>>
          /\ \A d \in Conns \ {c} : current'[d] = current[d]
      BY <3>1 DEF Ident
    <3>3. sent[c] + 1 \in Nat /\ sent[c] + 1 > sent[c]
      BY <2>0
    <3>4. /\ ~ Has(log, Ident(current'[c]))
          /\ \A j \in ClientIds : ~ Has(transactions[j], Ident(current'[c]))
          /\ \A b \in Conns : ~ Has(batch[b], Ident(current'[c])) /\ ~ HasHeld(b, Ident(current'[c]))
      BY <3>2, <3>3, NewIsNowhere
    <3>5. ASSUME NEW b \in Conns, b # c PROVE pc'[b] = pc[b] /\ current'[b] = current[b]
      BY <3>1, <3>2, <3>5
    <3> QED  BY <3>1, <3>4, <3>5
  <2>2. CASE Dispatch(c)
    BY <2>2 DEF Dispatch
  <2>3. CASE AppendTo(c)
    <3>1. CASE transactions[i] = None
      BY <2>3, <3>1 DEF AppendTo
    <3>2. CASE transactions[i] # None
      BY <2>0, <2>3, <2>h, <3>2, AppendContent DEF AppendTo
    <3> QED  BY <3>1, <3>2
  <2>4. CASE Data(c)
    BY <2>0, <2>4, <2>h, AppendContent DEF Data, Running
  <2>5. CASE Multi(c)
    BY <2>5, NoContent DEF Multi, Running
  <2>6. CASE MultiReply(c)
    BY <2>6 DEF MultiReply
  <2>7. CASE ExecTake(c)
    <3>1. CASE transactions[i] = None
      BY <2>7, <3>1, NoContent DEF ExecTake, Running
    <3>2. CASE transactions[i] # None
      <4>1. /\ batch' = [batch EXCEPT ![c] = transactions[i]] /\ ~ Held(c)'
            /\ transactions' = [transactions EXCEPT ![i] = None]
            /\ UNCHANGED <<current, log>> /\ pc' = [pc EXCEPT ![c] = "execClear"]
        BY <2>7, <3>2 DEF ExecTake, Running
      <4> QED  BY <2>0, <3>2, <4>1, NoContent
    <3> QED  BY <3>1, <3>2
  <2>8. CASE ExecClear(c)
    BY <2>8 DEF ExecClear
  <2>9. CASE ExecNext(c)
    BY <2>0, <2>9, HeadContent DEF ExecNext
  <2>10. CASE ExecDone(c)
    BY <2>10, NoContent DEF ExecDone
  <2>11. CASE Discard(c)
    BY <2>11, NoContent DEF Discard, Running
  <2> QED  BY <1>2, <2>1, <2>2, <2>3, <2>4, <2>5, <2>6, <2>7, <2>8, <2>9, <2>10, <2>11
           DEF ConnNext
<1> QED  BY <1>1, <1>2 DEF Next

(***************************************************************************)
(* Transactions implements CommandLife: what a step does to the status of  *)
(* every command is a step of its life, or nothing.                        *)
(***************************************************************************)
LEMMA IdParts ==
    ASSUME NEW d \in CommandIds
    PROVE  /\ d[1] \in Conns /\ d[2] \in 1 .. MaxSent[d[1]] /\ d[2] \in Nat
           /\ d = <<d[1], d[2]>>
BY DEF CommandIds

(***************************************************************************)
(* A step that only loses commands is a step of CommandLife.               *)
(***************************************************************************)
LEMMA Dropped ==
    ASSUME \A d \in CommandIds :
              \/ StatusOf(d)' = StatusOf(d)
              \/ StatusOf(d) \in {"sent", "queued"} /\ StatusOf(d)' = "gone",
           log' = log
    PROVE  Life!Next
<1> DEFINE D == {d \in CommandIds : StatusOf(d)' # StatusOf(d)}
<1>1. Statuses' = [d \in CommandIds |-> IF d \in D THEN "gone" ELSE Statuses[d]]
  BY DEF Statuses
<1>2. \A d \in D : Statuses[d] \in {"sent", "queued"}
  BY DEF Statuses
<1>3. Executed' = Executed
  BY DEF Executed
<1>4. Life!Drop(D)
  BY <1>1, <1>2, <1>3 DEF Life!Drop, Statuses, Executed
<1>5. D \in SUBSET CommandIds
  OBVIOUS
<1> QED  BY <1>4, <1>5 DEF Life!Next

(***************************************************************************)
(* When one command changes its status, Statuses changes there.            *)
(***************************************************************************)
LEMMA Changed ==
    ASSUME NEW d \in CommandIds, NEW new,
           StatusOf(d)' = new, \A e \in CommandIds \ {d} : StatusOf(e)' = StatusOf(e)
    PROVE  Statuses' = [Statuses EXCEPT ![d] = new]
BY DEF Statuses

(***************************************************************************)
(* A command that is logged is executed next in the abstract log.          *)
(***************************************************************************)
LEMMA Logged ==
    ASSUME TypeOK, NEW m \in Commands, log' = Append(log, m)
    PROVE  Executed' = Append(Executed, Ident(m))
<1>1. /\ log \in Seq(Commands) /\ Len(log) \in Nat
      /\ DOMAIN log = 1 .. Len(log) /\ DOMAIN log' = 1 .. Len(log) + 1
      /\ \A k \in 1 .. Len(log) : log'[k] = log[k]
      /\ log'[Len(log) + 1] = m
  BY AppendProperties, LenProperties DEF TypeOK
<1> DEFINE n == Len(log)
           r == Executed
           Ids == {Ident(x) : x \in Commands}
<1>2. r = [k \in 1 .. n |-> Ident(log[k])]
  BY <1>1 DEF Executed
<1>3. \A k \in 1 .. n : log[k] \in Commands
  BY <1>1
<1>4. r \in [1 .. n -> Ids]
  BY <1>2, <1>3
<1>5. r \in Seq(Ids) /\ n \in Nat
  <2>1. n \in Nat
    BY <1>1
  <2> HIDE DEF r, n, Ids
  <2> QED  BY <1>4, <2>1
<1>6. Len(r) = n
  <2>1. DOMAIN r = 1 .. n
    BY <1>2
  <2>2. DOMAIN r = 1 .. Len(r) /\ Len(r) \in Nat
    BY <1>5, LenProperties
  <2> HIDE DEF r, n
  <2> QED  BY <1>5, <2>1, <2>2
<1>7. Ident(m) \in Ids
  OBVIOUS
<1> DEFINE a == Append(r, Ident(m))
<1>8. /\ a \in Seq(Ids) /\ Len(a) = n + 1 /\ a[n + 1] = Ident(m)
      /\ \A k \in 1 .. n : a[k] = r[k]
  BY <1>5, <1>6, <1>7, AppendProperties
<1>9. a = [k \in 1 .. n + 1 |-> a[k]]
  BY <1>8, LenProperties
<1>10. Executed' = [k \in 1 .. n + 1 |-> Ident(log'[k])]
  BY <1>1 DEF Executed
<1>11. \A k \in 1 .. n + 1 : a[k] = Ident(log'[k])
  <2>1. \A k \in 1 .. n + 1 : k \in 1 .. n \/ k = n + 1
    BY <1>5
  <2> HIDE DEF n, a, r
  <2> QED  BY <1>1, <1>2, <1>8, <2>1 DEF n
<1> HIDE DEF n, a
<1> QED  BY <1>9, <1>10, <1>11 DEF a

(***************************************************************************)
(* Every step of a connection is a step of CommandLife or changes no       *)
(* status.                                                                 *)
(***************************************************************************)
LEMMA NextLife ==
    ASSUME TypeOK, IdleInv, SentInv, PlaceInv, NEW c \in Conns, ConnNext(c)
    PROVE  Life!Next \/ UNCHANGED <<Statuses, Executed>>
<1> DEFINE i == IdOf[c]
<1> PICK h : h = Ident(current[c])
  OBVIOUS
<1>0. /\ i \in ClientIds /\ sent[c] \in Nat /\ \A d \in Conns : sent[d] \in Nat
      /\ transactions[i] \in Seq(Commands) \cup {None} /\ batch[c] \in Seq(Commands) \cup {None}
      /\ log \in Seq(Commands) /\ (Held(c) => current[c] \in Commands)
  BY DEF TypeOK, Held
<1>h. Held(c) => /\ h \in CommandIds /\ h[2] <= sent[h[1]]
                 /\ InOnePlace(h) /\ HasHeld(c, h)
                 /\ ~ Has(log, h)
                 /\ batch[c] # None => StatusOf(h) = "queued"
                 /\ batch[c] = None => h = <<c, sent[c]>> /\ StatusOf(h) = "sent"
  <2>1. Held(c) => h \in CommandIds /\ h[2] <= sent[h[1]]
    BY <1>0, IdentKnown DEF SentInv, WasSent, Ident, Commands
  <2>2. Held(c) => InOnePlace(h) /\ HasHeld(c, h)
    BY <2>1 DEF PlaceInv, HasHeld
  <2>3. Held(c) => ~ Has(log, h)
    BY <2>2 DEF InOnePlace
  <2>4. Held(c) /\ batch[c] # None => Queued(h)
    BY <2>2 DEF Queued
  <2>5. Held(c) /\ batch[c] = None => h = <<c, sent[c]>> /\ ~ Queued(h)
    BY <2>2 DEF SentInv, Queued, InOnePlace
  <2>6. Held(c) => h[1] \in Conns /\ h[2] \in Nat /\ sent[h[1]] \in Nat
    BY <1>0, <2>1, IdParts
  <2>7. Held(c) => StatusOf(h) = IF Queued(h) THEN "queued"
                                 ELSE IF Held(h[1]) /\ batch[h[1]] = None /\ sent[h[1]] = h[2]
                                      THEN "sent" ELSE "gone"
    BY <2>1, <2>3, <2>6 DEF StatusOf
  <2>8. Held(c) /\ batch[c] = None => h[1] = c /\ h[2] = sent[c]
    BY <2>5
  <2> QED  BY <2>1, <2>2, <2>3, <2>4, <2>5, <2>7, <2>8
<1>u. ASSUME NEW e \in CommandIds, Held(e[1]), batch[e[1]] = None, sent[e[1]] = e[2]
      PROVE  ~ Queued(e) /\ HasHeld(e[1], e)
  <2>1. e[1] \in Conns /\ e = <<e[1], sent[e[1]]>>
    BY <1>u, IdParts
  <2>2. HasHeld(e[1], e)
    BY <1>u, <2>1 DEF SentInv, HasHeld
  <2> QED  BY <1>u, <2>1, <2>2 DEF PlaceInv, InOnePlace, Queued
<1>d. ASSUME NEW e \in CommandIds, ~ Held(c)', log' = log, sent' = sent, Queued(e)' => Queued(e),
             \A b \in Conns \ {c} : (Held(b)' <=> Held(b)) /\ batch'[b] = batch[b]
      PROVE  \/ StatusOf(e)' = StatusOf(e)
             \/ StatusOf(e) \in {"sent", "queued"} /\ StatusOf(e)' = "gone"
  <2> DEFINE InHand == Held(e[1]) /\ batch[e[1]] = None /\ sent[e[1]] = e[2]
             Old == ~ (e[2] > sent[e[1]]) /\ ~ Has(log, e)
  <2>1. e[1] \in Conns
    BY IdParts
  <2>2. (InHand' => InHand) /\ (InHand => ~ Queued(e))
    BY <1>d, <1>u, <2>1
  <2>3. /\ Old => StatusOf(e) = IF Queued(e) THEN "queued" ELSE IF InHand THEN "sent" ELSE "gone"
        /\ Old' => StatusOf(e)' = IF Queued(e)' THEN "queued"
                                  ELSE IF InHand' THEN "sent" ELSE "gone"
        /\ Old' <=> Old
    BY <1>d DEF StatusOf
  <2>4. ~ Old => StatusOf(e)' = StatusOf(e)
    BY <1>d DEF StatusOf
  <2> HIDE DEF InHand, Old
  <2> QED  BY <1>d, <2>2, <2>3, <2>4
<1>s. UNCHANGED <<pc, sent, transactions, batch, current, log>> => UNCHANGED <<Statuses, Executed>>
  BY DEF Statuses, Executed, StatusOf, Queued, HasHeld, Held
<1>n. \A d : d = <<c, sent[c] + 1>> => ~ Has(log, d) /\ ~ Queued(d)
  <2>1. sent[c] + 1 \in Nat /\ sent[c] + 1 > sent[c]
    BY <1>0
  <2>2. /\ ~ Has(log, <<c, sent[c] + 1>>)
        /\ \A j \in ClientIds : ~ Has(transactions[j], <<c, sent[c] + 1>>)
        /\ \A b \in Conns : /\ ~ Has(batch[b], <<c, sent[c] + 1>>)
                           /\ ~ HasHeld(b, <<c, sent[c] + 1>>)
    BY <2>1, NewIsNowhere
  <2> QED  BY <2>2, Zenon DEF Queued
<1> USE DEF TypeOK, flagVars, clientVars, Goto, Return
<1>1. CASE Send(c)
  <2> PICK d : d = <<c, sent[c] + 1>>
    OBVIOUS
  <2>1. /\ pc' = [pc EXCEPT ![c] = "dispatch"] /\ UNCHANGED <<transactions, batch, log>>
        /\ sent' = [sent EXCEPT ![c] = sent[c] + 1] /\ sent[c] < MaxSent[c]
        /\ batch[c] = None /\ pc[c] = "idle"
        /\ \A b \in Conns \ {c} : current'[b] = current[b]
        /\ Ident(current'[c]) = d
    BY <1>1 DEF Send, IdleInv, Ident
  <2>2. d \in CommandIds
    BY <1>0, <2>1 DEF CommandIds
  <2>3. \A e \in CommandIds : Queued(e)' <=> Queued(e)
    BY <2>1 DEF Queued, HasHeld, Held
  <2>4. StatusOf(d) = "new" /\ StatusOf(d)' = "sent"
    <3>1. ~ Has(log, d) /\ ~ Queued(d)
      BY <1>n, Zenon
    <3>2. ~ Queued(d)'
      BY <2>2, <2>3, <3>1
    <3> QED  BY <1>0, <2>1, <3>1, <3>2 DEF StatusOf, Held
  <2>5. ASSUME NEW e \in CommandIds \ {d} PROVE StatusOf(e)' = StatusOf(e)
    <3>1. /\ e[1] \in Conns /\ e[2] \in Nat /\ e = <<e[1], e[2]>> /\ sent[e[1]] \in Nat
      BY <1>0, IdParts
    <3>2. CASE e[1] # c
      BY <2>1, <2>3, <3>1, <3>2 DEF StatusOf, Held
    <3>3. CASE e[1] = c
      <4>1. e[2] # sent[c] + 1
        BY <2>5, <3>1, <3>3
      <4> QED  BY <1>0, <2>1, <2>3, <3>1, <3>3, <4>1 DEF StatusOf, Held
    <3> QED  BY <3>2, <3>3
  <2>6. Statuses' = [Statuses EXCEPT ![d] = "sent"] /\ Statuses[d] = "new" /\ Executed' = Executed
    BY <2>1, <2>2, <2>4, <2>5, Changed DEF Statuses, Executed
  <2>7. Life!Send(d)
    BY <2>6 DEF Life!Send, Statuses, Executed
  <2> QED  BY <2>2, <2>7 DEF Life!Next
<1>2. CASE Dispatch(c)
  BY <1>2 DEF Dispatch, Statuses, Executed, StatusOf, Queued, HasHeld, Held
<1>3. CASE AppendTo(c)
  <2>0. /\ Held(c) /\ ~ Held(c)' /\ UNCHANGED <<current, batch, log, sent>>
        /\ \A b \in Conns \ {c} : Held(b)' <=> Held(b)
    BY <1>3 DEF AppendTo, Held
  <2>1. CASE transactions[i] = None
    <3>1. UNCHANGED transactions
      BY <1>3, <2>1 DEF AppendTo
    <3>2. \A e \in CommandIds : e # h => (Queued(e)' <=> Queued(e))
      BY <2>0, <3>1 DEF Queued, HasHeld
    <3>3. ~ Queued(h)'
      BY <1>h, <2>0, <3>1 DEF Queued, HasHeld, InOnePlace
    <3>4. \A e \in CommandIds : e # h => StatusOf(e)' = StatusOf(e)
      BY <1>h, <2>0, <3>2, IdParts DEF StatusOf
    <3>5. StatusOf(h) \in {"sent", "queued"} /\ StatusOf(h)' = "gone"
      <4>1. h[1] \in Conns /\ h[2] \in Nat /\ h \in CommandIds /\ sent[h[1]] \in Nat
        BY <1>0, <1>h, <2>0, IdParts
      <4>2. ~ (Held(h[1])' /\ batch[h[1]] = None /\ sent[h[1]] = h[2])
        BY <1>h, <1>u, <2>0, <4>1 DEF InOnePlace
      <4>3. h[2] <= sent[h[1]] /\ ~ (h[2] > sent[h[1]])
        BY <1>h, <2>0, <4>1
      <4>4. StatusOf(h)' = "gone"
        BY <1>h, <2>0, <3>3, <4>2, <4>3 DEF StatusOf
      <4> QED  BY <1>h, <2>0, <4>4
    <3> QED  BY <2>0, <3>4, <3>5, Dropped
  <2>2. CASE transactions[i] # None
    <3>1. transactions' = [transactions EXCEPT ![i] = Append(transactions[i], current[c])]
      BY <1>3, <2>2 DEF AppendTo
    <3>2. \A e : Has(transactions'[i], e) <=> Has(transactions[i], e) \/ e = h
      BY <1>0, <2>0, <2>2, <3>1, AppendContent
    <3>3. \A j \in ClientIds \ {i} : transactions'[j] = transactions[j]
      BY <3>1
    <3>4. \A e \in CommandIds : e # h => (Queued(e)' <=> Queued(e))
      BY <1>0, <2>0, <3>2, <3>3 DEF Queued, HasHeld
    <3>5. Queued(h)'
      BY <1>0, <3>2 DEF Queued
    <3>6. \A e \in CommandIds : e # h => StatusOf(e)' = StatusOf(e)
      BY <1>h, <2>0, <3>4, IdParts DEF StatusOf
    <3>7. StatusOf(h)' = "queued" /\ UNCHANGED Executed
      BY <1>0, <1>h, <2>0, <3>5 DEF StatusOf, Executed
    <3>8. Statuses' = [Statuses EXCEPT ![h] = "queued"]
      BY <1>h, <2>0, <3>6, <3>7, Changed
    <3>9. CASE batch[c] = None
      <4>1. h \in CommandIds /\ Statuses[h] = "sent"
        BY <1>h, <2>0, <3>9 DEF Statuses
      <4>2. Life!Queue(h)
        BY <3>7, <3>8, <4>1 DEF Life!Queue, Statuses, Executed
      <4> QED  BY <4>1, <4>2 DEF Life!Next
    <3>10. CASE batch[c] # None
      <4>1. h \in CommandIds /\ Statuses[h] = "queued"
        BY <1>h, <2>0, <3>10 DEF Statuses
      <4>2. Statuses' = Statuses
        BY <3>8, <4>1 DEF Statuses
      <4> QED  BY <3>7, <4>2
    <3> QED  BY <3>9, <3>10
  <2> QED  BY <2>1, <2>2
<1>4. CASE Data(c)
  <2>0. /\ Held(c) /\ ~ Held(c)' /\ UNCHANGED <<current, batch, transactions, sent>>
        /\ \A b \in Conns \ {c} : Held(b)' <=> Held(b)
        /\ log' = Append(log, current[c])
    BY <1>4 DEF Data, Running, Held
  <2>1. \A e : Has(log', e) <=> Has(log, e) \/ e = h
    BY <1>0, <2>0, AppendContent
  <2>2. \A e \in CommandIds : e # h => (Queued(e)' <=> Queued(e))
    BY <2>0 DEF Queued, HasHeld
  <2>3. \A e \in CommandIds : e # h => StatusOf(e)' = StatusOf(e)
    BY <1>h, <2>0, <2>1, <2>2, IdParts DEF StatusOf
  <2>4. StatusOf(h)' = "done"
    BY <1>0, <1>h, <2>0, <2>1 DEF StatusOf
  <2>5. Statuses' = [Statuses EXCEPT ![h] = "done"] /\ h \in CommandIds
    BY <1>h, <2>0, <2>3, <2>4, Changed
  <2>6. Statuses[h] \in {"sent", "queued"}
    BY <1>h, <2>0 DEF Statuses
  <2>7. Executed' = Append(Executed, h)
    BY <1>0, <2>0, Logged
  <2>8. Life!Execute(h)
    BY <2>5, <2>6, <2>7 DEF Life!Execute, Statuses, Executed
  <2> QED  BY <2>5, <2>8 DEF Life!Next
<1>5. CASE Multi(c)
  <2>0. /\ Held(c) /\ ~ Held(c)' /\ UNCHANGED <<current, batch, log, sent>>
        /\ \A b \in Conns \ {c} : Held(b)' <=> Held(b)
        /\ transactions' = [transactions EXCEPT ![i] = <<>>]
    BY <1>5 DEF Multi, Running, Held
  <2>1. \A e \in CommandIds : Queued(e)' => Queued(e)
    BY <1>0, <2>0, NoContent DEF Queued, HasHeld
  <2>2. \A e \in CommandIds : \/ StatusOf(e)' = StatusOf(e)
                              \/ StatusOf(e) \in {"sent", "queued"} /\ StatusOf(e)' = "gone"
    BY <1>d, <2>0, <2>1
  <2> QED  BY <2>0, <2>2, Dropped
<1>6. CASE MultiReply(c)
  BY <1>6 DEF MultiReply, Statuses, Executed, StatusOf, Queued, HasHeld, Held
<1>7. CASE ExecTake(c)
  <2>0. /\ Held(c) /\ ~ Held(c)' /\ UNCHANGED <<current, log, sent>>
        /\ \A b \in Conns \ {c} : Held(b)' <=> Held(b)
    BY <1>7 DEF ExecTake, Running, Held
  <2>1. \A e \in CommandIds : Queued(e)' => Queued(e)
    <3>1. CASE transactions[i] = None
      BY <1>7, <2>0, <3>1 DEF ExecTake, Queued, HasHeld
    <3>2. CASE transactions[i] # None
      BY <1>0, <1>7, <2>0, <3>2, NoContent DEF ExecTake, Queued, HasHeld
    <3> QED  BY <3>1, <3>2
  <2>2. \A b \in Conns \ {c} : batch'[b] = batch[b]
    BY <1>7 DEF ExecTake
  <2>3. \A e \in CommandIds : \/ StatusOf(e)' = StatusOf(e)
                              \/ StatusOf(e) \in {"sent", "queued"} /\ StatusOf(e)' = "gone"
    BY <1>d, <2>0, <2>1, <2>2
  <2> QED  BY <2>0, <2>3, Dropped
<1>8. CASE ExecClear(c)
  BY <1>8 DEF ExecClear, Statuses, Executed, StatusOf, Queued, HasHeld, Held
<1>9. CASE ExecNext(c)
  <2>0. /\ ~ Held(c) /\ Held(c)' /\ UNCHANGED <<transactions, log, sent>>
        /\ \A b \in Conns \ {c} : /\ Held(b)' <=> Held(b)
                                  /\ batch'[b] = batch[b] /\ current'[b] = current[b]
        /\ batch[c] # None /\ batch'[c] = Tail(batch[c]) /\ current'[c] = Head(batch[c])
        /\ batch[c] # <<>>
    BY <1>9 DEF ExecNext, Held
  <2>1. /\ batch'[c] # None
        /\ \A e : Has(batch[c], e) <=> Ident(current'[c]) = e \/ Has(batch'[c], e)
    BY <1>0, <2>0, HeadContent
  <2>2. \A e \in CommandIds : Queued(e)' <=> Queued(e)
    BY <2>0, <2>1 DEF Queued, HasHeld
  <2>3. \A e \in CommandIds : StatusOf(e)' = StatusOf(e)
    BY <1>u, <2>0, <2>1, <2>2, IdParts DEF StatusOf
  <2> QED  BY <2>0, <2>3 DEF Statuses, Executed
<1>10. CASE ExecDone(c)
  <2>0. /\ ~ Held(c) /\ ~ Held(c)' /\ UNCHANGED <<transactions, log, sent, current>>
        /\ \A b \in Conns \ {c} : (Held(b)' <=> Held(b)) /\ batch'[b] = batch[b]
        /\ batch[c] = <<>> /\ batch'[c] = None
    BY <1>10 DEF ExecDone, Held
  <2>1. \A e \in CommandIds : Queued(e)' <=> Queued(e)
    BY <2>0, NoContent DEF Queued, HasHeld
  <2>2. \A e \in CommandIds : StatusOf(e)' = StatusOf(e)
    BY <1>u, <2>0, <2>1, IdParts DEF StatusOf
  <2> QED  BY <2>0, <2>2 DEF Statuses, Executed
<1>11. CASE Discard(c)
  <2>0. /\ Held(c) /\ ~ Held(c)' /\ UNCHANGED <<current, batch, log, sent>>
        /\ \A b \in Conns \ {c} : Held(b)' <=> Held(b)
        /\ transactions' = [transactions EXCEPT ![i] = None]
    BY <1>11 DEF Discard, Running, Held
  <2>1. \A e \in CommandIds : Queued(e)' => Queued(e)
    BY <1>0, <2>0, NoContent DEF Queued, HasHeld
  <2>2. \A e \in CommandIds : \/ StatusOf(e)' = StatusOf(e)
                              \/ StatusOf(e) \in {"sent", "queued"} /\ StatusOf(e)' = "gone"
    BY <1>d, <2>0, <2>1
  <2> QED  BY <2>0, <2>2, Dropped
<1> QED  BY <1>1, <1>2, <1>3, <1>4, <1>5, <1>6, <1>7, <1>8, <1>9, <1>10, <1>11
         DEF ConnNext

(***************************************************************************)
(* A connection that has sent no MULTI, EXEC or DISCARD puts a command on  *)
(* the store into the queue of the lone controller, at most, and executes  *)
(* only its own.                                                           *)
(***************************************************************************)
LEMMA OtherStepKeepsSession ==
    ASSUME TypeOK, NEW c \in Conns, NEW x \in Conns, c # x, ConnNext(c),
           SessionAt(x), OnlyController(x)'
    PROVE  SessionAt(x)'
<1> DEFINE i == IdOf[c]
           m == current[c]
<1>0. /\ i \in ClientIds /\ IdOf[x] \in ClientIds /\ log \in Seq(Commands)
      /\ transactions[i] \in Seq(Commands) \cup {None}
      /\ Held(c) => m \in Commands /\ m.kind = "DATA" /\ m.conn = c
      /\ batch[c] = None /\ pc[c] \in {"idle", "dispatch", "append", "run"}
  BY DEF TypeOK, Held, SessionAt, OthersSendData
<1> USE DEF TypeOK, flagVars, clientVars, Goto, Return, SessionAt, OthersSendData,
            SessionOpen, SessionTaken, DataOnly, Hand, Held
<1>1. CASE Send(c)
  <2>1. PICK kind \in Kinds :
          /\ current' = [current EXCEPT ![c] = [kind |-> kind, conn |-> c, seq |-> sent[c] + 1]]
          /\ controllers' = IF kind = "DATA" THEN controllers ELSE controllers \cup {c}
          /\ session' = IF kind \in {"MULTI", "DATA"} /\ session[c] # None
                        THEN [session EXCEPT ![c] = Append(@,
                                [kind |-> kind, conn |-> c, seq |-> sent[c] + 1])]
                        ELSE session
    BY <1>1 DEF Send
  <2>2. kind = "DATA"
    BY <2>1 DEF OnlyController
  <2>3. /\ current'[c].kind = "DATA" /\ current'[c].conn = c
        /\ \A d \in Conns \ {c} : current'[d] = current[d]
        /\ session'[x] = session[x]
    BY <2>1, <2>2
  <2>4. pc' = [pc EXCEPT ![c] = "dispatch"] /\ UNCHANGED <<transactions, multi, batch, log>>
    BY <1>1 DEF Send
  <2> QED  BY <1>0, <2>3, <2>4
<1>2. CASE Dispatch(c)
  BY <1>2 DEF Dispatch
<1>3. CASE AppendTo(c)
  <2>1. CASE transactions[i] = None
    BY <1>0, <1>3, <2>1 DEF AppendTo
  <2>2. CASE transactions[i] # None
    <3>1. /\ transactions' = [transactions EXCEPT ![i] = Append(transactions[i], m)]
          /\ pc' = [pc EXCEPT ![c] = "idle"] /\ UNCHANGED <<multi, current, batch, log, session>>
          /\ m.kind = "DATA"
      BY <1>0, <1>3, <2>2 DEF AppendTo
    <3>2. /\ transactions'[i] # None /\ Range(transactions'[i]) = Range(transactions[i]) \cup {m}
      BY <1>0, <1>3, <2>2, <3>1, AppendContent DEF AppendTo
    <3>3. IdOf[x] # i => transactions'[IdOf[x]] = transactions[IdOf[x]]
      BY <1>0, <3>1
    <3> QED  BY <1>0, <2>2, <3>1, <3>2, <3>3
  <2> QED  BY <2>1, <2>2
<1>4. CASE Data(c)
  <2>1. /\ pc' = [pc EXCEPT ![c] = "idle"] /\ m.conn = c
        /\ UNCHANGED <<transactions, multi, current, batch, session>>
        /\ Range(log') = Range(log) \cup {m}
    BY <1>0, <1>4, AppendContent DEF Data, Running
  <2> QED  BY <1>0, <2>1
<1>5. CASE Multi(c)
  BY <1>0, <1>5 DEF Multi, Running
<1>6. CASE MultiReply(c)
  BY <1>0, <1>6 DEF MultiReply
<1>7. CASE ExecTake(c)
  BY <1>0, <1>7 DEF ExecTake, Running
<1>8. CASE ExecClear(c)
  BY <1>0, <1>8 DEF ExecClear
<1>9. CASE ExecNext(c)
  BY <1>0, <1>9 DEF ExecNext
<1>10. CASE ExecDone(c)
  BY <1>0, <1>10 DEF ExecDone
<1>11. CASE Discard(c)
  BY <1>0, <1>11 DEF Discard, Running
<1> QED  BY <1>1, <1>2, <1>3, <1>4, <1>5, <1>6, <1>7, <1>8, <1>9, <1>10, <1>11
         DEF ConnNext

(***************************************************************************)
(* The steps of the only controller keep track of its own transaction.     *)
(***************************************************************************)
LEMMA OwnStepKeepsSession ==
    ASSUME TypeOK, IdleInv, SentInv, NEW c \in Conns, ConnNext(c), SessionAt(c)
    PROVE  SessionAt(c)'
<1> DEFINE i == IdOf[c]
           m == current[c]
           q == transactions[i]
           s == session[c]
<1>0. /\ i \in ClientIds /\ log \in Seq(Commands)
      /\ q \in Seq(Commands) \cup {None} /\ batch[c] \in Seq(Commands) \cup {None}
      /\ s \in Seq(Commands) \cup {None}
      /\ Held(c) => m \in Commands
      /\ pc[c] \in {"execClear", "exec"} => batch[c] # None
  BY DEF TypeOK, Held
<1> USE DEF TypeOK, flagVars, clientVars, Goto, Return, SessionAt, OthersSendData,
            SessionOpen, SessionTaken, DataOnly, Hand, Held
<1>1. CASE Send(c)
  <2>1. PICK kind \in Kinds :
          LET n == [kind |-> kind, conn |-> c, seq |-> sent[c] + 1]
          IN  /\ current' = [current EXCEPT ![c] = n]
              /\ session' = IF kind \in {"MULTI", "DATA"} /\ session[c] # None
                            THEN [session EXCEPT ![c] = Append(@, n)] ELSE session
    BY <1>1 DEF Send
  <2> PICK n : n = [kind |-> kind, conn |-> c, seq |-> sent[c] + 1]
    OBVIOUS
  <2>2. n \in Commands /\ n.kind = kind /\ n.conn = c /\ n.seq = sent[c] + 1
    BY DEF Commands
  <2>3. /\ current' = [current EXCEPT ![c] = n]
        /\ batch[c] = None /\ pc[c] = "idle" /\ pc' = [pc EXCEPT ![c] = "dispatch"]
        /\ UNCHANGED <<transactions, multi, batch, log>>
    BY <1>1, <2>1 DEF Send, IdleInv
  <2>4. \A d \in Conns \ {c} : session'[d] = session[d] /\ current'[d] = current[d]
    BY <2>1, <2>3
  <2>5. n \notin Range(log)
    BY <2>2 DEF SentInv, WasSent
  <2>6. CASE s = None
    <3>1. session'[c] = None
      BY <2>1, <2>6
    <3> QED  BY <2>3, <2>4, <3>1
  <2>7. CASE s # None /\ kind \in {"MULTI", "DATA"}
    <3>1. Range(session'[c]) = Range(s) \cup {n} /\ session'[c] # None
      BY <1>0, <2>1, <2>2, <2>7, AppendContent
    <3> QED  BY <1>0, <2>2, <2>3, <2>4, <2>5, <2>7, <3>1
  <2>8. CASE s # None /\ kind \in {"EXEC", "DISCARD"}
    <3>1. session' = session
      BY <2>1, <2>8
    <3> QED  BY <1>0, <2>2, <2>3, <2>4, <2>8, <3>1
  <2> QED  BY <2>6, <2>7, <2>8 DEF Kinds
<1>2. CASE Dispatch(c)
  BY <1>2 DEF Dispatch
<1>3. CASE AppendTo(c)
  <2>1. CASE q = None
    BY <1>0, <1>3, <2>1 DEF AppendTo
  <2>2. CASE q # None
    <3>1. /\ transactions' = [transactions EXCEPT ![i] = Append(q, m)]
          /\ pc[c] = "append"
          /\ pc' = [pc EXCEPT ![c] = IF batch[c] = None THEN "idle" ELSE "exec"]
          /\ UNCHANGED <<multi, current, batch, log, session>>
      BY <1>0, <1>3, <2>2 DEF AppendTo
    <3>2. transactions'[i] # None /\ Range(transactions'[i]) = Range(q) \cup {m}
      BY <1>0, <2>2, <3>1, AppendContent
    <3> QED  BY <1>0, <2>2, <3>1, <3>2
  <2> QED  BY <2>1, <2>2
<1>4. CASE Data(c)
  <2>1. /\ pc[c] = "run" /\ m.kind = "DATA"
        /\ pc' = [pc EXCEPT ![c] = IF batch[c] = None THEN "idle" ELSE "exec"]
        /\ UNCHANGED <<transactions, multi, current, batch, session>>
        /\ Range(log') = Range(log) \cup {m}
    BY <1>0, <1>4, AppendContent DEF Data, Running
  <2> QED  BY <1>0, <2>1
<1>5. CASE Multi(c)
  <2>1. /\ pc[c] = "run" /\ m.kind = "MULTI" /\ multi'
        /\ pc' = [pc EXCEPT ![c] = "multiReply"]
        /\ transactions' = [transactions EXCEPT ![i] = <<>>]
        /\ UNCHANGED <<current, batch, log, session>>
    BY <1>5 DEF Multi, Running
  <2>2. transactions'[i] # None /\ Range(transactions'[i]) = {}
    BY <1>0, <2>1, EmptyQueue, NoContent
  <2> QED  BY <1>0, <2>1, <2>2
<1>6. CASE MultiReply(c)
  BY <1>0, <1>6, NoContent DEF MultiReply
<1>7. CASE ExecTake(c)
  <2>1. CASE q = None
    BY <1>0, <1>7, <2>1 DEF ExecTake, Running
  <2>2. CASE q # None
    BY <1>0, <1>7, <2>2 DEF ExecTake, Running
  <2> QED  BY <2>1, <2>2
<1>8. CASE ExecClear(c)
  BY <1>0, <1>8 DEF ExecClear
<1>9. CASE ExecNext(c)
  <2>1. /\ pc[c] = "exec" /\ batch[c] # None /\ batch[c] # <<>>
        /\ pc' = [pc EXCEPT ![c] = "dispatch"]
        /\ current' = [current EXCEPT ![c] = Head(batch[c])]
        /\ batch' = [batch EXCEPT ![c] = Tail(batch[c])]
        /\ UNCHANGED <<transactions, multi, log, session>>
    BY <1>0, <1>9 DEF ExecNext
  <2>2. batch'[c] # None /\ Range(batch[c]) = {current'[c]} \cup Range(batch'[c])
    BY <1>0, <2>1, HeadContent
  <2> QED  BY <1>0, <2>1, <2>2
<1>10. CASE ExecDone(c)
  BY <1>0, <1>10 DEF ExecDone
<1>11. CASE Discard(c)
  BY <1>0, <1>11 DEF Discard, Running
<1> QED  BY <1>1, <1>2, <1>3, <1>4, <1>5, <1>6, <1>7, <1>8, <1>9, <1>10, <1>11
         DEF ConnNext

(***************************************************************************)
(* The transaction of the only controller is where its last command left   *)
(* it.                                                                     *)
(***************************************************************************)
LEMMA NextSessionInv == TypeOK /\ IdleInv /\ SentInv /\ SessionInv /\ [Next]_vars => SessionInv'
<1> SUFFICES ASSUME TypeOK, IdleInv, SentInv, SessionInv, [Next]_vars,
                    NEW x \in Conns, OnlyController(x)'
             PROVE  SessionAt(x)'
  BY DEF SessionInv
<1>1. CASE UNCHANGED vars
  <2>1. UNCHANGED <<transactions, multi, pc, current, batch, log, session, controllers>>
    BY <1>1 DEF vars, flagVars, procVars, clientVars
  <2>2. SessionAt(x)
    BY <2>1 DEF SessionInv, OnlyController
  <2> QED  BY <2>1, <2>2 DEF SessionAt, OthersSendData, SessionOpen, SessionTaken, DataOnly,
              Hand, Held
<1>2. ASSUME NEW c \in Conns, ConnNext(c) PROVE SessionAt(x)'
  <2>1. controllers \subseteq controllers'
    BY <1>2 DEF ConnNext, Send, Dispatch, AppendTo, Data, Multi, MultiReply, ExecTake,
       ExecClear, ExecNext, ExecDone, Discard, clientVars
  <2>2. SessionAt(x)
    BY <2>1 DEF SessionInv, OnlyController
  <2> QED  BY <1>2, <2>2, OtherStepKeepsSession, OwnStepKeepsSession
<1> QED  BY <1>1, <1>2 DEF Next

(***************************************************************************)
(* Every reachable state satisfies the inductive invariant.                *)
(***************************************************************************)
THEOREM Invariance == Spec => []TransactionsInv
<1>1. Init => TransactionsInv
  <2> SUFFICES ASSUME Init PROVE TransactionsInv
    OBVIOUS
  <2>1. TypeOK
    BY InitTypeOK
  <2>2. MultiHasOwner /\ IdleInv /\ OrderInv
    BY DEF Init, MultiHasOwner, IdleInv, OrderInv, OrderAt, InOrder, Held
  <2>3. OnceInv /\ PlaceInv /\ SentInv
    BY NoContent DEF Init, OnceInv, PlaceInv, InOnePlace, HasHeld, Held, SentInv
  <2>4. SessionInv
    BY DEF Init, SessionInv, SessionAt, OthersSendData, Held
  <2> QED  BY <2>1, <2>2, <2>3, <2>4 DEF TransactionsInv
<1>2. TransactionsInv /\ [Next]_vars => TransactionsInv'
  BY NextTypeOK, NextMultiHasOwner, NextIdleInv, NextOrderInv, NextPlaceInv, NextSentInv,
     NextSessionInv DEF TransactionsInv
<1> QED  BY <1>1, <1>2, PTL DEF Spec

(***************************************************************************)
(* The variables keep their types: in particular EXEC never runs a queue   *)
(* that is not there (tealis.go:79-83).                                    *)
(***************************************************************************)
THEOREM TypeCorrect == Spec => []TypeOK
BY Invariance, PTL DEF TransactionsInv

(***************************************************************************)
(* Whenever commands are queued, some client or some EXEC can end it.      *)
(***************************************************************************)
THEOREM FlagHasOwner == Spec => []MultiHasOwner
BY Invariance, PTL DEF TransactionsInv

(***************************************************************************)
(* The queue of a client that shares its ID with nobody holds its own      *)
(* commands in the order in which it sent them, and so does what EXEC      *)
(* still has to run.                                                       *)
(***************************************************************************)
THEOREM QueuesInOrder == Spec => []QueueInOrder
<1>1. TransactionsInv => QueueInOrder
  BY DEF TransactionsInv, OrderInv, OrderAt, QueueInOrder
<1> QED  BY <1>1, Invariance, PTL

(***************************************************************************)
(* Whatever the clients do to each other's transactions, also those that   *)
(* share an ID, a command is executed at most once, and one that was       *)
(* executed or dropped does not come back: Transactions implements         *)
(* CommandLife.                                                            *)
(***************************************************************************)
THEOREM ImplementsLife == Spec => EachCommandAtMostOnce
<1>1. Init => Life!Init
  <2> SUFFICES ASSUME Init PROVE Life!Init
    OBVIOUS
  <2>1. Executed = <<>>
    BY DEF Init, Executed
  <2>2. \A d \in CommandIds : StatusOf(d) = "new"
    BY IdParts DEF Init, StatusOf
  <2> QED  BY <2>1, <2>2 DEF Life!Init, Statuses
<1>2. TransactionsInv /\ [Next]_vars => [Life!Next]_<<Statuses, Executed>>
  <2> SUFFICES ASSUME TransactionsInv, [Next]_vars
               PROVE  Life!Next \/ UNCHANGED <<Statuses, Executed>>
    OBVIOUS
  <2>1. CASE UNCHANGED vars
    BY <2>1 DEF Statuses, Executed, StatusOf, Queued, HasHeld, Held, vars, flagVars,
       procVars,
       clientVars
  <2>2. CASE Next
    BY <2>2, NextLife DEF Next, TransactionsInv
  <2> QED  BY <2>1, <2>2
<1> QED  BY <1>1, <1>2, Invariance, PTL DEF Spec, EachCommandAtMostOnce, Life!Spec

(***************************************************************************)
(* When EXEC returns to the only client that uses transactions, every      *)
(* command it sent since its MULTI was accepted has taken effect           *)
(* (readme.md:7), however many clients send other commands meanwhile.      *)
(***************************************************************************)
THEOREM ExecRunsAll == Spec => ExecRunsAllAlone
<1>1. ASSUME TransactionsInv, NEW c \in Conns, ExecReturns(c), DataOnly(session[c]),
             OnlyController(c), Next
      PROVE  Range(session[c]) \subseteq Range(log)
  <2>1. SessionTaken(c)
    BY <1>1 DEF TransactionsInv, TypeOK, SessionInv, SessionAt, ExecReturns
  <2>2. PICK d \in Conns : ConnNext(d)
    BY <1>1 DEF Next
  <2>3. batch[c] = <<>>
    BY <1>1, <2>2 DEF TransactionsInv, TypeOK, ExecReturns, ConnNext, Send, Dispatch,
       AppendTo,
       Data, Multi, MultiReply, ExecTake, ExecClear, ExecNext, ExecDone, Discard, Running,
       Goto, Return
  <2> QED  BY <1>1, <2>1, <2>3, NoContent DEF SessionTaken, Hand, Held, ExecReturns
<1>2. TransactionsInv /\ [Next]_vars =>
        [\A c \in Conns : ExecReturns(c) /\ DataOnly(session[c]) /\ OnlyController(c)
                            => Range(session[c]) \subseteq Range(log)]_vars
  BY <1>1
<1> QED  BY <1>2, Invariance, PTL DEF Spec, ExecRunsAllAlone

(***************************************************************************)
(* When DISCARD returns to the only client that uses transactions, nothing *)
(* that it sent since its MULTI was accepted has taken effect              *)
(* (readme.md:8).                                                          *)
(***************************************************************************)
THEOREM DiscardRunsNone == Spec => DiscardRunsNoneAlone
<1>1. ASSUME TransactionsInv, NEW c \in Conns, DiscardReturns(c), OnlyController(c), Next
      PROVE  Range(session[c]) \cap Range(log) = {}
  <2>1. PICK d \in Conns : ConnNext(d)
    BY <1>1 DEF Next
  <2>2. batch[c] = None
    BY <1>1, <2>1 DEF TransactionsInv, TypeOK, DiscardReturns, ConnNext, Send, Dispatch,
       AppendTo,
       Data, Multi, MultiReply, ExecTake, ExecClear, ExecNext, ExecDone, Discard, Running,
       Goto, Return
  <2> QED  BY <1>1, <2>2 DEF TransactionsInv, SessionInv, SessionAt, SessionOpen,
              DiscardReturns
<1>2. TransactionsInv /\ [Next]_vars =>
        [\A c \in Conns : DiscardReturns(c) /\ OnlyController(c)
                            => Range(session[c]) \cap Range(log) = {}]_vars
  BY <1>1
<1> QED  BY <1>2, Invariance, PTL DEF Spec, DiscardRunsNoneAlone
=============================================================================
