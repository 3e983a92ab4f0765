------------------------------ MODULE MCPubSub ------------------------------
(***************************************************************************)
(* Small instances of PubSub.                                              *)
(***************************************************************************)
EXTENDS PubSub, TLC

ClientsAndChans == Clients \cup Chans

CONSTANTS ws, tcp, h1, h2, channel, news

(* One more than a buffer of two takes.                                    *)
TcpPublishesThree == [c \in Clients |-> IF c = tcp THEN 3 ELSE 0]
EachPublishesOne == [c \in Clients |-> 1]

ChanSymmetry == Permutations(Chans)

(***************************************************************************)
(* The argument of a command matters only while the command is executed.   *)
(***************************************************************************)
View == <<chanVars, connVars, pc, targets, published, delivererVars, mutexVars,
          [c \in Clients |->
              IF pc[c] \in {"subscribe", "unsubscribe", "publish", "publishing"}
              THEN topic[c] ELSE Fixed]>>

(***************************************************************************)
(* A bound of this instance: one message while there are two channels,     *)
(* three while there is one.                                               *)
(***************************************************************************)
FewForTwo == published[tcp] > 1 => \E h \in Chans : owner[h] = NoClient
=============================================================================
