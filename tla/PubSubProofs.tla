---------------------------- MODULE PubSubProofs ----------------------------
(***************************************************************************)
(* Proofs about PubSub, for every set of clients, of channels and of       *)
(* topics and every capacity of the buffers.                               *)
(***************************************************************************)
EXTENDS PubSub, TLAPS

USE PubSubProcsAssumption, TopicsAssumption, NullsAssumption, SizesAssumption,
    NoProcAssumption

(***************************************************************************)
(* One goroutine that is not dead is enough for the process to run.        *)
(***************************************************************************)
LEMMA Alive ==
    ASSUME Places, NEW p \in Procs, pc[p] # "dead"
    PROVE  Running
BY DEF Places, Running, ClientPlaces, DelivererPlaces

(***************************************************************************)
(* The types are kept, and every goroutine stays in its own places.        *)
(***************************************************************************)
LEMMA NextTypes ==
    ASSUME Types, Places, ChannelInv, [Next]_vars
    PROVE  Types' /\ Places'
<1>1. ASSUME NEW p \in Procs, Lock(p) PROVE Types' /\ Places'
  BY <1>1 DEF Lock, Announce, Types, Places, MutexTypeOK, ClientPlaces,
     DelivererPlaces, Waiting, chanVars, connVars, clientVars, delivererVars, mutexVars
<1>2. ASSUME NEW c \in Clients, Connect(c) PROVE Types' /\ Places'
  BY <1>2 DEF Connect, Goto, Types, Places, MutexTypeOK, ClientPlaces,
     DelivererPlaces, Waiting, chanVars, connVars, clientVars, delivererVars, mutexVars
<1>3. ASSUME NEW c \in Clients, Break(c) PROVE Types' /\ Places'
  BY <1>3 DEF Break, Types, Places, MutexTypeOK, ClientPlaces,
     DelivererPlaces, Waiting, chanVars, connVars, clientVars, delivererVars, mutexVars
<1>4. ASSUME NEW c \in Clients, Leave(c) PROVE Types' /\ Places'
  BY <1>4 DEF Leave, Goto, Types, Places, MutexTypeOK, ClientPlaces,
     DelivererPlaces, Waiting, chanVars, connVars, clientVars, delivererVars, mutexVars
<1>5. ASSUME NEW c \in Clients, CallSubscribe(c) PROVE Types' /\ Places'
  BY <1>5 DEF CallSubscribe, Request, Goto, Types, Places, MutexTypeOK, ClientPlaces,
     DelivererPlaces, Waiting, chanVars, connVars, clientVars, delivererVars, mutexVars
<1>6. ASSUME NEW c \in Clients, CallUnsubscribe(c) PROVE Types' /\ Places'
  BY <1>6 DEF CallUnsubscribe, Request, Goto, Types, Places, MutexTypeOK, ClientPlaces,
     DelivererPlaces, Waiting, chanVars, connVars, clientVars, delivererVars, mutexVars
<1>7. ASSUME NEW c \in Clients, CallPublish(c) PROVE Types' /\ Places'
  BY <1>7 DEF CallPublish, Request, RLock, Goto, Types, Places, MutexTypeOK, ClientPlaces,
     DelivererPlaces, Waiting, chanVars, connVars, clientVars, delivererVars, mutexVars
<1>8. ASSUME NEW c \in Clients, EnterRegistry(c) PROVE Types' /\ Places'
  BY <1>8 DEF EnterRegistry, WriteReady, Goto, Types, Places, MutexTypeOK, ClientPlaces,
     DelivererPlaces, Waiting, chanVars, connVars, clientVars, delivererVars, mutexVars
<1>9. ASSUME NEW c \in Clients, Register(c) PROVE Types' /\ Places'
  BY <1>9 DEF Register, Unlock, Goto, Types, Places, MutexTypeOK, ClientPlaces,
     DelivererPlaces, Waiting, chanVars, connVars, clientVars, delivererVars, mutexVars
<1>10. ASSUME NEW c \in Clients, Unregister(c) PROVE Types' /\ Places'
  BY <1>10 DEF Unregister, Unlock, Holders, Goto, Types, Places, MutexTypeOK, ClientPlaces,
     DelivererPlaces, Waiting, chanVars, connVars, clientVars, delivererVars, mutexVars
<1>11. ASSUME NEW c \in Clients, Subscribe(c) PROVE Types' /\ Places'
  <2>1. CASE subscribers[topic[c]][c] = NoChan
    <3>1. PICK h \in Chans : /\ subscribers' = [subscribers EXCEPT ![topic[c]][c] = h]
                             /\ owner' = [owner EXCEPT ![h] = c]
                             /\ pc' = [pc EXCEPT ![h] = "receive", ![c] = "answer"]
      BY <1>11, <2>1 DEF Subscribe
    <3>2. Unlock /\ UNCHANGED <<buffer, closed, connVars, clientVars, delivererVars>>
      BY <1>11 DEF Subscribe
    <3>3. subscribers' \in [Topics -> [Clients -> Chans \cup {NoChan}]]
      BY <3>1 DEF Types
    <3>4. Places'
      <4>1. pc[c] = "subscribe" /\ c \in Clients /\ Procs = Clients \cup Chans
        BY <1>11, PubSubProcsAssumption DEF Subscribe
      <4>2. \A p \in Procs \ {c, h} : pc'[p] = pc[p]
        BY <3>1 DEF Types
      <4>3. pc'[c] \in ClientPlaces /\ pc'[h] \in DelivererPlaces
        BY <3>1, <4>1 DEF Types, ClientPlaces, DelivererPlaces
      <4> QED  BY <4>1, <4>2, <4>3 DEF Places
    <3> QED  BY <3>1, <3>2, <3>3, <3>4 DEF Unlock, Types, MutexTypeOK, connVars,
                clientVars, delivererVars
  <2>2. CASE subscribers[topic[c]][c] # NoChan
    <3>1. /\ pc[c] = "subscribe" /\ pc' = [pc EXCEPT ![c] = "answer"]
          /\ Unlock
          /\ UNCHANGED <<subscribers, owner, buffer, closed, connVars, clientVars, delivererVars>>
      BY <1>11, <2>2 DEF Subscribe, Goto
    <3> QED  BY <3>1 DEF Unlock, Types, Places, MutexTypeOK, ClientPlaces, DelivererPlaces,
                connVars, clientVars, delivererVars
  <2> QED  BY <2>1, <2>2
<1>12. ASSUME NEW c \in Clients, Unsubscribe(c) PROVE Types' /\ Places'
  BY <1>12 DEF Unsubscribe, Remove, WriteReady, Unlock, Goto, Types, Places, MutexTypeOK,
     ClientPlaces,
     DelivererPlaces, Waiting, chanVars, connVars, clientVars, delivererVars, mutexVars
<1>13. ASSUME NEW c \in Clients, EnterPublish(c) PROVE Types' /\ Places'
  BY <1>13 DEF EnterPublish, Goto, Types, Places, MutexTypeOK, ClientPlaces,
     DelivererPlaces, Waiting, chanVars, connVars, clientVars, delivererVars, mutexVars
<1>14. ASSUME NEW c \in Clients, Publish(c) PROVE Types' /\ Places'
  <2>1. PICK h \in targets[c] :
           /\ Push(h, [from |-> c, seq |-> published[c], topic |-> topic[c]])
           /\ targets' = [targets EXCEPT ![c] = @ \ {h}]
    BY <1>14 DEF Publish
  <2>2. [from |-> c, seq |-> published[c], topic |-> topic[c]] \in Messages /\ h \in Chans
    BY DEF Types, Messages
  <2>3. buffer' \in [Chans -> Seq(Messages)]
    BY <2>1, <2>2 DEF Push, Types
  <2>4. targets' \in [Clients -> SUBSET Chans]
    BY <2>1 DEF Types
  <2> QED  BY <1>14, <2>3, <2>4 DEF Publish, Types, Places, MutexTypeOK, connVars,
              delivererVars, mutexVars
<1>15. ASSUME NEW c \in Clients, FinishPublish(c) PROVE Types' /\ Places'
  BY <1>15 DEF FinishPublish, RUnlock, Goto, Types, Places, MutexTypeOK, ClientPlaces,
     DelivererPlaces, Waiting, chanVars, connVars, clientVars, delivererVars, mutexVars
<1>16. ASSUME NEW c \in Clients, StartAnswer(c) PROVE Types' /\ Places'
  BY <1>16 DEF StartAnswer, Goto, Types, Places, MutexTypeOK, ClientPlaces,
     DelivererPlaces, Waiting, chanVars, connVars, clientVars, delivererVars, mutexVars
<1>17. ASSUME NEW c \in Clients, FinishAnswer(c) PROVE Types' /\ Places'
  <2>1. PICK l \in {"idle", "unregister"} : pc' = [pc EXCEPT ![c] = l]
    BY <1>17 DEF FinishAnswer, Goto
  <2> QED  BY <1>17, <2>1 DEF FinishAnswer, Types, Places, MutexTypeOK, ClientPlaces,
              DelivererPlaces, Waiting, chanVars, connVars, clientVars, delivererVars, mutexVars
<1>18. ASSUME NEW c \in Clients, AnswerPanics(c) PROVE Types' /\ Places'
  BY <1>18 DEF AnswerPanics, Holders, Goto, Types, Places, MutexTypeOK, ClientPlaces,
     DelivererPlaces, Waiting, chanVars, connVars, clientVars, delivererVars, mutexVars
<1>19. ASSUME NEW h \in Chans, Receive(h) PROVE Types' /\ Places'
  <2>1. Head(buffer[h]) \in Messages /\ Tail(buffer[h]) \in Seq(Messages)
    BY <1>19 DEF Receive, Types
  <2>2. hand' \in [Chans -> Messages \cup {NoMessage}] /\ buffer' \in [Chans -> Seq(Messages)]
    BY <1>19, <2>1 DEF Receive, Types
  <2>3. Head(buffer[h]).from \in Clients /\ Head(buffer[h]).seq \in Nat
    BY <2>1 DEF Messages
  <2>4. taken' \in [Chans -> [Clients -> Nat]]
    BY <1>19, <2>3 DEF Receive, Types
  <2> QED  BY <1>19, <2>2, <2>4 DEF Receive, Goto, Types, Places, MutexTypeOK, ClientPlaces,
              DelivererPlaces, connVars, clientVars, mutexVars
<1>20. ASSUME NEW h \in Chans, Finish(h) PROVE Types' /\ Places'
  BY <1>20 DEF Finish, Reset, Goto, Types, Places, MutexTypeOK, ClientPlaces,
     DelivererPlaces, Waiting, chanVars, connVars, clientVars, delivererVars, mutexVars
<1>21. ASSUME NEW h \in Chans, Lookup(h) PROVE Types' /\ Places'
  <2>1. PICK l \in {"receive", "wsWait", "writing"} : pc' = [pc EXCEPT ![h] = l]
    BY <1>21 DEF Lookup, Continue, Goto
  <2>2. /\ hand' \in [Chans -> Messages \cup {NoMessage}]
        /\ old' \in SUBSET Chans
        /\ UNCHANGED <<wsOwner, taken, chanVars, connVars, clientVars, mutexVars>>
    <3>1. /\ hand' = hand \/ hand' = [hand EXCEPT ![h] = NoMessage]
          /\ old' = old \/ old' = old \cup {h} \/ old' = old \ {h}
      BY <1>21 DEF Lookup, Continue
    <3>2. UNCHANGED <<wsOwner, taken, chanVars, connVars, clientVars, mutexVars>>
      BY <1>21 DEF Lookup, Continue
    <3> QED  BY <3>1, <3>2 DEF Types
  <2> QED  BY <1>21, <2>1, <2>2 DEF Lookup, Types, Places, MutexTypeOK, ClientPlaces,
              DelivererPlaces, Waiting, chanVars, connVars, clientVars, mutexVars
<1>22. ASSUME NEW h \in Chans, WsTake(h) PROVE Types' /\ Places'
  BY <1>22 DEF WsTake, Goto, Types, Places, MutexTypeOK, ClientPlaces,
     DelivererPlaces, Waiting, chanVars, connVars, clientVars, delivererVars, mutexVars
<1>23. ASSUME NEW h \in Chans, WsEnter(h) PROVE Types' /\ Places'
  BY <1>23 DEF WsEnter, WriteReady, Goto, Types, Places, MutexTypeOK, ClientPlaces,
     DelivererPlaces, Waiting, chanVars, connVars, clientVars, delivererVars, mutexVars
<1>24. ASSUME NEW h \in Chans, WsWrite(h) PROVE Types' /\ Places'
  <2>1. PICK l \in {"receive", "giveUp"} : pc' = [pc EXCEPT ![h] = l]
    BY <1>24 DEF WsWrite, Goto
  <2> QED  BY <1>24, <2>1 DEF WsWrite, Unlock, Types, Places, MutexTypeOK, ClientPlaces,
              DelivererPlaces, Waiting, chanVars, connVars, clientVars, mutexVars
<1>25. ASSUME NEW h \in Chans, TcpWrite(h) PROVE Types' /\ Places'
  <2>1. PICK l \in {"receive", "giveUp"} : pc' = [pc EXCEPT ![h] = l]
    BY <1>25 DEF TcpWrite, Goto
  <2> QED  BY <1>25, <2>1 DEF TcpWrite, Types, Places, MutexTypeOK, ClientPlaces,
              DelivererPlaces, Waiting, chanVars, connVars, clientVars, mutexVars
<1>26. ASSUME NEW h \in Chans, GiveUp(h) PROVE Types' /\ Places'
  <2>1. owner[h] \in Clients
    <3>1. Running /\ pc[h] # "free"
      BY <1>26, Alive DEF GiveUp
    <3> QED  BY <3>1 DEF Types, ChannelInv
  <2>2. /\ subscribers' \in [Topics -> [Clients -> Chans \cup {NoChan}]]
        /\ closed' \in SUBSET Chans
    BY <1>26, <2>1 DEF GiveUp, Remove, Types
  <2> QED  BY <1>26, <2>2 DEF GiveUp, Unlock, Goto, Types, Places, MutexTypeOK,
              ClientPlaces,
              DelivererPlaces, Waiting, connVars, clientVars, delivererVars
<1>27. ASSUME NEW h \in Chans, Crash(h) PROVE Types' /\ Places'
  BY <1>27 DEF Crash, Types, Places, MutexTypeOK, ClientPlaces,
     DelivererPlaces, Waiting, chanVars, connVars, clientVars, delivererVars, mutexVars
<1>28. CASE UNCHANGED vars
  BY <1>28 DEF vars, Types, Places, MutexTypeOK, chanVars, connVars, clientVars,
     delivererVars, mutexVars
<1> QED  BY <1>1, <1>2, <1>3, <1>4, <1>5, <1>6, <1>7, <1>8, <1>9, <1>10, <1>11, <1>12,
            <1>13, <1>14, <1>15, <1>16, <1>17, <1>18, <1>19, <1>20, <1>21, <1>22, <1>23,
            <1>24, <1>25, <1>26, <1>27, <1>28
         DEF Next, Session, Command, Reply, Deliver

(***************************************************************************)
(* The goroutines keep to the lock.                                        *)
(***************************************************************************)
LEMMA NextLockInv ==
    ASSUME Types, Places, LockInv, DeliveryLocks, [Next]_vars
    PROVE  LockInv' /\ DeliveryLocks'
<1> USE DEF Types, MutexTypeOK, LockInv, DeliveryLocks, Inside, Waiting, mutexVars,
            delivererVars
<1>1. ASSUME NEW p \in Procs, Lock(p) PROVE LockInv' /\ DeliveryLocks'
  <2>1. Running
    BY <1>1, Alive DEF Lock
  <2> QED  BY <1>1, <2>1 DEF Lock, Announce, Running, Places, ClientPlaces, DelivererPlaces
<1>2. ASSUME NEW c \in Clients, Connect(c) PROVE LockInv' /\ DeliveryLocks'
  <2>1. Running
    BY <1>2, Alive DEF Connect
  <2> QED  BY <1>2, <2>1 DEF Connect, Goto, Running, Places, ClientPlaces, DelivererPlaces
<1>3. ASSUME NEW c \in Clients, Break(c) PROVE LockInv' /\ DeliveryLocks'
  <2>1. Running
    BY <1>3, Alive DEF Break
  <2> QED  BY <1>3, <2>1 DEF Break, Running, Places, ClientPlaces, DelivererPlaces
<1>4. ASSUME NEW c \in Clients, Leave(c) PROVE LockInv' /\ DeliveryLocks'
  <2>1. Running
    BY <1>4, Alive DEF Leave
  <2> QED  BY <1>4, <2>1 DEF Leave, Goto, Running, Places, ClientPlaces, DelivererPlaces
<1>5. ASSUME NEW c \in Clients, CallSubscribe(c) PROVE LockInv' /\ DeliveryLocks'
  <2>1. Running
    BY <1>5, Alive DEF CallSubscribe, Request
  <2> QED  BY <1>5, <2>1 DEF CallSubscribe, Request, Goto, Running, Places, ClientPlaces,
              DelivererPlaces
<1>6. ASSUME NEW c \in Clients, CallUnsubscribe(c) PROVE LockInv' /\ DeliveryLocks'
  <2>1. Running
    BY <1>6, Alive DEF CallUnsubscribe, Request
  <2> QED  BY <1>6, <2>1 DEF CallUnsubscribe, Request, Goto, Running, Places,
              ClientPlaces, DelivererPlaces
<1>7. ASSUME NEW c \in Clients, CallPublish(c) PROVE LockInv' /\ DeliveryLocks'
  <2>1. Running
    BY <1>7, Alive DEF CallPublish, Request
  <2>2. /\ pc[c] = "idle" /\ pc' = [pc EXCEPT ![c] = "publish"]
        /\ RLock(c) /\ wsOwner' = wsOwner
    BY <1>7 DEF CallPublish, Request, Goto
  <2>3. c \notin active /\ c \notin blocked /\ c # writer
    <3>1. pc[c] = "idle" /\ c # NoProc /\ Running
      BY <2>1, <2>2
    <3> QED  BY <3>1
  <2>4. CASE writer = NoProc
    BY <2>1, <2>2, <2>3, <2>4 DEF RLock, Running
  <2>5. CASE writer # NoProc
    BY <2>1, <2>2, <2>3, <2>5 DEF RLock, Running
  <2> QED  BY <2>4, <2>5
<1>8. ASSUME NEW c \in Clients, EnterRegistry(c) PROVE LockInv' /\ DeliveryLocks'
  <2>1. Running
    BY <1>8, Alive DEF EnterRegistry
  <2> QED  BY <1>8, <2>1 DEF EnterRegistry, WriteReady, Goto, Running, Places,
              ClientPlaces, DelivererPlaces
<1>9. ASSUME NEW c \in Clients, Register(c) PROVE LockInv' /\ DeliveryLocks'
  <2>1. Running
    BY <1>9, Alive DEF Register
  <2> QED  BY <1>9, <2>1 DEF Register, Unlock, Goto, Running, Places, ClientPlaces,
              DelivererPlaces
<1>10. ASSUME NEW c \in Clients, Unregister(c) PROVE LockInv' /\ DeliveryLocks'
  <2>1. Running
    BY <1>10, Alive DEF Unregister
  <2> QED  BY <1>10, <2>1 DEF Unregister, Unlock, Goto, Running, Places, ClientPlaces,
              DelivererPlaces
<1>11. ASSUME NEW c \in Clients, Subscribe(c) PROVE LockInv' /\ DeliveryLocks'
  <2>0. Running
    BY <1>11, Alive DEF Subscribe
  <2>1. CASE subscribers[topic[c]][c] = NoChan
    <3>1. PICK h \in Chans : /\ pc[h] = "free" /\ pc[c] = "subscribe" /\ c # h
                             /\ pc' = [pc EXCEPT ![h] = "receive", ![c] = "answer"]
      BY <1>11, <2>1 DEF Subscribe
    <3>2. WriteReady(c) /\ Unlock /\ UNCHANGED delivererVars
      BY <1>11 DEF Subscribe
    <3> QED  BY <2>0, <3>1, <3>2 DEF WriteReady, Unlock, Running, Places, ClientPlaces,
                DelivererPlaces
  <2>2. CASE subscribers[topic[c]][c] # NoChan
    <3>1. pc[c] = "subscribe" /\ pc' = [pc EXCEPT ![c] = "answer"]
      BY <1>11, <2>2 DEF Subscribe, Goto
    <3>2. WriteReady(c) /\ Unlock /\ UNCHANGED delivererVars
      BY <1>11 DEF Subscribe
    <3> QED  BY <2>0, <3>1, <3>2 DEF WriteReady, Unlock, Running, Places, ClientPlaces,
                DelivererPlaces
  <2> QED  BY <2>1, <2>2
<1>12. ASSUME NEW c \in Clients, Unsubscribe(c) PROVE LockInv' /\ DeliveryLocks'
  <2>1. Running
    BY <1>12, Alive DEF Unsubscribe
  <2> QED  BY <1>12, <2>1 DEF Unsubscribe, WriteReady, Unlock, Goto, Running, Places,
              ClientPlaces, DelivererPlaces
<1>13. ASSUME NEW c \in Clients, EnterPublish(c) PROVE LockInv' /\ DeliveryLocks'
  <2>1. Running
    BY <1>13, Alive DEF EnterPublish
  <2> QED  BY <1>13, <2>1 DEF EnterPublish, Goto, Running, Places, ClientPlaces,
              DelivererPlaces
<1>14. ASSUME NEW c \in Clients, Publish(c) PROVE LockInv' /\ DeliveryLocks'
  <2>1. Running
    BY <1>14, Alive DEF Publish
  <2> QED  BY <1>14, <2>1 DEF Publish, Running, Places, ClientPlaces, DelivererPlaces
<1>15. ASSUME NEW c \in Clients, FinishPublish(c) PROVE LockInv' /\ DeliveryLocks'
  <2>1. Running
    BY <1>15, Alive DEF FinishPublish
  <2> QED  BY <1>15, <2>1 DEF FinishPublish, RUnlock, Goto, Running, Places,
              ClientPlaces, DelivererPlaces
<1>16. ASSUME NEW c \in Clients, StartAnswer(c) PROVE LockInv' /\ DeliveryLocks'
  <2>1. Running
    BY <1>16, Alive DEF StartAnswer
  <2> QED  BY <1>16, <2>1 DEF StartAnswer, Goto, Running, Places, ClientPlaces,
              DelivererPlaces
<1>17. ASSUME NEW c \in Clients, FinishAnswer(c) PROVE LockInv' /\ DeliveryLocks'
  <2>0. Running
    BY <1>17, Alive DEF FinishAnswer
  <2>1. PICK l \in {"idle", "unregister"} : pc' = [pc EXCEPT ![c] = l]
    BY <1>17 DEF FinishAnswer, Goto
  <2>2. UNCHANGED <<mutexVars, wsOwner>>
    BY <1>17 DEF FinishAnswer
  <2> QED  BY <1>17, <2>0, <2>1, <2>2 DEF FinishAnswer, Running, Places, ClientPlaces,
              DelivererPlaces
<1>18. ASSUME NEW c \in Clients, AnswerPanics(c) PROVE LockInv' /\ DeliveryLocks'
  <2>1. Running
    BY <1>18, Alive DEF AnswerPanics
  <2> QED  BY <1>18, <2>1 DEF AnswerPanics, Goto, Running, Places, ClientPlaces,
              DelivererPlaces
<1>19. ASSUME NEW h \in Chans, Receive(h) PROVE LockInv' /\ DeliveryLocks'
  <2>1. Running
    BY <1>19, Alive DEF Receive
  <2> QED  BY <1>19, <2>1 DEF Receive, Goto, Running, Places, ClientPlaces, DelivererPlaces
<1>20. ASSUME NEW h \in Chans, Finish(h) PROVE LockInv' /\ DeliveryLocks'
  <2>1. Running
    BY <1>20, Alive DEF Finish
  <2> QED  BY <1>20, <2>1 DEF Finish, Reset, Goto, Running, Places, ClientPlaces,
              DelivererPlaces
<1>21. ASSUME NEW h \in Chans, Lookup(h) PROVE LockInv' /\ DeliveryLocks'
  <2>0. Running
    BY <1>21, Alive DEF Lookup
  <2>1. PICK l \in {"receive", "wsWait", "writing"} : pc' = [pc EXCEPT ![h] = l]
    BY <1>21 DEF Lookup, Continue, Goto
  <2>2. UNCHANGED <<mutexVars, wsOwner>>
    BY <1>21 DEF Lookup, Continue
  <2> QED  BY <1>21, <2>0, <2>1, <2>2 DEF Lookup, Running, Places, ClientPlaces,
              DelivererPlaces
<1>22. ASSUME NEW h \in Chans, WsTake(h) PROVE LockInv' /\ DeliveryLocks'
  <2>1. Running
    BY <1>22, Alive DEF WsTake
  <2> QED  BY <1>22, <2>1 DEF WsTake, Goto, Running, Places, ClientPlaces, DelivererPlaces
<1>23. ASSUME NEW h \in Chans, WsEnter(h) PROVE LockInv' /\ DeliveryLocks'
  <2>1. Running
    BY <1>23, Alive DEF WsEnter
  <2> QED  BY <1>23, <2>1 DEF WsEnter, WriteReady, Goto, Running, Places, ClientPlaces,
              DelivererPlaces
<1>24. ASSUME NEW h \in Chans, WsWrite(h) PROVE LockInv' /\ DeliveryLocks'
  <2>0. Running
    BY <1>24, Alive DEF WsWrite
  <2>1. PICK l \in {"receive", "giveUp"} : pc' = [pc EXCEPT ![h] = l]
    BY <1>24 DEF WsWrite, Goto
  <2>2. Unlock /\ wsOwner' = NoChan
    BY <1>24 DEF WsWrite
  <2> QED  BY <1>24, <2>0, <2>1, <2>2 DEF WsWrite, Running, Places, ClientPlaces,
              DelivererPlaces, Unlock
<1>25. ASSUME NEW h \in Chans, TcpWrite(h) PROVE LockInv' /\ DeliveryLocks'
  <2>0. Running
    BY <1>25, Alive DEF TcpWrite
  <2>1. PICK l \in {"receive", "giveUp"} : pc' = [pc EXCEPT ![h] = l]
    BY <1>25 DEF TcpWrite, Goto
  <2>2. UNCHANGED <<mutexVars, wsOwner>>
    BY <1>25 DEF TcpWrite
  <2> QED  BY <1>25, <2>0, <2>1, <2>2 DEF TcpWrite, Running, Places, ClientPlaces,
              DelivererPlaces
<1>26. ASSUME NEW h \in Chans, GiveUp(h) PROVE LockInv' /\ DeliveryLocks'
  <2>1. Running
    BY <1>26, Alive DEF GiveUp
  <2> QED  BY <1>26, <2>1 DEF GiveUp, WriteReady, Unlock, Goto, Running, Places,
              ClientPlaces, DelivererPlaces
<1>27. ASSUME NEW h \in Chans, Crash(h) PROVE LockInv' /\ DeliveryLocks'
  BY <1>27 DEF Crash, Running
<1>28. CASE UNCHANGED vars
  BY <1>28 DEF vars, Running
<1> QED  BY <1>1, <1>2, <1>3, <1>4, <1>5, <1>6, <1>7, <1>8, <1>9, <1>10, <1>11, <1>12,
            <1>13, <1>14, <1>15, <1>16, <1>17, <1>18, <1>19, <1>20, <1>21, <1>22, <1>23,
            <1>24, <1>25, <1>26, <1>27, <1>28
         DEF Next, Session, Command, Reply, Deliver

(***************************************************************************)
(* Most steps leave the channels and the publications alone: they publish  *)
(* nothing, allocate and free nothing, and forget a message at most.       *)
(***************************************************************************)
Still ==
    /\ UNCHANGED <<chanVars, targets, published, taken>>
    /\ \A h \in Chans : /\ (pc'[h] = "free") <=> (pc[h] = "free")
                        /\ hand'[h] \in {hand[h], NoMessage}
    /\ \A c \in Clients : pc'[c] \in {"publish", "publishing"} =>
                             pc'[c] = pc[c] /\ topic'[c] = topic[c]
    /\ Running' => Running

Moves ==
    \/ \E c \in Clients : \/ CallPublish(c) \/ EnterPublish(c) \/ Publish(c)
                          \/ Subscribe(c) \/ Unsubscribe(c)
    \/ \E h \in Chans : Receive(h) \/ Finish(h) \/ GiveUp(h) \/ Crash(h)

(***************************************************************************)
(* A step of the system is one of the steps that leave channels, targets   *)
(* and messages alone, or one of those that move them.                     *)
(***************************************************************************)
LEMMA StillSteps ==
    ASSUME Types, Places, Next
    PROVE  Still \/ Moves
<1> USE DEF Types, Waiting, ClientPlaces, DelivererPlaces, chanVars, clientVars,
            delivererVars
<1>1. ASSUME NEW p \in Procs, Lock(p) PROVE Still
  <2>1. Running
    BY <1>1, Alive DEF Lock
  <2> QED  BY <1>1, <2>1 DEF Lock, Announce, Places, Still
<1>2. ASSUME NEW c \in Clients, Connect(c) PROVE Still
  <2>1. Running
    BY <1>2, Alive DEF Connect
  <2> QED  BY <1>2, <2>1 DEF Connect, Goto, Places, Still
<1>3. ASSUME NEW c \in Clients, Break(c) PROVE Still
  <2>1. Running
    BY <1>3, Alive DEF Break
  <2> QED  BY <1>3, <2>1 DEF Break, Places, Still
<1>4. ASSUME NEW c \in Clients, Leave(c) PROVE Still
  <2>1. Running
    BY <1>4, Alive DEF Leave
  <2> QED  BY <1>4, <2>1 DEF Leave, Goto, Places, Still
<1>5. ASSUME NEW c \in Clients, CallSubscribe(c) PROVE Still
  <2>1. Running
    BY <1>5, Alive DEF CallSubscribe, Request
  <2> QED  BY <1>5, <2>1 DEF CallSubscribe, Request, Goto, Places, Still
<1>6. ASSUME NEW c \in Clients, CallUnsubscribe(c) PROVE Still
  <2>1. Running
    BY <1>6, Alive DEF CallUnsubscribe, Request
  <2> QED  BY <1>6, <2>1 DEF CallUnsubscribe, Request, Goto, Places, Still
<1>7. ASSUME NEW c \in Clients, EnterRegistry(c) PROVE Still
  <2>1. Running
    BY <1>7, Alive DEF EnterRegistry
  <2>2. PICK l \in {"registering", "unregistering"} : pc' = [pc EXCEPT ![c] = l]
    BY <1>7 DEF EnterRegistry, Goto
  <2>3. /\ pc[c] # "free"
        /\ UNCHANGED <<chanVars, targets, published, taken>>
        /\ UNCHANGED <<topic, hand>>
    BY <1>7 DEF EnterRegistry
  <2> QED  BY <2>1, <2>2, <2>3 DEF Still
<1>8. ASSUME NEW c \in Clients, Register(c) PROVE Still
  <2>1. Running
    BY <1>8, Alive DEF Register
  <2> QED  BY <1>8, <2>1 DEF Register, Goto, Places, Still
<1>9. ASSUME NEW c \in Clients, Unregister(c) PROVE Still
  <2>1. Running
    BY <1>9, Alive DEF Unregister
  <2> QED  BY <1>9, <2>1 DEF Unregister, Goto, Places, Still
<1>10. ASSUME NEW c \in Clients, FinishPublish(c) PROVE Still
  <2>1. Running
    BY <1>10, Alive DEF FinishPublish
  <2> QED  BY <1>10, <2>1 DEF FinishPublish, Goto, Places, Still
<1>11. ASSUME NEW c \in Clients, StartAnswer(c) PROVE Still
  <2>1. Running
    BY <1>11, Alive DEF StartAnswer
  <2> QED  BY <1>11, <2>1 DEF StartAnswer, Goto, Places, Still
<1>12. ASSUME NEW c \in Clients, FinishAnswer(c) PROVE Still
  <2>1. Running
    BY <1>12, Alive DEF FinishAnswer
  <2>2. PICK l \in {"idle", "unregister"} : pc' = [pc EXCEPT ![c] = l]
    BY <1>12 DEF FinishAnswer, Goto
  <2>3. /\ pc[c] # "free"
        /\ UNCHANGED <<chanVars, targets, published, taken>>
        /\ UNCHANGED <<topic, hand>>
    BY <1>12 DEF FinishAnswer
  <2> QED  BY <2>1, <2>2, <2>3 DEF Still
<1>13. ASSUME NEW c \in Clients, AnswerPanics(c) PROVE Still
  <2>1. Running
    BY <1>13, Alive DEF AnswerPanics
  <2> QED  BY <1>13, <2>1 DEF AnswerPanics, Goto, Places, Still
<1>14. ASSUME NEW h \in Chans, Lookup(h) PROVE Still
  <2>1. Running
    BY <1>14, Alive DEF Lookup
  <2>2. PICK l \in {"receive", "wsWait", "writing"} : pc' = [pc EXCEPT ![h] = l]
    BY <1>14 DEF Lookup, Continue, Goto
  <2>3. /\ pc[h] # "free"
        /\ UNCHANGED <<chanVars, targets, published, taken>>
        /\ topic' = topic /\ hand' \in {hand, [hand EXCEPT ![h] = NoMessage]}
    BY <1>14 DEF Lookup, Continue
  <2> QED  BY <2>1, <2>2, <2>3 DEF Still
<1>15. ASSUME NEW h \in Chans, WsTake(h) PROVE Still
  <2>1. Running
    BY <1>15, Alive DEF WsTake
  <2> QED  BY <1>15, <2>1 DEF WsTake, Goto, Places, Still
<1>16. ASSUME NEW h \in Chans, WsEnter(h) PROVE Still
  <2>1. Running
    BY <1>16, Alive DEF WsEnter
  <2> QED  BY <1>16, <2>1 DEF WsEnter, Goto, Places, Still
<1>17. ASSUME NEW h \in Chans, WsWrite(h) PROVE Still
  <2>1. Running
    BY <1>17, Alive DEF WsWrite
  <2>2. PICK l \in {"receive", "giveUp"} : pc' = [pc EXCEPT ![h] = l]
    BY <1>17 DEF WsWrite, Goto
  <2>3. /\ pc[h] # "free"
        /\ UNCHANGED <<chanVars, targets, published, taken>>
        /\ topic' = topic /\ hand' = [hand EXCEPT ![h] = NoMessage]
    BY <1>17 DEF WsWrite
  <2> QED  BY <2>1, <2>2, <2>3 DEF Still
<1>18. ASSUME NEW h \in Chans, TcpWrite(h) PROVE Still
  <2>1. Running
    BY <1>18, Alive DEF TcpWrite
  <2>2. PICK l \in {"receive", "giveUp"} : pc' = [pc EXCEPT ![h] = l]
    BY <1>18 DEF TcpWrite, Goto
  <2>3. /\ pc[h] # "free"
        /\ UNCHANGED <<chanVars, targets, published, taken>>
        /\ topic' = topic /\ hand' = [hand EXCEPT ![h] = NoMessage]
    BY <1>18 DEF TcpWrite
  <2> QED  BY <2>1, <2>2, <2>3 DEF Still
<1> QED  BY <1>1, <1>2, <1>3, <1>4, <1>5, <1>6, <1>7, <1>8, <1>9, <1>10, <1>11, <1>12,
            <1>13, <1>14, <1>15, <1>16, <1>17, <1>18
         DEF Next, Session, Command, Reply, Deliver, Moves

(***************************************************************************)
(* The first kind disturbs none of the four invariants about channels.     *)
(***************************************************************************)
LEMMA StillKeeps ==
    ASSUME Types, ChannelInv, TargetsInv, OrderInv, SubscriptionOrder, Still
    PROVE  ChannelInv' /\ TargetsInv' /\ OrderInv' /\ SubscriptionOrder'
<1> USE DEF Types, Still, chanVars
<1>1. ChannelInv'
  BY DEF ChannelInv, TableInv
<1>2. TargetsInv'
  <2> SUFFICES ASSUME NEW c \in Clients, pc'[c] = "publishing", NEW h \in targets'[c]
               PROVE  \E d \in Clients : subscribers'[topic'[c]][d] = h
    BY DEF TargetsInv
  <2>1. pc[c] = "publishing" /\ topic'[c] = topic[c] /\ h \in targets[c]
    OBVIOUS
  <2> QED  BY <2>1 DEF TargetsInv
<1>3. OrderInv'
  BY DEF OrderInv, Newer
<1>4. SubscriptionOrder'
  BY DEF SubscriptionOrder, Entries
<1> QED  BY <1>1, <1>2, <1>3, <1>4
-----------------------------------------------------------------------------
(***************************************************************************)
(* An entry of the table names its owner, and the owner its only topic.    *)
(***************************************************************************)
LEMMA EntryOwner ==
    ASSUME TableInv, NEW h \in Chans, NEW t \in Topics, NEW c \in Clients, subscribers[t][c] = h
    PROVE  /\ owner[h] = c /\ h \notin closed
           /\ \A u \in Topics : subscribers[u][c] = h => u = t
<1>1. h # NoChan
  OBVIOUS
<1> QED  BY <1>1 DEF TableInv

(* What a Remove takes from the table it closes.                           *)
LEMMA RemoveKeepsTable ==
    ASSUME Types, TableInv, NEW c \in Clients, NEW t \in Topics, Remove(c, t), UNCHANGED owner
    PROVE  TableInv'
<1> USE DEF Types
<1>1. CASE subscribers[t][c] = NoChan
  <2>1. UNCHANGED <<subscribers, closed>>
    BY <1>1 DEF Remove
  <2> QED  BY <2>1 DEF TableInv
<1>2. CASE subscribers[t][c] # NoChan
  <2> DEFINE g == subscribers[t][c]
  <2>1. /\ g \in Chans /\ owner[g] = c
        /\ closed' = closed \cup {g}
        /\ subscribers' = [subscribers EXCEPT ![t][c] = NoChan]
    BY <1>2 DEF Remove, TableInv
  <2>2. \A u \in Topics, d \in Clients :
           subscribers'[u][d] # NoChan => subscribers'[u][d] = subscribers[u][d] /\ subscribers[u][d] # g
    BY <2>1 DEF TableInv
  <2>3. \A u \in Topics, d \in Clients :
           subscribers[u][d] # NoChan /\ subscribers[u][d] # g => subscribers'[u][d] = subscribers[u][d]
    BY <2>1
  <2> HIDE DEF g
  <2> QED  BY <2>1, <2>2, <2>3 DEF TableInv
<1> QED  BY <1>1, <1>2

(***************************************************************************)
(* Subscriptions and open channels stay in step.                           *)
(***************************************************************************)
LEMMA NextChannelInv ==
    ASSUME Types, Places, ChannelInv, Moves
    PROVE  ChannelInv'
<1> USE DEF Types
<1>1. CASE \/ \E c \in Clients : CallPublish(c) \/ EnterPublish(c) \/ Publish(c)
           \/ \E h \in Chans : Receive(h)
  <2>1. /\ Running
        /\ UNCHANGED <<subscribers, closed, owner>>
        /\ \A g \in Chans : (pc'[g] = "free") <=> (pc[g] = "free")
    BY <1>1, Alive DEF CallPublish, Request, EnterPublish, Publish, Receive, Goto, chanVars
  <2> QED  BY <2>1 DEF ChannelInv, TableInv
<1>2. ASSUME NEW c \in Clients, Subscribe(c) PROVE ChannelInv'
  <2>0. Running /\ topic[c] \in Topics
    BY <1>2, Alive DEF Subscribe
  <2>1. CASE subscribers[topic[c]][c] = NoChan
    <3>1. PICK g \in Chans : /\ pc[g] = "free"
                             /\ subscribers' = [subscribers EXCEPT ![topic[c]][c] = g]
                             /\ owner' = [owner EXCEPT ![g] = c]
                             /\ pc' = [pc EXCEPT ![g] = "receive", ![c] = "answer"]
                             /\ closed' = closed
      BY <1>2, <2>1 DEF Subscribe
    <3>2. owner[g] = NoClient /\ g \notin closed
      BY <2>0, <3>1 DEF ChannelInv, TableInv
    <3>3. \A u \in Topics, d \in Clients : subscribers[u][d] # g
      <4>1. ASSUME NEW u \in Topics, NEW d \in Clients, subscribers[u][d] = g PROVE FALSE
        <5>1. subscribers[u][d] # NoChan
          BY <4>1
        <5>2. owner[g] = d
          BY <4>1, <5>1 DEF ChannelInv, TableInv
        <5> QED  BY <3>2, <5>2
      <4> QED  BY <4>1
    <3>4. \A u \in Topics, d \in Clients :
             \/ u = topic[c] /\ d = c /\ subscribers'[u][d] = g
             \/ ~ (u = topic[c] /\ d = c) /\ subscribers'[u][d] = subscribers[u][d]
      BY <2>0, <3>1
    <3>5. \A k \in Chans : \/ k = g /\ owner'[k] = c
                           \/ k # g /\ owner'[k] = owner[k]
      BY <3>1
    <3>6. TableInv'
      <4>1. ASSUME NEW u \in Topics, NEW d \in Clients, subscribers'[u][d] # NoChan
            PROVE  /\ owner'[subscribers'[u][d]] = d
                   /\ subscribers'[u][d] \notin closed'
                   /\ \A w \in Topics : subscribers'[w][d] = subscribers'[u][d] => w = u
        BY <3>1, <3>2, <3>3, <3>4, <3>5, <4>1 DEF ChannelInv, TableInv
      <4>2. ASSUME NEW k \in Chans, owner'[k] # NoClient, k \notin closed'
            PROVE  \E u \in Topics : subscribers'[u][owner'[k]] = k
        BY <2>0, <2>1, <3>1, <3>4, <3>5, <4>2 DEF ChannelInv, TableInv
      <4>3. \A k \in closed' : owner'[k] # NoClient
        BY <3>1, <3>2, <3>5 DEF ChannelInv, TableInv
      <4> QED  BY <4>1, <4>2, <4>3 DEF TableInv
    <3> QED  BY <2>0, <3>1, <3>5, <3>6 DEF ChannelInv
  <2>2. CASE subscribers[topic[c]][c] # NoChan
    BY <1>2, <2>0, <2>2 DEF Subscribe, Goto, ChannelInv, TableInv
  <2> QED  BY <2>1, <2>2
<1>3. ASSUME NEW c \in Clients, Unsubscribe(c) PROVE ChannelInv'
  <2>1. Running
    BY <1>3, Alive DEF Unsubscribe
  <2>2. TableInv'
    BY <1>3, RemoveKeepsTable DEF Unsubscribe, ChannelInv
  <2> QED  BY <1>3, <2>1, <2>2 DEF Unsubscribe, Goto, ChannelInv
<1>4. ASSUME NEW h \in Chans, Finish(h) PROVE ChannelInv'
  <2>1. Running /\ pc[h] # "free" /\ h \in closed
    BY <1>4, Alive DEF Finish
  <2>2. TableInv'
    BY <1>4, <2>1 DEF Finish, Reset, ChannelInv, TableInv
  <2> QED  BY <1>4, <2>1, <2>2 DEF Finish, Reset, Goto, ChannelInv
<1>5. ASSUME NEW h \in Chans, GiveUp(h) PROVE ChannelInv'
  <2>1. Running /\ owner[h] \in Clients
    BY <1>5, Alive DEF GiveUp, ChannelInv
  <2>2. TableInv'
    BY <1>5, <2>1, RemoveKeepsTable DEF GiveUp, ChannelInv
  <2> QED  BY <1>5, <2>1, <2>2 DEF GiveUp, Goto, ChannelInv
<1>6. ASSUME NEW h \in Chans, Crash(h) PROVE ChannelInv'
  BY <1>6 DEF Crash, ChannelInv, TableInv, Running, chanVars
<1> QED  BY <1>1, <1>2, <1>3, <1>4, <1>5, <1>6 DEF Moves

(***************************************************************************)
(* While somebody changes the table nobody is in the middle of a PUBLISH.  *)
(***************************************************************************)
LEMMA NobodyPublishes ==
    ASSUME LockInv, Running, NEW p \in Procs, WriteReady(p), NEW c \in Clients
    PROVE  pc[c] # "publishing"
BY DEF LockInv, WriteReady

(***************************************************************************)
(* The targets of a PUBLISH stay subscribers, since it holds the read      *)
(* lock.                                                                   *)
(***************************************************************************)
LEMMA NextTargetsInv ==
    ASSUME Types, Places, LockInv, TargetsInv, Moves
    PROVE  TargetsInv'
<1> USE DEF Types
<1> SUFFICES ASSUME NEW d \in Clients, pc'[d] = "publishing", NEW g \in targets'[d]
             PROVE  \E e \in Clients : subscribers'[topic'[d]][e] = g
  BY DEF TargetsInv
<1>1. ASSUME NEW c \in Clients, CallPublish(c)
      PROVE  \E e \in Clients : subscribers'[topic'[d]][e] = g
  BY <1>1 DEF CallPublish, Request, Goto, chanVars, TargetsInv
<1>2. ASSUME NEW c \in Clients, EnterPublish(c)
      PROVE  \E e \in Clients : subscribers'[topic'[d]][e] = g
  <2>1. CASE d = c
    BY <1>2, <2>1 DEF EnterPublish, chanVars
  <2>2. CASE d # c
    BY <1>2, <2>2 DEF EnterPublish, Goto, chanVars, TargetsInv
  <2> QED  BY <2>1, <2>2
<1>3. ASSUME NEW c \in Clients, Publish(c)
      PROVE  \E e \in Clients : subscribers'[topic'[d]][e] = g
  <2>1. pc[d] = "publishing" /\ topic' = topic /\ subscribers' = subscribers /\ g \in targets[d]
    BY <1>3 DEF Publish
  <2> QED  BY <2>1 DEF TargetsInv
<1>4. ASSUME NEW c \in Clients, Subscribe(c) \/ Unsubscribe(c)
      PROVE  \E e \in Clients : subscribers'[topic'[d]][e] = g
  <2>1. Running /\ WriteReady(c) /\ (pc'[d] = pc[d] \/ pc'[d] # "publishing")
    BY <1>4, Alive DEF Subscribe, Unsubscribe, Goto
  <2> QED  BY <2>1, NobodyPublishes
<1>5. ASSUME NEW h \in Chans, GiveUp(h)
      PROVE  \E e \in Clients : subscribers'[topic'[d]][e] = g
  <2>1. Running /\ WriteReady(h) /\ pc'[d] = pc[d]
    BY <1>5, Alive DEF GiveUp, Goto
  <2> QED  BY <2>1, NobodyPublishes
<1>6. ASSUME NEW h \in Chans, Receive(h) \/ Finish(h)
      PROVE  \E e \in Clients : subscribers'[topic'[d]][e] = g
  <2>1. UNCHANGED <<subscribers, topic, targets>> /\ pc'[d] = pc[d]
    BY <1>6 DEF Receive, Finish, Reset, Goto, clientVars
  <2> QED  BY <2>1 DEF TargetsInv
<1>7. ASSUME NEW h \in Chans, Crash(h)
      PROVE  \E e \in Clients : subscribers'[topic'[d]][e] = g
  BY <1>7 DEF Crash
<1> QED  BY <1>1, <1>2, <1>3, <1>4, <1>5, <1>6, <1>7 DEF Moves

-----------------------------------------------------------------------------
(***************************************************************************)
(* What lies in a buffer is a message of a client.                         *)
(***************************************************************************)
LEMMA BufferTypes ==
    ASSUME Types, NEW h \in Chans
    PROVE  \A i \in DOMAIN buffer[h] : /\ buffer[h][i] \in Messages
                                       /\ buffer[h][i].from \in Clients
                                       /\ buffer[h][i].seq \in Nat
<1>1. buffer[h] \in Seq(Messages)
  BY DEF Types
<1>2. \A i \in DOMAIN buffer[h] : buffer[h][i] \in Messages
  BY <1>1
<1> QED  BY <1>2 DEF Messages

(***************************************************************************)
(* What is newer than a number is newer than every smaller one.            *)
(***************************************************************************)
LEMMA NewerWeakens ==
    ASSUME Types, NEW h \in Chans, NEW c \in Clients, NEW m \in Nat, NEW n \in Nat,
           m <= n, Newer(h, c, m)
    PROVE  Newer(h, c, n)
<1>1. taken[h][c] \in Nat
  BY DEF Types
<1> QED  BY <1>1, BufferTypes DEF Newer

(***************************************************************************)
(* Nothing overtakes: what a PUBLISH still has to send stays newer than    *)
(* what its targets have received.                                         *)
(***************************************************************************)
LEMMA NextOrderInv ==
    ASSUME Types, Places, LockInv, ChannelInv, TargetsInv, OrderInv, Moves
    PROVE  OrderInv'
<1> USE DEF Types
<1>1. ASSUME NEW c \in Clients, CallPublish(c) PROVE OrderInv'
  <2>1. /\ pc' = [pc EXCEPT ![c] = "publish"]
        /\ published' = [published EXCEPT ![c] = @ + 1]
        /\ UNCHANGED <<buffer, owner, taken, hand, targets>>
    BY <1>1 DEF CallPublish, Request, Goto, chanVars, delivererVars
  <2>2. \A g \in Chans, d \in Clients, n \in Nat : Newer(g, d, n)' <=> Newer(g, d, n)
    BY <2>1 DEF Newer
  <2>3. \A g \in Chans : Newer(g, c, published[c] + 1) /\ Newer(g, c, published[c] + 1 + 1)
    BY NewerWeakens DEF OrderInv
  <2> QED  BY <2>1, <2>2, <2>3 DEF OrderInv
<1>2. ASSUME NEW c \in Clients, EnterPublish(c) PROVE OrderInv'
  <2>1. /\ pc[c] = "publish" /\ pc' = [pc EXCEPT ![c] = "publishing"]
        /\ \A d \in Clients \ {c} : targets'[d] = targets[d]
        /\ UNCHANGED <<buffer, owner, taken, hand, published>>
    BY <1>2 DEF EnterPublish, Goto, chanVars, delivererVars
  <2>2. \A g \in Chans, d \in Clients, n \in Nat : Newer(g, d, n)' <=> Newer(g, d, n)
    BY <2>1 DEF Newer
  <2> QED  BY <2>1, <2>2 DEF OrderInv
<1>3. ASSUME NEW c \in Clients, Publish(c) PROVE OrderInv'
  <2> DEFINE m == [from |-> c, seq |-> published[c], topic |-> topic[c]]
  <2>1. PICK g \in targets[c] : Push(g, m) /\ targets' = [targets EXCEPT ![c] = @ \ {g}]
    BY <1>3 DEF Publish
  <2>2. pc[c] = "publishing" /\ UNCHANGED <<pc, owner, taken, hand, published>>
    BY <1>3 DEF Publish, delivererVars
  <2>3. g \in Chans /\ owner[g] # NoClient
    <3>1. PICK d \in Clients : subscribers[topic[c]][d] = g
      BY <2>1, <2>2 DEF TargetsInv
    <3>2. g \in Chans /\ g # NoChan
      BY <2>1
    <3> QED  BY <3>1, <3>2 DEF ChannelInv, TableInv
  <2>4. \A k \in Chans : k # g => buffer'[k] = buffer[k]
    BY <2>1 DEF Push
  <2>5. \A k \in Chans, d \in Clients, n \in Nat : k # g => (Newer(k, d, n)' <=> Newer(k, d, n))
    BY <2>2, <2>4 DEF Newer
  <2>6. \/ buffer'[g] = buffer[g]
        \/ buffer'[g] = Append(buffer[g], m)
    BY <2>1, <2>3 DEF Push
  <2>7. \A i \in DOMAIN buffer'[g] : \/ i \in DOMAIN buffer[g] /\ buffer'[g][i] = buffer[g][i]
                                     \/ buffer'[g][i] = m
    <3>1. buffer[g] \in Seq(Messages) /\ m \in Messages
      BY <2>3 DEF Messages
    <3> HIDE DEF m
    <3>2. \A i \in DOMAIN Append(buffer[g], m) :
             \/ i \in DOMAIN buffer[g] /\ Append(buffer[g], m)[i] = buffer[g][i]
             \/ Append(buffer[g], m)[i] = m
      BY <3>1
    <3> QED  BY <2>6, <3>2
  <2>8. ASSUME NEW d \in Clients, NEW n \in Nat, Newer(g, d, n), d = c => published[c] < n
        PROVE  Newer(g, d, n)'
    <3>1. m.from = c /\ m.seq = published[c]
      OBVIOUS
    <3> HIDE DEF m
    <3> QED  BY <2>2, <2>7, <2>8, <3>1 DEF Newer
  <2>9. ASSUME NEW k \in Chans, NEW d \in Clients
        PROVE  /\ Newer(k, d, published[d] + 1)'
               /\ pc[d] = "publish" => Newer(k, d, published[d])'
               /\ (pc[d] = "publishing" /\ k \in targets'[d]) => Newer(k, d, published[d])'
    <3>1. CASE k # g
      BY <2>1, <2>2, <2>5, <3>1 DEF OrderInv
    <3>2. CASE k = g
      <4>1. Newer(g, d, published[d] + 1)'
        <5>1. Newer(g, d, published[d] + 1) /\ published[d] \in Nat /\ published[d] < published[d] + 1
          BY <2>3 DEF OrderInv
        <5>2. published[d] + 1 \in Nat
          BY <5>1
        <5>3. \A n \in Nat : Newer(g, d, n) /\ (d = c => published[c] < n) => Newer(g, d, n)'
          BY <2>8
        <5>4. (d = c) => published[c] < published[d] + 1
          BY <5>1
        <5>5. \A n \in Nat : n = published[d] + 1 => Newer(g, d, n)'
          BY <5>1, <5>2, <5>3, <5>4
        <5> QED  BY <2>2, <5>2, <5>5 DEF Newer
      <4>2. CASE d = c
        BY <2>1, <2>2, <3>2, <4>1, <4>2
      <4>3. CASE d # c
        BY <2>1, <2>2, <2>3, <2>8, <3>2, <4>1, <4>3 DEF OrderInv
      <4> QED  BY <4>2, <4>3
    <3> QED  BY <3>1, <3>2
  <2>10. \A k \in Chans : owner[k] = NoClient => buffer'[k] = <<>> /\ hand[k] = NoMessage
    BY <2>3, <2>4 DEF OrderInv
  <2> QED  BY <2>2, <2>9, <2>10 DEF OrderInv
<1>4. ASSUME NEW c \in Clients, Subscribe(c) PROVE OrderInv'
  <2>1. /\ Running /\ WriteReady(c)
        /\ \A d \in Clients : pc'[d] \in {pc[d], "answer"}
        /\ \A g \in Chans : owner'[g] = owner[g] \/ owner'[g] = c
        /\ UNCHANGED <<buffer, taken, hand, published, targets>>
    <3>1. Running /\ WriteReady(c) /\ UNCHANGED <<buffer, taken, hand, published, targets>>
      BY <1>4, Alive DEF Subscribe, clientVars, delivererVars
    <3>2. CASE subscribers[topic[c]][c] = NoChan
      <4>1. PICK g \in Chans : /\ owner' = [owner EXCEPT ![g] = c]
                               /\ pc' = [pc EXCEPT ![g] = "receive", ![c] = "answer"]
        BY <1>4, <3>2 DEF Subscribe
      <4> QED  BY <3>1, <4>1
    <3>3. CASE subscribers[topic[c]][c] # NoChan
      BY <1>4, <3>1, <3>3 DEF Subscribe, Goto
    <3> QED  BY <3>2, <3>3
  <2>2. \A d \in Clients : pc'[d] # "publishing"
    BY <2>1, NobodyPublishes
  <2>3. \A g \in Chans, d \in Clients, n \in Nat : Newer(g, d, n)' <=> Newer(g, d, n)
    BY <2>1 DEF Newer
  <2> QED  BY <2>1, <2>2, <2>3 DEF OrderInv
<1>5. CASE (\E c \in Clients : Unsubscribe(c)) \/ (\E h \in Chans : GiveUp(h))
  <2>1. /\ Running /\ \E p \in Procs : WriteReady(p)
        /\ \A d \in Clients : pc'[d] \in {pc[d], "answer"}
        /\ UNCHANGED <<buffer, taken, hand, published, targets, owner>>
    BY <1>5, Alive DEF Unsubscribe, GiveUp, Goto, clientVars, delivererVars
  <2>2. \A d \in Clients : pc'[d] # "publishing"
    BY <2>1, NobodyPublishes
  <2>3. \A g \in Chans, d \in Clients, n \in Nat : Newer(g, d, n)' <=> Newer(g, d, n)
    BY <2>1 DEF Newer
  <2> QED  BY <2>1, <2>2 DEF OrderInv, Newer
<1>6. ASSUME NEW h \in Chans, Receive(h) PROVE OrderInv'
  <2> DEFINE m == Head(buffer[h])
  <2>1. /\ pc[h] = "receive" /\ buffer[h] # <<>> /\ owner[h] # NoClient
        /\ UNCHANGED <<owner, published, targets>> /\ \A d \in Clients : pc'[d] = pc[d]
        /\ buffer' = [buffer EXCEPT ![h] = Tail(@)]
        /\ hand' = [hand EXCEPT ![h] = m]
        /\ taken' = [taken EXCEPT ![h][m.from] = m.seq]
    <3>1. Running
      BY <1>6, Alive DEF Receive
    <3> QED  BY <1>6, <3>1 DEF Receive, Goto, clientVars, ChannelInv
  <2>2. 1 \in DOMAIN buffer[h] /\ m = buffer[h][1] /\ m \in Messages
    BY <2>1
  <2>3. \A i \in DOMAIN Tail(buffer[h]) : i + 1 \in DOMAIN buffer[h] /\ Tail(buffer[h])[i] = buffer[h][i + 1]
    BY <2>1
  <2>4. \A d \in Clients : taken'[h][d] = IF d = m.from THEN m.seq ELSE taken[h][d]
    BY <2>1, <2>2 DEF Messages
  <2>5. \A k \in Chans, d \in Clients, n \in Nat : Newer(k, d, n) => Newer(k, d, n)'
    <3>1. ASSUME NEW k \in Chans, NEW d \in Clients, NEW n \in Nat, Newer(k, d, n)
          PROVE  Newer(k, d, n)'
      <4>1. CASE k # h
        BY <2>1, <3>1, <4>1 DEF Newer
      <4>2. CASE k = h
        BY <2>1, <2>2, <2>3, <2>4, <3>1, <4>2 DEF Newer
      <4> QED  BY <4>1, <4>2
    <3> QED  BY <3>1
  <2>6. \A k \in Chans : owner[k] = NoClient => k # h
    BY <2>1
  <2>7. ASSUME NEW k \in Chans, NEW d \in Clients
        PROVE  /\ Newer(k, d, published[d] + 1)'
               /\ pc[d] = "publish" => Newer(k, d, published[d])'
               /\ (pc[d] = "publishing" /\ k \in targets[d]) => Newer(k, d, published[d])'
    <3>1. \A n \in Nat : Newer(k, d, n) => /\ taken'[k][d] < n
                                           /\ \A i \in DOMAIN buffer'[k] :
                                                 buffer'[k][i].from = d => buffer'[k][i].seq < n
      BY <2>5 DEF Newer
    <3>2. /\ Newer(k, d, published[d] + 1)
          /\ pc[d] = "publish" => Newer(k, d, published[d])
          /\ (pc[d] = "publishing" /\ k \in targets[d]) => Newer(k, d, published[d])
      BY DEF OrderInv
    <3>3. published[d] \in Nat /\ published[d] + 1 \in Nat /\ published' = published
      BY <2>1
    <3> QED  BY <3>1, <3>2, <3>3 DEF Newer
  <2> QED  BY <2>1, <2>6, <2>7 DEF OrderInv
<1>7. ASSUME NEW h \in Chans, Finish(h) PROVE OrderInv'
  <2>1. /\ UNCHANGED <<published, targets>> /\ \A d \in Clients : pc'[d] = pc[d]
        /\ buffer' = [buffer EXCEPT ![h] = <<>>]
        /\ hand' = [hand EXCEPT ![h] = NoMessage]
        /\ taken' = [taken EXCEPT ![h] = [d \in Clients |-> 0]]
        /\ owner' = [owner EXCEPT ![h] = NoClient]
    BY <1>7 DEF Finish, Reset, Goto, clientVars
  <2>2. \A k \in Chans, d \in Clients, n \in Nat : Newer(k, d, n) => Newer(k, d, n)'
    BY <2>1 DEF Newer
  <2> QED  BY <2>1, <2>2 DEF OrderInv
<1>8. ASSUME NEW h \in Chans, Crash(h) PROVE OrderInv'
  <2>1. /\ \A d \in Clients : pc'[d] = "dead"
        /\ UNCHANGED <<buffer, owner, taken, hand, published, targets>>
    BY <1>8 DEF Crash, chanVars, clientVars, delivererVars
  <2> QED  BY <2>1 DEF OrderInv, Newer
<1> QED  BY <1>1, <1>2, <1>3, <1>4, <1>5, <1>6, <1>7, <1>8 DEF Moves

-----------------------------------------------------------------------------
(***************************************************************************)
(* A channel keeps its order as long as it gains no topic and its buffer   *)
(* and its counts stay.                                                    *)
(***************************************************************************)
InOrder(h) ==
    /\ \A i \in DOMAIN buffer[h] :
          /\ buffer[h][i].seq > taken[h][buffer[h][i].from]
          /\ Entries(h) \subseteq {buffer[h][i].topic}
          /\ \A j \in DOMAIN buffer[h] :
                i < j /\ buffer[h][j].from = buffer[h][i].from
                   => buffer[h][i].seq < buffer[h][j].seq
    /\ hand[h] # NoMessage => Entries(h) \subseteq {hand[h].topic}

(***************************************************************************)
(* SubscriptionOrder is a statement of each channel by itself.             *)
(***************************************************************************)
LEMMA OrderByChannel == SubscriptionOrder <=> \A h \in Chans : InOrder(h)
BY DEF SubscriptionOrder, InOrder

(***************************************************************************)
(* A channel that only loses entries or the message in hand stays in       *)
(* order.                                                                  *)
(***************************************************************************)
LEMMA OrderKept ==
    ASSUME NEW g \in Chans, InOrder(g), Entries(g)' \subseteq Entries(g),
           buffer'[g] = buffer[g], taken'[g] = taken[g], hand'[g] \in {hand[g], NoMessage}
    PROVE  InOrder(g)'
BY DEF InOrder

(***************************************************************************)
(* Ending a subscription takes entries away.                               *)
(***************************************************************************)
LEMMA RemoveShrinks ==
    ASSUME Types, NEW c \in Clients, NEW t \in Topics, Remove(c, t), NEW g \in Chans
    PROVE  Entries(g)' \subseteq Entries(g)
BY DEF Types, Remove, Entries

(***************************************************************************)
(* A send appends what is newer, a receive takes the oldest: the order     *)
(* stays.                                                                  *)
(***************************************************************************)
LEMMA NextSubscriptionOrder ==
    ASSUME Types, Places, ChannelInv, TargetsInv, OrderInv, SubscriptionOrder, Moves
    PROVE  SubscriptionOrder'
<1> USE DEF Types
<1> SUFFICES ASSUME NEW g \in Chans, InOrder(g)
             PROVE  InOrder(g)'
  BY OrderByChannel DEF SubscriptionOrder, InOrder
<1>1. CASE \/ \E c \in Clients : CallPublish(c) \/ EnterPublish(c)
           \/ \E h \in Chans : Crash(h)
  <2>1. UNCHANGED <<subscribers, buffer, taken, hand>>
    BY <1>1 DEF CallPublish, Request, EnterPublish, Crash, chanVars, delivererVars
  <2> QED  BY <2>1, OrderKept DEF Entries
<1>2. ASSUME NEW c \in Clients, Unsubscribe(c) PROVE InOrder(g)'
  <2>1. Remove(c, topic[c]) /\ UNCHANGED <<buffer, taken, hand>>
    BY <1>2 DEF Unsubscribe, delivererVars
  <2> QED  BY <2>1, RemoveShrinks, OrderKept
<1>3. ASSUME NEW h \in Chans, GiveUp(h) PROVE InOrder(g)'
  <2>1. Remove(owner[h], Fixed) /\ UNCHANGED <<buffer, taken, hand>> /\ owner[h] \in Clients
    <3>1. Running
      BY <1>3, Alive DEF GiveUp
    <3> QED  BY <1>3, <3>1 DEF GiveUp, delivererVars, ChannelInv
  <2> QED  BY <2>1, RemoveShrinks, OrderKept
<1>4. ASSUME NEW c \in Clients, Subscribe(c) PROVE InOrder(g)'
  <2>1. UNCHANGED <<buffer, taken, hand>>
    BY <1>4 DEF Subscribe, delivererVars
  <2>2. CASE subscribers[topic[c]][c] = NoChan
    <3>1. PICK k \in Chans : /\ pc[k] = "free"
                             /\ subscribers' = [subscribers EXCEPT ![topic[c]][c] = k]
      BY <1>4, <2>2 DEF Subscribe
    <3>2. CASE g = k
      <4>1. buffer[g] = <<>> /\ hand[g] = NoMessage
        BY <1>4, <3>1, <3>2, Alive DEF Subscribe, ChannelInv, OrderInv
      <4> QED  BY <2>1, <4>1 DEF InOrder
    <3>3. CASE g # k
      <4>1. Entries(g)' \subseteq Entries(g)
        BY <3>1, <3>3 DEF Entries
      <4> QED  BY <2>1, <4>1, OrderKept
    <3> QED  BY <3>2, <3>3
  <2>3. CASE subscribers[topic[c]][c] # NoChan
    <3>1. UNCHANGED subscribers
      BY <1>4, <2>3 DEF Subscribe
    <3> QED  BY <2>1, <3>1, OrderKept DEF Entries
  <2> QED  BY <2>2, <2>3
<1>5. ASSUME NEW h \in Chans, Finish(h) PROVE InOrder(g)'
  <2>1. CASE g = h
    <3>1. buffer'[g] = <<>> /\ hand'[g] = NoMessage
      BY <1>5, <2>1 DEF Finish, Reset
    <3> QED  BY <3>1 DEF InOrder
  <2>2. CASE g # h
    <3>1. /\ subscribers' = subscribers
          /\ buffer'[g] = buffer[g] /\ taken'[g] = taken[g] /\ hand'[g] = hand[g]
      BY <1>5, <2>2 DEF Finish, Reset
    <3> QED  BY <3>1, OrderKept DEF Entries
  <2> QED  BY <2>1, <2>2
<1>6. ASSUME NEW h \in Chans, Receive(h) PROVE InOrder(g)'
  <2> DEFINE m == Head(buffer[h])
  <2>1. CASE g = h
    <3>1. /\ buffer[h] # <<>> /\ subscribers' = subscribers
          /\ buffer'[h] = Tail(buffer[h]) /\ hand'[h] = m
          /\ taken' = [taken EXCEPT ![h][m.from] = m.seq]
      BY <1>6 DEF Receive
    <3>2. 1 \in DOMAIN buffer[h] /\ m = buffer[h][1] /\ m.from \in Clients
      BY <3>1, BufferTypes
    <3>3. \A i \in DOMAIN buffer'[h] : /\ i \in Nat /\ i + 1 \in DOMAIN buffer[h] /\ 1 < i + 1
                                       /\ buffer'[h][i] = buffer[h][i + 1]
      BY <3>1
    <3>4. \A d \in Clients : taken'[h][d] = IF d = m.from THEN m.seq ELSE taken[h][d]
      BY <3>1, <3>2
    <3>5. Entries(h)' = Entries(h)
      BY <3>1 DEF Entries
    <3>6. ASSUME NEW i \in DOMAIN buffer'[h]
          PROVE  /\ buffer'[h][i].seq > taken'[h][buffer'[h][i].from]
                 /\ Entries(h)' \subseteq {buffer'[h][i].topic}
      <4> DEFINE n == buffer[h][i + 1]
      <4>1. /\ buffer'[h][i] = n /\ n.from \in Clients /\ n.seq \in Nat /\ m.seq \in Nat
            /\ n.seq > taken[h][n.from] /\ Entries(h) \subseteq {n.topic}
            /\ n.from = m.from => m.seq < n.seq
        BY <2>1, <3>2, <3>3, BufferTypes DEF InOrder
      <4>2. n.seq > taken'[h][n.from]
        <5>1. CASE n.from = m.from
          BY <3>4, <4>1, <5>1
        <5>2. CASE n.from # m.from
          BY <3>4, <4>1, <5>2
        <5> QED  BY <5>1, <5>2
      <4> HIDE DEF n
      <4> QED  BY <3>5, <4>1, <4>2
    <3>7. ASSUME NEW i \in DOMAIN buffer'[h], NEW j \in DOMAIN buffer'[h], i < j,
                 buffer'[h][j].from = buffer'[h][i].from
          PROVE  buffer'[h][i].seq < buffer'[h][j].seq
      <4>1. i + 1 < j + 1
        BY <3>3, <3>7
      <4> QED  BY <2>1, <3>3, <3>7, <4>1 DEF InOrder
    <3>8. Entries(h)' \subseteq {hand'[h].topic}
      BY <2>1, <3>1, <3>2, <3>5 DEF InOrder
    <3> QED  BY <2>1, <3>6, <3>7, <3>8 DEF InOrder
  <2>2. CASE g # h
    <3>1. /\ subscribers' = subscribers
          /\ buffer'[g] = buffer[g] /\ taken'[g] = taken[g] /\ hand'[g] = hand[g]
      BY <1>6, <2>2 DEF Receive
    <3> QED  BY <3>1, OrderKept DEF Entries
  <2> QED  BY <2>1, <2>2
<1>7. ASSUME NEW c \in Clients, Publish(c) PROVE InOrder(g)'
  <2> DEFINE m == [from |-> c, seq |-> published[c], topic |-> topic[c]]
  <2>1. PICK k \in targets[c] : Push(k, m)
    BY <1>7 DEF Publish
  <2>2. pc[c] = "publishing" /\ UNCHANGED <<subscribers, taken, hand>> /\ k \in Chans
    BY <1>7, <2>1 DEF Publish, delivererVars
  <2>3. CASE g # k \/ buffer'[k] = buffer[k]
    <3>1. buffer'[g] = buffer[g]
      BY <2>1, <2>3 DEF Push
    <3> QED  BY <2>2, <3>1, OrderKept DEF Entries
  <2>4. CASE g = k /\ buffer'[k] # buffer[k]
    <3>1. /\ buffer'[g] = Append(buffer[g], m) /\ buffer[g] \in Seq(Messages)
          /\ m \in Messages /\ m.from = c /\ m.seq = published[c] /\ m.topic = topic[c]
      BY <2>1, <2>2, <2>4 DEF Push, Messages
    <3>2. Entries(g)' = Entries(g) /\ Entries(g) \subseteq {m.topic}
      <4>1. PICK d \in Clients : subscribers[topic[c]][d] = g
        BY <2>1, <2>2, <2>4 DEF TargetsInv
      <4>2. ASSUME NEW u \in Topics, NEW e \in Clients, subscribers[u][e] = g
            PROVE  u = topic[c]
        <5>1. owner[g] = d /\ owner[g] = e
          BY <2>2, <4>1, <4>2, EntryOwner DEF ChannelInv
        <5> QED  BY <2>2, <4>1, <4>2, <5>1, EntryOwner DEF ChannelInv
      <4> QED  BY <2>2, <3>1, <4>2 DEF Entries
    <3>3. Newer(g, c, published[c])
      BY <2>1, <2>2, <2>4 DEF OrderInv
    <3> HIDE DEF m
    <3>4. \A i \in DOMAIN buffer'[g] :
             \/ /\ i \in DOMAIN buffer[g] /\ buffer'[g][i] = buffer[g][i]
                /\ i \in Nat /\ i < Len(buffer[g]) + 1
             \/ i = Len(buffer[g]) + 1 /\ buffer'[g][i] = m
      BY <3>1
    <3>5. ASSUME NEW i \in DOMAIN buffer'[g]
          PROVE  /\ buffer'[g][i].seq > taken'[g][buffer'[g][i].from]
                 /\ Entries(g)' \subseteq {buffer'[g][i].topic}
      BY <2>2, <3>1, <3>2, <3>3, <3>4 DEF InOrder, Newer
    <3>6. ASSUME NEW i \in DOMAIN buffer'[g], NEW j \in DOMAIN buffer'[g], i < j,
                 buffer'[g][j].from = buffer'[g][i].from
          PROVE  buffer'[g][i].seq < buffer'[g][j].seq
      <4>1. i \in DOMAIN buffer[g] /\ buffer'[g][i] = buffer[g][i]
        BY <3>1, <3>4, <3>6
      <4> QED  BY <3>1, <3>3, <3>4, <3>6, <4>1 DEF InOrder, Newer
    <3> QED  BY <2>2, <3>2, <3>5, <3>6 DEF InOrder
  <2> QED  BY <2>3, <2>4
<1> QED  BY <1>1, <1>2, <1>3, <1>4, <1>5, <1>6, <1>7 DEF Moves

-----------------------------------------------------------------------------
(***************************************************************************)
(* Initially nobody is connected and every channel is free.                *)
(***************************************************************************)
LEMMA InitIInv == Init => IInv
<1> SUFFICES ASSUME Init PROVE IInv
  OBVIOUS
<1> USE DEF Init, MutexInit
<1>1. TypeOK
  BY DEF TypeOK, Types, DeliveryLocks, MutexTypeOK, Waiting
<1>2. Places /\ LockInv
  BY DEF Places, LockInv, ClientPlaces, DelivererPlaces, Inside
<1>3. ChannelInv /\ TargetsInv
  BY DEF ChannelInv, TableInv, TargetsInv
<1>4. OrderInv /\ SubscriptionOrder
  BY DEF OrderInv, Newer, SubscriptionOrder
<1> QED  BY <1>1, <1>2, <1>3, <1>4 DEF IInv

(***************************************************************************)
(* The parts of the invariant carry each other through a step.             *)
(***************************************************************************)
LEMMA NextIInv == IInv /\ [Next]_vars => IInv'
<1> SUFFICES ASSUME IInv, [Next]_vars PROVE IInv'
  OBVIOUS
<1> USE DEF IInv, TypeOK
<1>1. Types' /\ Places'
  BY NextTypes
<1>2. LockInv' /\ DeliveryLocks'
  BY NextLockInv
<1>3. ChannelInv' /\ TargetsInv' /\ OrderInv' /\ SubscriptionOrder'
  <2>1. CASE UNCHANGED vars
    <3>1. Still
      BY <2>1 DEF Still, vars, chanVars, clientVars, delivererVars, Running
    <3> QED  BY <3>1, StillKeeps
  <2>2. CASE Still
    BY <2>2, StillKeeps
  <2>3. CASE Moves
    BY <2>3, NextChannelInv, NextTargetsInv, NextOrderInv, NextSubscriptionOrder
  <2> QED  BY <2>1, <2>2, <2>3, StillSteps
<1> QED  BY <1>1, <1>2, <1>3

(***************************************************************************)
(* The locks, the table, the channels and the counts of messages stay in   *)
(* step with what the goroutines do.                                       *)
(***************************************************************************)
THEOREM Invariance == Spec => []IInv
BY InitIInv, NextIInv, PTL DEF Spec

(***************************************************************************)
(* An open channel is the entry of its owner under exactly one topic, and  *)
(* a closed one is none.                                                   *)
(***************************************************************************)
THEOREM OneDeliverer == Spec => []OneDelivererEach
<1>1. ASSUME IInv PROVE OneDelivererEach
  <2> USE DEF IInv, TypeOK, Types, ChannelInv, TableInv
  <2> SUFFICES ASSUME NEW h \in Chans
               PROVE  IF owner[h] = NoClient \/ h \in closed
                      THEN Entries(h) = {}
                      ELSE \E t \in Topics : Entries(h) = {t} /\ subscribers[t][owner[h]] = h
    BY DEF OneDelivererEach
  <2>1. \A t \in Topics, c \in Clients : subscribers[t][c] = h =>
           owner[h] = c /\ h \notin closed /\ \A u \in Topics : subscribers[u][c] = h => u = t
    BY <1>1, EntryOwner
  <2>2. CASE owner[h] = NoClient \/ h \in closed
    BY <2>1, <2>2 DEF Entries
  <2>3. CASE ~ (owner[h] = NoClient \/ h \in closed)
    <3>1. owner[h] \in Clients
      BY <1>1, <2>3
    <3>2. PICK t \in Topics : subscribers[t][owner[h]] = h
      BY <1>1, <2>3
    <3>3. Entries(h) = {t}
      BY <2>1, <3>1, <3>2 DEF Entries
    <3> QED  BY <2>3, <3>2, <3>3
  <2> QED  BY <2>2, <2>3
<1> QED  BY <1>1, Invariance, PTL

(***************************************************************************)
(* A PUBLISH sends to open channels only.                                  *)
(***************************************************************************)
THEOREM SendsToOpen == Spec => []NoSendOnClosed
<1>1. ASSUME IInv PROVE NoSendOnClosed
  <2> SUFFICES ASSUME NEW c \in Clients, pc[c] = "publishing", NEW h \in targets[c]
               PROVE  h \notin closed
    BY DEF NoSendOnClosed
  <2>1. PICK d \in Clients : subscribers[topic[c]][d] = h
    BY <1>1 DEF IInv, TargetsInv
  <2>2. h \in Chans /\ topic[c] \in Topics
    BY <1>1 DEF IInv, TypeOK, Types
  <2> QED  BY <1>1, <2>1, <2>2 DEF IInv, ChannelInv, TableInv
<1> QED  BY <1>1, Invariance, PTL

(***************************************************************************)
(* A subscription receives the messages of a client in their order, each   *)
(* at most once and all of its own topic.                                  *)
(***************************************************************************)
THEOREM DeliveredInOrder == Spec => []SubscriptionOrder
<1>1. IInv => SubscriptionOrder
  BY DEF IInv
<1> QED  BY <1>1, Invariance, PTL

(***************************************************************************)
(* Variables keep their types; in particular who writes to a WebSocket     *)
(* holds the locks that its place asks for (pubsub.go:71-80).              *)
(***************************************************************************)
THEOREM TypeCorrect == Spec => []TypeOK
<1>1. IInv => TypeOK
  BY DEF IInv
<1> QED  BY <1>1, Invariance, PTL
=============================================================================
