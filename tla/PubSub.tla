------------------------------- MODULE PubSub -------------------------------
(***************************************************************************)
(* SUBSCRIBE, UNSUBSCRIBE and PUBLISH (pubsub.go) and the connections they *)
(* serve (main.go): the goroutine of each connection, which registers      *)
(* itself, executes commands and writes the answers, and the goroutine of  *)
(* each subscription, which takes the messages from the buffered channel   *)
(* of the subscription and writes them to the same connection.             *)
(*                                                                         *)
(* Three things protect each other here: Tealis.Mu, wsWriteMutex and the   *)
(* Go channel.  Two are not protected: a deliverer reads ClientConnections *)
(* without the lock, and the goroutine of a WebSocket connection writes    *)
(* its answers without wsWriteMutex.  Go makes of the first a fatal error  *)
(* and gorilla/websocket of the second a panic, when they are noticed.     *)
(* The process is then dead: no goroutine does anything any more.          *)
(***************************************************************************)
EXTENDS Naturals, Sequences, RWMutex

CONSTANTS
    Clients,        \* the client IDs; also the goroutines of their connections
    WsClients,      \* those that come over a WebSocket, the others over TCP
    Chans,          \* the Go channels; also the goroutines that drain them
    Topics,         \* the names of pub/sub channels
    Fixed,          \* the topic named "channel" (pubsub.go:82,91)
    NoChan,         \* the entry of a client that is not subscribed
    NoClient,       \* the owner of a channel that is not allocated
    NoMessage,      \* a deliverer has no message in hand
    BufferSize,     \* the capacity of a channel: 100 (pubsub.go:21)
    MaxPublished    \* bound of the model: the messages each client publishes

VARIABLES
    subscribers,    \* Tealis.pubsubSubscribers: topic -> client -> channel
    buffer,         \* the messages in each channel
    closed,         \* the channels that close() was called on
    owner,          \* the client a deliverer works for
    registered,     \* the client IDs in Tealis.ClientConnections
    broken,         \* the connections whose peer is gone or that are closed
    pc,             \* where each goroutine is
    topic,          \* the argument of the command a client executes
    targets,        \* the channels a PUBLISH has still to send to
    hand,           \* the message a deliverer works on
    old,            \* the deliverers that hold a connection of an earlier session
    wsOwner,        \* the deliverer that holds wsWriteMutex, or NoChan
    published,      \* how many messages each client has published
    taken           \* per channel and publisher: the last message taken out

chanVars == <<subscribers, buffer, closed, owner>>
connVars == <<registered, broken>>
clientVars == <<topic, targets, published>>
delivererVars == <<hand, old, wsOwner, taken>>
vars == <<chanVars, connVars, pc, clientVars, delivererVars, mutexVars>>

Messages == [from : Clients, seq : Nat, topic : Topics]

ASSUME PubSubProcsAssumption == /\ Procs = Clients \cup Chans
                                /\ Clients \cap Chans = {}
                                /\ WsClients \subseteq Clients
ASSUME TopicsAssumption == Fixed \in Topics
ASSUME NullsAssumption == /\ NoChan \notin Chans /\ NoClient \notin Clients
                          /\ NoMessage \notin Messages
ASSUME SizesAssumption == BufferSize \in Nat \ {0}
                          /\ MaxPublished \in [Clients -> Nat]

Init == /\ subscribers = [t \in Topics |-> [c \in Clients |-> NoChan]]
        /\ buffer = [h \in Chans |-> <<>>]
        /\ closed = {}
        /\ owner = [h \in Chans |-> NoClient]
        /\ registered = {}
        /\ broken = Clients
        /\ pc = [p \in Procs |-> IF p \in Clients THEN "gone" ELSE "free"]
        /\ topic = [c \in Clients |-> Fixed]
        /\ targets = [c \in Clients |-> {}]
        /\ published = [c \in Clients |-> 0]
        /\ hand = [h \in Chans |-> NoMessage]
        /\ old = {}
        /\ wsOwner = NoChan
        /\ taken = [h \in Chans |-> [c \in Clients |-> 0]]
        /\ MutexInit

Goto(p, label) == pc' = [pc EXCEPT ![p] = label]

(* The places where a goroutine waits in Mu.Lock.                          *)
Waiting == {"register", "unregister", "subscribe", "unsubscribe", "wsLock", "giveUp"}

Lock(p) == /\ pc[p] \in Waiting
           /\ Announce(p)
           /\ UNCHANGED <<chanVars, connVars, pc, clientVars, delivererVars>>
-----------------------------------------------------------------------------
(***************************************************************************)
(* A connection is accepted, and registered or removed from the registry   *)
(* under the lock.  The write to the map takes time, in which a deliverer  *)
(* may read it.                                                            *)
(***************************************************************************)
Connect(c) == /\ pc[c] = "gone"
              /\ broken' = broken \ {c}
              /\ Goto(c, "register")
              /\ UNCHANGED <<chanVars, registered, clientVars, delivererVars, mutexVars>>

EnterRegistry(c) == /\ pc[c] \in {"register", "unregister"}
                    /\ WriteReady(c)
                    /\ Goto(c, IF pc[c] = "register" THEN "registering" ELSE "unregistering")
                    /\ UNCHANGED <<chanVars, connVars, clientVars, delivererVars, mutexVars>>

Register(c) == /\ pc[c] = "registering"
               /\ registered' = registered \cup {c}
               /\ Unlock
               /\ Goto(c, "idle")
               /\ UNCHANGED <<chanVars, broken, clientVars, delivererVars>>

(* The deliverers that looked the connection up before keep it.            *)
Holders(c) == {h \in Chans : owner[h] = c /\ pc[h] \in {"wsWait", "wsLock", "writing"}}

(* The connection leaves the registry and is closed; nothing is            *)
(* unsubscribed.                                                           *)
Unregister(c) == /\ pc[c] = "unregistering"
                 /\ registered' = registered \ {c}
                 /\ broken' = broken \cup {c}
                 /\ old' = old \cup Holders(c)
                 /\ Unlock
                 /\ Goto(c, "gone")
                 /\ UNCHANGED <<chanVars, clientVars, hand, wsOwner, taken>>

(* The peer goes away.                                                     *)
Break(c) == /\ pc[c] \notin {"gone", "dead"} /\ c \notin broken
            /\ broken' = broken \cup {c}
            /\ UNCHANGED <<chanVars, registered, pc, clientVars, delivererVars, mutexVars>>

(* The read fails, or a TCP client has sent QUIT.                          *)
Leave(c) == /\ pc[c] = "idle"
            /\ c \in broken \/ c \notin WsClients
            /\ Goto(c, "unregister")
            /\ UNCHANGED <<chanVars, connVars, clientVars, delivererVars, mutexVars>>
-----------------------------------------------------------------------------
(***************************************************************************)
(* The commands.                                                           *)
(***************************************************************************)
Request(c, label, t) == /\ pc[c] = "idle"
                        /\ c \notin broken
                        /\ topic' = [topic EXCEPT ![c] = t]
                        /\ Goto(c, label)
                        /\ UNCHANGED <<chanVars, connVars, targets, delivererVars>>

CallUnsubscribe(c) == /\ \E t \in Topics : Request(c, "unsubscribe", t)
                      /\ UNCHANGED <<published, mutexVars>>

(* Bound of the model: there is a channel for everyone who asks for one.   *)
CallSubscribe(c) == /\ Cardinality({d \in Clients : pc[d] = "subscribe"})
                          < Cardinality({h \in Chans : pc[h] = "free"})
                    /\ \E t \in Topics : Request(c, "subscribe", t)
                    /\ UNCHANGED <<published, mutexVars>>

CallPublish(c) == \E t \in Topics : /\ published[c] < MaxPublished[c]
                                    /\ Request(c, "publish", t)
                                    /\ published' = [published EXCEPT ![c] = @ + 1]
                                    /\ RLock(c)

Subscribe(c) ==
    /\ pc[c] = "subscribe"
    /\ WriteReady(c)
    /\ IF subscribers[topic[c]][c] = NoChan
       THEN \E h \in Chans :
               /\ pc[h] = "free"
               /\ subscribers' = [subscribers EXCEPT ![topic[c]][c] = h]
               /\ owner' = [owner EXCEPT ![h] = c]
               /\ pc' = [pc EXCEPT ![h] = "receive", ![c] = "answer"]
       ELSE Goto(c, "answer") /\ UNCHANGED <<subscribers, owner>>
    /\ Unlock
    /\ UNCHANGED <<buffer, closed, connVars, clientVars, delivererVars>>

(* Mutant: UNSUBSCRIBE forgets to close the channel.                       *)
RemoveOpen(c, t) == /\ subscribers' = [subscribers EXCEPT ![t][c] = NoChan]
                    /\ UNCHANGED closed

(* What Unsubscribe does to the table: no effect without a subscription.   *)
Remove(c, t) == /\ subscribers' = [subscribers EXCEPT ![t][c] = NoChan]
                /\ closed' = closed \cup ({subscribers[t][c]} \ {NoChan})

(* Mutant: without a subscription it returns before it unlocks.            *)
UnsubscribeEarly(c) ==
    /\ pc[c] = "unsubscribe"
    /\ WriteReady(c)
    /\ Remove(c, topic[c])
    /\ IF subscribers[topic[c]][c] = NoChan THEN UNCHANGED mutexVars ELSE Unlock
    /\ Goto(c, "answer")
    /\ UNCHANGED <<buffer, owner, connVars, clientVars, delivererVars>>

Unsubscribe(c) == /\ pc[c] = "unsubscribe"
                  /\ WriteReady(c)
                  /\ Remove(c, topic[c])
                  /\ Unlock
                  /\ Goto(c, "answer")
                  /\ UNCHANGED <<buffer, owner, connVars, clientVars, delivererVars>>

EnterPublish(c) ==
    /\ pc[c] = "publish"
    /\ c \in active
    /\ targets' = [targets EXCEPT ![c] =
                      {subscribers[topic[c]][d] : d \in Clients} \ {NoChan}]
    /\ Goto(c, "publishing")
    /\ UNCHANGED <<chanVars, connVars, topic, published, delivererVars, mutexVars>>

(* Mutant: a full buffer makes room by overwriting its oldest message.     *)
PushOverwrites(h, m) ==
    buffer' = [buffer EXCEPT ![h] = IF Len(@) < BufferSize THEN Append(@, m)
                                    ELSE [@ EXCEPT ![1] = m]]

(* The send that does not block: a full buffer drops the message.          *)
Push(h, m) ==
    buffer' = [buffer EXCEPT ![h] = IF Len(@) < BufferSize THEN Append(@, m) ELSE @]

Publish(c) ==
    /\ pc[c] = "publishing"
    /\ \E h \in targets[c] :
          /\ Push(h, [from |-> c, seq |-> published[c], topic |-> topic[c]])
          /\ targets' = [targets EXCEPT ![c] = @ \ {h}]
    /\ UNCHANGED <<subscribers, closed, owner, connVars, pc, topic, published,
                   delivererVars, mutexVars>>

FinishPublish(c) == /\ pc[c] = "publishing"
                    /\ targets[c] = {}
                    /\ RUnlock(c)
                    /\ Goto(c, "answer")
                    /\ UNCHANGED <<chanVars, connVars, clientVars, delivererVars>>
-----------------------------------------------------------------------------
(***************************************************************************)
(* The answer is written without a lock.  The loop of a TCP connection     *)
(* ignores a failure, that of a WebSocket ends.                            *)
(***************************************************************************)
WritesTo(h, c) == owner[h] = c /\ pc[h] = "wsWriting" /\ h \notin old

StartAnswer(c) == /\ pc[c] = "answer"
                  /\ Goto(c, "answering")
                  /\ UNCHANGED <<chanVars, connVars, clientVars, delivererVars, mutexVars>>

FinishAnswer(c) == /\ pc[c] = "answering"
                   /\ \/ c \notin WsClients \cap broken /\ Goto(c, "idle")
                      \/ c \in WsClients \cap broken /\ Goto(c, "unregister")
                   /\ UNCHANGED <<chanVars, connVars, clientVars, delivererVars, mutexVars>>

(* gorilla/websocket may notice a second writer, and panics there.  In the *)
(* goroutine of a connection net/http recovers it: the connection is       *)
(* closed and stays in the registry.                                       *)
AnswerPanics(c) == /\ pc[c] = "answer"
                   /\ \E h \in Chans : WritesTo(h, c)
                   /\ broken' = broken \cup {c}
                   /\ old' = old \cup Holders(c)
                   /\ Goto(c, "gone")
                   /\ UNCHANGED <<chanVars, registered, clientVars, hand, wsOwner,
                                  taken, mutexVars>>
-----------------------------------------------------------------------------
(***************************************************************************)
(* The deliverer.                                                          *)
(***************************************************************************)
Receive(h) == /\ pc[h] = "receive"
              /\ buffer[h] # <<>>
              /\ hand' = [hand EXCEPT ![h] = Head(buffer[h])]
              /\ buffer' = [buffer EXCEPT ![h] = Tail(@)]
              /\ taken' = [taken EXCEPT ![h][Head(buffer[h]).from] = Head(buffer[h]).seq]
              /\ Goto(h, "lookup")
              /\ UNCHANGED <<subscribers, closed, owner, connVars, clientVars, old,
                             wsOwner, mutexVars>>

(* The channel is forgotten and may be allocated again.                    *)
Reset(h) == /\ closed' = closed \ {h}
            /\ owner' = [owner EXCEPT ![h] = NoClient]
            /\ buffer' = [buffer EXCEPT ![h] = <<>>]
            /\ taken' = [taken EXCEPT ![h] = [c \in Clients |-> 0]]
            /\ old' = old \ {h}
            /\ hand' = [hand EXCEPT ![h] = NoMessage]
            /\ Goto(h, "free")
            /\ UNCHANGED <<subscribers, connVars, clientVars, wsOwner, mutexVars>>

(* Mutant: a deliverer does not notice that its channel was closed.        *)
FinishAfterError(h) == /\ h \in closed
                       /\ pc[h] = "exited"
                       /\ Reset(h)

(* The range over a channel ends when it is closed and empty; a deliverer  *)
(* that gave up leaves its channel to the garbage collector.               *)
Finish(h) == /\ h \in closed
             /\ \/ pc[h] = "receive" /\ buffer[h] = <<>>
                \/ pc[h] = "exited"
             /\ Reset(h)

(* The next message; the connection of this one goes out of scope.         *)
Continue(h) == /\ Goto(h, "receive")
               /\ hand' = [hand EXCEPT ![h] = NoMessage]
               /\ old' = old \ {h}
               /\ UNCHANGED <<wsOwner, taken>>

(***************************************************************************)
(* The lookup reads the registry without the lock.                         *)
(***************************************************************************)
Lookup(h) == /\ pc[h] = "lookup"
             /\ IF owner[h] \notin registered THEN Continue(h)
                ELSE /\ Goto(h, IF owner[h] \in WsClients THEN "wsWait" ELSE "writing")
                     /\ old' = IF pc[owner[h]] \in {"gone", "register", "registering"}
                               THEN old \cup {h} ELSE old
                     /\ UNCHANGED <<hand, wsOwner, taken>>
             /\ UNCHANGED <<chanVars, connVars, clientVars, mutexVars>>

WsTake(h) == /\ pc[h] = "wsWait"
             /\ wsOwner = NoChan
             /\ wsOwner' = h
             /\ Goto(h, "wsLock")
             /\ UNCHANGED <<chanVars, connVars, clientVars, hand, old, taken, mutexVars>>

WsEnter(h) == /\ pc[h] = "wsLock"
              /\ WriteReady(h)
              /\ Goto(h, "wsWriting")
              /\ UNCHANGED <<chanVars, connVars, clientVars, delivererVars, mutexVars>>

(* A write to a connection that is closed fails; one to a peer that is     *)
(* gone may still be accepted.                                             *)
CanSucceed(h) == h \notin old
CanFail(h) == h \in old \/ owner[h] \in broken

(* Mutant: the error path of the WebSocket keeps the locks.                *)
WsWriteKeeps(h) ==
    /\ pc[h] = "wsWriting"
    /\ \/ /\ CanSucceed(h)
          /\ Goto(h, "receive") /\ wsOwner' = NoChan /\ Unlock
       \/ /\ CanFail(h)
          /\ Goto(h, "giveUp") /\ UNCHANGED <<wsOwner, mutexVars>>
    /\ hand' = [hand EXCEPT ![h] = NoMessage]
    /\ old' = old \ {h}
    /\ UNCHANGED <<chanVars, connVars, clientVars, taken>>

WsWrite(h) == /\ pc[h] = "wsWriting"
              /\ \/ CanSucceed(h) /\ Goto(h, "receive")
                 \/ CanFail(h) /\ Goto(h, "giveUp")
              /\ wsOwner' = NoChan
              /\ Unlock
              /\ hand' = [hand EXCEPT ![h] = NoMessage]
              /\ old' = old \ {h}
              /\ UNCHANGED <<chanVars, connVars, clientVars, taken>>

TcpWrite(h) == /\ pc[h] = "writing"
               /\ \/ CanSucceed(h) /\ Goto(h, "receive")
                  \/ CanFail(h) /\ Goto(h, "giveUp")
               /\ hand' = [hand EXCEPT ![h] = NoMessage]
               /\ old' = old \ {h}
               /\ UNCHANGED <<chanVars, connVars, clientVars, wsOwner, taken, mutexVars>>

(* After a failed write the deliverer unsubscribes its client from the     *)
(* topic named "channel", whatever its own topic is, and ends.             *)
GiveUp(h) == /\ pc[h] = "giveUp"
             /\ WriteReady(h)
             /\ Remove(owner[h], Fixed)
             /\ Unlock
             /\ Goto(h, "exited")
             /\ UNCHANGED <<buffer, owner, connVars, clientVars, delivererVars>>

(***************************************************************************)
(* The fatal errors: the registry is read while it is written, and a       *)
(* WebSocket is written by a deliverer while it is written by its own      *)
(* goroutine (nothing recovers a panic of a deliverer).                    *)
(***************************************************************************)
Crash(h) == /\ \/ /\ pc[h] = "lookup"
                  /\ \E c \in Clients : pc[c] \in {"registering", "unregistering"}
               \/ /\ pc[h] = "wsWriting"
                  /\ \E c \in Clients : pc[c] = "answering" /\ WritesTo(h, c)
            /\ pc' = [p \in Procs |-> "dead"]
            /\ UNCHANGED <<chanVars, connVars, clientVars, delivererVars, mutexVars>>
-----------------------------------------------------------------------------
Command(c) == \/ Subscribe(c) \/ Unsubscribe(c)
              \/ EnterPublish(c) \/ Publish(c) \/ FinishPublish(c)

Reply(c) == StartAnswer(c) \/ FinishAnswer(c) \/ AnswerPanics(c)

Session(c) == EnterRegistry(c) \/ Register(c) \/ Unregister(c)

Deliver(h) == \/ Receive(h) \/ Finish(h) \/ Lookup(h) \/ WsTake(h) \/ WsEnter(h)
              \/ WsWrite(h) \/ TcpWrite(h) \/ GiveUp(h) \/ Crash(h)

Next == \/ \E p \in Procs : Lock(p)
        \/ \E c \in Clients : \/ Connect(c) \/ Break(c) \/ Leave(c)
                              \/ CallSubscribe(c) \/ CallUnsubscribe(c)
                              \/ CallPublish(c)
                              \/ Session(c) \/ Command(c) \/ Reply(c)
        \/ \E h \in Chans : Deliver(h)

Spec == Init /\ [][Next]_vars

(***************************************************************************)
(* Goroutines are scheduled and a write ends; clients are not obliged to   *)
(* send commands, and an announced writer is chosen fairly.                *)
(***************************************************************************)
Fairness ==
    /\ \A c \in Clients : WF_vars(Session(c) \/ Command(c) \/ Reply(c))
    /\ \A h \in Chans : WF_vars(Deliver(h)) /\ SF_vars(WsTake(h))
    /\ \A p \in Procs : SF_vars(Lock(p))

FairSpec == Spec /\ Fairness
-----------------------------------------------------------------------------
(***************************************************************************)
(* The two locks of a WebSocket delivery: whoever writes holds both, and   *)
(* whoever waits for Mu with wsWriteMutex is waited for by no one that     *)
(* holds Mu (pubsub.go:73-77).                                             *)
(***************************************************************************)
DeliveryLocks ==
    \A h \in Chans :
        pc[h] # "dead" => /\ pc[h] \in {"wsLock", "wsWriting"} <=> wsOwner = h
                          /\ pc[h] = "wsWriting" => writer = h /\ active = {}

Types ==
    /\ subscribers \in [Topics -> [Clients -> Chans \cup {NoChan}]]
    /\ buffer \in [Chans -> Seq(Messages)]
    /\ closed \in SUBSET Chans
    /\ owner \in [Chans -> Clients \cup {NoClient}]
    /\ registered \in SUBSET Clients /\ broken \in SUBSET Clients
    /\ pc \in [Procs -> Waiting \cup
                  {"gone", "registering", "unregistering", "idle", "publish", "publishing",
                   "answer", "answering", "free", "receive", "lookup", "wsWait",
                   "wsWriting", "writing", "exited", "dead"}]
    /\ topic \in [Clients -> Topics]
    /\ targets \in [Clients -> SUBSET Chans]
    /\ hand \in [Chans -> Messages \cup {NoMessage}]
    /\ old \in SUBSET Chans
    /\ wsOwner \in Chans \cup {NoChan}
    /\ published \in [Clients -> Nat]
    /\ taken \in [Chans -> [Clients -> Nat]]
    /\ MutexTypeOK

(* The types, and the locks of the deliverers.                             *)
TypeOK == Types /\ DeliveryLocks
-----------------------------------------------------------------------------
(***************************************************************************)
(* The goroutines, the Go channels and the table stay in step: an open     *)
(* channel is the entry of its owner under exactly one topic, so that no   *)
(* deliverer waits for ever on a channel nobody can close, and a closed    *)
(* one is no entry, so that none is closed or sent to again                *)
(* (pubsub.go:16-22, 33-37).                                               *)
(***************************************************************************)
Entries(h) == {t \in Topics : \E c \in Clients : subscribers[t][c] = h}

OneDelivererEach ==
    \A h \in Chans :
        IF owner[h] = NoClient \/ h \in closed
        THEN Entries(h) = {}
        ELSE \E t \in Topics : Entries(h) = {t} /\ subscribers[t][owner[h]] = h

(***************************************************************************)
(* A PUBLISH never sends to a closed channel, which would be a panic: the  *)
(* channels it has still to visit stay open while it holds its read lock   *)
(* (pubsub.go:47-61 against 35).                                           *)
(***************************************************************************)
NoSendOnClosed ==
    \A c \in Clients : pc[c] = "publishing" => targets[c] \cap closed = {}

(***************************************************************************)
(* A subscription receives what one client published in the order of       *)
(* publication and without repetition, although messages are dropped       *)
(* (pubsub.go:55-61), and nothing of another topic.                        *)
(***************************************************************************)
SubscriptionOrder ==
    \A h \in Chans :
        /\ \A i \in DOMAIN buffer[h] :
              LET m == buffer[h][i]
              IN  /\ m.seq > taken[h][m.from]
                  /\ Entries(h) \subseteq {m.topic}
                  /\ \A j \in DOMAIN buffer[h] :
                        i < j /\ buffer[h][j].from = m.from => m.seq < buffer[h][j].seq
        /\ hand[h] # NoMessage => Entries(h) \subseteq {hand[h].topic}

(***************************************************************************)
(* What makes the three properties inductive.  A process that runs has its *)
(* goroutines in their own places: after a fatal error none runs.          *)
(***************************************************************************)
Running == \A p \in Procs : pc[p] # "dead"

ClientPlaces == {"gone", "register", "registering", "unregister", "unregistering", "idle",
                 "subscribe", "unsubscribe", "publish", "publishing", "answer", "answering"}
DelivererPlaces == {"free", "receive", "lookup", "wsWait", "wsLock", "wsWriting", "writing",
                    "giveUp", "exited"}

Places == \/ /\ \A c \in Clients : pc[c] \in ClientPlaces
             /\ \A h \in Chans : pc[h] \in DelivererPlaces
          \/ \A p \in Procs : pc[p] = "dead"

(***************************************************************************)
(* Publishers share Mu, and whoever is inside a critical section of more   *)
(* than one step is the writer and alone.                                  *)
(***************************************************************************)
Inside == {"registering", "unregistering", "wsWriting"}

LockInv ==
    Running =>
        /\ \A p \in active : p \in Clients /\ pc[p] \in {"publish", "publishing"}
        /\ \A p \in blocked : /\ p \in Clients /\ pc[p] = "publish"
                              /\ p \notin active /\ writer # NoProc
        /\ \A c \in Clients : /\ pc[c] = "publish" => c \in active \cup blocked
                              /\ pc[c] = "publishing" => c \in active
        /\ writer # NoProc => pc[writer] \in Waiting \cup Inside
        /\ \A p \in Procs : pc[p] \in Inside => writer = p /\ active = {}

(***************************************************************************)
(* An entry is an open channel of the client it is the entry of, under one *)
(* topic; a channel that is neither allocated nor closed is an entry; the  *)
(* goroutine of a channel runs until its channel is closed.                *)
(***************************************************************************)
TableInv ==
    /\ \A t \in Topics, c \in Clients :
          subscribers[t][c] # NoChan =>
              /\ owner[subscribers[t][c]] = c
              /\ subscribers[t][c] \notin closed
              /\ \A u \in Topics : subscribers[u][c] = subscribers[t][c] => u = t
    /\ \A h \in Chans :
          owner[h] # NoClient /\ h \notin closed => \E t \in Topics : subscribers[t][owner[h]] = h
    /\ \A h \in closed : owner[h] # NoClient

ChannelInv ==
    /\ TableInv
    /\ Running => \A h \in Chans : (pc[h] = "free") <=> (owner[h] = NoClient)

(* What a PUBLISH has still to send to are entries under its topic.        *)
TargetsInv ==
    \A c \in Clients : pc[c] = "publishing" =>
        \A h \in targets[c] : \E d \in Clients : subscribers[topic[c]][d] = h

(***************************************************************************)
(* What a client publishes next is newer than what a channel holds or has  *)
(* delivered, and a channel that is not allocated holds nothing.           *)
(***************************************************************************)
Newer(h, c, n) ==
    /\ taken[h][c] < n
    /\ \A i \in DOMAIN buffer[h] : buffer[h][i].from = c => buffer[h][i].seq < n

OrderInv ==
    /\ \A h \in Chans, c \in Clients :
          /\ Newer(h, c, published[c] + 1)
          /\ pc[c] = "publish" => Newer(h, c, published[c])
          /\ (pc[c] = "publishing" /\ h \in targets[c]) => Newer(h, c, published[c])
    /\ \A h \in Chans : owner[h] = NoClient => buffer[h] = <<>> /\ hand[h] = NoMessage

IInv == /\ TypeOK /\ Places /\ LockInv /\ ChannelInv /\ TargetsInv
        /\ OrderInv /\ SubscriptionOrder

(***************************************************************************)
(* A command is answered and a connection that ends leaves the registry:   *)
(* neither the deliverers, which write to their peers under Mu, nor the    *)
(* publishers starve it.                                                   *)
(***************************************************************************)
CommandsAnswered ==
    \A c \in Clients :
        pc[c] \notin {"idle", "gone"} ~> pc[c] \in {"idle", "gone", "dead"}

(***************************************************************************)
(* The goroutine of a closed channel ends (pubsub.go:69).                  *)
(***************************************************************************)
DeliverersEnd == \A h \in Chans : h \in closed ~> pc[h] \in {"free", "dead"}
=============================================================================
