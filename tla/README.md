# Tealis in TLA+

Tealis is a key-value server in Go that speaks a Redis-like protocol over TCP,
WebSocket and HTTP. All of its state is one `Tealis` struct
(`src/internal/storage/tealis.go`), shared by the goroutines of the
connections, of the expiry cleaner, of the snapshot scheduler and of the
subscriptions. This directory models the parts in which those goroutines meet,
checks them with TLC on small instances, and proves most of the safety properties
with TLAPS for every instance.

## 1. The system

| component | state | operations | meets |
|---|---|---|---|
| string keys and expiry (`string.go`, `tealis.go`) | `Store`, `Expiries`, `Mu` | SET GET DEL EXISTS APPEND INCR/DECR(BY) EX TTL PERSIST, STRLEN GETRANGE SETRANGE KEYS; the cleaner | every other component through `Store` and `Mu` |
| transactions (`tealis.go`, `handler.go:15-41`) | `Transactions` by client ID, the flag `multi` | MULTI EXEC DISCARD, `APPENDTO` | the dispatch of every command |
| pub/sub (`pubsub.go`) | subscribers by topic and client, a buffered Go channel and a goroutine for each, `ClientConnections`, `wsWriteMutex` | SUBSCRIBE UNSUBSCRIBE PUBLISH, delivery | the connections it writes to |
| persistence (`tealis.go`) | `aof.txt`, `aof_rewrite.tmp`, the descriptor `AofFile`, the snapshot, `snapshotMutex` | append on every command, AOF REWRITE, SAVE BGSAVE RESTORE, the scheduler | `Store` through `Mu` |
| connections (`main.go`) | sockets, the buffer of a line | accept, register, read, answer, QUIT, cleanup; HTTP requests under the one ID `HTTP_CLIENT` | dispatch, pub/sub |
| sorted sets (`zset.go`) | a skip list per key | ZADD ZREM ZRANGE ZRANK ZRANGEBYSCORE | `Store` |
| lists (`list.go`) | a Go slice per key | LPUSH RPUSH LPOP RPOP LRANGE LLEN | `Store`; answers read after the unlock |
| parser (`protocol/parser.go`) | none | a line to its parts | connections |
| sets, hashes (`set.go`, `hset.go`) | a map per key | SADD SREM ..., HSET HDEL ... | `Store` |
| streams (`stream.go`) | entries, groups, consumers, pending lists | XADD XREAD XRANGE XLEN XGROUP XREADGROUP XACK | `Store` |
| JSON (`json.go`) | a tree per key | JSON.SET GET DEL ARRAPPEND | `Store`, partly without `Mu` |
| bitmaps, bit fields | bytes per key | SETBIT GETBIT BITCOUNT BITOP BITFIELD | `Store` |
| HyperLogLog, time series, geo, vectors | registers, points, coordinates | PF*, TS.*, GEO*, VECTOR.* | `Store` |

**What is hard here.** `Mu` is a readers-writer lock that is not reentrant, and
one path (GET of an expired key) asks for it twice. The transaction flag is one
for all clients and is read without the lock. Subscriptions are served by
goroutines that fail, close, unsubscribe and write to shared sockets. Files are
replaced while descriptors to them are open, and a crash may come between two
system calls. Lists and answers share memory across the unlock. The skip list is
ordered one way and searched another.

**What makes each part correct.** The keyspace: every command takes effect in
one step, live keys stay, expired keys go, calls return. Transactions: what is
queued stays in order and is executed at most once, between MULTI and EXEC, and
others are not disturbed. Pub/sub: no send to a closed channel, one deliverer
per subscription, order, no deadlock, no leaked goroutine. Persistence: what can
be read from disk is one moment of the store, and it can be brought back. Sorted
sets: order, levels and length agree, queries agree with the order, members are
unique. Lists: a deque, and answers that are what the list held. Streams: who
follows one misses nothing, and acknowledgements match deliveries. Documents,
bytes, series and sketches: a command changes what it names and nothing else,
under its own key and under the others; computed answers agree with their
definitions. Connections: lines become commands, whatever the network does to
the bytes, and who has gone is forgotten.

## 2. Modules

| module | models | checked by | proved in |
|---|---|---|---|
| `RWMutex` | `sync.RWMutex` as the code uses it (external) | with every module that uses it | |
| `ExpiringStore` | the abstract store: a command is called, takes effect, is answered | the refinement `Linearizable` | `KeyspaceProofs` |
| `Keyspace` | string commands, expiry, the cleaner | `MCKeyspace` | `KeyspaceProofs` |
| `CommandLife` | the abstract life of a command: new, queued, executed, dropped | the refinement `EachCommandAtMostOnce` | `TransactionsProofs` |
| `Transactions` | dispatch, MULTI, EXEC, DISCARD | `MCTransactions` | `TransactionsProofs` |
| `PubSub` | connections, subscriptions, deliverers | `MCPubSub` | `PubSubProofs` |
| `Persistence` | append-only file, rewrite, snapshot, restore, crash | `MCPersistence` | `PersistenceProofs` |
| `SortedSet` | the skip list with its pointers | `MCSortedSet` | `SortedSetProofs` |
| `Deque` | the abstract list | the refinement `IsDeque` | `ListsProofs` |
| `Lists` | list commands over Go slices and arrays | `MCLists` | `ListsProofs` |
| `Values` | one store of typed values, panics, DEL and SET | `MCTypedKeys` | `TypedKeysProofs` |
| `SetsAndHashes` | sets, hashes (and their common ground with documents) | `MCTypedKeys` | `TypedKeysProofs` |
| `Documents` | JSON documents and paths | `MCTypedKeys` | `TypedKeysProofs` |
| `Streams` | streams, groups, acknowledgements | `MCTypedKeys` | `TypedKeysProofs` |
| `Measures` | time series, sketches, places, vectors | `MCTypedKeys` | `TypedKeysProofs` |
| `ByteArrays` | bitmaps and bit fields over shared arrays | `MCTypedKeys` | `TypedKeysProofs` |
| `TypedKeys` | all of them and string ranges over one store | `MCTypedKeys` | `TypedKeysProofs` |
| `Connections` | bytes, lines, messages and requests; queued text | `MCConnections` | `ConnectionsProofs` |

`PROJECT.json` names the source lines of every definition. What follows says how
the two correspond where it is not obvious. Operators marked "Mutant" in a
comment are broken variants of the definition below them; nothing uses them but
the test that a property notices the change.

**RWMutex.** Go's `Lock` is two steps: a writer announces itself (from then on
new readers queue) and enters when the readers inside have left. `Unlock` admits
all queued readers. Nothing is reentrant. That is exactly what makes the GET of
an expired key fatal, so it is modelled rather than assumed.

**Keyspace.** Each goroutine has a `pc`: `idle`, waiting in `read`, `write` or
`evict`, inside in `reading`, `writing` or `evicting`. A command reads the store
(`loaded`) in one step and ends in another, so that `StableReads`, that nothing
changes in between, is a property of the lock and not of the model. A round of
the cleaner captures `now` before it waits (`seen`), and deletes one key per
step (`doomed`). Time is a counter; the code compares with seconds in the same
way (`now > expiry`). A deadline may lie in the past (EX with a negative
argument), and SET with none or a non-positive one clears it. Integers wrap at
`IntLimit`, which stands for 2^63. String values that are no number are one
value `Text`; an APPEND is taken to make no number. `GetExpired` is the branch
of `Get` that calls `Lock` under `RLock`: it moves the client to `evict` without
releasing its read lock.

**Transactions.** `multi` is the flag; `transactions[id]` is a queue or `None`.
`Dispatch` reads the flag without the lock, `AppendTo` queues or refuses, and
EXEC is three kinds of step: it takes the queue under the lock (`ExecTake`),
clears the flag without it (`ExecClear`), and hands each command back to
`Dispatch`, where it may be queued again (`ExecNext`). Connections have a client
ID (`IdOf`), and all HTTP requests have the same. `session`, `refused` and
`controllers` record what the clients see and send; no step reads them.

**PubSub.** A Go channel is a buffer with an owner and a deliverer. PUBLISH
sends under the read lock, one channel per step; the send drops the message when
the buffer is full. A deliverer looks up the connection without the lock, takes
`wsWriteMutex` and then `Mu` for a WebSocket, writes, and after an error
unsubscribes its client from the topic named "channel" and ends. Two events
end the process: Go's fatal error for `ClientConnections`, read while it is
written, and the panic of gorilla/websocket for two writers, in a deliverer. They
are possible outcomes of a race, so `Crash` may or may not happen when its
conditions hold.

**Persistence.** A file is an inode; a name and a descriptor refer to inodes
separately, and a line written behind the end leaves holes. A rewrite takes the
read lock, opens (and truncates) the temporary file, writes one key per step and
renames. A save reads the store under the read lock, empties the snapshot,
encodes and writes; a crash in between leaves it `Torn`. `Kinds` are Go types:
what JSON makes of them when it reads them back is `DecodedKind`. Deadlines in
the files are not modelled.

**SortedSet.** `nodes` maps addresses to nodes with their forward pointers, and
`Advance` and `Descend` are the two nested loops that every operation runs, written
as recursive functions over the nodes of a level. The random level of a new node is
any level. A score may be NaN, because the handler parses it. Every operation holds
`Mu` throughout and is one step. An unreachable node is garbage.

**Lists.** A slice is an array, an offset and a length; `memory` holds the
arrays. `append` writes in place when the array has room, one element at a time
and each in two steps, between which a concurrent reader sees `Torn`; otherwise
it allocates any larger capacity, since the language fixes none. LRANGE returns a
slice of the list's own array, and `Format` reads it element by element after
the unlock. A missing key and an empty list are one value, since no list command
tells them apart.

**TypedKeys** and the modules it extends. Each of these commands is one section
under `Mu` and so one step; what is hard is not a race but what a command meets
under its key. A value is a record with its Go type. A command that several keys
or arguments need is as many steps as the handler makes calls (PFADD, GEOADD,
PFCOUNT). A command with the wrong arguments is a step that changes nothing. A
panic unwinds to the server: net/http recovers it for WebSocket and HTTP clients,
and for a TCP client the process ends and starts with an empty store (`Panic`).
Fields named `aux...` are history and belong to properties. Where the code
computes in floating point, the module has a table (`Kilometres`, `Cosine`,
`HashOf`) or leaves the result a sum and a count (`Aggregated`): which values go
into a computation is modelled, its rounding is not. `ByteArrays` has the arrays
behind the slices, since BITOP stores the slice it worked on, and `ByteBits`, so
that a byte may have two bits. Expiries play no part here; `Keyspace` has them.

**Connections.** `socket` is what was sent and not read, a sequence of bytes for TCP
and of messages for WebSocket; `ReadChunk` takes any number of bytes, appends them
to `input`, and once there is a newline anywhere in it, takes all of it for one
command. The words MULTI, EXEC, DISCARD and QUIT are one byte each. `server` is the
flag, the queues and the log of executed commands: dispatch and EXEC are a function
of it here (`ProcessCommand`), because `Transactions` has their steps. `Dispatch` is
the switch of `ProcessCommand`, `RunTexts` the loop of EXEC. The two call each
other, since a MULTI and an EXEC may come out of a queue, and `EXEC` is that
recursion by its depth, which the length of the first queue bounds: a queue that is
built while another one runs is shorter than it. What this module adds is the text:
`Join` makes it, `Fields` splits it, and they are no inverses. `patient` holds the
clients that have always waited for an answer before they sent on.

## 3. Runs

Bounds are constants of the modules. Where a count bounds the behaviours
(`MaxTime`, `MaxSent`, `MaxCalls`, `MaxPublished`, `MaxCapacity`) the modelled
system stops at the bound (as do `Connections`, where a client that has been
reset has no further step), so deadlock is not checked in those runs; a goroutine
that waits for ever is a counterexample of the liveness runs (`CallsReturn`,
`CommandsAnswered`). `persistence`, `sorted_set` and `typed_keys` do check
deadlock: the scheduler of the snapshots always has a next step, unless a lock is
never freed, and a data command always has an answer.

| run | instance | shows |
|---|---|---|
| `keyspace` | 2 clients, 1 cleaner, 2 keys, every operation | the inductive invariant `IInv` (types, exclusion, stable reads, evictions), live keys survive, a stuck GET stays stuck, refinement of `ExpiringStore` |
| `keyspace_live` | fair, 2 clients, both cleaners, 1 key | calls return and expired keys are collected, as long as no GET met an expired key |
| `transactions` | a connection with its own ID (3 commands), two HTTP requests that share one (2 and 1) | queues in order, the flag has an owner, `CommandLife`; EXEC and DISCARD keep their promise while the others only use the store |
| `pubsub` | a WebSocket and a TCP client, 2 topics, 2 channels, buffers of 2, 3 messages | table, channels and deliverers in step; no send on a closed channel; order of delivery, with messages of another topic and one that a full buffer drops; the two locks (in `IInv`) |
| `pubsub_live` | fair, 1 WebSocket client, 2 topics | commands are answered, deliverers of closed channels end |
| `persistence` | 2 clients that both rewrite, 1 saver, 2 keys, 3 inodes, 1 crash | a readable snapshot is one moment; RESTORE installs it; the file that a rewrite installs has no line of an earlier state, and is the whole store if no other rewrite runs; the last line of a client for a key explains what that client finds there; no failure keeps a lock (in `IInv`) |
| `sorted_set` | 3 members, 2 scores, 3 levels, 5 nodes | `WellFormed`: order, levels, length (`IInv` is a part of it), and what a walk of a level meets; `ReadsExact`: ranges, scores, ranks; a command changes its own member's nodes only |
| `lists` | 2 clients, 3 commands each, arrays of up to 3 | `Deque`, the bounds of LRANGE, and slices inside their arrays (in `IInv`) |
| `typed_keys` | 2 keys, every type and command of section 2 | followers of a stream, acknowledgements, series and sketches against their history; edits of documents, computed answers, written bits; no key changes another but through BITOP; complete values and arrays (in `IInv`) |
| `connections` | fair; a TCP, a WebSocket and an HTTP client, 3 lines in all | lines become commands however the bytes are cut, and where they are joined no byte of a word is lost; a queue of plain commands runs as it was asked, who closes is forgotten |
| `keyspace_expired_get`, `lists_alias` | | the disagreements below |

`IInv` is in every module that checks it the invariant of the proofs of section 4, so
TLC has seen it hold on the instances before it was proved for all. The one of
`Transactions`, `TransactionsInv`, was checked on the instance of the run
`transactions` in the same way; the run checks what follows from it. That of
`ConnectionsProofs` is about all lines that there are, which TLC cannot enumerate:
it checks the consequences, `TypeOK` and `BytesBecomeCommands`.

`pubsub` lets the TCP client publish one message more than a buffer takes, so that the
last one finds it full and is dropped (`pubsub.go:58`). `FewForTwo` leaves the
second and the third of them to the states with at most one channel; with two, one
message is enough to go to the wrong one. `View` forgets the topic of a command
that is over. A client may subscribe to `channel`, the topic the give-up
path names, and to `news`, which that path must leave alone.

`persistence` has the combinations of `TwoAndTwo`: one client writes, restores or
rewrites twice, or deletes or saves before that, the other one writes once and rewrites
or rewrites twice, and the scheduler saves at any time. Two
rewrites of two keys then share the temporary file in every order, finish one after
the other, fail, or are cut short by the crash. `ListsOrNaNs` keeps the value that SAVE
changes and the one that it refuses out of one behaviour; neither can be rewritten.
Inodes and keys are symmetric; the clients are not.

`keyspace` has two keys, so that a round of a cleaner can find both expired; the
second is only set with a deadline, and integers have one bit, which lets a
counter overflow at once. `sorted_set` tells states apart by their shape (`VIEW`):
addresses are arbitrary, and as long as `LinksExact` holds the nodes and their order
determine the pointers.

`typed_keys` sends every type to `k1`, where most of the state is, and to `k2` what
commands on two keys combine (`KindsOf`); `OneAtATime` leaves out the states in which
both keys hold large values of unrelated types, which no command relates. `View`
forgets the names of arrays and the last answer, which the action properties read in
the step that gives it; the two consumers are symmetric. The moments include 0, Go's
zero time, and two in one interval; a byte has two bits, so that every offset and
overflow of a field occurs; the ranks of two elements meet in one register; the
documents have an object and an array with an object inside, and two spellings of a
number name one element of an array. `connections` bounds the lines of all clients
together: two to open a transaction and queue, one to run it or to be cut, joined or
corrected. One of them has a word of two bytes, which may come apart.

**Why the bounds are enough.** The hazards are about pairs: a reader and a
writer, an EXEC and a MULTI of somebody else, a deliverer and an UNSUBSCRIBE, a
rewrite and another. Two of each actor, and enough commands for one to complete
a cycle (set, expire, collect, create again; MULTI, command, EXEC and one more)
while the other interferes, let each of them happen; the mutants confirm that the
properties notice. Three topics, clients or keys add more of the same pairs. A skip
list needs three levels for a level between two others, and three members for a
node between two; five nodes allow members to be present twice. Arrays of three
slots let a pair be appended in place, not fit, and be reached from a shifted
window.

**Fairness.** The Go scheduler is preemptive, so a goroutine that can always
take its next step takes it (`WF` on the steps of each goroutine). A `sync.Mutex`
hands over in FIFO order once a waiter has waited for a millisecond, and
`RWMutex.Lock` goes through one, so a goroutine that can acquire again and again
does (`SF` on `Lock`, `WsTake`). Time passes and the
cleaner's ticker fires. A `Read` of a socket returns when there are bytes, an end
or an error (`WF` on `Read`). A write to a socket ends, with success or an error; a
peer that never reads blocks `Mu` (`pubsub.go:75`), and no liveness survives
that. Clients, peers and crashes owe nothing.

**Disagreements.** Two runs must find a violation; each has an entry under
"findings" with the line that promises otherwise.

| run | property | the code |
|---|---|---|
| `keyspace_expired_get` | `ExpiredGetReturns` | a GET of an expired key waits for its own read lock |
| `lists_alias` | `RepliesAreRanges` | an RPOP and an RPUSH change an answer that is being sent |

The models have these behaviours too, which differ from what a comment or the
readme leads one to expect, and no run is devoted to them:

- the transaction flag is one for all clients: another client's EXEC, DISCARD or
  MULTI between a MULTI and its EXEC lets commands be executed outside of it, queued
  or refused (`handler.go:22`), although readme.md:7 has EXEC execute "all commands
  issued after MULTI"; `ExecRunsAllAlone` says what is left;
- a ZADD that raises a score adds a second node for the member (`zset.go:69`), so
  `MembersOnce` in `SortedSet` does not always hold;
- while one client has a transaction, the commands of a client without one are
  answered "No transaction started" (`handler.go:22`, `tealis.go:389-403`);
- a DISCARD of one client lets another one's commands be executed at once
  (`tealis.go:114`);
- a failed write removes the subscription to the topic named "channel", whatever
  topic the deliverer served (`pubsub.go:82`);
- answers are written to a WebSocket without `wsWriteMutex` (`main.go:112`);
- two rewrites at a time share a temporary file, which each of them empties and writes
  from its own offset (`tealis.go:235`), although a rewrite is to "include only the
  current state" (`tealis.go:223`) and to "atomically replace the old AOF file"
  (`tealis.go:268`): keys may be missing from the file that becomes `aof.txt`, and
  holes be left in it; the second rename fails, and what its rewrite had still to
  write goes to the file that was renamed already. `RewriteIsCurrent` says what is
  left: no line is of an earlier state, and a rewrite that runs alone is whole;
- after a rewrite, commands go to the replaced file (`tealis.go:270`), and a
  restart reads the file without replaying it (`tealis.go:212`);
- a restored list is a `[]interface{}`, which of the list commands only LLEN takes for
  a list (`tealis.go:347`, `list.go:115`);
- ZREM may miss a member, and ZRANK may miss it or count too few, since both
  search by member what is ordered by score (`zset.go:119, 137`);
  `RankAtMostPosition` says what is left of the rank;
- a score may be NaN, and no range reaches behind it (`zset.go:174`);
  `ByScoreExact` fails with `NaN` in `Scores`;
- lines that arrive in one read are joined to one command, and a client that goes
  on after a blank line, which is not answered, may have its next line cut in two
  (`main.go:201-223`);
- after a read error that is not the end of the stream the loop of a TCP
  connection spins for ever and keeps its entry (`main.go:185`);
- quoted arguments that hold blanks come apart in a transaction (`tealis.go:99`);
- EXEC of a client without a transaction leaves the flag of the others as it is, and
  reports an error (`tealis.go:80`);
- BITOP combines the first source with itself first (`bitmap.go:94`), so its XOR is
  that of the other sources, although the comment and the readme mean the operation on
  all of them (`bitmap.go:76`, readme.md:88). The test of XOR expects two ones
  (tests/bitmap_test.go:79) and finds them by coincidence: the OR before it has made
  {0, 1, 2} of its first source, whose XOR with {0, 1} has one, but the answer is the
  second source itself. `BitopIsExact` demands the real XOR wherever the first source
  has no one, and nothing where it has;
- BITOP changes the first source and stores the same array under the
  destination, and a missing source is a panic after part of the work (`bitmap.go:88`);
- SETRANGE cuts off what follows the part it sets (`string.go:146-162`); KEYS answers
  expired keys (`string.go:165`);
- JSON.SET ignores its path and answers OK for text that is no object, after which
  HSET of the key panics (`json.go:19-35`); JSON.DEL and JSON.ARRAPPEND replace the
  value by the text of the part they changed (`json.go:126, 273`);
- XADD takes IDs in any order and twice (`stream.go:44-52`); XREADGROUP delivers the
  same entries again, and XACK leaves the lists of the consumers (`stream.go:173, 207`);
- PFMERGE ignores what the destination holds, and without sources stores a nil
  pointer on which PFADD and PFCOUNT panic (`hyperloglog.go:132-148`);
- the rank of an element is counted in 15 bits that are not aligned to the left
  (`hyperloglog.go:44-45`), so it is at least 50 and only the count of empty
  registers makes the estimate;
- DownSample gives the points of the zero time's interval to the next one
  (`timeSeries.go:138`); TS.RANGE excludes both ends (`timeSeries.go:87`);
- GEOADD and GEORADIUS pass longitude where latitude is expected (`handler.go:646-689`);
- VECTOR.SET is written to the file twice (`handler.go:28, 930-950`);
- SADD, GEOADD, GEODIST, STRLEN and the bit fields panic on a key of another type,
  which ends the process when a TCP client does it, and so do PFADD, PFMERGE and
  BITFIELD with too few words.

## 4. Proofs

Every theorem holds for all values of the constants under the named assumptions
of the modules: the nulls are distinct from the values, `Procs` is the disjoint
union of clients and cleaners (or savers, or channels), integer limits are positive,
commands have the types the handler gives them, IDs of streams are compared as
numbers above 0, a byte has at least one bit. `KeysAssumption` says that there are
finitely many keys: a new array then has a name (`FreshIsNew`, by counting).
`DocsAssumption` says that with a document `Json` holds all of its parts, and that a
path consists of names and numbers.
The bounds of the models are constants too, so the theorems hold for each of them.

**KeyspaceProofs.** The inductive invariant is

    IInv == TypeOK /\ LockInv /\ StableReads /\ EvictInv

`MutualExclusion` alone is not inductive: it says nothing of who waits, and the
step in which a writer enters needs to know that the readers it waited for are
the ones in `active`. `LockInv` ties the lock to the program counters (who is in
`active`, in `blocked`, who may be the writer); `StableReads` is then preserved
because every step that changes the store is a step of the writer; `EvictInv`
says that what a cleaner is about to delete was expired under the deadline that
still stands, which needs the lock to keep EX and PERSIST out. From `IInv`:

- `TypeCorrect`, `Exclusion`, `NoStaleRead`: the parts, stated one by one;
- `LiveKeysSurviveThm`: an action property: a key leaves the store by a DEL or
  after its deadline;
- `WedgedIsForeverThm`: once a GET waits for itself, nothing in the store ever
  changes again; the client that wedged is in `active`, so no writer is ready;
- `Refinement`: `Spec => ExpiringStore`. The mapping moves the answer of a GET to
  the step in which it read. Lemmas show for each action which abstract step or
  stutter it is (`WriteMaps`, `ReadMaps`, `EnterReadMaps`, `CallMaps`,
  `EvictMaps`).

**TransactionsProofs.** The invariant is

    TransactionsInv == TypeOK /\ MultiHasOwner /\ IdleInv /\ OrderInv
                       /\ OnceInv /\ PlaceInv /\ SentInv /\ SessionInv

`QueueInOrder` speaks of the queue and of the batch that EXEC works off, for
connections with an ID of their own. It is not inductive, since a command in hand
may be appended next: `OrderInv` adds that the command in hand is newer than the
queue and than what is left of the batch, and that these two follow one another.
`OthersDoNotTouch` shows that other connections leave all three alone,
`OwnStepKeepsOrder` treats the owner's steps. `FlagHasOwner` and `QueuesInOrder`
are the results, and two more:

- `ImplementsLife`: `Spec => CommandLife`, for any sharing of IDs. That a command
  is executed once needs to know that it is nowhere else: `PlaceInv` says that a
  command is in one queue, batch, hand or the log, and once (`OnceInv`), `SentInv`
  that what is there was sent. `NextLife` gives each action the step of
  `CommandLife` that it is, or shows that no status changes.
- `ExecRunsAll`, `DiscardRunsNone`: while the other connections send commands on
  the store only, EXEC has run all that its connection queued and DISCARD nothing.
  `SessionInv` says where the transaction of such a connection is: its queue is what
  the session recorded while it is open, and the log and the rest of the batch
  together hold the session once EXEC has taken it.

**PubSubProofs.** The invariant is

    IInv == TypeOK /\ Places /\ LockInv /\ ChannelInv /\ TargetsInv
            /\ OrderInv /\ SubscriptionOrder

No result is inductive alone. That PUBLISH sends to open channels only needs
`TargetsInv`, that the channels it has still to serve are entries of its topic, which
stays true because UNSUBSCRIBE needs the write lock (`LockInv`) and an entry is
never closed (`ChannelInv`). That a subscription gets its messages in order needs
`OrderInv`: what a publisher will send next is newer than what is in a buffer, in
hand or received, so a message that was dropped is never sent later. `Still` are
the steps that leave channels and messages alone, `Moves` the others; most lemmas
treat the first in one sentence. The process may end at any moment (`Places`).
Results: `OneDeliverer`, `SendsToOpen`, `DeliveredInOrder`, `TypeCorrect`.

**PersistenceProofs.** The invariant is

    IInv == TypeOK /\ LockInv /\ SnapshotMutexInv /\ CommandInv
            /\ EncodeInv /\ InstallInv /\ SnapshotOfOneMoment
            /\ FilesApart /\ RecordedInv /\ RewriteInv

The argument is that of a save: from the step that empties the snapshot to the one
that writes it, the read lock keeps `store` what it was (`EncodeInv`), and
`snapshotMutex` keeps other saves and restores out (`SnapshotMutexInv`); and that of
a restore, whose image is that of the disk until it is installed (`InstallInv`).
A crash anywhere leaves the file torn or whole. Results: `OneMoment`,
`RestoreInstalls`, `TypeCorrect`, and two on the append-only file:

- `FileExplains`: a command is recorded first and executed later, and between the
  two others may be recorded and executed, so that the last line for a key need not
  be what the key holds. `RecordedInv` names, for each key, a client and a line of
  it that made the key what it is; that client has no later line for the key but
  those it still waits to execute. `FilesApart` keeps a rewrite, which
  truncates its temporary file, away from the file that records.
- `RewritesCurrent`, for any number of rewriters: the read lock keeps the store what
  it is as long as anyone rewrites, so whatever is in the temporary file then is the
  line of a key or a hole (`TempIsCurrent`). A rewriter that is alone needs more: that
  the file is the one it created, written up to its own offset, with one line for each
  key it is done with (`AloneIsWhole`). It holds when another rewriter leaves, too,
  because that one has either taken the name of the file away or met a value that no
  rewrite gets past (`DoneIsRewritable`), so the one that stays never gets to write
  the whole file under that name.

**SortedSetProofs.** The invariant is

    IInv == TypeOK /\ InOrder /\ LinksExact /\ Heights /\ Counted

and everything is proved as long as no score is NaN (`NoNaN`); with one, the order is
none, and nothing is claimed. `LinksExact` describes a level without walking it: a
link leads to the next node, in the order of scores and members, that is tall enough.
So what a descent finds can be said without an induction over the list, as soon as it
is known to end: the nodes have ranks, and a function along the links exists because
ranks go up (`WalkExists`). The descent of ZADD follows the order and ends at the
place of the new score. That of ZREM does not, because it searches by member a list
that is ordered by score. But a node that stops it on a
higher level would stop it on the lowest one, too, so if it finds a target there, no
node stood between it and the target on any level that links the target
(`LinkedLevels`): that is why a removal by the wrong order leaves the list whole. Results:
`ListWellFormed`, `ReadsAreExact`, which needs the exact walk of the lowest level
(`ChainExact`) and counts the hops of ZRANK against it, and the action property
`OthersAreKept`.

**ListsProofs.** The invariant is

    IInv == TypeOK /\ LockInv /\ Referred /\ WholeContent /\ AppendInv

Every slice refers to an array in use and fits into it (`Referred`); the window of
the list holds no torn element (`WholeContent`); and an `append` under way writes
behind that window (`AppendInv`), which is why aliasing changes answers, as the run
`lists_alias` shows, but never the list. The proofs say this of a window over any
memory (`Window`, `Fits`, `WInv`), so that one lemma serves the memory before and
after a step. `ImplementsDeque` is the refinement of `Deque`: the commands take
effect when they store the slice, and LRANGE when it takes its window. `RangeCorrect`
is the arithmetic of the positions.

**TypedKeysProofs.** The invariant is

    IInv == TypeOK /\ ArraysInv /\ StreamFollowed /\ AcksMatchDeliveries
            /\ KeepsWhatWasAdded

The proofs see it key by key (`InvMeans`): a value is `PlainInv`, complete and what
its history says, or a slice of an array in use. Each group of commands does a
`PlainStep`: it reads, panics or puts one such value (`TextIsPlain`, `SetIsPlain`,
...). The commands on bytes do a `ByteStep`: they keep the invariant and change the
bits of the keys that they name, and of those joined to one of them, only.

- Streams: `FollowerMissesNone` and the lemmas on deliveries and acknowledgements.
  XREAD's loop (`Later`) and the turns of BITOP are recursive functions. A property
  of all turns is proved from the least natural number that has none (`LeastNat`,
  `AllUpTo`): this is induction over a fixed set, without the library's theorems.
- Series: a permutation that sorts, put behind the one that was there, is one
  (`LongerBijection`, `SortKeeps`). Sketches: `AddKeeps`, and `MergedKeeps` over the
  sketches merged so far.
- Bytes: `Fresh` names no array in use. A slice is installed (`Installed`) in a memory
  that differs from the present one in one array and in new ones (`Changes`); who
  has that array was joined (`Sharers`). So SETBIT and the bit fields change no key
  but those; BITOP keeps this turn by turn (`TurnInv`): its result is the array of
  the first source as long as no source was longer, and a new one after that.

- Documents: the two edits, as far as a part reads itself (`GetAtPath`): an object
  without a name or with another value under one, an array without the element that
  the last part of the path names, and what was appended behind its items.

Results: `Invariance`, `TypeCorrect`, `Followed`, `AcksMatch`, `KeepsAdded` and, as
action properties, `KeysStayApart` and `EditsAreExact`.

**ConnectionsProofs.** The loops over bytes (`cleanBytes`, `ParseCommand`, `Fields`,
`Commands`, `Visible`) are recursive functions; that they have the values they should
is proved by induction over fixed sets (`AllUpTo`, `AllSequences`), and of two
functions that satisfy one equation that they agree (`LoopsAgree`). The invariant is

    IInv == Shapes /\ \A c \in Conns : Flow(c)

- `Flow` says of each connection, by its transport, that what was executed and what
  is on its way make what was typed. For a patient TCP client, at most one line is on
  its way, in the socket and the buffer together, and its newline is the last byte
  (`Waits`): so the chunk with the newline completes the line and no more. For a
  client without quotes and backspaces the bytes of words are conserved (`Keeps`),
  since ParseCommand only drops blanks. Messages are a queue, and a request is one step.
- `Shapes` has the types, that no whole line waits in a buffer, and that the server is
  in a sound state (`Sound`): a queue is the text of what was asked, and holds no text
  of nothing, of an EXEC or of a DISCARD, which the dispatch never queues. It stays
  sound through the recursion of EXEC, whatever the depth (`ExecIs`).
- `Fields` gives back the parts that `Join` was given, if they are not empty and have
  no blanks; EXEC clears the flag before it starts, and none of these texts sets it
  again, so each is executed at once and in order.

Results: `TypesAreKept`, `NothingIsLost` and, as an action property,
`ExecRunsTheQueue`, for any lines, transports and sharing of IDs that
`ConnectionsAssumption` allows: a line of a TCP client has no newline in it.

**Only model-checked:**

- all liveness (`CallsReturn`, `ExpiredKeysCollected`, `CommandsAnswered`,
  `DeliverersEnd`, `GoneIsForgotten`): fairness and ENABLED are outside what TLAPS
  proves here;
- `AnswersExact`, whose answers are defined by folds and SelectSeq, and
  `WritesExact`, which reads a bit field by a fold over its places: the provers
  cannot expand them, and the induction that would replace them is the library's, with an
  operator as a parameter;
- nothing is proved of the sorted set with NaN, where `ByScoreExact` fails, as section 3
  says.

## 5. Not modelled

- The estimate of PFCOUNT, distances and similarities: floating-point functions of
  values that are modelled. The hash of an element is a table.
- JSON.GET and JSON.DEL beside a write: they take no lock (`json.go:43, 66`), and a
  racing map access ends the process or goes unnoticed; in `Documents` they run alone.
  `setAtPath`, `setValue` and `parseIndex` (`json.go:133-190`) have no callers.
- Panics of string and list commands on a value of another type: GET, APPEND and INCRBY
  assert a string (`string.go:39, 71, 100`), RPUSH, LPUSH and LLEN a list
  (`list.go:20, 36, 117`). `Keyspace` and `Lists` have keys of their own type only; what
  a panic does to the process is in `TypedKeys`. EX with a key and no duration panics
  too: it passes the check of two words and asks for the third (`handler.go:95-100`).
- String commands on the text that JSON.DEL and JSON.ARRAPPEND leave under a key of a
  document (`TypedKeysAssumption` keeps the strings of `TypedKeys` apart from the
  documents); document commands do meet it, and find no object.
- Deadlines in the snapshot and the file; the combination of expiry with values that
  are no strings.
- The start of the servers, the prompt, the echo of a backspace, the mock connections
  of the tests; `SerializeResponse`, which has no callers.
- Negative offsets of bit fields, and the exact text of documents.
- Web pages and the line counter have no part in the server.

## 6. Plan

The order was: first the lock and the keyspace, since everything else stands on
it; then what clients share without a lock (transactions); then goroutines and
failures (pub/sub, persistence); then the data structures with pointers (sorted
sets, lists); then all other types over one store, and the way from bytes to
commands. All modules of section 2 are done. Then came the proofs, in the order in which
section 4 has them. What is left: `WritesExact` for SETBIT and for the places of a bit
field, from `Installed`; what `FieldIn` reads stays with TLC.
