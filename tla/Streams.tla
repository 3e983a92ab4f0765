------------------------------- MODULE Streams -------------------------------
(***************************************************************************)
(* Streams and their consumer groups (stream.go).  An ID is a number here, *)
(* its place in the order of strings, by which the code compares.  XADD    *)
(* takes any ID, a duplicate or one smaller than the last too, and for "*" *)
(* what the clock says.  The lock of a stream is only taken under Mu.      *)
(***************************************************************************)
EXTENDS Values

CONSTANTS
    Ids,            \* IDs of entries, natural numbers above 0
    Groups,         \* names of consumer groups
    Consumers,      \* names of consumers
    MaxEntries,     \* bound of the model: entries of a stream
    MaxDeliveries   \* bound of the model: deliveries of a group

ASSUME IdsAssumption == Ids \subseteq Nat \ {0}

(* auxGot is what a reader has received that always asks for what follows  *)
(* the last ID it knows.                                                   *)
Stream(entries, groups, got) ==
    [type |-> "stream", entries |-> entries, groups |-> groups, auxGot |-> got]

NewStream == Stream(<<>>, <<>>, <<>>)

StreamOf(k) == IF Is(k, "stream") THEN store[k] ELSE NewStream
EntriesOf(k) == StreamOf(k).entries

(* auxAcks counts for each ID the XACKs that reported it as acknowledged.  *)
Group(pending, lists, acks) == [pending |-> pending, lists |-> lists, auxAcks |-> acks]

NewGroup == Group({}, <<>>, [id \in Ids |-> 0])

HasGroup(k, g) == Is(k, "stream") /\ g \in DOMAIN store[k].groups

Deliveries(group) ==
    FoldFunction(LAMBDA s, n : Len(s) + n, 0, group.lists)

XADD(k, id) ==
    /\ Len(EntriesOf(k)) < MaxEntries
    /\ Put(k, [StreamOf(k) EXCEPT !.entries = Append(@, id)])
    /\ Answer("XADD", k, id, Value(id))

(* Mutant: the entry with the given ID is sent again.                      *)
AfterInclusive(entries, start, count) ==
    LET later == SelectSeq(entries, LAMBDA id : id >= start)
    IN  IF count > 0 /\ count < Len(later) THEN SubSeq(later, 1, count) ELSE later

(* The entries whose IDs are greater, by the loop that collects them.      *)
Later(entries, start) ==
    LET later[n \in 0 .. Len(entries)] ==
            IF n = 0 THEN <<>>
            ELSE IF entries[n] > start THEN Append(later[n - 1], entries[n])
            ELSE later[n - 1]
    IN  later[Len(entries)]

(* The first count of them, all if count is 0.                             *)
After(entries, start, count) ==
    LET later == Later(entries, start)
    IN  IF count > 0 /\ count < Len(later) THEN SubSeq(later, 1, count) ELSE later

XREAD(k, start, count) ==
    Read("XREAD", k, <<start, count>>, Value(After(EntriesOf(k), start, count)))

(* An XREAD of the reader that follows the stream.                         *)
Follow(k, count) ==
    LET start == IF StreamOf(k).auxGot = <<>> THEN 0 ELSE Last(StreamOf(k).auxGot)
        entries == After(EntriesOf(k), start, count)
    IN  /\ Is(k, "stream")
        /\ Len(store[k].auxGot \o entries) <= MaxEntries
        /\ Put(k, [store[k] EXCEPT !.auxGot = @ \o entries])
        /\ Answer("XREAD", k, <<start, count>>, Value(entries))

XRANGE(k, first, last) ==
    Read("XRANGE", k, <<first, last>>,
         Value(SelectSeq(EntriesOf(k), LAMBDA id : first <= id /\ id <= last)))

XLEN(k) == Read("XLEN", k, <<>>, Number(Len(EntriesOf(k))))

XGROUPCREATE(k, g) ==
    IF Is(k, "stream") /\ ~ HasGroup(k, g)
    THEN /\ Put(k, [store[k] EXCEPT !.groups = With(@, g, NewGroup)])
         /\ Answer("XGROUP", k, g, Ok)
    ELSE Read("XGROUP", k, g, Error)

(* The group does not remember what it has delivered: the start is the     *)
(* command's, and the same entries are delivered again and again.  The     *)
(* consumer is made even if there is nothing for it.                       *)
Deliver(group, c, entries) ==
    LET list == IF c \in DOMAIN group.lists THEN group.lists[c] ELSE <<>>
    IN  [group EXCEPT !.pending = @ \cup ToSet(entries),
                      !.lists = With(@, c, list \o entries)]

XREADGROUP(k, g, c, start, count) ==
    LET entries == After(EntriesOf(k), start, count)
        reply(es) == Answer("XREADGROUP", k, <<g, c, start, count>>, Value(es))
    IN  \/ /\ HasGroup(k, g)
           /\ Deliveries(store[k].groups[g]) + Len(entries) <= MaxDeliveries
           /\ Put(k, [store[k] EXCEPT !.groups[g] = Deliver(@, c, entries)])
           /\ reply(entries)
        \/ ~ HasGroup(k, g) /\ reply(<<>>) /\ Become(store)

(* Mutant: what was acknowledged stays pending.                            *)
AcknowledgeKeeps(group, ids) ==
    [group EXCEPT !.auxAcks = [id \in Ids |-> @[id] + (IF id \in ToSet(ids) \cap group.pending
                                                       THEN 1 ELSE 0)]]

(* The second of two equal IDs finds nothing; the lists stay as they are.  *)
Acknowledge(group, ids) ==
    [group EXCEPT !.pending = @ \ ToSet(ids),
                  !.auxAcks = [id \in Ids |-> @[id] + (IF id \in ToSet(ids) \cap group.pending
                                                       THEN 1 ELSE 0)]]

XACK(k, g, ids) ==
    IF HasGroup(k, g)
    THEN /\ Put(k, [store[k] EXCEPT !.groups[g] = Acknowledge(@, ids)])
         /\ Answer("XACK", k, <<g, ids>>,
                   Number(Cardinality(ToSet(ids) \cap store[k].groups[g].pending)))
    ELSE Read("XACK", k, <<g, ids>>, Number(0))

StreamCommands ==
    \E k \in KeysOf("stream") :
        \/ \E id \in Ids : XADD(k, id)
        \/ Read("XADD", k, 0, Error)            \* a field without a value
        \/ \E start \in Ids \cup {0}, count \in {0, 1} :
               \/ XREAD(k, start, count)
               \/ \E g \in Groups, c \in Consumers : XREADGROUP(k, g, c, start, count)
        \/ \E count \in {0, 1} : Follow(k, count)
        \/ \E first, last \in Ids : XRANGE(k, first, last)
        \/ XLEN(k)
        \/ \E g \in Groups : XGROUPCREATE(k, g)
        \/ \E g \in Groups, i, j \in Ids : i <= j /\ XACK(k, g, <<i, j>>)
-----------------------------------------------------------------------------
GroupOK(group) ==
    /\ group = Group(group.pending, group.lists, group.auxAcks)
    /\ group.pending \subseteq Ids /\ group.auxAcks \in [Ids -> Nat]
    /\ IsMap(group.lists, Consumers, Seq(Ids))

StreamOK(v) ==
    /\ v = Stream(v.entries, v.groups, v.auxGot)
    /\ v.entries \in Seq(Ids) /\ v.auxGot \in Seq(Ids)
    /\ DOMAIN v.groups \subseteq Groups /\ v.groups = [g \in DOMAIN v.groups |-> v.groups[g]]
    /\ \A g \in DOMAIN v.groups : GroupOK(v.groups[g])

Increasing(s) == \A i, j \in DOMAIN s : i < j => s[i] < s[j]

(***************************************************************************)
(* As long as IDs were added in their order, a reader that follows the     *)
(* stream by the last ID it knows, however many entries it asks for at a   *)
(* time, misses none, receives none twice and keeps their order            *)
(* (stream.go:70-82).  With IDs out of order it may miss some: XADD checks *)
(* nothing (stream.go:44-52).                                              *)
(***************************************************************************)
StreamFollowed ==
    \A k \in Keys : Is(k, "stream") /\ Increasing(store[k].entries) =>
                        IsPrefix(store[k].auxGot, store[k].entries)

(* Where an ID is in the lists of the consumers.                           *)
Occurrences(id, group) ==
    UNION {{<<c, i>> : i \in {j \in DOMAIN group.lists[c] : group.lists[c][j] = id}} :
              c \in DOMAIN group.lists}

Times(id, group) == Cardinality(Occurrences(id, group))

(***************************************************************************)
(* XACK reports an entry as acknowledged at most once for each delivery of *)
(* it, whatever is delivered again and acknowledged twice; what is pending *)
(* has a delivery that was not acknowledged, and what was delivered and is *)
(* no longer pending was acknowledged after all (stream.go:171-182,        *)
(* 204-211).  The lists of the consumers are never shortened, so they tell *)
(* the deliveries.                                                         *)
(***************************************************************************)
AcksMatchDeliveries ==
    \A k \in Keys : Is(k, "stream") =>
        \A g \in DOMAIN store[k].groups, id \in Ids :
            LET group == store[k].groups[g]
                acks == group.auxAcks[id]
            IN  /\ acks <= Times(id, group)
                /\ id \in group.pending => acks < Times(id, group)
                /\ Times(id, group) > 0 /\ id \notin group.pending => acks > 0
=============================================================================
