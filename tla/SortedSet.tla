------------------------------ MODULE SortedSet ------------------------------
(***************************************************************************)
(* A sorted set of Tealis (zset.go) under one key of the store: a skip     *)
(* list whose nodes are ordered by score and then by member.  Its pointers *)
(* are kept as they are in the code, since what can go wrong is that the   *)
(* levels, the order and the length come apart.  Every operation holds     *)
(* Tealis.Mu from beginning to end, and the two that write hold it for     *)
(* writing, so that each is one step; a panic for a value of another type  *)
(* leaves the store as it is.                                              *)
(***************************************************************************)
EXTENDS Integers, FiniteSets, SequencesExt

CONSTANTS
    Members,    \* the members; numbers stand for strings in their order
    Scores,     \* the scores
    MaxLevel,   \* maxLevel; 16 in the code
    MaxNodes,   \* bound of the model: the nodes of the list
    NaN         \* the score that strconv.ParseFloat makes of "nan"

ASSUME SortedSetAssumption ==
    /\ Members \subseteq Nat
    /\ Scores \subseteq Int \cup {NaN}
    /\ NaN \notin Int
    /\ MaxLevel \in Nat \ {0}
    /\ MaxNodes \in Nat

VARIABLES
    held,       \* what the store holds under the key
    nodes,      \* the skip list nodes by their address
    level,      \* SortedSet.level
    length      \* SortedSet.length

vars == <<held, nodes, level, length>>

Header == 0
Nil == -1
Addresses == 1..MaxNodes
Levels == 1..MaxLevel

NewNode(key, score, height) ==
    [key |-> key, score |-> score, forward |-> [i \in 1..height |-> Nil]]

Unused == NewNode(0, 0, 0)

NewSortedSet == [n \in Addresses \cup {Header} |->
                    IF n = Header THEN NewNode(0, 0, MaxLevel) ELSE Unused]

Free == {n \in Addresses : nodes[n] = Unused}

(* The nodes that are tall enough for a level, the header included.        *)
On(i) == {n \in DOMAIN nodes : i <= Len(nodes[n].forward)}

(* Comparisons of floats: none holds of NaN.                               *)
Less(a, b) == NaN \notin {a, b} /\ a < b
Equal(a, b) == NaN \notin {a, b} /\ a = b
-----------------------------------------------------------------------------
(***************************************************************************)
(* The descent: on every level the last node from where the level above    *)
(* ended whose successor is not one to pass.  Levels above the list's are  *)
(* those of the header.                                                    *)
(***************************************************************************)
Advance(i, from, toPass) ==
    LET last[n \in On(i)] ==
            LET next == nodes[n].forward[i]
            IN IF next \in toPass THEN last[next] ELSE n
    IN last[from]

Descend(toPass) ==
    LET update[i \in Levels] ==
            IF i > level THEN Header
            ELSE Advance(i, IF i = level THEN Header ELSE update[i + 1], toPass)
    IN update

Precedes(n, key, score) == \/ Less(nodes[n].score, score)
                           \/ Equal(nodes[n].score, score) /\ nodes[n].key < key

(* Mutant: whatever node is found is taken for that of the member.         *)
IsOfAny(n, key) == n # Nil

IsOf(n, key) == n # Nil /\ nodes[n].key = key

(* Link a node behind the nodes of update on each of its levels.           *)
Linked(n, key, score, height, update) ==
    [m \in DOMAIN nodes |->
        IF m = n
        THEN [NewNode(key, score, height) EXCEPT
                 !.forward = [i \in 1..height |-> nodes[update[i]].forward[i]]]
        ELSE [nodes[m] EXCEPT
                 !.forward = [i \in DOMAIN @ |->
                     IF i <= height /\ update[i] = m THEN n ELSE @[i]]]]

(* Mutant: a new node does not count.                                      *)
LongerNever(n) == n

Longer(n) == n + 1

Insert(key, score, update) ==
    \E height \in Levels, n \in Free :
        /\ \A m \in Free : n <= m
        /\ nodes' = Linked(n, key, score, height, update)
        /\ level' = IF height > level THEN height ELSE level
        /\ length' = Longer(length)

ZAdd(key, score) ==
    LET update == Descend({n \in Addresses : Precedes(n, key, score)})
        found == nodes[update[1]].forward[1]
    IN /\ held \in {"nothing", "sorted set"}
       /\ held' = "sorted set"
       /\ IF IsOf(found, key)
          THEN nodes' = [nodes EXCEPT ![found].score = score] /\ UNCHANGED <<level, length>>
          ELSE Insert(key, score, update)

(***************************************************************************)
(* ZREM looks for a member as if the nodes were ordered by their members.  *)
(***************************************************************************)
KeyBelow(key) == {n \in Addresses : nodes[n].key < key}

SearchMember(key) == Descend(KeyBelow(key))

(* The levels that are relinked: from below, until one misses the target.  *)
LinkedLevels(target, update) ==
    {i \in 1..level : \A j \in 1..i : nodes[update[j]].forward[j] = target}

(* Mutant: only the bottom level is relinked.                              *)
UnlinkedBelow(target, update) ==
    [nodes EXCEPT ![update[1]].forward[1] = nodes[target].forward[1]]

Unlinked(target, update) ==
    [m \in DOMAIN nodes |->
        [nodes[m] EXCEPT
            !.forward = [i \in DOMAIN @ |->
                IF i \in LinkedLevels(target, update) /\ update[i] = m
                THEN nodes[target].forward[i] ELSE @[i]]]]

(* A node that no other node refers to is garbage.                         *)
Collected(ns) ==
    LET referred == UNION {ToSet(ns[m].forward) : m \in DOMAIN ns}
    IN [n \in DOMAIN ns |-> IF n \in referred \cup {Header} THEN ns[n] ELSE Unused]

LevelOf(ns) ==
    Max({i \in 1..level : i = 1 \/ ns[Header].forward[i] # Nil})

ZRem(key) ==
    LET update == SearchMember(key)
        target == nodes[update[1]].forward[1]
    IN /\ held = "sorted set"
       /\ IsOf(target, key)
       /\ nodes' = Collected(Unlinked(target, update))
       /\ level' = LevelOf(nodes')
       /\ length' = length - 1
       /\ UNCHANGED held

Forget == nodes' = NewSortedSet /\ level' = 1 /\ length' = 0

(* DEL, and the end of the lifetime of the key.                            *)
Del == held # "nothing" /\ held' = "nothing" /\ Forget

(* SET and the commands that store a value of another type.                *)
Overwrite == held' = "other" /\ Forget
-----------------------------------------------------------------------------
Init == /\ held = "nothing"
        /\ nodes = NewSortedSet
        /\ level = 1
        /\ length = 0

Next == \/ \E key \in Members, score \in Scores : ZAdd(key, score)
        \/ \E key \in Members : ZRem(key)
        \/ Del
        \/ Overwrite

Spec == Init /\ [][Next]_vars
-----------------------------------------------------------------------------
(***************************************************************************)
(* The nodes of a level in their order, and the queries, which write       *)
(* nothing.  Positions count from 0.                                       *)
(***************************************************************************)
Chain(i) ==
    LET from[n \in On(i)] ==
            LET next == nodes[n].forward[i]
            IN IF next = Nil THEN <<>> ELSE <<next>> \o from[next]
    IN from[Header]

KeysOf(seq) == [i \in DOMAIN seq |-> nodes[seq[i]].key]

ZRange(start, stop) ==
    IF start < 0 \/ stop < 0 \/ start >= length \/ start > stop THEN <<>>
    ELSE LET all == Chain(1)
         IN KeysOf(SubSeq(all, start + 1, Min({stop + 1, Len(all)})))

(* The nodes in front of the first one that is not to pass.                *)
UpTo(seq, toPass) ==
    LET ends == {i \in DOMAIN seq : seq[i] \notin toPass}
    IN IF ends = {} THEN seq ELSE SubSeq(seq, 1, Min(ends) - 1)

Below(n, min) == Less(nodes[n].score, min)

UpToMax(n, max) == Less(nodes[n].score, max) \/ Equal(nodes[n].score, max)

ZRangeByScore(min, max) ==
    LET all == Chain(1)
        skipped == UpTo(all, {n \in Addresses : Below(n, min)})
        rest == SubSeq(all, Len(skipped) + 1, Len(all))
    IN KeysOf(UpTo(rest, {n \in Addresses : UpToMax(n, max)}))

(* The hops of Advance, and those of the descent on the levels up to i,    *)
(* which skips whom a level skips.                                         *)
HopsOn(i, from, toPass) ==
    LET hops[n \in On(i)] ==
            LET next == nodes[n].forward[i]
            IN IF next \in toPass THEN 1 + hops[next] ELSE 0
    IN hops[from]

Hops(toPass) ==
    LET update == Descend(toPass)
        sum[i \in 0..level] ==
            IF i = 0 THEN 0
            ELSE sum[i - 1]
                   + HopsOn(i, IF i = level THEN Header ELSE update[i + 1], toPass)
    IN sum[level]

ZRank(key) == IF IsOf(nodes[SearchMember(key)[1]].forward[1], key)
              THEN Hops(KeyBelow(key)) ELSE -1
-----------------------------------------------------------------------------
InUse == Addresses \ Free

TypeOK ==
    /\ held \in {"nothing", "sorted set", "other"}
    /\ DOMAIN nodes = Addresses \cup {Header}
    /\ \A n \in DOMAIN nodes :
          nodes[n] = [key |-> nodes[n].key, score |-> nodes[n].score,
                      forward |-> nodes[n].forward]
    /\ \A n \in DOMAIN nodes : nodes[n].forward \in Seq(Addresses \cup {Nil})
    /\ \A n \in InUse : nodes[n].key \in Members /\ nodes[n].score \in Scores
    /\ level \in Levels
    /\ length \in Nat

(***************************************************************************)
(* The order of the nodes, and that no two nodes share a place in it, also *)
(* after the score of a node was changed in place (zset.go:62, 69-72).     *)
(***************************************************************************)
Before(m, n) == n # Header /\ (m = Header \/ Precedes(m, nodes[n].key, nodes[n].score))

InOrder == \A m, n \in InUse : m # n => Before(m, n) \/ Before(n, m)

(***************************************************************************)
(* Every link of a level leads to the next node that is tall enough, also  *)
(* after removals that searched in another order (zset.go:82-86, 148-153). *)
(***************************************************************************)
NextOn(i, m, n) ==
    /\ n = Nil \/ (n \in On(i) /\ Before(m, n))
    /\ \A other \in On(i) : Before(m, other) => n # Nil /\ (other = n \/ Before(n, other))

LinksExact == \A i \in Levels : \A m \in On(i) : NextOn(i, m, nodes[m].forward[i])

(* No node is higher than the list, and one is as high (zset.go:75-80,     *)
(* 155-158).                                                               *)
Heights ==
    /\ Len(nodes[Header].forward) = MaxLevel
    /\ \A n \in InUse : Len(nodes[n].forward) \in 1..level
    /\ level = 1 \/ \E n \in InUse : Len(nodes[n].forward) = level

(* What the list knows of itself, and that none outlives its key.          *)
Counted ==
    /\ length = Cardinality(InUse)
    /\ held # "sorted set" => InUse = {}

(* The inductive invariant, as long as no score is NaN.                    *)
IInv == TypeOK /\ InOrder /\ LinksExact /\ Heights /\ Counted

(***************************************************************************)
(* What a walk along a level meets: each node that is tall enough, once,   *)
(* in the order of the scores and then of the members (zset.go:99-107).    *)
(***************************************************************************)
Walks(i) ==
    /\ ToSet(Chain(i)) = On(i) \ {Header}
    /\ \A a, b \in DOMAIN Chain(i) : a < b => Before(Chain(i)[a], Chain(i)[b])

(***************************************************************************)
(* After any sequence of ZADD and ZREM, members that have several nodes    *)
(* included, the list is one: its order, its links, its height and its     *)
(* length fit each other, and every level is a part of the one below.      *)
(***************************************************************************)
WellFormed == IInv /\ \A i \in Levels : Walks(i)

(* The nodes that the queries see.                                         *)
Used == ToSet(Chain(1))

(***************************************************************************)
(* A range by positions is the slice of the list, whatever its bounds; it  *)
(* relies on the length that ZADD and ZREM keep (zset.go:94, 104).         *)
(***************************************************************************)
RangeIsSlice ==
    \A start, stop \in -1..(Len(Chain(1)) + 1) :
        ZRange(start, stop) =
            IF start >= 0
            THEN KeysOf(SubSeq(Chain(1), start + 1, Min({stop + 1, Len(Chain(1))})))
            ELSE <<>>

(***************************************************************************)
(* "Returns members within a score range": a range by scores returns every *)
(* node in it and no other (zset.go:170-177).                              *)
(***************************************************************************)
ByScoreExact ==
    \A min, max \in Scores \ {NaN} :
        \E first \in 1..(Len(Chain(1)) + 1), last \in 0..Len(Chain(1)) :
            /\ {i \in DOMAIN Chain(1) : /\ ~ Below(Chain(1)[i], min)
                                        /\ UpToMax(Chain(1)[i], max)} = first..last
            /\ ZRangeByScore(min, max) = KeysOf(SubSeq(Chain(1), first, last))

(***************************************************************************)
(* "Update the score if the key exists" (zset.go:68-72): no member has two *)
(* nodes.  ZADD looks only at the place of the new score, so this does not *)
(* always hold.                                                            *)
(***************************************************************************)
MembersOnce == \A n, m \in Used : nodes[n].key = nodes[m].key => n = m

(***************************************************************************)
(* "Gets the rank of a member" (readme.md:66), as far as the code goes:    *)
(* ZRANK counts the hops of a descent that searches by member a list that  *)
(* is ordered by score, so that it may find nothing and, above the first   *)
(* level, counts too few; it never counts too many, and on one level it    *)
(* counts exactly (zset.go:116-126).                                       *)
(***************************************************************************)
RankAtMostPosition ==
    MembersOnce => \A i \in DOMAIN Chain(1) :
        LET rank == ZRank(nodes[Chain(1)[i]].key)
        IN rank <= i - 1 /\ (level = 1 => rank \in {-1, i - 1})

(* What the three reads return, whatever ZADD and ZREM have left.          *)
ReadsExact == RangeIsSlice /\ ByScoreExact /\ RankAtMostPosition

(***************************************************************************)
(* A command is about its member: the nodes of all the others keep their   *)
(* scores, and none of them is lost (zset.go:69, 144).                     *)
(***************************************************************************)
EntriesOf(key) == {nodes[n].score : n \in {m \in Used : nodes[m].key = key}}

OthersKeep ==
    [][\A key \in Members :
          ZRem(key) \/ (\E score \in Scores : ZAdd(key, score)) =>
              \A other \in Members \ {key} : EntriesOf(other)' = EntriesOf(other)]_vars
=============================================================================
