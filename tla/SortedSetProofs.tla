-------------------------- MODULE SortedSetProofs --------------------------
(***************************************************************************)
(* Theorems about SortedSet, for all members, all scores but NaN, every    *)
(* height and every number of nodes: the skip list is well formed after    *)
(* any sequence of commands, its queries are exact, and a command changes  *)
(* the nodes of no member but its own.  The invariant speaks of order and  *)
(* links, so that no proof needs an induction over what a walk has met.    *)
(***************************************************************************)
EXTENDS SortedSet, FiniteSetTheorems, SequenceTheorems, WellFoundedInduction, TLAPS

(***************************************************************************)
(* ZADD takes "nan" for a score, and then no order is left to speak of.    *)
(***************************************************************************)
NoNaN == NaN \notin Scores

(* The nodes of the list with its header.                                  *)
All == InUse \cup {Header}

(***************************************************************************)
(* A set of natural numbers has a least one.                               *)
(***************************************************************************)
LEMMA LeastNat ==
    ASSUME NEW S \in SUBSET Nat, S # {}
    PROVE  \E n \in S : \A m \in S : n <= m
<1> DEFINE R == OpToRel(<, Nat)
<1>1. IsWellFoundedOn(R, Nat)
  BY NatLessThanWellFounded
<1>2. PICK x \in S : \A y \in S : ~ (<<y, x>> \in R)
  <2> HIDE DEF R
  <2> QED  BY <1>1, WFMin
<1>3. \A y \in S : ~ (y < x)
  BY <1>2 DEF OpToRel
<1> QED  BY <1>3

(***************************************************************************)
(* What holds of 0, and with each number below n of the next, holds of all *)
(* numbers up to n.                                                        *)
(***************************************************************************)
LEMMA AllUpTo ==
    ASSUME NEW n \in Nat, NEW P, 0 \in P, \A m \in 0 .. n - 1 : m \in P => m + 1 \in P
    PROVE  \A m \in 0 .. n : m \in P
<1> SUFFICES ASSUME NEW a \in 0 .. n, a \notin P PROVE FALSE
  OBVIOUS
<1> DEFINE S == {m \in 0 .. n : m \notin P}
<1>1. S \in SUBSET Nat /\ S # {}
  OBVIOUS
<1>2. PICK m \in S : \A k \in S : m <= k
  <2> HIDE DEF S
  <2> QED  BY <1>1, LeastNat
<1>3. m # 0 /\ m - 1 \in 0 .. n - 1 /\ m - 1 \notin S
  BY <1>2
<1> QED  BY <1>2, <1>3

(***************************************************************************)
(* The addresses, the header and Nil are three different things.           *)
(***************************************************************************)
LEMMA Places ==
    /\ InUse \subseteq Addresses /\ Header \notin Addresses /\ Nil \notin Addresses
    /\ Header # Nil /\ Addresses \subseteq Int
BY SortedSetAssumption DEF InUse, Addresses, Header, Nil

(***************************************************************************)
(* What the invariant says of nodes and levels, one by one.                *)
(***************************************************************************)
LEMMA Facts ==
    ASSUME NoNaN, TypeOK, Heights
    PROVE  /\ DOMAIN nodes = Addresses \cup {Header}
           /\ \A n \in InUse : nodes[n].key \in Nat /\ nodes[n].score \in Int
           /\ \A n \in DOMAIN nodes : Len(nodes[n].forward) \in Nat
           /\ \A n \in DOMAIN nodes \ All : nodes[n].forward = <<>>
           /\ \A i \in Levels : /\ On(i) \subseteq All /\ Header \in On(i)
                                /\ \A n \in On(i) : /\ i \in 1..Len(nodes[n].forward)
                                                    /\ i \in DOMAIN nodes[n].forward
           /\ \A n \in All : Len(nodes[n].forward) \in Levels
           /\ \A i, j \in Levels : i <= j => On(j) \subseteq On(i)
           /\ 1 \in Levels /\ level \in Levels /\ MaxLevel \in Levels
<1>1. DOMAIN nodes = Addresses \cup {Header} /\ level \in Levels
  BY DEF TypeOK
<1>2. \A n \in InUse : nodes[n].key \in Nat /\ nodes[n].score \in Int
  BY SortedSetAssumption DEF TypeOK, NoNaN
<1>3. \A n \in DOMAIN nodes : Len(nodes[n].forward) \in Nat
                              /\ DOMAIN nodes[n].forward = 1..Len(nodes[n].forward)
  <2> SUFFICES ASSUME NEW n \in DOMAIN nodes, NEW q, q = nodes[n].forward
               PROVE  Len(q) \in Nat /\ DOMAIN q = 1..Len(q)
    OBVIOUS
  <2>1. q \in Seq(Addresses \cup {Nil})
    BY DEF TypeOK
  <2> QED  BY <2>1
<1>4. \A n \in DOMAIN nodes \ All : nodes[n].forward = <<>>
  <2>1. [i \in 1..0 |-> Nil] = <<>>
    OBVIOUS
  <2>2. Unused.forward = <<>>
    BY <2>1 DEF Unused, NewNode
  <2> QED  BY <1>1, <2>2 DEF All, InUse, Free
<1>5. 1 \in Levels /\ MaxLevel \in Levels /\ Levels \subseteq Nat
  BY SortedSetAssumption DEF Levels
<1>6. \A n \in All : Len(nodes[n].forward) \in Levels
  BY <1>1, <1>5 DEF All, Heights, Levels
<1>7. ASSUME NEW i \in Levels
      PROVE  /\ On(i) \subseteq All /\ Header \in On(i)
             /\ \A n \in On(i) : /\ i \in 1..Len(nodes[n].forward)
                                 /\ i \in DOMAIN nodes[n].forward
  <2>1. i \in 1..MaxLevel /\ MaxLevel \in Nat
    BY SortedSetAssumption DEF Levels
  <2>2. ASSUME NEW n \in On(i)
        PROVE  n \in All /\ i \in 1..Len(nodes[n].forward) /\ i \in DOMAIN nodes[n].forward
    <3>1. n \in DOMAIN nodes /\ i <= Len(nodes[n].forward) /\ Len(nodes[n].forward) \in Nat
      BY <1>3, <2>2 DEF On
    <3>2. n \in All
      <4>1. Len(<<>>) = 0
        OBVIOUS
      <4> QED  BY <1>4, <2>1, <3>1, <4>1
    <3> QED  BY <1>3, <2>1, <3>1, <3>2
  <2>3. Header \in On(i)
    BY <1>1, <2>1 DEF On, Heights
  <2> QED  BY <2>2, <2>3
<1>8. \A i, j \in Levels : i <= j => On(j) \subseteq On(i)
  BY <1>3, <1>5 DEF On
<1> QED  BY <1>1, <1>2, <1>3, <1>4, <1>5, <1>6, <1>7, <1>8

(***************************************************************************)
(* Before is a total order of the nodes of the list.                       *)
(***************************************************************************)
LEMMA Order ==
    ASSUME NoNaN, TypeOK, InOrder, Heights
    PROVE  /\ \A m, n \in All : Before(m, n) => m # n /\ ~ Before(n, m)
           /\ \A m, n \in All : m = n \/ Before(m, n) \/ Before(n, m)
           /\ \A k, m, n \in All : Before(k, m) /\ Before(m, n) => Before(k, n)
           /\ \A n \in All : ~ Before(n, Header)
           /\ \A n \in InUse : Before(Header, n)
<1>1. /\ \A n \in InUse : nodes[n].key \in Nat /\ nodes[n].score \in Int /\ n # Header
      /\ NaN \notin Int
  BY Facts, Places, SortedSetAssumption
<1> QED  BY <1>1 DEF All, InOrder, Before, Precedes, Less, Equal

(***************************************************************************)
(* The list has finitely many nodes.                                       *)
(***************************************************************************)
LEMMA Finite == IsFiniteSet(InUse) /\ IsFiniteSet(All)
<1>1. IsFiniteSet(1..MaxNodes)
  BY FS_Interval, SortedSetAssumption
<1>2. IsFiniteSet(InUse)
  BY <1>1, FS_Subset DEF InUse, Addresses
<1> QED  BY <1>2, FS_AddElement DEF All

(***************************************************************************)
(* The place of a node in the order, as a number.                          *)
(***************************************************************************)
LEMMA Ranks ==
    ASSUME NoNaN, TypeOK, InOrder, Heights
    PROVE  \E r, max : /\ r \in [All -> Nat] /\ max \in Nat /\ \A n \in All : r[n] <= max
                       /\ \A m, n \in All : Before(m, n) => r[m] < r[n]
<1> DEFINE InFront(n) == {m \in All : Before(m, n)}
           r == [n \in All |-> Cardinality(InFront(n))]
<1>1. IsFiniteSet(All)
  BY Finite
<1>2. \A n \in All : /\ IsFiniteSet(InFront(n)) /\ Cardinality(InFront(n)) \in Nat
                     /\ Cardinality(InFront(n)) <= Cardinality(All)
  <2>1. \A n \in All : InFront(n) \subseteq All
    OBVIOUS
  <2> HIDE DEF InFront
  <2> QED  BY <1>1, <2>1, FS_Subset, FS_CardinalityType
<1>3. ASSUME NEW m \in All, NEW n \in All, Before(m, n) PROVE r[m] < r[n]
  <2>1. InFront(m) \subseteq InFront(n) /\ m \in InFront(n) /\ m \notin InFront(m)
    BY <1>3, Order
  <2>2. InFront(m) # InFront(n)
    BY <2>1
  <2>3. Cardinality(InFront(m)) < Cardinality(InFront(n))
    <3> HIDE DEF InFront
    <3> QED  BY <1>2, <2>1, <2>2, FS_Subset
  <2> QED  BY <2>3
<1>4. Cardinality(All) \in Nat
  BY <1>1, FS_CardinalityType
<1>5. r \in [All -> Nat] /\ \A n \in All : r[n] <= Cardinality(All)
  <2> HIDE DEF InFront
  <2> QED  BY <1>2
<1> HIDE DEF r
<1> QED  BY <1>3, <1>4, <1>5

(***************************************************************************)
(* Of some nodes one is the first, and one the last.                       *)
(***************************************************************************)
LEMMA FirstNode ==
    ASSUME NoNaN, TypeOK, InOrder, Heights, NEW S \in SUBSET All, S # {}
    PROVE  \E n \in S : \A m \in S : m = n \/ Before(n, m)
<1>1. PICK r, max : /\ r \in [All -> Nat]
                    /\ \A m, n \in All : Before(m, n) => r[m] < r[n]
  BY Ranks
<1> DEFINE R == {r[n] : n \in S}
<1>2. PICK k \in R : \A j \in R : k <= j
  <2>1. R \in SUBSET Nat /\ R # {}
    BY <1>1
  <2> HIDE DEF R
  <2> QED  BY <2>1, LeastNat
<1>3. PICK n \in S : k = r[n]
  OBVIOUS
<1>4. ASSUME NEW m \in S PROVE m = n \/ Before(n, m)
  <2>1. r[n] <= r[m] /\ r[n] \in Nat /\ r[m] \in Nat
    BY <1>1, <1>2, <1>3
  <2>2. ~ Before(m, n)
    BY <1>1, <2>1
  <2> QED  BY <2>2, Order
<1> QED  BY <1>4

(***************************************************************************)
(* The last one, likewise.                                                 *)
(***************************************************************************)
LEMMA LastNode ==
    ASSUME NoNaN, TypeOK, InOrder, Heights, NEW S \in SUBSET All, S # {}
    PROVE  \E n \in S : \A m \in S : m = n \/ Before(m, n)
<1>1. PICK r, max : /\ r \in [All -> Nat] /\ max \in Nat /\ \A n \in All : r[n] <= max
                    /\ \A m, n \in All : Before(m, n) => r[m] < r[n]
  BY Ranks
<1> DEFINE R == {max - r[n] : n \in S}
<1>2. PICK k \in R : \A j \in R : k <= j
  <2>1. R \in SUBSET Nat /\ R # {}
    BY <1>1
  <2> HIDE DEF R
  <2> QED  BY <2>1, LeastNat
<1>3. PICK n \in S : k = max - r[n]
  OBVIOUS
<1>4. ASSUME NEW m \in S PROVE m = n \/ Before(m, n)
  <2>1. max - r[n] <= max - r[m] /\ r[n] \in Nat /\ r[m] \in Nat
    BY <1>1, <1>2, <1>3
  <2>2. ~ Before(n, m)
    BY <1>1, <2>1
  <2> QED  BY <2>2, Order
<1> QED  BY <1>4
-----------------------------------------------------------------------------
(***************************************************************************)
(* Each node of a level but the header is the next one of one node.        *)
(***************************************************************************)
LEMMA Previous ==
    ASSUME NoNaN, TypeOK, InOrder, LinksExact, Heights,
           NEW i \in Levels, NEW n \in On(i), n # Header
    PROVE  \E m \in On(i) : nodes[m].forward[i] = n /\ Before(m, n)
<1>1. On(i) \subseteq All /\ Header \in On(i) /\ n \in InUse
  BY Facts DEF All
<1> DEFINE S == {m \in On(i) : Before(m, n)}
<1>2. S \in SUBSET All /\ Header \in S
  BY <1>1, Order
<1>3. PICK m \in S : \A k \in S : k = m \/ Before(k, m)
  <2> HIDE DEF S
  <2> QED  BY <1>2, LastNode
<1>4. PICK next : next = nodes[m].forward[i]
  OBVIOUS
<1>5. NextOn(i, m, next)
  BY <1>4 DEF LinksExact
<1>6. next \in On(i) /\ Before(m, next) /\ (n = next \/ Before(next, n))
  BY <1>5 DEF NextOn
<1>7. ~ Before(next, n)
  BY <1>1, <1>3, <1>6, Order
<1> QED  BY <1>4, <1>6, <1>7

(***************************************************************************)
(* And of no other.                                                        *)
(***************************************************************************)
LEMMA OnePrevious ==
    ASSUME NoNaN, TypeOK, InOrder, LinksExact, Heights,
           NEW i \in Levels, NEW m \in On(i), NEW k \in On(i), NEW n \in On(i),
           nodes[m].forward[i] = n, nodes[k].forward[i] = n
    PROVE  m = k
<1>1. On(i) \subseteq All /\ Nil \notin On(i)
  BY Facts, Places DEF All
<1>2. NextOn(i, m, n) /\ NextOn(i, k, n)
  BY DEF LinksExact
<1>3. /\ Before(m, n) /\ Before(k, n)
      /\ Before(m, k) => k = n \/ Before(n, k)
      /\ Before(k, m) => m = n \/ Before(n, m)
  BY <1>1, <1>2 DEF NextOn
<1> QED  BY <1>1, <1>3, Order

(***************************************************************************)
(* A walk along a level, as long as the next node is one to pass: what is  *)
(* computed on the way back has a value at every node.                     *)
(***************************************************************************)
Walk(i, toPass, f, base, step) ==
    f = [n \in On(i) |-> IF nodes[n].forward[i] \in toPass
                         THEN step[<<n, f[nodes[n].forward[i]]>>]
                         ELSE base[n]]

(***************************************************************************)
(* There is such a function on every level: a node further on has a higher *)
(* rank, so what is computed never waits for itself.                       *)
(***************************************************************************)
LEMMA WalkExists ==
    ASSUME NoNaN, TypeOK, InOrder, LinksExact, Heights,
           NEW i \in Levels, NEW toPass, Nil \notin toPass,
           NEW V, NEW base \in [On(i) -> V], NEW step \in [On(i) \X V -> V]
    PROVE  \E f \in [On(i) -> V] : Walk(i, toPass, f, base, step)
<1>1. On(i) \subseteq All
  BY Facts
<1>2. PICK r, max : /\ r \in [All -> Nat] /\ max \in Nat /\ \A n \in All : r[n] <= max
                    /\ \A m, n \in All : Before(m, n) => r[m] < r[n]
  BY Ranks
<1>3. PICK D : D = On(i)
  OBVIOUS
<1>4. PICK nx : nx = [n \in D |-> nodes[n].forward[i]]
  OBVIOUS
<1>5. \A n \in D : nx[n] \in toPass => nx[n] \in D /\ r[n] < r[nx[n]]
  <2> SUFFICES ASSUME NEW n \in D, nx[n] \in toPass PROVE nx[n] \in D /\ r[n] < r[nx[n]]
    OBVIOUS
  <2>1. NextOn(i, n, nx[n]) /\ nx[n] # Nil
    BY <1>3, <1>4 DEF LinksExact
  <2> QED  BY <1>1, <1>2, <1>3, <2>1 DEF NextOn
<1>6. \A n \in D : r[n] \in Nat /\ r[n] <= max
  BY <1>1, <1>2, <1>3
<1> DEFINE Late(k) == {n \in D : max - r[n] <= k}
           Run(k, f) == /\ f \in [Late(k) -> V]
                        /\ \A n \in Late(k) : f[n] = IF nx[n] \in toPass
                                                     THEN step[<<n, f[nx[n]]>>] ELSE base[n]
           P == {k \in Nat : \E f : Run(k, f)}
<1>7. base \in [D -> V] /\ step \in [D \X V -> V]
  BY <1>3
<1>8. 0 \in P
  <2> DEFINE f == [n \in Late(0) |-> base[n]]
  <2>1. \A n \in Late(0) : nx[n] \notin toPass
    BY <1>5, <1>6, <1>2
  <2>2. Run(0, f)
    BY <1>7, <2>1
  <2> QED  BY <2>2
<1>9. ASSUME NEW k \in 0 .. max - 1, k \in P PROVE k + 1 \in P
  <2>1. PICK f : Run(k, f)
    BY <1>9
  <2> DEFINE g == [n \in Late(k + 1) |-> IF nx[n] \in toPass THEN step[<<n, f[nx[n]]>>]
                                         ELSE base[n]]
  <2>2. /\ Late(k) \subseteq Late(k + 1)
        /\ \A n \in Late(k + 1) : nx[n] \in toPass => nx[n] \in Late(k)
    BY <1>2, <1>5, <1>6
  <2>3. \A n \in Late(k) : g[n] = f[n]
    BY <2>1, <2>2
  <2>4. g \in [Late(k + 1) -> V]
    <3> SUFFICES ASSUME NEW n \in Late(k + 1) PROVE g[n] \in V
      OBVIOUS
    <3>1. nx[n] \in toPass => f[nx[n]] \in V
      BY <2>1, <2>2
    <3> QED  BY <1>7, <3>1
  <2>5. ASSUME NEW n \in Late(k + 1)
        PROVE  g[n] = IF nx[n] \in toPass THEN step[<<n, g[nx[n]]>>] ELSE base[n]
    BY <2>2, <2>3, <2>5
  <2>6. Run(k + 1, g)
    <3> HIDE DEF g
    <3> QED  BY <2>4, <2>5
  <2>7. k + 1 \in Nat
    BY <1>2
  <2> HIDE DEF g, Run
  <2> QED  BY <2>6, <2>7
<1>10. max \in P
  <2>1. \A k \in 0 .. max : k \in P
    <3> HIDE DEF P
    <3> QED  BY <1>2, <1>8, <1>9, AllUpTo
  <2> HIDE DEF P
  <2> QED  BY <1>2, <2>1
<1>11. PICK f : Run(max, f)
  BY <1>10
<1>12. Late(max) = D
  BY <1>2, <1>6
<1>13. /\ f \in [D -> V]
       /\ \A n \in D : f[n] = IF nodes[n].forward[i] \in toPass
                              THEN step[<<n, f[nodes[n].forward[i]]>>] ELSE base[n]
  <2>1. f \in [D -> V] /\ \A n \in D : f[n] = IF nx[n] \in toPass
                                              THEN step[<<n, f[nx[n]]>>] ELSE base[n]
    <3> HIDE DEF Late
    <3> QED  BY <1>11, <1>12
  <2> QED  BY <2>1, <1>4
<1>14. Walk(i, toPass, f, base, step)
  BY <1>3, <1>13 DEF Walk
<1> QED  BY <1>3, <1>13, <1>14
-----------------------------------------------------------------------------
(***************************************************************************)
(* Where a walk from n along a level ends: at a node that it reaches only  *)
(* over nodes to pass, in front of one that is not.                        *)
(***************************************************************************)
EndsAt(i, n, e, toPass) ==
    /\ e \in On(i) /\ (e = n \/ Before(n, e))
    /\ nodes[e].forward[i] \notin toPass
    /\ \A k \in On(i) : Before(n, k) /\ (k = e \/ Before(k, e)) => k \in toPass

(***************************************************************************)
(* Advance ends there.                                                     *)
(***************************************************************************)
LEMMA AdvanceEnds ==
    ASSUME NoNaN, TypeOK, InOrder, LinksExact, Heights,
           NEW i \in Levels, NEW toPass, Nil \notin toPass, NEW from \in On(i)
    PROVE  EndsAt(i, from, Advance(i, from, toPass), toPass)
<1> DEFINE Equation(f) == f = [n \in On(i) |-> IF nodes[n].forward[i] \in toPass
                                               THEN f[nodes[n].forward[i]] ELSE n]
           last == CHOOSE f : Equation(f)
<1>1. Advance(i, from, toPass) = last[from]
  BY DEF Advance
<1>2. Equation(last)
  <2> DEFINE base == [n \in On(i) |-> n]
             step == [p \in On(i) \X On(i) |-> p[2]]
  <2>1. PICK f \in [On(i) -> On(i)] : Walk(i, toPass, f, base, step)
    <3>1. base \in [On(i) -> On(i)] /\ step \in [On(i) \X On(i) -> On(i)]
      OBVIOUS
    <3> HIDE DEF base, step
    <3> QED  BY <3>1, WalkExists
  <2>2. \A n \in On(i) : nodes[n].forward[i] \in toPass => nodes[n].forward[i] \in On(i)
    BY DEF LinksExact, NextOn
  <2>3. Equation(f)
    BY <2>1, <2>2 DEF Walk
  <2> HIDE DEF Equation
  <2> QED  BY <2>3
<1> HIDE DEF last
<1>3. \A n \in On(i) : last[n] = IF nodes[n].forward[i] \in toPass
                                 THEN last[nodes[n].forward[i]] ELSE n
  BY <1>2
<1>4. On(i) \subseteq All
  BY Facts
<1>5. \A n \in On(i) : EndsAt(i, n, last[n], toPass)
  <2> DEFINE S == {n \in On(i) : ~ EndsAt(i, n, last[n], toPass)}
  <2> SUFFICES ASSUME S # {} PROVE FALSE
    OBVIOUS
  <2>1. PICK n \in S : \A m \in S : m = n \/ Before(m, n)
    <3>1. S \in SUBSET All
      BY <1>4
    <3> HIDE DEF S
    <3> QED  BY <3>1, LastNode
  <2>2. PICK next : next = nodes[n].forward[i]
    OBVIOUS
  <2>3. n \in On(i) /\ n \in All /\ NextOn(i, n, next)
    BY <1>4, <2>2 DEF LinksExact
  <2>4. CASE next \notin toPass
    <3>1. last[n] = n
      BY <1>3, <2>2, <2>3, <2>4
    <3>2. \A k \in On(i) : ~ (Before(n, k) /\ (k = n \/ Before(k, n)))
      BY <1>4, <2>3, Order
    <3>3. EndsAt(i, n, n, toPass)
      BY <2>2, <2>3, <2>4, <3>2 DEF EndsAt
    <3> QED  BY <3>1, <3>3
  <2>5. CASE next \in toPass
    <3>1. /\ next \in On(i) /\ Before(n, next) /\ next \in All
          /\ \A k \in On(i) : Before(n, k) => k = next \/ Before(next, k)
      BY <1>4, <2>3, <2>5 DEF NextOn
    <3>2. ~ Before(next, n) /\ next # n
      BY <2>3, <3>1, Order
    <3>3. EndsAt(i, next, last[next], toPass)
      BY <2>1, <3>1, <3>2
    <3>4. last[n] = last[next]
      BY <1>3, <2>2, <2>3, <2>5
    <3>5. last[next] = n \/ Before(n, last[next])
      BY <1>4, <2>3, <3>1, <3>3, Order DEF EndsAt
    <3>6. EndsAt(i, n, last[next], toPass)
      BY <2>5, <3>1, <3>3, <3>5 DEF EndsAt
    <3> QED  BY <3>4, <3>6
  <2> QED  BY <2>4, <2>5
<1> QED  BY <1>1, <1>5

(***************************************************************************)
(* A descent: the node at which the walk of every level ends, the header   *)
(* above the levels of the list.                                           *)
(***************************************************************************)
StartOf(update, i) == IF i >= level THEN Header ELSE update[i + 1]

Path(update, toPass) ==
    \A i \in Levels : /\ EndsAt(i, StartOf(update, i), update[i], toPass)
                      /\ StartOf(update, i) \in On(i) /\ update[i] \in All

(***************************************************************************)
(* Descend is one, whatever it is to pass.                                 *)
(***************************************************************************)
LEMMA DescendPath ==
    ASSUME NoNaN, TypeOK, InOrder, LinksExact, Heights,
           NEW toPass, Nil \notin toPass
    PROVE  Path(Descend(toPass), toPass)
<1> DEFINE Value(f, i) == IF i > level THEN Header
                          ELSE Advance(i, IF i = level THEN Header ELSE f[i + 1], toPass)
           Equation(f) == f = [i \in Levels |-> Value(f, i)]
           update == CHOOSE f : Equation(f)
<1>1. Descend(toPass) = update
  BY DEF Descend
<1>0. MaxLevel \in Nat \ {0} /\ Levels = 1 .. MaxLevel /\ level \in Levels
  BY SortedSetAssumption DEF Levels, TypeOK
<1>2. Equation(update)
  <2> DEFINE Run(k, f) == f = [i \in MaxLevel + 1 - k .. MaxLevel |-> Value(f, i)]
             P == {k \in Nat : \E f : Run(k, f)}
  <2>1. 0 \in P
    <3>1. MaxLevel + 1 - 0 .. MaxLevel = {}
      BY <1>0
    <3>2. Run(0, <<>>)
      BY <3>1
    <3> QED  BY <3>2
  <2>2. ASSUME NEW k \in 0 .. MaxLevel - 1, k \in P PROVE k + 1 \in P
    <3>1. PICK f : Run(k, f)
      BY <2>2
    <3>2. PICK new : new = Value(f, MaxLevel - k)
      OBVIOUS
    <3> DEFINE g == [i \in MaxLevel - k .. MaxLevel |-> IF i = MaxLevel - k THEN new ELSE f[i]]
    <3>3. \A i \in MaxLevel + 1 - k .. MaxLevel : g[i] = f[i] /\ f[i] = Value(f, i)
      BY <1>0, <3>1
    <3>4. ASSUME NEW i \in MaxLevel - k .. MaxLevel PROVE g[i] = Value(g, i)
      <4>1. i = level \/ i > level \/ g[i + 1] = f[i + 1]
        BY <1>0, <3>3, <3>4
      <4>2. Value(g, i) = Value(f, i)
        <5> HIDE DEF g
        <5> QED  BY <4>1
      <4>3. CASE i = MaxLevel - k
        BY <3>2, <4>2, <4>3
      <4>4. CASE i # MaxLevel - k
        <5>1. i \in MaxLevel + 1 - k .. MaxLevel
          BY <1>0, <4>4
        <5> HIDE DEF g, Value
        <5> QED  BY <3>3, <4>2, <5>1
      <4> QED  BY <4>3, <4>4
    <3>5. MaxLevel + 1 - (k + 1) = MaxLevel - k /\ k + 1 \in Nat
      BY <1>0
    <3>6. g = [i \in MaxLevel - k .. MaxLevel |-> g[i]]
      OBVIOUS
    <3>7. Run(k + 1, g)
      <4> HIDE DEF g, Value
      <4> QED  BY <3>4, <3>5, <3>6
    <3> HIDE DEF g, Run
    <3> QED  BY <3>5, <3>7
  <2>3. MaxLevel \in P
    <3>1. \A k \in 0 .. MaxLevel : k \in P
      <4> HIDE DEF P
      <4> QED  BY <1>0, <2>1, <2>2, AllUpTo
    <3> HIDE DEF P
    <3> QED  BY <1>0, <3>1
  <2>4. PICK f : Run(MaxLevel, f)
    BY <2>3
  <2>5. MaxLevel + 1 - MaxLevel .. MaxLevel = Levels
    BY <1>0
  <2>6. Equation(f)
    <3> HIDE DEF Value
    <3> QED  BY <2>4, <2>5
  <2> HIDE DEF Equation
  <2> QED  BY <2>6
<1> HIDE DEF update
<1>3. \A i \in Levels : update[i] = Value(update, i)
  <2> HIDE DEF Value
  <2> QED  BY <1>2
<1>4. \A i \in Levels : StartOf(update, i) \in On(i) =>
          EndsAt(i, StartOf(update, i), update[i], toPass)
  <2> SUFFICES ASSUME NEW i \in Levels, StartOf(update, i) \in On(i)
               PROVE  EndsAt(i, StartOf(update, i), update[i], toPass)
    OBVIOUS
  <2>1. CASE i > level
    <3>1. update[i] = Header /\ StartOf(update, i) = Header
      BY <1>0, <1>3, <2>1 DEF StartOf
    <3>2. On(i) = {Header}
      <4>1. \A n \in InUse : Len(nodes[n].forward) \in 1 .. level
        BY DEF Heights
      <4>2. \A n \in On(i) : i \in 1..Len(nodes[n].forward)
        BY Facts
      <4>3. \A n \in On(i) : n \notin InUse
        BY <1>0, <2>1, <4>1, <4>2
      <4> QED  BY <4>3, Facts DEF All
    <3>3. PICK next : next = nodes[Header].forward[i]
      OBVIOUS
    <3>4. NextOn(i, Header, next)
      BY <3>2, <3>3 DEF LinksExact
    <3>5. ~ Before(Header, Header)
      BY Order DEF All
    <3>6. next = Nil
      BY <3>2, <3>4, <3>5 DEF NextOn
    <3> QED  BY <3>1, <3>2, <3>3, <3>5, <3>6 DEF EndsAt
  <2>2. CASE i <= level
    <3>1. update[i] = Advance(i, StartOf(update, i), toPass)
      BY <1>0, <1>3, <2>2 DEF StartOf
    <3> QED  BY <3>1, AdvanceEnds
  <2> QED  BY <1>0, <2>1, <2>2
<1> DEFINE Good(i) == StartOf(update, i) \in On(i)
           P == {k \in Nat : k < MaxLevel => Good(MaxLevel - k)}
<1>5. 0 \in P
  BY <1>0, Facts DEF StartOf
<1>6. ASSUME NEW k \in 0 .. MaxLevel - 1, k \in P PROVE k + 1 \in P
  <2> SUFFICES ASSUME k + 1 < MaxLevel PROVE Good(MaxLevel - (k + 1))
    BY <1>0
  <2>1. PICK i \in Levels : i = MaxLevel - (k + 1) /\ i + 1 = MaxLevel - k /\ i + 1 \in Levels
    BY <1>0
  <2>2. Good(i + 1)
    BY <1>0, <1>6, <2>1
  <2>3. update[i + 1] \in On(i + 1)
    BY <1>4, <2>1, <2>2 DEF EndsAt
  <2>4. On(i + 1) \subseteq On(i) /\ Header \in On(i)
    BY <1>0, <2>1, Facts
  <2> QED  BY <2>1, <2>3, <2>4 DEF StartOf
<1>7. \A k \in 0 .. MaxLevel : k \in P
  <2> HIDE DEF P
  <2> QED  BY <1>0, <1>5, <1>6, AllUpTo
<1>8. ASSUME NEW i \in Levels PROVE Good(i)
  <2>1. PICK k \in 0 .. MaxLevel : k = MaxLevel - i /\ k < MaxLevel /\ MaxLevel - k = i
    BY <1>0
  <2> QED  BY <1>7, <2>1
<1>9. \A i \in Levels : On(i) \subseteq All
  BY Facts
<1> QED  BY <1>1, <1>4, <1>8, <1>9 DEF Path, EndsAt

(***************************************************************************)
(* A descent never goes back.                                              *)
(***************************************************************************)
LEMMA PathDescends ==
    ASSUME NoNaN, TypeOK, InOrder, LinksExact, Heights,
           NEW toPass, NEW update, Path(update, toPass),
           NEW j \in Levels, NEW i \in 1 .. j
    PROVE  update[i] = update[j] \/ Before(update[j], update[i])
<1>0. Levels = 1 .. MaxLevel /\ MaxLevel \in Nat /\ level \in Levels
  BY SortedSetAssumption DEF Levels, TypeOK
<1> DEFINE Good(k) == update[k] = update[j] \/ Before(update[j], update[k])
           P == {k \in Nat : k < j => Good(j - k)}
<1>1. 0 \in P
  BY <1>0
<1>2. ASSUME NEW k \in 0 .. j - 1, k \in P PROVE k + 1 \in P
  <2> SUFFICES ASSUME k + 1 < j PROVE Good(j - (k + 1))
    BY <1>0
  <2>1. PICK l \in Levels : l = j - (k + 1) /\ l + 1 = j - k /\ l + 1 \in Levels
    BY <1>0
  <2>2. Good(l + 1)
    BY <1>0, <1>2, <2>1
  <2>3. /\ update[l] = StartOf(update, l) \/ Before(StartOf(update, l), update[l])
        /\ update[l] \in All /\ update[l + 1] \in All /\ update[j] \in All
    BY <2>1 DEF Path, EndsAt
  <2>4. CASE l >= level
    <3>1. /\ EndsAt(j, StartOf(update, j), update[j], toPass)
          /\ StartOf(update, j) = Header
      BY <1>0, <2>1, <2>4 DEF Path, StartOf
    <3>2. update[j] = Header
      <4>1. \A n \in InUse : Len(nodes[n].forward) \in 1 .. level
        BY DEF Heights
      <4>2. update[j] \in On(j) /\ update[j] \in All /\ j \in 1..Len(nodes[update[j]].forward)
        BY <2>3, <3>1, Facts DEF EndsAt
      <4>3. j > level
        BY <1>0, <2>1, <2>4
      <4> QED  BY <1>0, <4>1, <4>2, <4>3 DEF All
    <3> QED  BY <2>1, <2>3, <3>2, Order DEF All
  <2>5. CASE l < level
    <3>1. StartOf(update, l) = update[l + 1]
      BY <1>0, <2>1, <2>5 DEF StartOf
    <3> QED  BY <2>1, <2>2, <2>3, <3>1, Order
  <2> QED  BY <1>0, <2>1, <2>4, <2>5
<1>3. \A k \in 0 .. j : k \in P
  <2> HIDE DEF P
  <2> QED  BY <1>0, <1>1, <1>2, AllUpTo
<1>4. PICK k \in 0 .. j : k < j /\ j - k = i
  <2>1. j - i \in 0 .. j /\ j - i < j /\ j - (j - i) = i
    BY <1>0
  <2> QED  BY <2>1
<1> QED  BY <1>3, <1>4

(***************************************************************************)
(* On all its levels a descent ends in front of the node that it finds on  *)
(* the lowest one, also if it is ordered by members and the list by        *)
(* scores: a node between them would have been passed further below.       *)
(***************************************************************************)
LEMMA PathToTarget ==
    ASSUME NoNaN, TypeOK, InOrder, LinksExact, Heights,
           NEW toPass, NEW update, Path(update, toPass),
           NEW target \in InUse, nodes[update[1]].forward[1] = target,
           NEW i \in Levels, target \in On(i)
    PROVE  nodes[update[i]].forward[i] = target
<1>0. Levels = 1 .. MaxLevel /\ MaxLevel \in Nat /\ level \in Levels /\ 1 \in Levels
  BY SortedSetAssumption, Facts DEF Levels, TypeOK
<1>1. i <= level
  <2>1. i \in 1..Len(nodes[target].forward) /\ Len(nodes[target].forward) \in 1..level
    BY Facts DEF Heights
  <2> QED  BY <1>0, <2>1
<1>2. \A k \in Levels : On(k) \subseteq All /\ update[k] \in On(k)
  BY Facts DEF Path, EndsAt
<1>3. /\ target \in On(1) /\ Before(update[1], target)
      /\ \A k \in On(1) : Before(update[1], k) => k = target \/ Before(target, k)
  <2>1. NextOn(1, update[1], target) /\ target # Nil
    BY <1>0, <1>2, Places DEF LinksExact
  <2> QED  BY <2>1 DEF NextOn
<1>4. Before(update[i], target)
  <2>1. update[1] = update[i] \/ Before(update[i], update[1])
    BY <1>0, PathDescends
  <2> QED  BY <1>0, <1>2, <1>3, <2>1, Order
<1>5. PICK next : next = nodes[update[i]].forward[i]
  OBVIOUS
<1>6. NextOn(i, update[i], next)
  BY <1>2, <1>5 DEF LinksExact
<1>7. /\ next \in On(i) /\ Before(update[i], next) /\ next \notin toPass
      /\ target = next \/ Before(next, target)
  BY <1>4, <1>5, <1>6 DEF NextOn, Path, EndsAt
<1>8. SUFFICES ASSUME Before(next, target) PROVE FALSE
  BY <1>5, <1>7
<1> DEFINE P == {k \in Nat : k < i => Before(update[i - k], next)}
<1>9. 0 \in P
  BY <1>0, <1>7
<1>10. ASSUME NEW k \in 0 .. i - 1, k \in P PROVE k + 1 \in P
  <2> SUFFICES ASSUME k + 1 < i PROVE Before(update[i - (k + 1)], next)
    BY <1>0
  <2>1. PICK l \in Levels : /\ l = i - (k + 1) /\ l + 1 = i - k /\ l + 1 \in Levels
                            /\ l < level /\ l <= i
    BY <1>0, <1>1
  <2>2. Before(update[l + 1], next)
    BY <1>0, <1>10, <2>1
  <2>3. next \in On(l) /\ next \in All /\ update[l] \in All
    BY <1>2, <1>7, <2>1, Facts
  <2>4. ~ (next = update[l] \/ Before(next, update[l]))
    <3>1. EndsAt(l, update[l + 1], update[l], toPass)
      BY <1>0, <2>1 DEF Path, StartOf
    <3> QED  BY <1>7, <2>2, <2>3, <3>1 DEF EndsAt
  <2> QED  BY <2>1, <2>3, <2>4, Order
<1>11. \A k \in 0 .. i : k \in P
  <2> HIDE DEF P
  <2> QED  BY <1>0, <1>9, <1>10, AllUpTo
<1>12. Before(update[1], next)
  <2>1. i - 1 \in 0 .. i /\ i - 1 < i /\ i - (i - 1) = 1
    BY <1>0
  <2> QED  BY <1>11, <2>1
<1>13. next \in On(1) /\ next \in All
  BY <1>0, <1>2, <1>7, Facts
<1>14. target \in All
  BY DEF All
<1> QED  BY <1>3, <1>8, <1>12, <1>13, <1>14, Order
-----------------------------------------------------------------------------
(***************************************************************************)
(* The list without a node: what referred to it refers to its next ones.   *)
(***************************************************************************)
Without(t, n) ==
    [key |-> nodes[n].key, score |-> nodes[n].score,
     forward |-> [i \in DOMAIN nodes[n].forward |->
                     IF nodes[n].forward[i] = t THEN nodes[t].forward[i]
                     ELSE nodes[n].forward[i]]]

Removal(t) ==
    /\ DOMAIN nodes' = DOMAIN nodes
    /\ \A n \in All \ {t} : nodes'[n] = Without(t, n)
    /\ \A n \in DOMAIN nodes \ (All \ {t}) : nodes'[n] = Unused
    /\ level' = LevelOf(nodes')
    /\ length' = length - 1
    /\ held = "sorted set" /\ held' = held

(***************************************************************************)
(* The levels that ZREM relinks are those of the node, no more and no      *)
(* less.                                                                   *)
(***************************************************************************)
LEMMA RelinksAll ==
    ASSUME NoNaN, TypeOK, InOrder, LinksExact, Heights,
           NEW toPass, NEW update, Path(update, toPass),
           NEW target \in InUse, nodes[update[1]].forward[1] = target
    PROVE  LinkedLevels(target, update) = 1 .. Len(nodes[target].forward)
<1> PICK h : h = Len(nodes[target].forward)
  OBVIOUS
<1>0. Levels = 1 .. MaxLevel /\ MaxLevel \in Nat /\ level \in Levels
  BY SortedSetAssumption DEF Levels, TypeOK
<1>1. h \in 1 .. level /\ \A i \in 1 .. h : target \in On(i)
  <2>1. h \in 1 .. level /\ target \in DOMAIN nodes
    BY Places, Facts DEF Heights
  <2> QED  BY <1>0, <2>1 DEF On
<1>2. ASSUME NEW i \in 1 .. h PROVE i \in LinkedLevels(target, update)
  <2>1. \A j \in 1 .. i : nodes[update[j]].forward[j] = target
    BY <1>0, <1>1, PathToTarget
  <2> QED  BY <1>0, <1>1, <2>1 DEF LinkedLevels
<1>3. ASSUME NEW i \in LinkedLevels(target, update) PROVE i \in 1 .. h
  <2>1. i \in Levels /\ i \in 1 .. level /\ nodes[update[i]].forward[i] = target
    BY <1>0 DEF LinkedLevels
  <2>2. update[i] \in On(i)
    BY <2>1 DEF Path, EndsAt
  <2>3. target \in On(i)
    BY <2>1, <2>2, Places DEF LinksExact, NextOn
  <2> QED  BY <2>1, <2>3, Facts
<1> QED  BY <1>2, <1>3

(***************************************************************************)
(* What ZREM does: it takes one node of the member out of all its levels,  *)
(* and only that one is garbage.                                           *)
(***************************************************************************)
LEMMA ZRemRemoves ==
    ASSUME NoNaN, TypeOK, InOrder, LinksExact, Heights, NEW key, ZRem(key)
    PROVE  \E t \in InUse : nodes[t].key = key /\ Removal(t)
<1>1. PICK update : update = SearchMember(key)
  OBVIOUS
<1>2. PICK t : t = nodes[update[1]].forward[1]
  OBVIOUS
<1>3. /\ held = "sorted set" /\ t # Nil /\ nodes[t].key = key
      /\ nodes' = Collected(Unlinked(t, update))
      /\ level' = LevelOf(nodes') /\ length' = length - 1 /\ held' = held
  BY <1>1, <1>2 DEF ZRem, IsOf
<1>4. Path(update, KeyBelow(key))
  <2>1. Nil \notin KeyBelow(key)
    BY Places DEF KeyBelow
  <2> QED  BY <1>1, <2>1, DescendPath DEF SearchMember
<1>5. t \in InUse
  <2>1. 1 \in Levels /\ update[1] \in On(1)
    BY <1>4, Facts DEF Path, EndsAt
  <2>2. t \in On(1) /\ Before(update[1], t)
    BY <1>2, <1>3, <2>1 DEF LinksExact, NextOn
  <2> QED  BY <2>1, <2>2, Facts DEF Before, All
<1>6. LinkedLevels(t, update) = 1 .. Len(nodes[t].forward)
  BY <1>2, <1>4, <1>5, RelinksAll
<1> PICK unl : unl = Unlinked(t, update)
  OBVIOUS
<1>7. /\ DOMAIN unl = DOMAIN nodes
      /\ \A m \in DOMAIN nodes : \A i \in DOMAIN nodes[m].forward :
            (i \in LinkedLevels(t, update) /\ update[i] = m) <=> nodes[m].forward[i] = t
  <2>1. DOMAIN unl = DOMAIN nodes
    BY DEF Unlinked
  <2>2. ASSUME NEW m \in DOMAIN nodes, NEW i \in DOMAIN nodes[m].forward
        PROVE  (i \in LinkedLevels(t, update) /\ update[i] = m) <=> nodes[m].forward[i] = t
    <3>1. m \in All
      <4>1. DOMAIN <<>> = {}
        OBVIOUS
      <4> QED  BY <2>2, <4>1, Facts
    <3>2. i \in Levels /\ m \in On(i)
      <4>1. i \in 1 .. Len(nodes[m].forward) /\ Len(nodes[m].forward) \in Levels
        <5> PICK q : q = nodes[m].forward
          OBVIOUS
        <5>1. q \in Seq(Addresses \cup {Nil})
          BY DEF TypeOK
        <5> QED  BY <2>2, <3>1, <5>1, Facts
      <4> QED  BY <4>1, SortedSetAssumption DEF Levels, On
    <3>3. CASE nodes[m].forward[i] = t
      <4>1. t \in On(i)
        BY <1>3, <3>2, <3>3 DEF LinksExact, NextOn
      <4>2. i \in 1 .. Len(nodes[t].forward)
        BY <3>2, <4>1, Facts
      <4>3. nodes[update[i]].forward[i] = t
        BY <1>2, <1>4, <1>5, <3>2, <4>1, PathToTarget
      <4>4. update[i] \in On(i)
        BY <1>4, <3>2 DEF Path, EndsAt
      <4>5. update[i] = m
        BY <3>2, <3>3, <4>1, <4>3, <4>4, OnePrevious
      <4> QED  BY <1>6, <3>3, <4>2, <4>5
    <3>4. CASE i \in LinkedLevels(t, update) /\ update[i] = m
      <4>1. i \in 1 .. Len(nodes[t].forward) /\ t \in DOMAIN nodes
        BY <1>5, <1>6, <3>4, Places, Facts
      <4>2. t \in On(i)
        BY <3>2, <4>1, Facts DEF On, Levels
      <4> QED  BY <1>2, <1>4, <1>5, <3>2, <3>4, <4>2, PathToTarget
    <3> QED  BY <3>3, <3>4
  <2> QED  BY <2>1, <2>2
<1>8. \A m \in DOMAIN nodes : unl[m] = Without(t, m)
  <2> SUFFICES ASSUME NEW m \in DOMAIN nodes PROVE unl[m] = Without(t, m)
    OBVIOUS
  <2>1. unl[m] = [nodes[m] EXCEPT !.forward = [i \in DOMAIN nodes[m].forward |->
                     IF i \in LinkedLevels(t, update) /\ update[i] = m
                     THEN nodes[t].forward[i] ELSE nodes[m].forward[i]]]
    BY DEF Unlinked
  <2>2. [i \in DOMAIN nodes[m].forward |->
            IF i \in LinkedLevels(t, update) /\ update[i] = m
            THEN nodes[t].forward[i] ELSE nodes[m].forward[i]]
        = [i \in DOMAIN nodes[m].forward |->
              IF nodes[m].forward[i] = t THEN nodes[t].forward[i] ELSE nodes[m].forward[i]]
    BY <1>7
  <2>3. nodes[m] = [key |-> nodes[m].key, score |-> nodes[m].score,
                    forward |-> nodes[m].forward]
    BY DEF TypeOK
  <2> QED  BY <2>1, <2>2, <2>3 DEF Without
<1> DEFINE referred == UNION {ToSet(unl[m].forward) : m \in DOMAIN unl}
<1>9. \A n : n \in referred <=> \E m \in DOMAIN nodes : \E i \in DOMAIN nodes[m].forward :
          n = IF nodes[m].forward[i] = t THEN nodes[t].forward[i] ELSE nodes[m].forward[i]
  <2>1. \A m \in DOMAIN nodes : ToSet(unl[m].forward) =
            {IF nodes[m].forward[i] = t THEN nodes[t].forward[i]
                ELSE nodes[m].forward[i] : i \in DOMAIN nodes[m].forward}
    <3> SUFFICES ASSUME NEW m \in DOMAIN nodes
                 PROVE  ToSet(unl[m].forward) =
                            {IF nodes[m].forward[i] = t THEN nodes[t].forward[i]
                                ELSE nodes[m].forward[i] : i \in DOMAIN nodes[m].forward}
      OBVIOUS
    <3> PICK q : q = unl[m].forward
      OBVIOUS
    <3>1. q = [i \in DOMAIN nodes[m].forward |->
                  IF nodes[m].forward[i] = t THEN nodes[t].forward[i]
                  ELSE nodes[m].forward[i]]
      <4>1. q = Without(t, m).forward
        BY <1>8
      <4> QED  BY <4>1 DEF Without
    <3>2. ToSet(q) = {q[i] : i \in DOMAIN q}
      BY DEF ToSet
    <3> QED  BY <3>1, <3>2
  <2> QED  BY <1>7, <2>1
<1>10. \A n \in InUse \ {t} : n \in referred
  <2> SUFFICES ASSUME NEW n \in InUse \ {t} PROVE n \in referred
    OBVIOUS
  <2>1. 1 \in Levels /\ n \in On(1) /\ t \in On(1) /\ n # Header /\ t # Header
    <3>1. 1 \in Levels /\ \A k \in InUse : k \in DOMAIN nodes /\ Len(nodes[k].forward) \in Levels
      BY Places, Facts DEF All
    <3> QED  BY <1>5, <3>1, Places DEF On, Levels
  <2>2. PICK p \in On(1) : nodes[p].forward[1] = n
    BY <2>1, Previous
  <2>3. PICK s \in On(1) : nodes[s].forward[1] = t
    BY <2>1, Previous
  <2>4. /\ p \in DOMAIN nodes /\ 1 \in DOMAIN nodes[p].forward
        /\ s \in DOMAIN nodes /\ 1 \in DOMAIN nodes[s].forward
    BY <2>1, <2>2, <2>3, Facts DEF On
  <2>5. CASE p = t
    BY <1>9, <2>2, <2>3, <2>4, <2>5
  <2>6. CASE p # t
    BY <1>9, <2>2, <2>4
  <2> QED  BY <2>5, <2>6
<1>11. t \notin referred
  <2> SUFFICES ASSUME NEW m \in DOMAIN nodes, NEW i \in DOMAIN nodes[m].forward,
                      nodes[m].forward[i] = t, nodes[t].forward[i] = t
               PROVE  FALSE
    BY <1>9
  <2>1. i \in LinkedLevels(t, update)
    BY <1>7
  <2>2. i \in Levels /\ t \in On(i) /\ t \in All
    <3>1. i \in 1 .. Len(nodes[t].forward) /\ t \in DOMAIN nodes /\ t \in All
          /\ Len(nodes[t].forward) \in Levels
      BY <1>5, <1>6, <2>1, Places, Facts DEF All
    <3> QED  BY <3>1, SortedSetAssumption DEF On, Levels
  <2>3. Before(t, t)
    BY <1>3, <2>2 DEF LinksExact, NextOn
  <2> QED  BY <2>2, <2>3, Order
<1>12. /\ DOMAIN nodes' = DOMAIN nodes
       /\ \A n \in DOMAIN nodes :
             nodes'[n] = IF n \in referred \cup {Header} THEN unl[n] ELSE Unused
  <2>1. nodes' = Collected(unl)
    BY <1>3
  <2>2. nodes' = [n \in DOMAIN unl |->
                     IF n \in referred \cup {Header} THEN unl[n] ELSE Unused]
    BY <2>1, Zenon DEF Collected
  <2> HIDE DEF referred
  <2> QED  BY <1>7, <2>2
<1>13. \A n \in All \ {t} : nodes'[n] = Without(t, n)
  <2> HIDE DEF referred
  <2> QED  BY <1>8, <1>10, <1>12, Facts, Places DEF All
<1>14. \A n \in DOMAIN nodes \ (All \ {t}) : nodes'[n] = Unused
  <2> SUFFICES ASSUME NEW n \in DOMAIN nodes, n \notin All \ {t} PROVE nodes'[n] = Unused
    OBVIOUS
  <2>1. CASE n = t
    <3>1. t # Header
      BY <1>5, Places
    <3> HIDE DEF referred
    <3> QED  BY <1>11, <1>12, <2>1, <3>1
  <2>2. CASE n # t
    <3>1. nodes[n] = Unused /\ n # Header
      BY <2>2, Facts DEF All, InUse, Free
    <3>2. nodes[n].forward = <<>>
      BY <2>2, Facts
    <3>3. Without(t, n) = Unused
      <4>1. DOMAIN nodes[n].forward = {} /\ DOMAIN [i \in 1..0 |-> Nil] = {}
        BY <3>2
      <4>2. [i \in DOMAIN nodes[n].forward |->
                IF nodes[n].forward[i] = t THEN nodes[t].forward[i] ELSE nodes[n].forward[i]]
            = [i \in 1..0 |-> Nil]
        BY <4>1
      <4>3. nodes[n].key = 0 /\ nodes[n].score = 0
        BY <3>1 DEF Unused, NewNode
      <4> QED  BY <4>2, <4>3 DEF Without, Unused, NewNode
    <3> HIDE DEF referred
    <3> QED  BY <1>8, <1>12, <3>3
  <2> QED  BY <2>1, <2>2
<1> QED  BY <1>3, <1>5, <1>12, <1>13, <1>14 DEF Removal

(***************************************************************************)
(* The last of some numbers up to n.                                       *)
(***************************************************************************)
LEMMA MaxUpTo ==
    ASSUME NEW n \in Nat, NEW S \in SUBSET (1 .. n), S # {}
    PROVE  Max(S) \in S /\ \A i \in S : i <= Max(S)
<1> DEFINE R == {n - i : i \in S}
<1>1. PICK k \in R : \A j \in R : k <= j
  <2>1. \A i \in S : n - i \in Nat
    OBVIOUS
  <2>2. R \in SUBSET Nat /\ R # {}
    BY <2>1
  <2> HIDE DEF R
  <2> QED  BY <2>2, LeastNat
<1>2. PICK m \in S : k = n - m
  OBVIOUS
<1>3. \A i \in S : m >= i
  <2> SUFFICES ASSUME NEW i \in S PROVE m >= i
    OBVIOUS
  <2>1. n - m <= n - i /\ m \in Nat /\ i \in Nat
    BY <1>1, <1>2
  <2> QED  BY <2>1
<1>4. Max(S) \in S /\ \A i \in S : Max(S) >= i
  BY <1>3 DEF Max
<1> QED  BY <1>4

(***************************************************************************)
(* A removal keeps the invariant.                                          *)
(***************************************************************************)
LEMMA RemovalKeeps ==
    ASSUME NoNaN, IInv, NEW t \in InUse, Removal(t)
    PROVE  IInv' /\ InUse' = InUse \ {t}
           /\ \A n \in InUse \ {t} : nodes'[n].key = nodes[n].key
                                     /\ nodes'[n].score = nodes[n].score
<1> USE DEF IInv
<1>1. /\ t \in All /\ t \in DOMAIN nodes /\ t # Header /\ Nil \notin All
      /\ All \subseteq DOMAIN nodes /\ Header \in All
  BY Places, Facts DEF All
<1>2. \A n \in All : nodes[n].forward \in Seq(Addresses \cup {Nil})
  BY <1>1 DEF TypeOK
<1>3. ASSUME NEW n \in All \ {t}
      PROVE  /\ nodes'[n].forward \in Seq(Addresses \cup {Nil})
             /\ Len(nodes'[n].forward) = Len(nodes[n].forward)
             /\ \A i \in 1 .. Len(nodes[n].forward) :
                   nodes'[n].forward[i] = IF nodes[n].forward[i] = t
                                          THEN nodes[t].forward[i]
                                          ELSE nodes[n].forward[i]
             /\ nodes'[n].key = nodes[n].key /\ nodes'[n].score = nodes[n].score
             /\ nodes'[n] = [key |-> nodes'[n].key, score |-> nodes'[n].score,
                             forward |-> nodes'[n].forward]
  <2>1. PICK q, p \in Seq(Addresses \cup {Nil}) : q = nodes[n].forward /\ p = nodes[t].forward
    BY <1>1, <1>2
  <2>2. \A i \in 1 .. Len(q) : q[i] = t => i \in 1 .. Len(p)
    <3> SUFFICES ASSUME NEW i \in 1 .. Len(q), q[i] = t PROVE i \in 1 .. Len(p)
      OBVIOUS
    <3>1. i \in Levels /\ n \in On(i)
      <4>1. Len(q) \in 1 .. MaxLevel
        BY <2>1, Facts DEF Levels
      <4> QED  BY <1>1, <2>1, <4>1, SortedSetAssumption DEF On, Levels
    <3>2. t \in On(i)
      BY <1>1, <2>1, <3>1 DEF LinksExact, NextOn
    <3> QED  BY <2>1, <3>1, <3>2, Facts
  <2> DEFINE r == [i \in DOMAIN q |-> IF q[i] = t THEN p[i] ELSE q[i]]
  <2>3. /\ r \in Seq(Addresses \cup {Nil}) /\ Len(r) = Len(q)
        /\ \A i \in 1 .. Len(q) : r[i] = IF q[i] = t THEN p[i] ELSE q[i]
    BY <2>2
  <2>4. nodes'[n] = [key |-> nodes[n].key, score |-> nodes[n].score, forward |-> r]
    BY <2>1 DEF Removal, Without
  <2> HIDE DEF r
  <2> QED  BY <2>1, <2>3, <2>4
<1>4. \A n \in DOMAIN nodes \ (All \ {t}) : nodes'[n] = Unused
  BY DEF Removal
<1>5. Unused = [key |-> 0, score |-> 0, forward |-> <<>>]
  <2>1. [i \in 1..0 |-> Nil] = <<>>
    OBVIOUS
  <2> QED  BY <2>1 DEF Unused, NewNode
<1>6. DOMAIN nodes' = Addresses \cup {Header}
  BY Facts DEF Removal
<1>7. InUse' = InUse \ {t} /\ All' = All \ {t}
  <2>1. ASSUME NEW n \in InUse \ {t} PROVE nodes'[n] # Unused
    <3>1. Len(nodes'[n].forward) \in Levels /\ n \in All \ {t}
      BY <1>3, Facts DEF All
    <3>2. Len(<<>>) \notin Levels
      BY SortedSetAssumption DEF Levels
    <3> QED  BY <1>5, <3>1, <3>2
  <2>2. \A n \in Addresses \ (InUse \ {t}) : nodes'[n] = Unused
    BY <1>1, <1>4, Facts, Places DEF All
  <2>3. InUse' = InUse \ {t}
    BY <2>1, <2>2, Places DEF InUse, Free
  <2> QED  BY <1>1, <2>3 DEF All
<1>8. \A i \in Levels : On(i)' = On(i) \ {t}
  <2> SUFFICES ASSUME NEW i \in Levels, NEW n \in Addresses \cup {Header}
               PROVE  n \in On(i)' <=> n \in On(i) \ {t}
    BY <1>6, Facts DEF On
  <2>1. CASE n \in All \ {t}
    BY <1>1, <1>3, <1>6, <2>1 DEF On
  <2>2. CASE n \notin All \ {t}
    <3>1. nodes'[n].forward = <<>> /\ Len(<<>>) = 0
      BY <1>4, <1>5, <2>2, Facts
    <3>2. ~ i <= 0
      BY SortedSetAssumption DEF Levels
    <3>3. n \notin On(i)'
      BY <3>1, <3>2 DEF On
    <3> QED  BY <2>2, <3>3, Facts
  <2> QED  BY <2>1, <2>2
<1>9. \A m, n \in All \ {t} : Before(m, n)' <=> Before(m, n)
  BY <1>3 DEF Before, Precedes
<1>10. InOrder'
  <2>1. InUse \subseteq All
    BY DEF All
  <2> QED  BY <1>7, <1>9, <2>1 DEF InOrder
<1>11. LinksExact'
  <2> SUFFICES ASSUME NEW i \in Levels, NEW m \in On(i) \ {t}
               PROVE  NextOn(i, m, nodes[m].forward[i])'
    BY <1>8 DEF LinksExact, Levels
  <2>0. On(i) \subseteq All /\ m \in All \ {t} /\ i \in 1 .. Len(nodes[m].forward)
    BY Facts
  <2>1. PICK next, new : /\ next = nodes[m].forward[i] /\ new = nodes'[m].forward[i]
                         /\ new = IF next = t THEN nodes[t].forward[i] ELSE next
    BY <1>3, <2>0
  <2>2. NextOn(i, m, next)
    BY <2>1 DEF LinksExact
  <2>3. (new = Nil \/ (new \in On(i) \ {t} /\ Before(m, new)))
        /\ \A other \in On(i) \ {t} : Before(m, other) =>
              new # Nil /\ (other = new \/ Before(new, other))
    <3>1. CASE next # t
      BY <2>1, <2>2, <3>1 DEF NextOn
    <3>2. CASE next = t
      <4>1. t \in On(i) /\ Before(m, t)
        BY <1>1, <2>2, <3>2 DEF NextOn
      <4>2. NextOn(i, t, new)
        BY <2>1, <3>2, <4>1 DEF LinksExact
      <4>3. new # Nil => new # t /\ Before(m, new)
        BY <2>0, <4>1, <4>2, Order DEF NextOn
      <4>4. \A other \in On(i) \ {t} : Before(m, other) => Before(t, other)
        BY <2>2, <3>2 DEF NextOn
      <4> QED  BY <4>2, <4>3, <4>4 DEF NextOn
    <3> QED  BY <3>1, <3>2
  <2>4. \A other \in On(i) \ {t} : /\ Before(m, other)' <=> Before(m, other)
                                   /\ new # Nil => (Before(new, other)' <=> Before(new, other))
    BY <1>9, <2>0, <2>3
  <2>5. new # Nil => (Before(m, new)' <=> Before(m, new))
    BY <1>9, <2>0, <2>3
  <2>6. On(i)' = On(i) \ {t}
    BY <1>8
  <2>7. /\ new = Nil \/ (new \in On(i)' /\ Before(m, new)')
        /\ \A other \in On(i)' : Before(m, other)' =>
              new # Nil /\ (other = new \/ Before(new, other)')
    BY <2>3, <2>4, <2>5, <2>6
  <2> QED  BY <2>1, <2>7 DEF NextOn
<1> DEFINE S == {i \in 1..level : i = 1 \/ nodes'[Header].forward[i] # Nil}
<1>12. level' \in S /\ \A i \in S : i <= level'
  <2>1. level' = Max(S)
    BY Zenon DEF Removal, LevelOf
  <2>2. S \in SUBSET (1 .. level) /\ 1 \in S /\ level \in Nat
    BY Facts, SortedSetAssumption DEF Levels
  <2> HIDE DEF S
  <2> QED  BY <2>1, <2>2, MaxUpTo
<1>13. Heights' /\ level' \in Levels
  <2>0. level \in Levels /\ Levels = 1..MaxLevel /\ MaxLevel \in Nat
    BY Facts, SortedSetAssumption DEF Levels
  <2>1. Len(nodes'[Header].forward) = MaxLevel
    BY <1>1, <1>3 DEF Heights
  <2>2. ASSUME NEW n \in InUse \ {t} PROVE Len(nodes'[n].forward) \in 1 .. level'
    <3>1. PICK h \in 1 .. level : h = Len(nodes[n].forward) /\ h = Len(nodes'[n].forward)
      BY <1>3, <2>2 DEF Heights, All
    <3>2. h \in Levels /\ n \in On(h)' /\ Header \in On(h)'
      BY <1>1, <1>8, <2>0, <3>1, Facts DEF On, All
    <3>3. NextOn(h, Header, nodes[Header].forward[h])'
      BY <1>11, <2>0, <3>2 DEF LinksExact
    <3>4. Before(Header, n)'
      <4>1. Before(Header, n)
        BY Order
      <4> QED  BY <1>1, <1>9, <2>2, <4>1 DEF All
    <3>5. nodes'[Header].forward[h] # Nil
      BY <3>2, <3>3, <3>4 DEF NextOn
    <3> QED  BY <1>12, <2>0, <3>1, <3>5
  <2>3. CASE level' # 1
    <3>0. PICK l \in Levels : l = level'
      BY <1>12, <2>0
    <3>1. PICK n : n = nodes'[Header].forward[l] /\ n # Nil
      BY <1>12, <2>3, <3>0
    <3>2. Header \in On(l)'
      <4>2. Header \in On(l)
        BY Facts
      <4> QED  BY <1>1, <1>8, <4>2
    <3>3. n \in On(l)' /\ Before(Header, n)'
      <4>1. NextOn(l, Header, n)'
        BY <1>11, <3>1, <3>2 DEF LinksExact, Levels
      <4> QED  BY <3>1, <4>1 DEF NextOn
    <3>4. n \in InUse \ {t}
      <4>1. n \in On(l) \ {t} /\ n # Header
        BY <1>8, <3>3 DEF Before
      <4> QED  BY <4>1, Facts DEF All
    <3>5. level' <= Len(nodes'[n].forward)
      BY <3>0, <3>3 DEF On
    <3>6. Len(nodes'[n].forward) = level'
      BY <2>0, <2>2, <3>0, <3>4, <3>5
    <3> QED  BY <1>7, <1>12, <2>0, <2>1, <2>2, <3>4, <3>6 DEF Heights
  <2>4. CASE level' = 1
    BY <1>7, <1>12, <2>0, <2>1, <2>2, <2>4 DEF Heights
  <2> QED  BY <1>12, <2>0, <2>3, <2>4
<1>14. Counted' /\ length' \in Nat
  <2>1. Cardinality(InUse \ {t}) = Cardinality(InUse) - 1 /\ Cardinality(InUse) \in Nat
    BY Finite, FS_RemoveElement, FS_CardinalityType
  <2>2. Cardinality(InUse \ {t}) \in Nat
    BY Finite, FS_RemoveElement, FS_CardinalityType
  <2>3. length' = Cardinality(InUse') /\ held' = "sorted set"
    BY <1>7, <2>1 DEF Removal, Counted
  <2> QED  BY <1>7, <2>2, <2>3 DEF Counted
<1>15. TypeOK'
  <2>1. held' \in {"nothing", "sorted set", "other"}
    BY DEF Removal
  <2>2. ASSUME NEW n \in DOMAIN nodes'
        PROVE  /\ nodes'[n].forward \in Seq(Addresses \cup {Nil})
               /\ nodes'[n] = [key |-> nodes'[n].key, score |-> nodes'[n].score,
                               forward |-> nodes'[n].forward]
    <3>1. CASE n \in All \ {t}
      BY <1>3, <3>1
    <3>2. CASE n \notin All \ {t}
      <4>1. nodes'[n] = [key |-> 0, score |-> 0, forward |-> <<>>]
        BY <1>4, <1>5, <2>2, <3>2 DEF Removal
      <4> QED  BY <4>1
    <3> QED  BY <3>1, <3>2
  <2>3. \A n \in InUse' : nodes'[n].key \in Members /\ nodes'[n].score \in Scores
    BY <1>3, <1>7 DEF TypeOK, All
  <2> QED  BY <1>6, <1>13, <1>14, <2>1, <2>2, <2>3 DEF TypeOK, Levels
<1> QED  BY <1>3, <1>7, <1>10, <1>11, <1>13, <1>14, <1>15 DEF All
-----------------------------------------------------------------------------
(***************************************************************************)
(* A descent stops at the header or at a node that was to pass.            *)
(***************************************************************************)
LEMMA PathPasses ==
    ASSUME NoNaN, TypeOK, InOrder, LinksExact, Heights,
           NEW toPass, NEW update, Path(update, toPass), NEW i \in Levels
    PROVE  update[i] \in toPass \cup {Header}
<1>0. Levels = 1 .. MaxLevel /\ MaxLevel \in Nat /\ level \in Levels
  BY SortedSetAssumption DEF Levels, TypeOK
<1> DEFINE Good(k) == update[k] \in toPass \cup {Header}
           P == {k \in Nat : k < MaxLevel => Good(MaxLevel - k)}
<1>1. ASSUME NEW l \in Levels, StartOf(update, l) \in toPass \cup {Header} PROVE Good(l)
  BY <1>1 DEF Path, EndsAt
<1>2. 0 \in P
  <2>1. MaxLevel \in Levels => StartOf(update, MaxLevel) = Header
    BY <1>0 DEF StartOf
  <2> QED  BY <1>0, <1>1, <2>1
<1>3. ASSUME NEW k \in 0 .. MaxLevel - 1, k \in P PROVE k + 1 \in P
  <2> SUFFICES ASSUME k + 1 < MaxLevel PROVE Good(MaxLevel - (k + 1))
    BY <1>0
  <2>1. PICK l \in Levels : l = MaxLevel - (k + 1) /\ l + 1 = MaxLevel - k
    BY <1>0
  <2>2. Good(l + 1)
    BY <1>0, <1>3, <2>1
  <2> QED  BY <1>1, <2>1, <2>2 DEF StartOf
<1>4. \A k \in 0 .. MaxLevel : k \in P
  <2> HIDE DEF P
  <2> QED  BY <1>0, <1>2, <1>3, AllUpTo
<1>5. MaxLevel - i \in 0 .. MaxLevel /\ MaxLevel - i < MaxLevel /\ MaxLevel - (MaxLevel - i) = i
  BY <1>0
<1> QED  BY <1>4, <1>5

(***************************************************************************)
(* The nodes that ZADD passes, and the place where it ends: all of them    *)
(* are in front of it, and all others behind.                              *)
(***************************************************************************)
Passed(key, score) == {n \in Addresses : Precedes(n, key, score)}

Follows(n, key, score) == \/ Less(score, nodes[n].score)
                          \/ Equal(score, nodes[n].score) /\ key < nodes[n].key

(***************************************************************************)
(* The node behind the last one passed is the first that is not passed.    *)
(***************************************************************************)
LEMMA PlaceFound ==
    ASSUME NoNaN, TypeOK, InOrder, LinksExact, Heights,
           NEW key \in Members, NEW score \in Scores,
           NEW update, Path(update, Passed(key, score)),
           NEW found, found = nodes[update[1]].forward[1]
    PROVE  /\ found # Nil => found \in InUse /\ found \notin Passed(key, score)
           /\ \A n \in InUse : n \notin Passed(key, score) =>
                 found # Nil /\ (n = found \/ Before(found, n))
<1>0. key \in Nat /\ score \in Int /\ NaN \notin Int
  BY SortedSetAssumption DEF NoNaN
<1>1. /\ 1 \in Levels /\ update[1] \in On(1) /\ found \notin Passed(key, score)
      /\ update[1] \in Passed(key, score) \cup {Header}
  BY Facts, PathPasses DEF Path, EndsAt
<1>2. NextOn(1, update[1], found)
  BY <1>1 DEF LinksExact
<1>3. On(1) \subseteq All /\ InUse \subseteq On(1)
  <2>1. \A n \in InUse : n \in DOMAIN nodes /\ Len(nodes[n].forward) \in Levels
    BY Facts, Places DEF All
  <2> QED  BY <1>1, <2>1, Facts DEF On, Levels
<1>4. found # Nil => found \in InUse
  BY <1>2, <1>3 DEF NextOn, Before, All
<1>5. ASSUME NEW n \in InUse, n \notin Passed(key, score)
      PROVE  found # Nil /\ (n = found \/ Before(found, n))
  <2>1. n \in All /\ update[1] \in All /\ n \in Addresses
    BY <1>1, <1>3, Places DEF All
  <2>2. ~ (n = update[1] \/ Before(n, update[1]))
    <3>1. CASE update[1] = Header
      BY <2>1, <3>1, Places, Order DEF Before
    <3>2. CASE update[1] # Header
      <4>1. /\ update[1] \in InUse /\ Precedes(update[1], key, score)
            /\ ~ Precedes(n, key, score) /\ n # Header
        BY <1>1, <1>5, <2>1, <3>2, Places DEF Passed, All
      <4>2. /\ nodes[n].key \in Nat /\ nodes[n].score \in Int
            /\ nodes[update[1]].key \in Nat /\ nodes[update[1]].score \in Int
        BY <4>1, Facts
      <4> QED  BY <1>0, <4>1, <4>2 DEF Before, Precedes, Less, Equal
    <3> QED  BY <3>1, <3>2
  <2>3. Before(update[1], n)
    BY <2>1, <2>2, Order
  <2> QED  BY <1>2, <1>3, <2>3 DEF NextOn
<1> QED  BY <1>1, <1>4, <1>5

(***************************************************************************)
(* The two things that ZADD does: it gives the node that it finds another  *)
(* score, or it links a new one.                                           *)
(***************************************************************************)
Rescoring(t, key, score) ==
    /\ t \in InUse /\ nodes[t].key = key /\ key \in Members /\ score \in Scores
    /\ ~ Precedes(t, key, score)
    /\ \A n \in InUse : ~ Precedes(n, key, score) => n = t \/ Before(t, n)
    /\ nodes' = [nodes EXCEPT ![t].score = score]
    /\ level' = level /\ length' = length
    /\ held' = "sorted set"

Insertion(n, key, score, height, update) ==
    /\ n \in Addresses \ InUse /\ height \in Levels
    /\ key \in Members /\ score \in Scores
    /\ \A x \in InUse : Precedes(x, key, score) \/ Follows(x, key, score)
    /\ \A i \in Levels : /\ update[i] \in On(i)
                         /\ update[i] = Header \/ Precedes(update[i], key, score)
                         /\ nodes[update[i]].forward[i] \notin Passed(key, score)
    /\ nodes' = Linked(n, key, score, height, update)
    /\ level' = (IF height > level THEN height ELSE level) /\ length' = length + 1
    /\ held' = "sorted set"

(***************************************************************************)
(* ZADD does one of the two: it gives the node that it finds another score,*)
(* or puts a new node in its place (zset.go:57-95).                        *)
(***************************************************************************)
LEMMA ZAddDoes ==
    ASSUME NoNaN, TypeOK, InOrder, LinksExact, Heights,
           NEW key \in Members, NEW score \in Scores, ZAdd(key, score)
    PROVE  \/ \E t : Rescoring(t, key, score)
           \/ \E n, height, update : Insertion(n, key, score, height, update)
<1>0. key \in Nat /\ score \in Int /\ NaN \notin Int
  BY SortedSetAssumption DEF NoNaN
<1>1. PICK update : update = Descend(Passed(key, score))
  OBVIOUS
<1>2. PICK found : found = nodes[update[1]].forward[1]
  OBVIOUS
<1>3. /\ held' = "sorted set"
      /\ IF IsOf(found, key)
         THEN nodes' = [nodes EXCEPT ![found].score = score] /\ UNCHANGED <<level, length>>
         ELSE Insert(key, score, update)
  BY <1>1, <1>2, Zenon DEF ZAdd, Passed
<1>4. Path(update, Passed(key, score))
  <2>1. Nil \notin Passed(key, score)
    BY Places DEF Passed
  <2> QED  BY <1>1, <2>1, DescendPath
<1>5. /\ found # Nil => found \in InUse /\ found \notin Passed(key, score)
      /\ \A n \in InUse : n \notin Passed(key, score) =>
            found # Nil /\ (n = found \/ Before(found, n))
  BY <1>2, <1>4, PlaceFound
<1>6. CASE IsOf(found, key)
  <2>1. found \in InUse /\ nodes[found].key = key
    BY <1>5, <1>6 DEF IsOf
  <2>2. \A n \in InUse : n \in Passed(key, score) <=> Precedes(n, key, score)
    BY Places DEF Passed
  <2> QED  BY <1>3, <1>5, <1>6, <2>1, <2>2 DEF Rescoring, IsOf
<1>7. CASE ~ IsOf(found, key)
  <2>1. PICK height \in Levels, n \in Free :
           /\ nodes' = Linked(n, key, score, height, update)
           /\ level' = IF height > level THEN height ELSE level
           /\ length' = length + 1
    BY <1>3, <1>7 DEF Insert, Longer
  <2>2. n \in Addresses \ InUse
    BY DEF Free, InUse
  <2>3. ASSUME NEW x \in InUse PROVE Precedes(x, key, score) \/ Follows(x, key, score)
    <3> SUFFICES ASSUME ~ Precedes(x, key, score) PROVE Follows(x, key, score)
      OBVIOUS
    <3>1. found \in InUse /\ (x = found \/ Before(found, x)) /\ nodes[found].key # key
          /\ ~ Precedes(found, key, score) /\ x # Header
      <4>1. x \notin Passed(key, score)
        BY DEF Passed
      <4>2. found # Nil /\ (x = found \/ Before(found, x))
        BY <1>5, <4>1
      <4>3. found \in InUse /\ found \notin Passed(key, score)
        BY <1>5, <4>2
      <4> QED  BY <1>7, <4>2, <4>3, Places DEF Passed, IsOf
    <3>2. /\ nodes[x].key \in Nat /\ nodes[x].score \in Int
          /\ nodes[found].key \in Nat /\ nodes[found].score \in Int /\ found # Header
      BY <3>1, Facts, Places
    <3>3. Follows(found, key, score)
      BY <1>0, <3>1, <3>2 DEF Follows, Precedes, Less, Equal
    <3> QED  BY <1>0, <3>1, <3>2, <3>3 DEF Follows, Before, Precedes, Less, Equal
  <2>4. ASSUME NEW i \in Levels
        PROVE  /\ update[i] \in On(i)
               /\ update[i] = Header \/ Precedes(update[i], key, score)
               /\ nodes[update[i]].forward[i] \notin Passed(key, score)
    <3>1. update[i] \in Passed(key, score) \cup {Header}
      BY <1>4, PathPasses
    <3> QED  BY <1>4, <3>1 DEF Path, EndsAt, Passed
  <2> QED  BY <1>3, <2>1, <2>2, <2>3, <2>4 DEF Insertion
<1> QED  BY <1>6, <1>7

(***************************************************************************)
(* A score changed in place leaves the order as it was.                    *)
(***************************************************************************)
LEMMA RescoringKeeps ==
    ASSUME NoNaN, IInv, NEW t, NEW key, NEW score, Rescoring(t, key, score)
    PROVE  IInv' /\ InUse' = InUse
           /\ \A n \in InUse : /\ nodes'[n].key = nodes[n].key
                               /\ n # t => nodes'[n].score = nodes[n].score
<1> USE DEF IInv
<1>0. key \in Nat /\ score \in Int /\ NaN \notin Int
  BY SortedSetAssumption DEF NoNaN, Rescoring
<1>1. /\ t \in InUse /\ nodes[t].key = key /\ t \in DOMAIN nodes /\ t # Header
      /\ ~ Precedes(t, key, score) /\ InUse \subseteq Addresses /\ All \subseteq DOMAIN nodes
      /\ \A n \in InUse : ~ Precedes(n, key, score) => n = t \/ Before(t, n)
  BY Facts, Places DEF Rescoring, All
<1>2. /\ DOMAIN nodes' = DOMAIN nodes
      /\ \A n \in DOMAIN nodes \ {t} : nodes'[n] = nodes[n]
      /\ nodes'[t] = [key |-> key, score |-> score, forward |-> nodes[t].forward]
  <2>1. nodes' = [nodes EXCEPT ![t].score = score]
    BY DEF Rescoring
  <2>2. nodes[t] = [key |-> nodes[t].key, score |-> nodes[t].score, forward |-> nodes[t].forward]
    BY <1>1 DEF TypeOK
  <2> QED  BY <1>1, <2>1, <2>2
<1>3. /\ \A n \in DOMAIN nodes : /\ nodes'[n].forward = nodes[n].forward
                                 /\ nodes'[n].key = nodes[n].key
      /\ nodes'[t].score = score
  BY <1>1, <1>2
<1>4. InUse' = InUse /\ All' = All
  <2>1. nodes'[t] # Unused
    <3>1. Len(nodes[t].forward) \in Levels
      BY <1>1, Facts DEF All
    <3>2. Unused.forward = <<>> /\ Len(<<>>) \notin Levels
      <4>1. [i \in 1..0 |-> Nil] = <<>>
        OBVIOUS
      <4> QED  BY <4>1, SortedSetAssumption DEF Unused, NewNode, Levels
    <3> QED  BY <1>2, <3>1, <3>2
  <2>2. \A n \in Addresses \ {t} : nodes'[n] = nodes[n]
    BY <1>2, Facts
  <2>3. InUse' = InUse
    BY <1>1, <2>1, <2>2 DEF InUse, Free
  <2> QED  BY <2>3 DEF All
<1>5. \A i \in Levels : On(i)' = On(i)
  BY <1>2, <1>3 DEF On
<1>6. ASSUME NEW m \in All, NEW n \in All PROVE Before(m, n)' <=> Before(m, n)
  <2>0. \A k \in InUse : nodes[k].key \in Nat /\ nodes[k].score \in Int
    BY Facts
  <2>1. CASE m = Header \/ n = Header
    BY <1>1, <1>2, <2>1 DEF Before
  <2>2. CASE m \in InUse \ {t} /\ n \in InUse \ {t}
    <3>1. nodes'[m] = nodes[m] /\ nodes'[n] = nodes[n]
      BY <1>1, <1>2, <2>2, Places, Facts
    <3> QED  BY <3>1 DEF Before, Precedes
  <2>3. CASE m = t /\ n = t
    <3>1. Before(t, t)' <=> FALSE
      BY <1>0, <1>1, <1>2, <1>3 DEF Before, Precedes, Less, Equal
    <3> QED  BY <2>3, <3>1, Order
  <2>4. CASE m \in InUse \ {t} /\ n = t
    <3>1. nodes'[m] = nodes[m] /\ m # Header
      BY <1>1, <1>2, <2>4, Places, Facts
    <3>2. Before(m, t)' <=> Precedes(m, key, score)
      BY <1>1, <1>2, <3>1 DEF Before, Precedes
    <3>3. Before(m, t) => Precedes(m, key, score)
      <4>1. t \in All /\ m \in All
        BY <2>4, <1>1 DEF All
      <4> QED  BY <1>1, <2>4, <4>1, Order
    <3>4. Precedes(m, key, score) => Before(m, t)
      BY <1>0, <1>1, <2>0, <2>4, <3>1 DEF Before, Precedes, Less, Equal
    <3> QED  BY <2>4, <3>2, <3>3, <3>4
  <2>5. CASE m = t /\ n \in InUse \ {t}
    <3>1. nodes'[n] = nodes[n] /\ n # Header
      BY <1>1, <1>2, <2>5, Places, Facts
    <3>2. Before(t, n)' <=> Follows(n, key, score)
      BY <1>1, <1>2, <3>1 DEF Before, Precedes, Follows
    <3>3. Before(t, n) => Follows(n, key, score)
      BY <1>0, <1>1, <2>0, <2>5, <3>1 DEF Before, Precedes, Follows, Less, Equal
    <3>4. Follows(n, key, score) => Before(t, n)
      <4>1. Follows(n, key, score) => ~ Precedes(n, key, score)
        BY <1>0, <2>0, <2>5 DEF Precedes, Follows, Less, Equal
      <4> QED  BY <1>1, <2>5, <4>1
    <3> QED  BY <2>5, <3>2, <3>3, <3>4
  <2> QED  BY <2>1, <2>2, <2>3, <2>4, <2>5 DEF All
<1>7. InOrder'
  BY <1>4, <1>6 DEF InOrder, All
<1>8. LinksExact'
  <2> SUFFICES ASSUME NEW i \in Levels, NEW m \in On(i)
               PROVE  NextOn(i, m, nodes[m].forward[i])'
    BY <1>5 DEF LinksExact, Levels
  <2>1. On(i) \subseteq All /\ m \in All /\ On(i)' = On(i)
    BY <1>5, Facts
  <2>2. PICK next : next = nodes[m].forward[i] /\ next = nodes'[m].forward[i]
    BY <1>1, <1>3, <2>1
  <2>3. NextOn(i, m, next)
    BY <2>2 DEF LinksExact
  <2>4. next # Nil => next \in All
    BY <2>1, <2>3 DEF NextOn
  <2>5. NextOn(i, m, next)'
    BY <1>6, <2>1, <2>3, <2>4 DEF NextOn
  <2> QED  BY <2>2, <2>5
<1>9. Heights' /\ Counted'
  <2>1. level' = level /\ length' = length /\ held' = "sorted set"
    BY DEF Rescoring
  <2>2. Header \in DOMAIN nodes /\ InUse \subseteq DOMAIN nodes
    BY <1>1 DEF All
  <2>3. nodes'[Header].forward = nodes[Header].forward
        /\ \A n \in InUse : nodes'[n].forward = nodes[n].forward
    BY <1>3, <2>2
  <2> QED  BY <1>4, <2>1, <2>3 DEF Heights, Counted
<1>10. TypeOK'
  <2>1. level' = level /\ length' = length /\ held' = "sorted set"
    BY DEF Rescoring
  <2>2. \A n \in DOMAIN nodes' :
           /\ nodes'[n] = [key |-> nodes'[n].key, score |-> nodes'[n].score,
                           forward |-> nodes'[n].forward]
           /\ nodes'[n].forward \in Seq(Addresses \cup {Nil})
    <3> SUFFICES ASSUME NEW n \in DOMAIN nodes
                 PROVE  /\ nodes'[n] = [key |-> nodes'[n].key, score |-> nodes'[n].score,
                                        forward |-> nodes'[n].forward]
                        /\ nodes'[n].forward \in Seq(Addresses \cup {Nil})
      BY <1>2
    <3>1. nodes[n].forward \in Seq(Addresses \cup {Nil})
          /\ nodes[n] = [key |-> nodes[n].key, score |-> nodes[n].score,
                         forward |-> nodes[n].forward]
      BY DEF TypeOK
    <3>2. CASE n = t
      BY <1>2, <1>3, <3>1, <3>2
    <3>3. CASE n # t
      <4>1. nodes'[n] = nodes[n]
        BY <1>2, <3>3
      <4> QED  BY <3>1, <4>1
    <3> QED  BY <3>2, <3>3
  <2>3. \A n \in InUse : nodes'[n].key \in Members /\ nodes'[n].score \in Scores
    BY <1>1, <1>2, <1>3 DEF TypeOK, Rescoring, All
  <2> QED  BY <1>2, <1>4, <2>1, <2>2, <2>3 DEF TypeOK, Levels
<1> QED  BY <1>1, <1>2, <1>3, <1>4, <1>7, <1>8, <1>9, <1>10 DEF All

(***************************************************************************)
(* A new node is on each of its levels between those that it follows and   *)
(* those that follow it.                                                   *)
(***************************************************************************)
LEMMA InsertionKeeps ==
    ASSUME NoNaN, IInv, NEW n, NEW key, NEW score, NEW height, NEW update,
           Insertion(n, key, score, height, update)
    PROVE  /\ IInv' /\ InUse' = InUse \cup {n} /\ n \notin InUse
           /\ nodes'[n].key = key /\ nodes'[n].score = score
           /\ \A x \in InUse : /\ nodes'[x].key = nodes[x].key
                               /\ nodes'[x].score = nodes[x].score
<1> USE DEF IInv
<1>0. key \in Nat /\ score \in Int /\ NaN \notin Int
  BY SortedSetAssumption DEF NoNaN, Insertion
<1>1. /\ n \in Addresses \ InUse /\ n \notin All /\ n # Header /\ n \in DOMAIN nodes
      /\ n # Nil /\ Nil \notin All /\ height \in Levels /\ All \subseteq DOMAIN nodes
      /\ Header \in All /\ InUse \subseteq Addresses
      /\ Levels = 1 .. MaxLevel /\ MaxLevel \in Nat /\ level \in Levels
  BY Facts, Places, SortedSetAssumption DEF Insertion, All, Levels
<1>2. \A i \in Levels : /\ update[i] \in On(i) /\ update[i] \in All
                        /\ NextOn(i, update[i], nodes[update[i]].forward[i])
                        /\ update[i] = Header \/ Precedes(update[i], key, score)
                        /\ nodes[update[i]].forward[i] \notin Passed(key, score)
                        /\ nodes[update[i]].forward[i] \in Addresses \cup {Nil}
  <2> SUFFICES ASSUME NEW i \in Levels
               PROVE  /\ update[i] \in On(i) /\ update[i] \in All
                      /\ NextOn(i, update[i], nodes[update[i]].forward[i])
                      /\ update[i] = Header \/ Precedes(update[i], key, score)
                      /\ nodes[update[i]].forward[i] \notin Passed(key, score)
                      /\ nodes[update[i]].forward[i] \in Addresses \cup {Nil}
    OBVIOUS
  <2>1. /\ update[i] \in On(i)
        /\ update[i] = Header \/ Precedes(update[i], key, score)
        /\ nodes[update[i]].forward[i] \notin Passed(key, score)
    BY DEF Insertion
  <2>2. update[i] \in All /\ NextOn(i, update[i], nodes[update[i]].forward[i])
    BY <2>1, Facts DEF LinksExact
  <2>3. nodes[update[i]].forward[i] \in Addresses \cup {Nil}
    <3>1. \/ nodes[update[i]].forward[i] = Nil
          \/ nodes[update[i]].forward[i] \in All /\ nodes[update[i]].forward[i] # Header
      BY <2>2, Facts DEF NextOn, Before
    <3> QED  BY <3>1, Places DEF All
  <2> QED  BY <2>1, <2>2, <2>3
<1>3. /\ DOMAIN nodes' = DOMAIN nodes
      /\ nodes'[n] = [key |-> key, score |-> score,
                      forward |-> [i \in 1..height |-> nodes[update[i]].forward[i]]]
      /\ \A m \in DOMAIN nodes \ {n} :
            nodes'[m] = [key |-> nodes[m].key, score |-> nodes[m].score,
                         forward |-> [i \in DOMAIN nodes[m].forward |->
                            IF i <= height /\ update[i] = m THEN n ELSE nodes[m].forward[i]]]
  <2>1. nodes' = [m \in DOMAIN nodes |->
                     IF m = n
                     THEN [NewNode(key, score, height) EXCEPT
                              !.forward = [i \in 1..height |-> nodes[update[i]].forward[i]]]
                     ELSE [nodes[m] EXCEPT
                              !.forward = [i \in DOMAIN nodes[m].forward |->
                                  IF i <= height /\ update[i] = m THEN n
                                  ELSE nodes[m].forward[i]]]]
    BY DEF Insertion, Linked
  <2>2. nodes'[n] = [NewNode(key, score, height) EXCEPT
                        !.forward = [i \in 1..height |-> nodes[update[i]].forward[i]]]
    BY <1>1, <2>1
  <2>3. nodes'[n] = [key |-> key, score |-> score,
                      forward |-> [i \in 1..height |-> nodes[update[i]].forward[i]]]
    BY <2>2 DEF NewNode
  <2>4. ASSUME NEW m \in DOMAIN nodes, m # n
        PROVE  nodes'[m] = [key |-> nodes[m].key, score |-> nodes[m].score,
                         forward |-> [i \in DOMAIN nodes[m].forward |->
                            IF i <= height /\ update[i] = m THEN n ELSE nodes[m].forward[i]]]
    <3>1. nodes[m] = [key |-> nodes[m].key, score |-> nodes[m].score,
                      forward |-> nodes[m].forward]
      BY DEF TypeOK
    <3>2. nodes'[m] = [nodes[m] EXCEPT
                          !.forward = [i \in DOMAIN nodes[m].forward |->
                              IF i <= height /\ update[i] = m THEN n
                              ELSE nodes[m].forward[i]]]
      BY <2>1, <2>4
    <3> QED  BY <3>1, <3>2
  <2> QED  BY <2>1, <2>3, <2>4
<1>4. /\ nodes'[n].key = key /\ nodes'[n].score = score
      /\ nodes'[n].forward \in Seq(Addresses \cup {Nil})
      /\ Len(nodes'[n].forward) = height
      /\ \A i \in 1..height : nodes'[n].forward[i] = nodes[update[i]].forward[i]
      /\ nodes'[n] = [key |-> nodes'[n].key, score |-> nodes'[n].score,
                      forward |-> nodes'[n].forward]
  <2> DEFINE r == [i \in 1..height |-> nodes[update[i]].forward[i]]
  <2>1. \A i \in 1..height : r[i] \in Addresses \cup {Nil}
    BY <1>1, <1>2
  <2>2. r \in Seq(Addresses \cup {Nil}) /\ Len(r) = height
        /\ \A i \in 1..height : r[i] = nodes[update[i]].forward[i]
    BY <1>1, <2>1
  <2>3. nodes'[n] = [key |-> key, score |-> score, forward |-> r]
    BY <1>3
  <2> HIDE DEF r
  <2> QED  BY <2>2, <2>3
<1>5. ASSUME NEW m \in DOMAIN nodes \ {n}
      PROVE  /\ nodes'[m].key = nodes[m].key /\ nodes'[m].score = nodes[m].score
             /\ nodes'[m].forward \in Seq(Addresses \cup {Nil})
             /\ Len(nodes'[m].forward) = Len(nodes[m].forward)
             /\ \A i \in 1..Len(nodes[m].forward) :
                   nodes'[m].forward[i] = IF i <= height /\ update[i] = m THEN n
                                          ELSE nodes[m].forward[i]
             /\ nodes'[m] = [key |-> nodes'[m].key, score |-> nodes'[m].score,
                             forward |-> nodes'[m].forward]
  <2>1. PICK q \in Seq(Addresses \cup {Nil}) : q = nodes[m].forward
    BY DEF TypeOK
  <2> DEFINE r == [i \in DOMAIN q |-> IF i <= height /\ update[i] = m THEN n ELSE q[i]]
  <2>2. r \in Seq(Addresses \cup {Nil}) /\ Len(r) = Len(q)
        /\ \A i \in 1..Len(q) : r[i] = IF i <= height /\ update[i] = m THEN n ELSE q[i]
    BY <1>1
  <2>3. nodes'[m] = [key |-> nodes[m].key, score |-> nodes[m].score, forward |-> r]
    BY <1>3, <2>1
  <2> HIDE DEF r
  <2> QED  BY <2>1, <2>2, <2>3
<1>6. InUse' = InUse \cup {n} /\ All' = All \cup {n}
  <2>1. Unused = [key |-> 0, score |-> 0, forward |-> <<>>]
    <3>1. [i \in 1..0 |-> Nil] = <<>>
      OBVIOUS
    <3> QED  BY <3>1 DEF Unused, NewNode
  <2>2. Len(<<>>) \notin Levels
    BY <1>1
  <2>3. nodes'[n] # Unused
    BY <1>1, <1>4, <2>1, <2>2
  <2>4. \A m \in InUse : nodes'[m] # Unused
    <3> SUFFICES ASSUME NEW m \in InUse PROVE nodes'[m] # Unused
      OBVIOUS
    <3>1. Len(nodes'[m].forward) \in Levels
      BY <1>1, <1>5, Facts DEF All
    <3> QED  BY <2>1, <2>2, <3>1
  <2>5. \A m \in Addresses \ (InUse \cup {n}) : nodes'[m] = Unused
    <3> SUFFICES ASSUME NEW m \in Addresses \ (InUse \cup {n}) PROVE nodes'[m] = Unused
      OBVIOUS
    <3>1. nodes[m] = Unused /\ m \in DOMAIN nodes \ {n}
      BY Facts DEF InUse, Free
    <3>2. nodes[m].key = 0 /\ nodes[m].score = 0 /\ nodes[m].forward = <<>>
      BY <2>1, <3>1
    <3>3. nodes'[m].forward = <<>>
      <4>1. PICK q \in Seq(Addresses \cup {Nil}) : q = nodes'[m].forward
        BY <1>5, <3>1
      <4>2. Len(q) = Len(<<>>)
        BY <1>5, <3>1, <3>2, <4>1
      <4>3. q = <<>>
        BY <4>2
      <4> QED  BY <4>1, <4>3
    <3>4. nodes'[m].key = 0 /\ nodes'[m].score = 0
      BY <1>5, <3>1, <3>2
    <3>5. nodes'[m] = [key |-> nodes'[m].key, score |-> nodes'[m].score,
                       forward |-> nodes'[m].forward]
      BY <1>5, <3>1
    <3> QED  BY <2>1, <3>3, <3>4, <3>5
  <2>6. InUse' = InUse \cup {n}
    BY <1>1, <2>3, <2>4, <2>5 DEF InUse, Free
  <2> QED  BY <2>6 DEF All
<1>7. \A i \in Levels : On(i)' = IF i <= height THEN On(i) \cup {n} ELSE On(i)
  <2> SUFFICES ASSUME NEW i \in Levels, NEW m \in DOMAIN nodes
               PROVE  m \in On(i)' <=> m \in IF i <= height THEN On(i) \cup {n} ELSE On(i)
    <3>1. DOMAIN nodes' = DOMAIN nodes
      BY <1>3
    <3> QED  BY <1>1, <3>1 DEF On
  <2>1. n \notin On(i)
    BY <1>1, Facts
  <2>2. CASE m = n
    BY <1>1, <1>3, <1>4, <2>1, <2>2 DEF On
  <2>3. CASE m # n
    BY <1>3, <1>5, <2>3 DEF On
  <2> QED  BY <2>2, <2>3
<1> DEFINE In(m) == m \in InUse /\ Precedes(m, key, score)
<1>8. /\ \A a, b \in All : Before(a, b)' <=> Before(a, b)
      /\ \A a \in All : Before(a, n)' <=> a = Header \/ In(a)
      /\ \A b \in All : Before(n, b)' <=> b \in InUse /\ ~ In(b)
      /\ ~ Before(n, n)'
      /\ \A a, b \in InUse : Before(a, b) /\ In(b) => In(a)
      /\ \A m \in Addresses : m \in InUse /\ m \in Passed(key, score) <=> In(m)
  <2>0. \A x \in InUse : nodes[x].key \in Nat /\ nodes[x].score \in Int /\ x # Header
    BY <1>1, Facts, Places
  <2>1. ASSUME NEW a \in All, NEW b \in All PROVE Before(a, b)' <=> Before(a, b)
    <3>1. a \in DOMAIN nodes \ {n} /\ b \in DOMAIN nodes \ {n}
      BY <1>1
    <3> QED  BY <1>5, <3>1 DEF Before, Precedes
  <2>2. ASSUME NEW a \in All PROVE Before(a, n)' <=> a = Header \/ In(a)
    <3>1. a \in DOMAIN nodes \ {n}
      BY <1>1
    <3>2. nodes'[a].key = nodes[a].key /\ nodes'[a].score = nodes[a].score
      BY <1>5, <3>1
    <3> QED  BY <1>1, <1>4, <3>2 DEF Before, Precedes, All
  <2>3. ASSUME NEW b \in All PROVE Before(n, b)' <=> b \in InUse /\ ~ In(b)
    <3>1. b \in DOMAIN nodes \ {n}
      BY <1>1
    <3>2. nodes'[b].key = nodes[b].key /\ nodes'[b].score = nodes[b].score
      BY <1>5, <3>1
    <3>3. CASE b = Header
      BY <2>0, <3>3 DEF Before
    <3>4. CASE b \in InUse
      <4>1. Before(n, b)' <=> Follows(b, key, score)
        BY <1>1, <1>4, <2>0, <3>2, <3>4 DEF Before, Precedes, Follows
      <4>2. Precedes(b, key, score) \/ Follows(b, key, score)
        BY <3>4 DEF Insertion
      <4>3. ~ (Precedes(b, key, score) /\ Follows(b, key, score))
        BY <1>0, <2>0, <3>4 DEF Precedes, Follows, Less, Equal
      <4> QED  BY <3>4, <4>1, <4>2, <4>3
    <3> QED  BY <3>3, <3>4 DEF All
  <2>4. ~ Before(n, n)'
    BY <1>0, <1>1, <1>4 DEF Before, Precedes, Less, Equal
  <2>5. \A a, b \in InUse : Before(a, b) /\ In(b) => In(a)
    BY <1>0, <2>0 DEF Before, Precedes, Less, Equal
  <2>6. \A m \in Addresses : m \in InUse /\ m \in Passed(key, score) <=> In(m)
    BY DEF Passed
  <2> QED  BY <2>1, <2>2, <2>3, <2>4, <2>5, <2>6
<1> HIDE DEF In
<1>9. InOrder'
  <2>1. \A m \in InUse : Before(m, n)' \/ Before(n, m)'
    BY <1>8 DEF All
  <2> QED  BY <1>6, <1>8, <2>1 DEF InOrder, All
<1>10. LinksExact'
  <2> SUFFICES ASSUME NEW i \in Levels, NEW m \in On(i)' PROVE NextOn(i, m, nodes[m].forward[i])'
    BY DEF LinksExact, Levels
  <2>0. On(i) \subseteq All /\ (i <= height => i \in 1..height)
        /\ \A k \in On(i) : i \in 1..Len(nodes[k].forward)
    BY <1>1, Facts
  <2>1. PICK u, old : /\ u = update[i] /\ old = nodes[u].forward[i]
    OBVIOUS
  <2>2. /\ u \in On(i) /\ u \in All /\ NextOn(i, u, old) /\ (u = Header \/ In(u))
        /\ old # Nil => old \in InUse /\ ~ In(old)
    <3>1. /\ u \in On(i) /\ u \in All /\ NextOn(i, u, old)
          /\ u = Header \/ Precedes(u, key, score)
          /\ old \notin Passed(key, score)
      BY <1>2, <2>1
    <3>2. u = Header \/ In(u)
      BY <3>1 DEF In, All
    <3>3. old # Nil => old \in InUse
      BY <2>0, <3>1 DEF NextOn, Before, All
    <3> QED  BY <1>1, <1>8, <3>1, <3>2, <3>3
  <2>3. ASSUME NEW x \in On(i), ~ In(x), x # Header
        PROVE  old # Nil /\ (x = old \/ Before(old, x))
    <3>1. x \in InUse /\ x \in All
      BY <2>0, <2>3 DEF All
    <3>2. ~ (x = u \/ Before(x, u))
      <4>1. CASE u = Header
        BY <2>3, <4>1 DEF Before
      <4>2. CASE u # Header
        BY <1>8, <2>2, <2>3, <3>1, <4>2 DEF All
      <4> QED  BY <4>1, <4>2
    <3>3. Before(u, x)
      BY <2>2, <3>1, <3>2, Order
    <3> QED  BY <2>2, <3>3 DEF NextOn
  <2>4. CASE m = n
    <3>1. i <= height /\ nodes'[n].forward[i] = old /\ On(i)' = On(i) \cup {n}
      BY <1>1, <1>4, <1>7, <2>0, <2>1, <2>4, Facts
    <3>2. old = Nil \/ (old \in On(i)' /\ Before(n, old)')
      BY <1>8, <2>2, <3>1 DEF NextOn, All
    <3>3. ASSUME NEW x \in On(i)', Before(n, x)'
          PROVE  old # Nil /\ (x = old \/ Before(old, x)')
      <4>1. x \in On(i) /\ x \in All /\ x \in InUse /\ ~ In(x)
        BY <1>8, <2>0, <3>1, <3>3
      <4>2. old # Nil /\ (x = old \/ Before(old, x))
        BY <1>1, <2>3, <4>1, Places
      <4> QED  BY <1>8, <2>2, <4>1, <4>2 DEF All
    <3> QED  BY <2>4, <3>1, <3>2, <3>3 DEF NextOn
  <2>5. CASE m # n /\ i <= height /\ m = u
    <3>1. nodes'[m].forward[i] = n /\ On(i)' = On(i) \cup {n}
      BY <1>1, <1>5, <1>7, <2>0, <2>1, <2>2, <2>5
    <3>2. n \in On(i)' /\ Before(m, n)'
      BY <1>8, <2>2, <2>5, <3>1
    <3>3. ASSUME NEW x \in On(i)', Before(m, x)' PROVE x = n \/ Before(n, x)'
      <4> SUFFICES ASSUME x # n PROVE Before(n, x)'
        OBVIOUS
      <4>1. x \in On(i) /\ x \in All /\ Before(u, x)
        BY <1>8, <2>0, <2>2, <2>5, <3>1, <3>3
      <4>2. x \in InUse /\ ~ In(x)
        <5>1. old # Nil /\ (x = old \/ Before(old, x))
          BY <2>2, <4>1 DEF NextOn
        <5>2. x # Header
          BY <4>1 DEF Before
        <5> QED  BY <1>8, <2>2, <4>1, <5>1, <5>2 DEF All
      <4> QED  BY <1>8, <4>1, <4>2
    <3> QED  BY <1>1, <3>1, <3>2, <3>3 DEF NextOn
  <2>6. CASE m # n /\ ~ (i <= height /\ m = u)
    <3>1. m \in On(i) /\ m \in All
      BY <1>7, <2>0, <2>6
    <3>2. PICK next : next = nodes[m].forward[i] /\ next = nodes'[m].forward[i]
      <4>1. m \in DOMAIN nodes \ {n} /\ i \in 1..Len(nodes[m].forward)
        BY <1>1, <2>0, <2>6, <3>1
      <4>2. nodes'[m].forward[i] = IF i <= height /\ update[i] = m THEN n
                                   ELSE nodes[m].forward[i]
        BY <1>5, <4>1
      <4> QED  BY <2>1, <2>6, <4>2
    <3>3. NextOn(i, m, next)
      BY <3>1, <3>2 DEF LinksExact
    <3>4. /\ next # Nil => next \in All /\ next \in On(i) /\ next \in InUse /\ Before(m, next)
          /\ On(i) \subseteq On(i)'
      BY <1>7, <2>0, <3>3 DEF NextOn, All, Before
    <3>5. next = Nil \/ (next \in On(i)' /\ Before(m, next)')
      BY <1>8, <3>1, <3>4
    <3>6. ASSUME NEW x \in On(i)', Before(m, x)'
          PROVE  next # Nil /\ (x = next \/ Before(next, x)')
      <4>1. CASE x # n
        <5>1. x \in On(i) /\ x \in All
          BY <1>7, <2>0, <4>1
        <5>2. next # Nil /\ (x = next \/ Before(next, x))
          BY <1>8, <3>1, <3>3, <3>6, <5>1 DEF NextOn
        <5> QED  BY <1>8, <3>4, <5>1, <5>2
      <4>2. CASE x = n
        <5>1. i <= height /\ m # u /\ (m = Header \/ In(m))
          BY <1>1, <1>7, <1>8, <2>0, <2>6, <3>1, <3>6, <4>2
        <5>2. ~ Before(u, m)
          <6>1. ASSUME Before(u, m) PROVE FALSE
            <7>1. old # Nil /\ (m = old \/ Before(old, m)) /\ m # Header
              BY <2>2, <3>1, <6>1 DEF NextOn, Before
            <7> QED  BY <1>8, <2>2, <3>1, <5>1, <7>1 DEF All
          <6> QED  BY <6>1
        <5>3. Before(m, u)
          BY <2>2, <3>1, <5>1, <5>2, Order
        <5>4. next # Nil /\ (u = next \/ Before(next, u)) /\ In(u)
          BY <2>2, <3>3, <5>3 DEF NextOn, Before
        <5>5. In(next)
          BY <1>8, <3>4, <5>4 DEF In
        <5> QED  BY <1>8, <3>4, <4>2, <5>4, <5>5
      <4> QED  BY <4>1, <4>2
    <3> QED  BY <3>2, <3>5, <3>6 DEF NextOn
  <2> QED  BY <2>4, <2>5, <2>6
<1>11. Heights' /\ level' \in Levels
  <2>1. level' = IF height > level THEN height ELSE level
    BY DEF Insertion
  <2>2. Len(nodes'[Header].forward) = MaxLevel
    BY <1>1, <1>5 DEF Heights
  <2>3. \A x \in InUse : Len(nodes'[x].forward) = Len(nodes[x].forward)
                         /\ Len(nodes[x].forward) \in 1..level
    BY <1>1, <1>5 DEF Heights, All
  <2>4. Len(nodes'[n].forward) = height /\ level \in 1 .. MaxLevel /\ height \in 1 .. MaxLevel
    BY <1>1, <1>4
  <2>5. \A x \in InUse' : Len(nodes'[x].forward) \in 1..level'
    BY <1>1, <1>6, <2>1, <2>3, <2>4
  <2>6. level' = 1 \/ \E x \in InUse' : Len(nodes'[x].forward) = level'
    <3>1. level = 1 \/ \E x \in InUse : Len(nodes[x].forward) = level
      BY DEF Heights
    <3> QED  BY <1>6, <2>1, <2>3, <2>4, <3>1
  <2> QED  BY <1>1, <2>1, <2>2, <2>5, <2>6 DEF Heights
<1>12. Counted' /\ length' \in Nat
  <2>1. Cardinality(InUse \cup {n}) = Cardinality(InUse) + 1 /\ Cardinality(InUse) \in Nat
    BY <1>1, Finite, FS_AddElement, FS_CardinalityType
  <2>2. length' = length + 1 /\ held' = "sorted set" /\ length = Cardinality(InUse)
    BY DEF Insertion, Counted
  <2>3. length' \in Nat /\ length' = Cardinality(InUse \cup {n})
    <3>1. PICK c \in Nat : c = Cardinality(InUse)
      BY <2>1
    <3>2. length' = c + 1 /\ Cardinality(InUse \cup {n}) = c + 1
      BY <2>1, <2>2, <3>1
    <3> QED  BY <3>2
  <2>4. length' = Cardinality(InUse')
    BY <1>6, <2>3
  <2> QED  BY <2>2, <2>3, <2>4 DEF Counted
<1>13. TypeOK'
  <2>1. held' = "sorted set" /\ key \in Members /\ score \in Scores
    BY DEF Insertion
  <2>2. \A m \in DOMAIN nodes' :
           /\ nodes'[m] = [key |-> nodes'[m].key, score |-> nodes'[m].score,
                           forward |-> nodes'[m].forward]
           /\ nodes'[m].forward \in Seq(Addresses \cup {Nil})
    BY <1>3, <1>4, <1>5
  <2>3. \A x \in InUse' : nodes'[x].key \in Members /\ nodes'[x].score \in Scores
    <3>1. \A x \in InUse : x \in DOMAIN nodes \ {n}
      BY <1>1 DEF All
    <3> QED  BY <1>4, <1>5, <1>6, <2>1, <3>1 DEF TypeOK
  <2> QED  BY <1>3, <1>11, <1>12, <2>1, <2>2, <2>3, Facts DEF TypeOK, Levels
<1>14. \A x \in InUse : x \in DOMAIN nodes \ {n}
  BY <1>1 DEF All
<1> QED  BY <1>1, <1>4, <1>5, <1>6, <1>9, <1>10, <1>11, <1>12, <1>13, <1>14
-----------------------------------------------------------------------------
(***************************************************************************)
(* A new list satisfies the invariant.                                     *)
(***************************************************************************)
Empty == /\ held \in {"nothing", "sorted set", "other"}
         /\ nodes = NewSortedSet /\ level = 1 /\ length = 0

(***************************************************************************)
(* The list of NewSortedSet has no nodes in use and is in order.           *)
(***************************************************************************)
LEMMA EmptyList == Empty => IInv /\ InUse = {}
<1> SUFFICES ASSUME Empty PROVE IInv /\ InUse = {}
  OBVIOUS
<1>0. MaxLevel \in Nat \ {0} /\ Levels = 1 .. MaxLevel /\ level = 1 /\ length = 0
  BY SortedSetAssumption DEF Empty, Levels
<1>1. Unused = [key |-> 0, score |-> 0, forward |-> <<>>]
  <2>1. [i \in 1..0 |-> Nil] = <<>>
    OBVIOUS
  <2> QED  BY <2>1 DEF Unused, NewNode
<1>2. /\ DOMAIN nodes = Addresses \cup {Header}
      /\ nodes[Header] = NewNode(0, 0, MaxLevel)
      /\ \A n \in Addresses : nodes[n] = Unused
  BY Places DEF Empty, NewSortedSet
<1>3. InUse = {} /\ IsFiniteSet({}) /\ Cardinality({}) = 0
  BY <1>2, FS_EmptySet DEF InUse, Free
<1>4. PICK q : q = [i \in 1 .. MaxLevel |-> Nil]
  OBVIOUS
<1>5. q \in Seq(Addresses \cup {Nil}) /\ Len(q) = MaxLevel /\ \A i \in Levels : q[i] = Nil
  BY <1>0, <1>4
<1>6. nodes[Header] = [key |-> 0, score |-> 0, forward |-> q]
  BY <1>2, <1>4 DEF NewNode
<1>7. \A i \in Levels : On(i) = {Header}
  <2> SUFFICES ASSUME NEW i \in Levels, NEW n \in DOMAIN nodes PROVE n \in On(i) <=> n = Header
    BY <1>2 DEF On
  <2>1. CASE n = Header
    BY <1>0, <1>5, <1>6, <2>1 DEF On
  <2>2. CASE n # Header
    <3>1. nodes[n].forward = <<>> /\ Len(<<>>) = 0
      BY <1>1, <1>2, <2>2
    <3> QED  BY <1>0, <2>2, <3>1 DEF On
  <2> QED  BY <2>1, <2>2
<1>8. TypeOK
  <2>1. \A n \in DOMAIN nodes :
           /\ nodes[n] = [key |-> nodes[n].key, score |-> nodes[n].score,
                          forward |-> nodes[n].forward]
           /\ nodes[n].forward \in Seq(Addresses \cup {Nil})
    <3> SUFFICES ASSUME NEW n \in DOMAIN nodes
                 PROVE  /\ nodes[n] = [key |-> nodes[n].key, score |-> nodes[n].score,
                                       forward |-> nodes[n].forward]
                        /\ nodes[n].forward \in Seq(Addresses \cup {Nil})
      OBVIOUS
    <3>1. CASE n = Header
      <4>1. nodes[n].forward = q /\ nodes[n].key = 0 /\ nodes[n].score = 0
        BY <1>6, <3>1
      <4> QED  BY <1>5, <1>6, <3>1, <4>1
    <3>2. CASE n # Header
      <4>1. nodes[n] = [key |-> 0, score |-> 0, forward |-> <<>>]
        BY <1>1, <1>2, <3>2
      <4>2. <<>> \in Seq(Addresses \cup {Nil})
        OBVIOUS
      <4> QED  BY <4>1, <4>2
    <3> QED  BY <3>1, <3>2
  <2>2. /\ held \in {"nothing", "sorted set", "other"}
        /\ level \in Levels /\ length \in Nat
    <3>1. held \in {"nothing", "sorted set", "other"}
      BY DEF Empty
    <3>2. 1 \in Levels /\ 0 \in Nat
      BY <1>0
    <3> QED  BY <1>0, <3>1, <3>2
  <2> QED  BY <1>2, <1>3, <2>1, <2>2 DEF TypeOK
<1>9. LinksExact
  <2> SUFFICES ASSUME NEW i \in Levels PROVE NextOn(i, Header, Nil)
    BY <1>5, <1>6, <1>7 DEF LinksExact
  <2>1. ~ Before(Header, Header)
    BY DEF Before
  <2> QED  BY <1>7, <2>1 DEF NextOn
<1>10. InOrder /\ Heights /\ Counted
  BY <1>0, <1>3, <1>5, <1>6 DEF InOrder, Heights, Counted
<1> QED  BY <1>3, <1>8, <1>9, <1>10 DEF IInv

(***************************************************************************)
(* Every step keeps the invariant.                                         *)
(***************************************************************************)
LEMMA NextKeeps ==
    ASSUME NoNaN, IInv, [Next]_vars
    PROVE  IInv'
<1>0. /\ TypeOK /\ InOrder /\ LinksExact /\ Heights
  BY DEF IInv
<1>1. CASE UNCHANGED vars
  <2>1. held' = held /\ nodes' = nodes /\ level' = level /\ length' = length
    BY <1>1 DEF vars
  <2>2. InUse' = InUse /\ TypeOK'
    BY <1>0, <2>1 DEF InUse, Free, TypeOK
  <2>3. InOrder' /\ Heights' /\ Counted'
    BY <1>0, <2>1, <2>2 DEF InOrder, Heights, Counted, IInv, Before, Precedes
  <2>4. LinksExact'
    BY <1>0, <2>1 DEF LinksExact, NextOn, On, Before, Precedes
  <2> QED  BY <2>2, <2>3, <2>4 DEF IInv
<1>2. ASSUME NEW key \in Members, NEW score \in Scores, ZAdd(key, score) PROVE IInv'
  BY <1>0, <1>2, ZAddDoes, RescoringKeeps, InsertionKeeps
<1>3. ASSUME NEW key \in Members, ZRem(key) PROVE IInv'
  BY <1>0, <1>3, ZRemRemoves, RemovalKeeps
<1>4. Empty' => IInv'
  BY EmptyList, PTL
<1>5. CASE Del
  BY <1>4, <1>5 DEF Del, Forget, Empty, NewSortedSet, Addresses
<1>6. CASE Overwrite
  BY <1>4, <1>6 DEF Overwrite, Forget, Empty, NewSortedSet, Addresses
<1> QED  BY <1>1, <1>2, <1>3, <1>5, <1>6 DEF Next

(***************************************************************************)
(* The inductive invariant holds, whatever commands come: the order, the   *)
(* links of every level, the height and the length of the list fit each    *)
(* other.                                                                  *)
(***************************************************************************)
THEOREM Invariance ==
    ASSUME NoNaN
    PROVE  Spec => []IInv
<1>1. Init => IInv
  <2>1. Init => Empty
    BY DEF Init, Empty
  <2> QED  BY <2>1, EmptyList
<1>2. IInv /\ [Next]_vars => IInv'
  BY NextKeeps
<1> QED  BY <1>1, <1>2, PTL DEF Spec
-----------------------------------------------------------------------------
(***************************************************************************)
(* What a walk from a node lists: all that follow it, in their order.      *)
(***************************************************************************)
Lists(i, n, s) ==
    /\ s \in Seq(InUse)
    /\ ToSet(s) = {k \in On(i) : Before(n, k)}
    /\ \A a, b \in 1 .. Len(s) : a < b => Before(s[a], s[b])

(***************************************************************************)
(* A node in front of those that follow it.                                *)
(***************************************************************************)
LEMMA ListsOneMore ==
    ASSUME NoNaN, TypeOK, InOrder, LinksExact, Heights,
           NEW i \in Levels, NEW n \in On(i), NEW next \in On(i), NextOn(i, n, next),
           NEW s, Lists(i, next, s)
    PROVE  Lists(i, n, <<next>> \o s)
<1>1. On(i) \subseteq All /\ Header \notin InUse /\ Nil \notin InUse
  BY Facts, Places
<1>2. /\ next \in InUse /\ Before(n, next)
      /\ \A k \in On(i) : Before(n, k) => k = next \/ Before(next, k)
  <2>1. next \in All /\ next # Nil
    BY <1>1, Places DEF All
  <2> QED  BY <2>1 DEF NextOn, Before, All
<1>3. s \in Seq(InUse) /\ Len(s) \in Nat /\ \A a \in 1 .. Len(s) : s[a] \in InUse
  BY DEF Lists
<1> DEFINE q == <<next>> \o s
<1>4. /\ q \in Seq(InUse) /\ Len(q) = Len(s) + 1 /\ q[1] = next
      /\ \A a \in 2 .. Len(s) + 1 : q[a] = s[a - 1]
  BY <1>2, <1>3
<1> HIDE DEF q
<1>5. ToSet(s) = {s[a] : a \in 1 .. Len(s)} /\ ToSet(q) = {q[a] : a \in 1 .. Len(q)}
  <2>1. DOMAIN s = 1 .. Len(s) /\ DOMAIN q = 1 .. Len(q)
    BY <1>3, <1>4
  <2> QED  BY ONLY <2>1 DEF ToSet
<1>6. ToSet(q) = ToSet(s) \cup {next}
  <2>1. \A x \in ToSet(q) : x \in ToSet(s) \cup {next}
    <3> SUFFICES ASSUME NEW a \in 1 .. Len(q) PROVE q[a] \in ToSet(s) \cup {next}
      BY <1>5
    <3>1. CASE a = 1
      BY <1>4, <3>1
    <3>2. CASE a # 1
      <4>1. q[a] = s[a - 1] /\ a - 1 \in 1 .. Len(s)
        BY <1>3, <1>4, <3>2
      <4> QED  BY <1>5, <4>1
    <3> QED  BY <3>1, <3>2
  <2>2. \A a \in 1 .. Len(s) : s[a] \in ToSet(q)
    <3> SUFFICES ASSUME NEW a \in 1 .. Len(s) PROVE s[a] \in ToSet(q)
      OBVIOUS
    <3>1. a + 1 \in 2 .. Len(s) + 1 /\ a + 1 \in 1 .. Len(q) /\ a + 1 - 1 = a
      BY <1>3, <1>4
    <3>2. q[a + 1] = s[a]
      BY <1>4, <3>1
    <3> QED  BY <1>5, <3>1, <3>2
  <2>3. next \in ToSet(q)
    <3>1. 1 \in 1 .. Len(q)
      BY <1>3, <1>4
    <3> QED  BY <1>4, <1>5, <3>1
  <2> QED  BY <1>5, <2>1, <2>2, <2>3
<1>7. ToSet(q) = {k \in On(i) : Before(n, k)}
  <2>1. n \in All /\ next \in All /\ On(i) \subseteq All
    BY <1>1
  <2>2. \A k \in On(i) : Before(next, k) => Before(n, k)
    BY <1>2, <2>1, Order
  <2>3. ToSet(s) = {k \in On(i) : Before(next, k)}
    BY DEF Lists
  <2> QED  BY <1>2, <1>6, <2>2, <2>3
<1>8. \A a \in 1 .. Len(s) : Before(next, s[a])
  BY <1>5 DEF Lists
<1>9. ASSUME NEW a \in 1 .. Len(q), NEW b \in 1 .. Len(q), a < b PROVE Before(q[a], q[b])
  <2>1. b \in 2 .. Len(s) + 1 /\ b - 1 \in 1 .. Len(s) /\ q[b] = s[b - 1]
    BY <1>3, <1>4, <1>9
  <2>2. CASE a = 1
    BY <1>4, <1>8, <2>1, <2>2
  <2>3. CASE a # 1
    <3>1. a - 1 \in 1 .. Len(s) /\ q[a] = s[a - 1] /\ a - 1 < b - 1
      BY <1>3, <1>4, <1>9, <2>3
    <3> QED  BY <2>1, <3>1 DEF Lists
  <2> QED  BY <2>2, <2>3
<1>10. Lists(i, n, q)
  BY <1>4, <1>7, <1>9 DEF Lists
<1> QED  BY <1>10 DEF q

(***************************************************************************)
(* The chain of a level is such a list, from the header on.                *)
(***************************************************************************)
LEMMA ChainLists ==
    ASSUME NoNaN, TypeOK, InOrder, LinksExact, Heights, NEW i \in Levels
    PROVE  Lists(i, Header, Chain(i))
<1> DEFINE Equation(f) == f = [n \in On(i) |-> IF nodes[n].forward[i] = Nil THEN <<>>
                                   ELSE <<nodes[n].forward[i]>> \o f[nodes[n].forward[i]]]
           from == CHOOSE f : Equation(f)
<1>1. Chain(i) = from[Header]
  BY DEF Chain
<1>2. On(i) \subseteq All /\ Header \in On(i) /\ Nil \notin On(i) /\ Nil \notin Addresses
  BY Facts, Places DEF All
<1>3. \A n \in On(i) : /\ NextOn(i, n, nodes[n].forward[i])
                       /\ nodes[n].forward[i] = Nil \/ nodes[n].forward[i] \in On(i)
                       /\ nodes[n].forward[i] \in Addresses \cup {Nil}
  <2>1. \A n \in On(i) : NextOn(i, n, nodes[n].forward[i])
    BY DEF LinksExact
  <2>2. \A n \in On(i) : n # Header => n \in Addresses
    BY <1>2, Places DEF All
  <2> QED  BY <2>1, <2>2 DEF NextOn, Before
<1>4. Equation(from)
  <2> PICK V : V = Seq(Addresses \cup {Nil})
    OBVIOUS
  <2> DEFINE base == [n \in On(i) |-> <<>>]
             step == [p \in On(i) \X V |-> <<nodes[p[1]].forward[i]>> \o p[2]]
  <2>1. PICK f \in [On(i) -> V] : Walk(i, Addresses, f, base, step)
    <3>1. base \in [On(i) -> V]
      OBVIOUS
    <3>2. step \in [On(i) \X V -> V]
      <4> SUFFICES ASSUME NEW n \in On(i), NEW v \in V
                   PROVE  <<nodes[n].forward[i]>> \o v \in V
        OBVIOUS
      <4> PICK x \in Addresses \cup {Nil} : x = nodes[n].forward[i]
        BY <1>3
      <4> QED  OBVIOUS
    <3> HIDE DEF base, step
    <3> QED  BY <1>2, <3>1, <3>2, WalkExists
  <2>2. ASSUME NEW n \in On(i)
        PROVE  f[n] = IF nodes[n].forward[i] = Nil THEN <<>>
                      ELSE <<nodes[n].forward[i]>> \o f[nodes[n].forward[i]]
    <3>1. f[n] = IF nodes[n].forward[i] \in Addresses
                 THEN step[<<n, f[nodes[n].forward[i]]>>] ELSE base[n]
      <4> HIDE DEF base, step
      <4> QED  BY <2>1 DEF Walk
    <3>2. CASE nodes[n].forward[i] = Nil
      <4>1. f[n] = base[n]
        <5> HIDE DEF base, step
        <5> QED  BY <1>2, <3>1, <3>2
      <4> QED  BY <3>2, <4>1
    <3>3. CASE nodes[n].forward[i] # Nil
      <4>1. f[n] = step[<<n, f[nodes[n].forward[i]]>>] /\ f[nodes[n].forward[i]] \in V
        <5> HIDE DEF base, step
        <5> QED  BY <1>3, <2>1, <3>1, <3>3
      <4>2. step[<<n, f[nodes[n].forward[i]]>>] =
               <<nodes[n].forward[i]>> \o f[nodes[n].forward[i]]
        BY <4>1
      <4> HIDE DEF step
      <4> QED  BY <3>3, <4>1, <4>2
    <3> QED  BY <3>2, <3>3
  <2>3. f = [n \in On(i) |-> f[n]]
    OBVIOUS
  <2>4. Equation(f)
    BY <2>2, <2>3
  <2> HIDE DEF Equation
  <2> QED  BY <2>4
<1> HIDE DEF from
<1>5. \A n \in On(i) : from[n] = IF nodes[n].forward[i] = Nil THEN <<>>
                                 ELSE <<nodes[n].forward[i]>> \o from[nodes[n].forward[i]]
  BY <1>4
<1>6. \A n \in On(i) : Lists(i, n, from[n])
  <2> DEFINE S == {n \in On(i) : ~ Lists(i, n, from[n])}
  <2> SUFFICES ASSUME S # {} PROVE FALSE
    OBVIOUS
  <2>1. PICK n \in S : \A m \in S : m = n \/ Before(m, n)
    <3>1. S \in SUBSET All
      BY <1>2
    <3> HIDE DEF S
    <3> QED  BY <3>1, LastNode
  <2>2. PICK next : next = nodes[n].forward[i]
    OBVIOUS
  <2>3. n \in On(i) /\ n \in All /\ NextOn(i, n, next)
    BY <1>2, <1>3, <2>2
  <2>4. CASE next = Nil
    <3>1. from[n] = <<>>
      BY <1>5, <2>2, <2>3, <2>4
    <3>2. \A k \in On(i) : ~ Before(n, k)
      BY <2>3, <2>4 DEF NextOn
    <3>3. <<>> \in Seq(InUse) /\ Len(<<>>) = 0 /\ ToSet(<<>>) = {}
      BY DEF ToSet
    <3>4. Lists(i, n, <<>>)
      BY <3>2, <3>3 DEF Lists
    <3> QED  BY <3>1, <3>4
  <2>5. CASE next # Nil
    <3>1. next \in On(i) /\ next \in All /\ Before(n, next)
      BY <1>2, <2>3, <2>5 DEF NextOn
    <3>2. ~ Before(next, n) /\ next # n
      BY <2>3, <3>1, Order
    <3>3. Lists(i, next, from[next])
      BY <2>1, <3>1, <3>2
    <3>4. from[n] = <<next>> \o from[next]
      BY <1>5, <2>2, <2>3, <2>5
    <3>5. Lists(i, n, <<next>> \o from[next])
      BY <2>3, <3>1, <3>3, ListsOneMore
    <3> QED  BY <3>4, <3>5
  <2> QED  BY <2>4, <2>5
<1> QED  BY <1>1, <1>2, <1>6

(***************************************************************************)
(* So every level is walked as it should be, the lowest one over all nodes *)
(* of the list, and the length is right.                                   *)
(***************************************************************************)
LEMMA ChainExact ==
    ASSUME NoNaN, IInv
    PROVE  /\ \A i \in Levels : Walks(i)
           /\ Used = InUse
           /\ Chain(1) \in Seq(InUse) /\ Len(Chain(1)) = length
<1>0. TypeOK /\ InOrder /\ LinksExact /\ Heights
  BY DEF IInv
<1>1. \A i \in Levels : Lists(i, Header, Chain(i))
  BY <1>0, ChainLists
<1>2. ASSUME NEW i \in Levels PROVE Walks(i)
  <2>1. Lists(i, Header, Chain(i))
    BY <1>1
  <2>2. {k \in On(i) : Before(Header, k)} = On(i) \ {Header}
    BY <1>0, Facts, Order DEF All
  <2>3. DOMAIN Chain(i) = 1 .. Len(Chain(i))
    BY <2>1 DEF Lists
  <2> QED  BY <2>1, <2>2, <2>3 DEF Lists, Walks
<1>3. 1 \in Levels /\ On(1) \ {Header} = InUse
  <2>1. \A n \in InUse : n \in DOMAIN nodes /\ Len(nodes[n].forward) \in Levels /\ n # Header
    BY <1>0, Facts, Places DEF All
  <2>2. 1 \in Levels /\ \A l \in Levels : 1 <= l
    BY SortedSetAssumption DEF Levels
  <2>3. InUse \subseteq On(1)
    BY <2>1, <2>2 DEF On
  <2> QED  BY <1>0, <2>1, <2>2, <2>3, Facts DEF All
<1>4. Used = InUse
  BY <1>2, <1>3 DEF Used, Walks
<1> PICK s : s = Chain(1)
  OBVIOUS
<1>5. /\ s \in Seq(InUse) /\ ToSet(s) = InUse /\ Len(s) \in Nat
      /\ \A a, b \in 1 .. Len(s) : a < b => Before(s[a], s[b])
  BY <1>1, <1>3, <1>4 DEF Lists, Used
<1>6. Len(s) = length
  <2>2. s \in Bijection(1 .. Len(s), InUse)
    <3>1. s \in [1 .. Len(s) -> InUse]
      BY <1>5
    <3>2. \A a, b \in 1 .. Len(s) : a # b => s[a] # s[b]
      <4> SUFFICES ASSUME NEW a \in 1 .. Len(s), NEW b \in 1 .. Len(s), a < b PROVE s[a] # s[b]
        BY <1>5
      <4>1. s[a] \in All /\ s[b] \in All /\ Before(s[a], s[b])
        BY <1>5 DEF All
      <4> QED  BY <1>0, <4>1, Order
    <3>3. \A x \in InUse : \E a \in 1 .. Len(s) : s[a] = x
      <4>1. ToSet(s) = {s[a] : a \in 1 .. Len(s)}
        BY <1>5 DEF ToSet
      <4> QED  BY <1>5, <4>1
    <3> QED  BY <3>1, <3>2, <3>3 DEF Bijection, Injection, Surjection, IsInjective
  <2>3. Cardinality(InUse) = Len(s)
    BY <1>5, <2>2, FS_CountingElements DEF ExistsBijection
  <2> QED  BY <2>3 DEF IInv, Counted
<1> QED  BY <1>2, <1>4, <1>5, <1>6

(***************************************************************************)
(* In every state, so that it can be said of the next one.                 *)
(***************************************************************************)
LEMMA UsedIsInUse == IInv /\ NoNaN => Used = InUse
BY ChainExact

(***************************************************************************)
(* The list is well formed after any sequence of commands.                 *)
(***************************************************************************)
THEOREM ListWellFormed ==
    ASSUME NoNaN
    PROVE  Spec => []WellFormed
<1>1. IInv => WellFormed
  BY ChainExact DEF WellFormed
<1> QED  BY <1>1, Invariance, PTL

(***************************************************************************)
(* A command changes the nodes of no member but its own: those of all      *)
(* others keep their scores, and none is lost.                             *)
(***************************************************************************)
LEMMA StepKeepsOthers ==
    ASSUME NoNaN, IInv, IInv', NEW key \in Members, NEW other \in Members \ {key},
           ZRem(key) \/ \E score \in Scores : ZAdd(key, score)
    PROVE  EntriesOf(other)' = EntriesOf(other)
<1>0. TypeOK /\ InOrder /\ LinksExact /\ Heights
  BY DEF IInv
<1>1. Used = InUse
  BY ChainExact
<1>2. Used' = InUse'
  <2>1. (IInv /\ NoNaN => Used = InUse)'
    BY UsedIsInUse, PTL
  <2> QED  BY <2>1 DEF NoNaN
<1>3. CASE ZRem(key)
  <2>1. PICK t \in InUse : nodes[t].key = key /\ Removal(t)
    BY <1>0, <1>3, ZRemRemoves
  <2>2. /\ InUse' = InUse \ {t}
        /\ \A n \in InUse \ {t} : /\ nodes'[n].key = nodes[n].key
                                  /\ nodes'[n].score = nodes[n].score
    BY <2>1, RemovalKeeps
  <2> QED  BY <1>1, <1>2, <2>1, <2>2 DEF EntriesOf
<1>4. ASSUME NEW score \in Scores, ZAdd(key, score) PROVE EntriesOf(other)' = EntriesOf(other)
  <2>1. CASE \E t : Rescoring(t, key, score)
    <3>1. PICK t : Rescoring(t, key, score)
      BY <2>1
    <3>2. /\ InUse' = InUse /\ nodes[t].key = key
          /\ \A n \in InUse : /\ nodes'[n].key = nodes[n].key
                              /\ n # t => nodes'[n].score = nodes[n].score
      BY <3>1, RescoringKeeps DEF Rescoring
    <3> QED  BY <1>1, <1>2, <3>2 DEF EntriesOf
  <2>2. CASE \E n, height, update : Insertion(n, key, score, height, update)
    <3>1. PICK n, height, update : Insertion(n, key, score, height, update)
      BY <2>2
    <3>2. /\ InUse' = InUse \cup {n} /\ n \notin InUse /\ nodes'[n].key = key
          /\ \A x \in InUse : /\ nodes'[x].key = nodes[x].key
                              /\ nodes'[x].score = nodes[x].score
      BY <3>1, InsertionKeeps
    <3> QED  BY <1>1, <1>2, <3>2 DEF EntriesOf
  <2> QED  BY <1>0, <1>4, <2>1, <2>2, ZAddDoes
<1> QED  BY <1>3, <1>4

(***************************************************************************)
(* ZADD and ZREM change no entry of another member (zset.go:57-134).       *)
(***************************************************************************)
THEOREM OthersAreKept ==
    ASSUME NoNaN
    PROVE  Spec => OthersKeep
<1>1. IInv /\ IInv' /\ [Next]_vars =>
          [\A key \in Members :
              ZRem(key) \/ (\E score \in Scores : ZAdd(key, score)) =>
                  \A other \in Members \ {key} : EntriesOf(other)' = EntriesOf(other)]_vars
  BY StepKeepsOthers
<1> QED  BY <1>1, Invariance, PTL DEF Spec, OthersKeep
-----------------------------------------------------------------------------
(***************************************************************************)
(* The least of two numbers, and of some numbers.                          *)
(***************************************************************************)
LEMMA MinOfTwo ==
    ASSUME NEW a \in Int, NEW b \in Int
    PROVE  Min({a, b}) = IF a <= b THEN a ELSE b
<1> DEFINE m == IF a <= b THEN a ELSE b
<1>1. m \in {a, b} /\ \A x \in {a, b} : m <= x
  OBVIOUS
<1>2. Min({a, b}) \in {a, b} /\ \A x \in {a, b} : Min({a, b}) <= x
  <2> HIDE DEF m
  <2> QED  BY <1>1 DEF Min
<1> QED  BY <1>2

(***************************************************************************)
(* The least of some numbers is one of them.                               *)
(***************************************************************************)
LEMMA MinOfSome ==
    ASSUME NEW S \in SUBSET Nat, S # {}
    PROVE  Min(S) \in S /\ \A x \in S : Min(S) <= x
BY LeastNat DEF Min

(***************************************************************************)
(* A range by positions is a slice of the list.                            *)
(***************************************************************************)
LEMMA SliceExact ==
    ASSUME NoNaN, IInv
    PROVE  RangeIsSlice
<1> PICK s : s = Chain(1)
  OBVIOUS
<1>1. s \in Seq(InUse) /\ Len(s) = length /\ Len(s) \in Nat
  BY ChainExact
<1> SUFFICES ASSUME NEW start \in -1..(Len(s) + 1), NEW stop \in -1..(Len(s) + 1)
             PROVE  ZRange(start, stop) =
                       IF start >= 0
                       THEN KeysOf(SubSeq(s, start + 1, Min({stop + 1, Len(s)})))
                       ELSE <<>>
  BY DEF RangeIsSlice
<1>2. start \in Int /\ stop \in Int
  BY <1>1
<1>3. ZRange(start, stop) =
         IF start < 0 \/ stop < 0 \/ start >= length \/ start > stop THEN <<>>
         ELSE KeysOf(SubSeq(s, start + 1, Min({stop + 1, Len(s)})))
  BY DEF ZRange
<1>4. ASSUME start >= 0, stop < 0 \/ start >= length \/ start > stop
      PROVE  KeysOf(SubSeq(s, start + 1, Min({stop + 1, Len(s)}))) = <<>>
  <2>1. PICK k \in Int : k = Min({stop + 1, Len(s)}) /\ k <= start
    <3>1. Min({stop + 1, Len(s)}) = IF stop + 1 <= Len(s) THEN stop + 1 ELSE Len(s)
      BY <1>1, <1>2, MinOfTwo
    <3> QED  BY <1>1, <1>2, <1>4, <3>1
  <2>2. SubSeq(s, start + 1, k) = <<>>
    BY <1>1, <1>2, <2>1
  <2>3. KeysOf(<<>>) = <<>>
    BY DEF KeysOf
  <2> QED  BY <2>1, <2>2, <2>3
<1> QED  BY <1>2, <1>3, <1>4

(***************************************************************************)
(* UpTo is a front of the sequence: what is to pass, up to the first that  *)
(* is not.                                                                 *)
(***************************************************************************)
LEMMA UpToFront ==
    ASSUME NEW T, NEW s \in Seq(T), NEW toPass
    PROVE  \E k \in 0 .. Len(s) : /\ UpTo(s, toPass) = SubSeq(s, 1, k)
                                  /\ Len(UpTo(s, toPass)) = k
                                  /\ \A i \in 1 .. k : s[i] \in toPass
                                  /\ k < Len(s) => s[k + 1] \notin toPass
<1> DEFINE ends == {i \in DOMAIN s : s[i] \notin toPass}
<1>1. Len(s) \in Nat /\ DOMAIN s = 1 .. Len(s)
  OBVIOUS
<1>2. UpTo(s, toPass) = IF ends = {} THEN s ELSE SubSeq(s, 1, Min(ends) - 1)
  BY Zenon DEF UpTo
<1>3. CASE ends = {}
  <2>1. UpTo(s, toPass) = s /\ s = SubSeq(s, 1, Len(s))
    BY <1>2, <1>3
  <2>2. \A i \in 1 .. Len(s) : s[i] \in toPass
    BY <1>1, <1>3
  <2>3. Len(s) \in 0 .. Len(s) /\ ~ Len(s) < Len(s)
    BY <1>1
  <2> QED  BY <2>1, <2>2, <2>3
<1>4. CASE ends # {}
  <2>1. Min(ends) \in ends /\ \A i \in ends : Min(ends) <= i
    <3>1. ends \in SUBSET Nat
      BY <1>1
    <3> HIDE DEF ends
    <3> QED  BY <1>4, <3>1, MinOfSome
  <2>2. PICK m : m = Min(ends)
    OBVIOUS
  <2>3. m \in 1 .. Len(s) /\ s[m] \notin toPass /\ \A i \in 1 .. m - 1 : s[i] \in toPass
    <3>1. m \in 1 .. Len(s) /\ s[m] \notin toPass
      BY <1>1, <2>1, <2>2
    <3>2. ASSUME NEW i \in 1 .. m - 1 PROVE s[i] \in toPass
      <4>1. i \in 1 .. Len(s) /\ ~ m <= i
        BY <1>1, <3>1
      <4> QED  BY <1>1, <2>1, <2>2, <4>1
    <3> QED  BY <3>1, <3>2
  <2>4. UpTo(s, toPass) = SubSeq(s, 1, m - 1)
    <3> HIDE DEF ends
    <3> QED  BY <1>2, <1>4, <2>2
  <2>5. m - 1 \in 0 .. Len(s) /\ m - 1 + 1 = m
    BY <1>1, <2>3
  <2>6. Len(SubSeq(s, 1, m - 1)) = m - 1
    <3>1. \A i \in 1 .. m - 1 : s[i] \in T
      BY <1>1, <2>5
    <3>2. 1 \in Int /\ m - 1 \in Int /\ (IF 1 <= m - 1 THEN m - 1 - 1 + 1 ELSE 0) = m - 1
      BY <1>1, <2>5
    <3> QED  BY <3>1, <3>2, SubSeqProperties
  <2> HIDE DEF ends
  <2> QED  BY <2>3, <2>4, <2>5, <2>6
<1> QED  BY <1>3, <1>4

(***************************************************************************)
(* A range by scores has all nodes in it and no other.                     *)
(***************************************************************************)
LEMMA ScoresExact ==
    ASSUME NoNaN, IInv
    PROVE  ByScoreExact
<1> PICK s : s = Chain(1)
  OBVIOUS
<1>0. NaN \notin Int /\ \A n \in InUse : /\ nodes[n].score \in Int /\ nodes[n].key \in Nat
                                         /\ n \in Addresses /\ n # Header
  BY Facts, Places, SortedSetAssumption DEF IInv
<1>1. /\ s \in Seq(InUse) /\ Len(s) \in Nat /\ DOMAIN s = 1 .. Len(s)
      /\ \A i \in 1 .. Len(s) : s[i] \in InUse
      /\ \A a, b \in 1 .. Len(s) : a < b => Before(s[a], s[b])
  <2>1. s \in Seq(InUse)
    BY ChainExact
  <2>2. 1 \in Levels => Walks(1)
    BY ChainExact
  <2>3. 1 \in Levels
    BY SortedSetAssumption DEF Levels
  <2> QED  BY <2>1, <2>2, <2>3 DEF Walks
<1>2. ASSUME NEW a \in 1 .. Len(s), NEW b \in 1 .. Len(s), a <= b
      PROVE  nodes[s[a]].score <= nodes[s[b]].score
  <2>1. a = b \/ Before(s[a], s[b])
    BY <1>1, <1>2
  <2>2. s[a] \in InUse /\ s[b] \in InUse
    BY <1>1
  <2> QED  BY <1>0, <2>1, <2>2 DEF Before, Precedes, Less, Equal
<1> SUFFICES ASSUME NEW min \in Scores \ {NaN}, NEW max \in Scores \ {NaN}
             PROVE  \E first \in 1..(Len(s) + 1), last \in 0..Len(s) :
                       /\ {i \in DOMAIN s : ~ Below(s[i], min) /\ UpToMax(s[i], max)}
                             = first..last
                       /\ ZRangeByScore(min, max) = KeysOf(SubSeq(s, first, last))
  BY DEF ByScoreExact
<1>3. min \in Int /\ max \in Int
  BY SortedSetAssumption
<1>4. \A i \in 1 .. Len(s) : /\ Below(s[i], min) <=> nodes[s[i]].score < min
                             /\ UpToMax(s[i], max) <=> nodes[s[i]].score <= max
                             /\ nodes[s[i]].score \in Int /\ s[i] \in Addresses
  BY <1>0, <1>1, <1>3 DEF Below, UpToMax, Less, Equal
<1> DEFINE low == {n \in Addresses : Below(n, min)}
           within == {n \in Addresses : UpToMax(n, max)}
<1>5. PICK k \in 0 .. Len(s) : /\ Len(UpTo(s, low)) = k
                               /\ \A i \in 1 .. k : s[i] \in low
                               /\ k < Len(s) => s[k + 1] \notin low
  <2> HIDE DEF low
  <2> QED  BY <1>1, UpToFront
<1>6. PICK rest \in Seq(InUse) : /\ rest = SubSeq(s, k + 1, Len(s))
                                 /\ Len(rest) = Len(s) - k
                                 /\ \A i \in 1 .. Len(rest) : rest[i] = s[k + i]
  <2>1. k + 1 \in 1 .. Len(s) + 1 /\ Len(s) \in k .. Len(s) /\ k \in Int
    BY <1>1, <1>5
  <2>2. /\ SubSeq(s, k + 1, Len(s)) \in Seq(InUse)
        /\ Len(SubSeq(s, k + 1, Len(s))) = Len(s) - k
        /\ \A i \in 1 .. Len(s) - k : SubSeq(s, k + 1, Len(s))[i] = s[k + i]
    BY <1>1, <2>1, SubSeqProperties
  <2> QED  BY <2>2
<1>7. PICK l \in 0 .. Len(rest) : /\ UpTo(rest, within) = SubSeq(rest, 1, l)
                                  /\ \A i \in 1 .. l : rest[i] \in within
                                  /\ l < Len(rest) => rest[l + 1] \notin within
  <2> HIDE DEF within
  <2> QED  BY <1>6, UpToFront
<1>8. ZRangeByScore(min, max) = KeysOf(SubSeq(rest, 1, l))
  <2>1. ZRangeByScore(min, max) = KeysOf(UpTo(SubSeq(s, Len(UpTo(s, low)) + 1, Len(s)), within))
    BY Zenon DEF ZRangeByScore
  <2> HIDE DEF low, within
  <2> QED  BY <1>5, <1>6, <1>7, <2>1
<1>9. SubSeq(rest, 1, l) = SubSeq(s, k + 1, k + l)
  BY <1>1, <1>5, <1>6, <1>7
<1>10. ASSUME NEW i \in 1 .. Len(s)
       PROVE  (~ Below(s[i], min) /\ UpToMax(s[i], max)) <=> i \in k + 1 .. k + l
  <2>1. CASE i <= k
    <3>1. s[i] \in low
      BY <1>5, <2>1
    <3> QED  BY <1>5, <2>1, <3>1
  <2>2. CASE i > k
    <3>1. k + 1 \in 1 .. Len(s) /\ ~ Below(s[k + 1], min)
      BY <1>1, <1>4, <1>5, <2>2
    <3>2. ~ Below(s[i], min)
      <4>1. nodes[s[k + 1]].score <= nodes[s[i]].score
        BY <1>2, <1>5, <2>2, <3>1
      <4> QED  BY <1>3, <1>4, <3>1, <4>1
    <3>3. CASE i <= k + l
      <4>1. i - k \in 1 .. l /\ i - k \in 1 .. Len(rest) /\ rest[i - k] = s[i]
        <5>1. k \in Nat /\ Len(rest) \in Nat /\ l \in 0 .. Len(rest) /\ i \in Nat
          BY <1>1, <1>5, <1>7
        <5>2. i - k \in 1 .. l /\ i - k \in 1 .. Len(rest) /\ k + (i - k) = i
          BY <2>2, <3>3, <5>1
        <5>3. rest[i - k] = s[k + (i - k)]
          BY <1>6, <5>2
        <5> QED  BY <5>2, <5>3
      <4>2. s[i] \in within
        BY <1>7, <4>1
      <4> QED  BY <1>5, <1>7, <2>2, <3>2, <3>3, <4>2
    <3>4. CASE i > k + l
      <4>1. /\ l + 1 \in 1 .. Len(rest) /\ l < Len(rest)
            /\ k + l + 1 \in 1 .. Len(s) /\ k + l + 1 <= i
            /\ rest[l + 1] = s[k + (l + 1)] /\ k + (l + 1) = k + l + 1
        BY <1>1, <1>5, <1>6, <1>7, <3>4
      <4>2. ~ UpToMax(s[k + l + 1], max)
        BY <1>4, <1>7, <4>1
      <4>3. nodes[s[k + l + 1]].score <= nodes[s[i]].score
        BY <1>2, <4>1
      <4>4. ~ UpToMax(s[i], max)
        <5>1. ~ (nodes[s[k + l + 1]].score <= max) /\ nodes[s[k + l + 1]].score \in Int
          BY <1>4, <4>1, <4>2
        <5>2. i \in 1 .. Len(s) /\ nodes[s[i]].score \in Int
          BY <1>4
        <5>3. ~ (nodes[s[i]].score <= max)
          BY ONLY <1>3, <4>3, <5>1, <5>2
        <5> QED  BY <1>4, <5>2, <5>3
      <4> QED  BY <1>5, <1>7, <3>4, <4>4
    <3> QED  BY <1>5, <1>7, <3>3, <3>4
  <2> QED  BY <1>5, <2>1, <2>2
<1>11. {i \in DOMAIN s : ~ Below(s[i], min) /\ UpToMax(s[i], max)} = k + 1 .. k + l
  <2>1. k + 1 .. k + l \subseteq 1 .. Len(s)
    BY <1>5, <1>6, <1>7
  <2> QED  BY <1>1, <1>10, <2>1
<1>12. k + 1 \in 1 .. (Len(s) + 1) /\ k + l \in 0 .. Len(s)
  BY <1>5, <1>6, <1>7
<1> QED  BY <1>8, <1>9, <1>11, <1>12
-----------------------------------------------------------------------------
(***************************************************************************)
(* The position of every node in the list, the header's being 0.           *)
(***************************************************************************)
Positions(pos) ==
    /\ pos \in [All -> Nat] /\ pos[Header] = 0
    /\ \A m, n \in All : Before(m, n) => pos[m] < pos[n]
    /\ \A m, n \in On(1) : nodes[m].forward[1] = n => pos[n] = pos[m] + 1
    /\ \A i \in 1 .. Len(Chain(1)) : pos[Chain(1)[i]] = i

(***************************************************************************)
(* Every node has one, the place at which the walk of the lowest level     *)
(* meets it.                                                               *)
(***************************************************************************)
LEMMA PositionsExist ==
    ASSUME NoNaN, IInv
    PROVE  \E pos : Positions(pos)
<1>0. TypeOK /\ InOrder /\ LinksExact /\ Heights
  BY DEF IInv
<1> PICK s : s = Chain(1)
  OBVIOUS
<1>1. /\ s \in Seq(InUse) /\ Len(s) \in Nat
      /\ \A a \in 1 .. Len(s) : s[a] \in InUse /\ s[a] \in All
      /\ \A a, b \in 1 .. Len(s) : a < b => Before(s[a], s[b])
      /\ \A n \in InUse : \E a \in 1 .. Len(s) : s[a] = n
  <2>1. s \in Seq(InUse) /\ Used = InUse
    BY ChainExact
  <2>2. 1 \in Levels /\ Walks(1)
    BY <1>0, ChainExact, Facts
  <2>3. ToSet(s) = {s[a] : a \in 1 .. Len(s)} /\ DOMAIN s = 1 .. Len(s)
    BY <2>1 DEF ToSet
  <2>4. ToSet(s) = InUse
    BY <2>1 DEF Used
  <2>5. \A a, b \in 1 .. Len(s) : a < b => Before(s[a], s[b])
    BY <2>2, <2>3 DEF Walks
  <2>6. Len(s) \in Nat /\ \A a \in 1 .. Len(s) : s[a] \in InUse
    BY <2>1
  <2> QED  BY <2>1, <2>3, <2>4, <2>5, <2>6 DEF All
<1>2. Header \notin InUse /\ Nil \notin All /\ On(1) \subseteq All /\ Header \in On(1)
  BY <1>0, Places, Facts DEF All
<1> DEFINE pos == [n \in All |-> IF n = Header THEN 0
                                 ELSE CHOOSE a \in 1 .. Len(s) : s[a] = n]
<1>3. \A n \in InUse : pos[n] \in 1 .. Len(s) /\ s[pos[n]] = n
  BY <1>1, <1>2 DEF All
<1>4. pos[Header] = 0 /\ pos \in [All -> Nat]
  <2>1. pos[Header] = 0
    BY DEF All
  <2>2. \A n \in All : pos[n] \in Nat
    <3> HIDE DEF pos
    <3> QED  BY <1>1, <1>3, <2>1 DEF All
  <2>3. pos = [n \in All |-> pos[n]]
    OBVIOUS
  <2> HIDE DEF pos
  <2> QED  BY <2>1, <2>2, <2>3
<1> HIDE DEF pos
<1>5. ASSUME NEW a \in 1 .. Len(s) PROVE pos[s[a]] = a
  <2>1. PICK b \in 1 .. Len(s) : b = pos[s[a]] /\ s[b] = s[a]
    BY <1>1, <1>3
  <2>2. ~ a < b /\ ~ b < a
    BY <1>0, <1>1, <2>1, Order
  <2> QED  BY <1>1, <2>1, <2>2
<1>6. ASSUME NEW m \in All, NEW n \in All, Before(m, n) PROVE pos[m] < pos[n]
  <2>1. n \in InUse
    BY <1>0, <1>6, Order DEF All
  <2>2. CASE m = Header
    BY <1>1, <1>3, <1>4, <2>1, <2>2
  <2>3. CASE m \in InUse
    <3>1. PICK a \in 1 .. Len(s), b \in 1 .. Len(s) :
             a = pos[m] /\ b = pos[n] /\ s[a] = m /\ s[b] = n
      BY <1>3, <2>1, <2>3
    <3>2. a # b /\ ~ b < a
      BY <1>0, <1>1, <1>6, <3>1, Order
    <3> QED  BY <1>1, <3>1, <3>2
  <2> QED  BY <2>2, <2>3 DEF All
<1>7. ASSUME NEW m \in On(1), NEW n \in On(1), nodes[m].forward[1] = n
      PROVE  pos[n] = pos[m] + 1
  <2>1. Before(m, n) /\ \A k \in On(1) : Before(m, k) => k = n \/ Before(n, k)
    <3>1. NextOn(1, m, n) /\ n # Nil
      BY <1>0, <1>2, <1>7, Facts DEF LinksExact
    <3> QED  BY <3>1 DEF NextOn
  <2>2. m \in All /\ n \in All /\ n \in InUse /\ pos[m] < pos[n]
    BY <1>0, <1>2, <1>6, <2>1, Order DEF All
  <2>3. PICK a \in Nat, b \in 1 .. Len(s) : a = pos[m] /\ b = pos[n] /\ s[b] = n /\ a < b
    BY <1>3, <1>4, <2>2
  <2> SUFFICES ASSUME a + 1 < b PROVE FALSE
    BY <1>1, <2>3
  <2>4. PICK c \in 1 .. Len(s) : c = a + 1 /\ c < b
    BY <1>1, <2>3
  <2>5. s[c] \in All /\ s[c] \in InUse /\ Before(s[c], n) /\ pos[s[c]] = c
    BY <1>1, <1>5, <2>3, <2>4
  <2>6. s[c] \in On(1)
    <3>1. \A x \in InUse : x \in DOMAIN nodes /\ Len(nodes[x].forward) \in Levels
      BY <1>0, Facts, Places DEF All
    <3>2. \A l \in Levels : 1 <= l
      BY DEF Levels
    <3> QED  BY <2>5, <3>1, <3>2 DEF On
  <2>7. Before(m, s[c])
    <3>1. ~ Before(s[c], m) /\ s[c] # m
      BY <1>6, <2>2, <2>3, <2>4, <2>5
    <3> QED  BY <1>0, <2>2, <2>5, <3>1, Order
  <2>8. s[c] = n \/ Before(n, s[c])
    BY <2>1, <2>6, <2>7
  <2> QED  BY <1>0, <2>2, <2>5, <2>8, Order
<1> QED  BY <1>4, <1>5, <1>6, <1>7 DEF Positions

(***************************************************************************)
(* The hops along a level are no more than the positions it leads on, and  *)
(* as many on the lowest level.                                            *)
(***************************************************************************)
LEMMA HopsAlong ==
    ASSUME NoNaN, TypeOK, InOrder, LinksExact, Heights,
           NEW i \in Levels, NEW toPass, Nil \notin toPass, NEW from \in On(i),
           NEW end, EndsAt(i, from, end, toPass), NEW pos, Positions(pos)
    PROVE  /\ HopsOn(i, from, toPass) \in Nat
           /\ HopsOn(i, from, toPass) + pos[from] <= pos[end]
           /\ i = 1 => HopsOn(i, from, toPass) + pos[from] = pos[end]
<1> DEFINE Equation(f) == f = [n \in On(i) |-> IF nodes[n].forward[i] \in toPass
                                               THEN 1 + f[nodes[n].forward[i]] ELSE 0]
           hops == CHOOSE f : Equation(f)
<1>1. HopsOn(i, from, toPass) = hops[from]
  BY DEF HopsOn
<1>2. \A n \in On(i) : nodes[n].forward[i] \in toPass => nodes[n].forward[i] \in On(i)
  BY DEF LinksExact, NextOn
<1>3. Equation(hops)
  <2> DEFINE base == [n \in On(i) |-> 0]
             step == [p \in On(i) \X Nat |-> 1 + p[2]]
  <2>1. PICK f \in [On(i) -> Nat] : Walk(i, toPass, f, base, step)
    <3>1. base \in [On(i) -> Nat] /\ step \in [On(i) \X Nat -> Nat]
      OBVIOUS
    <3> HIDE DEF base, step
    <3> QED  BY <3>1, WalkExists
  <2>2. Equation(f)
    BY <1>2, <2>1 DEF Walk
  <2> HIDE DEF Equation
  <2> QED  BY <2>2
<1> HIDE DEF hops
<1>4. \A n \in On(i) : hops[n] = IF nodes[n].forward[i] \in toPass
                                 THEN 1 + hops[nodes[n].forward[i]] ELSE 0
  BY <1>3
<1>5. On(i) \subseteq All /\ pos \in [All -> Nat]
  BY Facts DEF Positions
<1> DEFINE Good(n) == \A e : EndsAt(i, n, e, toPass) =>
                          /\ hops[n] \in Nat
                          /\ hops[n] + pos[n] <= pos[e]
                          /\ i = 1 => hops[n] + pos[n] = pos[e]
<1>6. \A n \in On(i) : Good(n)
  <2> DEFINE S == {n \in On(i) : ~ Good(n)}
  <2> SUFFICES ASSUME S # {} PROVE FALSE
    OBVIOUS
  <2>1. PICK n \in S : \A m \in S : m = n \/ Before(m, n)
    <3>1. S \in SUBSET All
      BY <1>5
    <3> HIDE DEF S
    <3> QED  BY <3>1, LastNode
  <2>2. PICK next : next = nodes[n].forward[i]
    OBVIOUS
  <2>3. n \in On(i) /\ n \in All /\ NextOn(i, n, next) /\ pos[n] \in Nat
    BY <1>5, <2>2 DEF LinksExact
  <2>4. PICK e : /\ EndsAt(i, n, e, toPass)
                 /\ ~ (/\ hops[n] \in Nat
                       /\ hops[n] + pos[n] <= pos[e]
                       /\ i = 1 => hops[n] + pos[n] = pos[e])
    BY <2>1
  <2>5. e \in On(i) /\ e \in All /\ pos[e] \in Nat
    BY <1>5, <2>4 DEF EndsAt
  <2>6. CASE next \notin toPass
    <3>1. hops[n] = 0
      BY <1>4, <2>2, <2>3, <2>6
    <3>2. e = n
      BY <2>3, <2>4, <2>6 DEF EndsAt, NextOn
    <3> QED  BY <2>3, <2>4, <3>1, <3>2
  <2>7. CASE next \in toPass
    <3>1. /\ next \in On(i) /\ Before(n, next) /\ next \in All /\ pos[next] \in Nat
          /\ \A k \in On(i) : Before(n, k) => k = next \/ Before(next, k)
      BY <1>5, <2>3, <2>7 DEF NextOn
    <3>2. ~ Before(next, n) /\ next # n
      BY <2>3, <3>1, Order
    <3>3. Good(next)
      BY <2>1, <3>1, <3>2
    <3>4. EndsAt(i, next, e, toPass)
      <4>1. e = next \/ Before(next, e)
        BY <2>2, <2>4, <2>7, <3>1 DEF EndsAt
      <4>2. \A k \in On(i) : Before(next, k) => Before(n, k)
        BY <1>5, <2>3, <3>1, Order
      <4> QED  BY <2>4, <4>1, <4>2 DEF EndsAt
    <3>5. hops[n] = 1 + hops[next]
      BY <1>4, <2>2, <2>3, <2>7
    <3>6. /\ hops[next] \in Nat /\ hops[next] + pos[next] <= pos[e]
          /\ i = 1 => hops[next] + pos[next] = pos[e]
      BY <3>3, <3>4
    <3>7. pos[n] < pos[next] /\ (i = 1 => pos[next] = pos[n] + 1)
      BY <2>2, <2>3, <3>1 DEF Positions
    <3> QED  BY <2>3, <2>4, <2>5, <3>1, <3>5, <3>6, <3>7
  <2> QED  BY <2>6, <2>7
<1> QED  BY <1>1, <1>6

(***************************************************************************)
(* So are those of a descent, whatever it is to pass.                      *)
(***************************************************************************)
LEMMA HopsOfDescent ==
    ASSUME NoNaN, TypeOK, InOrder, LinksExact, Heights,
           NEW toPass, Nil \notin toPass, NEW pos, Positions(pos)
    PROVE  /\ Hops(toPass) \in Nat
           /\ Hops(toPass) <= pos[Descend(toPass)[1]]
           /\ level = 1 => Hops(toPass) = pos[Descend(toPass)[1]]
<1> PICK update : update = Descend(toPass)
  OBVIOUS
<1>0. /\ Levels = 1 .. MaxLevel /\ MaxLevel \in Nat /\ level \in Levels /\ level \in Nat
      /\ pos \in [All -> Nat] /\ pos[Header] = 0
  <2>1. Levels = 1 .. MaxLevel /\ MaxLevel \in Nat /\ level \in Levels
    BY SortedSetAssumption DEF Levels, TypeOK
  <2>2. pos \in [All -> Nat] /\ pos[Header] = 0
    BY DEF Positions
  <2> QED  BY <2>1, <2>2
<1>1. Path(update, toPass)
  BY DescendPath
<1> DEFINE along == [i \in Levels |-> HopsOn(i, StartOf(update, i), toPass)]
<1>2. ASSUME NEW i \in Levels
      PROVE  /\ along[i] \in Nat /\ pos[StartOf(update, i)] \in Nat /\ pos[update[i]] \in Nat
             /\ along[i] + pos[StartOf(update, i)] <= pos[update[i]]
             /\ i = 1 => along[i] + pos[StartOf(update, i)] = pos[update[i]]
  <2>1. /\ EndsAt(i, StartOf(update, i), update[i], toPass)
        /\ StartOf(update, i) \in On(i) /\ update[i] \in All
    BY <1>1 DEF Path
  <2>2. StartOf(update, i) \in All
    BY <2>1, Facts
  <2> QED  BY <1>0, <2>1, <2>2, HopsAlong
<1> DEFINE Value(f, i) == IF i = 0 THEN 0 ELSE f[i - 1] + along[i]
           Equation(f) == f = [i \in 0 .. level |-> Value(f, i)]
           sum == CHOOSE f : Equation(f)
<1>3. Hops(toPass) = sum[level]
  <2> DEFINE Code(f, i) ==
                 IF i = 0 THEN 0
                 ELSE f[i - 1] + HopsOn(i, IF i = level THEN Header
                                           ELSE Descend(toPass)[i + 1], toPass)
             CodeEquation(f) == f = [i \in 0 .. level |-> Code(f, i)]
  <2>1. Hops(toPass) = (CHOOSE f : CodeEquation(f))[level]
    BY Zenon DEF Hops
  <2>2. ASSUME NEW f, NEW i \in 0 .. level PROVE Code(f, i) = Value(f, i)
    <3>1. CASE i = 0
      BY <3>1
    <3>2. CASE i # 0
      <4>1. i \in Levels /\ StartOf(update, i) = IF i = level THEN Header ELSE update[i + 1]
        BY <1>0, <3>2 DEF StartOf
      <4> QED  BY <3>2, <4>1
    <3> QED  BY <3>1, <3>2
  <2>3. ASSUME NEW f PROVE CodeEquation(f) <=> Equation(f)
    <3> HIDE DEF Code, Value
    <3> QED  BY <2>2
  <2>4. (CHOOSE f : CodeEquation(f)) = (CHOOSE f : Equation(f))
    <3> HIDE DEF CodeEquation, Equation
    <3> QED  BY <2>3
  <2> QED  BY <2>1, <2>4
<1> HIDE DEF along
<1>4. Equation(sum)
  <2> DEFINE Run(k, f) == f = [i \in 0 .. k |-> Value(f, i)]
             P == {k \in Nat : \E f : Run(k, f)}
  <2>1. 0 \in P
    <3> DEFINE f == [i \in 0 .. 0 |-> 0]
    <3>1. Run(0, f)
      OBVIOUS
    <3> QED  BY <3>1
  <2>2. ASSUME NEW k \in 0 .. level - 1, k \in P PROVE k + 1 \in P
    <3>1. PICK f : Run(k, f)
      BY <2>2
    <3>2. PICK new : new = Value(f, k + 1)
      OBVIOUS
    <3> DEFINE g == [i \in 0 .. k + 1 |-> IF i = k + 1 THEN new ELSE f[i]]
    <3>3. \A i \in 0 .. k : g[i] = f[i] /\ f[i] = Value(f, i)
      BY <1>0, <3>1
    <3>4. ASSUME NEW i \in 0 .. k + 1 PROVE g[i] = Value(g, i)
      <4>1. i = 0 \/ i - 1 \in 0 .. k
        BY <1>0
      <4>2. Value(g, i) = Value(f, i)
        <5> HIDE DEF g
        <5> QED  BY <3>3, <4>1
      <4>3. CASE i = k + 1
        BY <3>2, <4>2, <4>3
      <4>4. CASE i # k + 1
        <5>1. i \in 0 .. k
          BY <1>0, <4>4
        <5> HIDE DEF g, Value
        <5> QED  BY <3>3, <4>2, <5>1
      <4> QED  BY <4>3, <4>4
    <3>5. g = [i \in 0 .. k + 1 |-> g[i]]
      OBVIOUS
    <3>6. Run(k + 1, g)
      <4> HIDE DEF g, Value
      <4> QED  BY <3>4, <3>5
    <3>7. k + 1 \in Nat
      BY <1>0
    <3> HIDE DEF g, Run
    <3> QED  BY <3>6, <3>7
  <2>3. level \in P
    <3>1. \A k \in 0 .. level : k \in P
      <4> HIDE DEF P
      <4> QED  BY <1>0, <2>1, <2>2, AllUpTo
    <3> HIDE DEF P
    <3> QED  BY <1>0, <3>1
  <2>4. PICK f : Run(level, f)
    BY <2>3
  <2>5. Equation(f)
    BY <2>4
  <2> HIDE DEF Equation
  <2> QED  BY <2>5
<1> HIDE DEF sum
<1>5. sum[0] = 0 /\ \A i \in 1 .. level : sum[i] = sum[i - 1] + along[i]
  BY <1>0, <1>4
<1> DEFINE Good(k) == sum[k] \in Nat /\ sum[k] + pos[StartOf(update, k)] <= pos[update[1]]
           P == {k \in 0 .. level : Good(k)}
<1>6. 0 \in P
  <2>1. StartOf(update, 0) = update[1] /\ 1 \in Levels /\ 0 \in 0 .. level
    BY <1>0 DEF StartOf
  <2> QED  BY <1>2, <1>5, <2>1
<1>7. ASSUME NEW k \in 0 .. level - 1, k \in P PROVE k + 1 \in P
  <2>1. /\ k + 1 \in Levels /\ k + 1 \in 1 .. level /\ k + 1 \in 0 .. level /\ k + 1 - 1 = k
        /\ 1 \in Levels
    BY <1>0
  <2>2. StartOf(update, k) = update[k + 1]
    BY <1>0 DEF StartOf
  <2>3. sum[k] \in Nat /\ sum[k] + pos[update[k + 1]] <= pos[update[1]]
    BY <1>7, <2>2
  <2>4. sum[k + 1] = sum[k] + along[k + 1]
    BY <1>5, <2>1
  <2>5. PICK a \in Nat, p \in Nat, q \in Nat, t \in Nat :
           /\ a = along[k + 1] /\ p = pos[StartOf(update, k + 1)] /\ q = pos[update[k + 1]]
           /\ t = pos[update[1]] /\ a + p <= q
    BY <1>2, <2>1
  <2>6. Good(k + 1)
    BY <2>3, <2>4, <2>5
  <2> QED  BY <2>1, <2>6
<1>8. Good(level)
  <2>1. \A k \in 0 .. level : k \in P
    <3> HIDE DEF P
    <3> QED  BY <1>0, <1>6, <1>7, AllUpTo
  <2> QED  BY <1>0, <2>1
<1>9. StartOf(update, level) = Header
  BY <1>0 DEF StartOf
<1>10. ASSUME level = 1 PROVE sum[level] = pos[update[1]]
  <2>1. sum[1] = along[1] /\ along[1] + pos[Header] = pos[update[1]] /\ along[1] \in Nat
    BY <1>0, <1>2, <1>5, <1>9, <1>10
  <2> QED  BY <1>0, <1>10, <2>1
<1> QED  BY <1>0, <1>3, <1>8, <1>9, <1>10

(***************************************************************************)
(* A rank is never above the position of the member, and is the position   *)
(* if the list has one level and the member is found.                      *)
(***************************************************************************)
LEMMA RankBounded ==
    ASSUME NoNaN, IInv
    PROVE  RankAtMostPosition
<1>0. TypeOK /\ InOrder /\ LinksExact /\ Heights
  BY DEF IInv
<1> PICK s : s = Chain(1)
  OBVIOUS
<1>1. s \in Seq(InUse) /\ Len(s) \in Nat /\ DOMAIN s = 1 .. Len(s) /\ Used = InUse
  BY ChainExact
<1> SUFFICES ASSUME MembersOnce, NEW i \in 1 .. Len(s), NEW rank, rank = ZRank(nodes[s[i]].key)
             PROVE  rank <= i - 1 /\ (level = 1 => rank \in {-1, i - 1})
  BY <1>1 DEF RankAtMostPosition
<1> PICK key : key = nodes[s[i]].key
  OBVIOUS
<1> PICK update : update = Descend(KeyBelow(key))
  OBVIOUS
<1> PICK target : target = nodes[update[1]].forward[1]
  OBVIOUS
<1>2. rank = IF IsOf(target, key) THEN Hops(KeyBelow(key)) ELSE -1
  BY DEF ZRank, SearchMember
<1>3. CASE ~ IsOf(target, key)
  BY <1>2, <1>3
<1>4. CASE IsOf(target, key)
  <2>1. target # Nil /\ nodes[target].key = key
    BY <1>4 DEF IsOf
  <2>2. PICK pos : Positions(pos)
    BY PositionsExist
  <2>3. Nil \notin KeyBelow(key)
    BY Places DEF KeyBelow
  <2>4. 1 \in Levels /\ update[1] \in On(1)
    BY <1>0, <2>3, DescendPath, Facts DEF Path, EndsAt
  <2>5. target \in On(1) /\ target \in All /\ Before(update[1], target)
    <3>1. NextOn(1, update[1], target)
      BY <1>0, <2>4 DEF LinksExact
    <3> QED  BY <1>0, <2>1, <2>4, <3>1, Facts DEF NextOn
  <2>6. target \in InUse
    BY <2>5 DEF Before, All
  <2>7. target = s[i]
    <3>1. s[i] \in InUse /\ nodes[s[i]].key = key
      BY <1>1
    <3> QED  BY <1>1, <2>1, <2>6, <3>1 DEF MembersOnce
  <2>8. pos[target] = i /\ pos[target] = pos[update[1]] + 1 /\ pos[update[1]] \in Nat
    BY <1>0, <2>2, <2>4, <2>5, <2>7, Facts DEF Positions
  <2>9. /\ Hops(KeyBelow(key)) \in Nat /\ Hops(KeyBelow(key)) <= pos[update[1]]
        /\ level = 1 => Hops(KeyBelow(key)) = pos[update[1]]
    BY <1>0, <2>2, <2>3, HopsOfDescent
  <2>10. PICK h \in Nat, p \in Nat : h = Hops(KeyBelow(key)) /\ p = pos[update[1]]
    BY <2>8, <2>9
  <2>11. rank = h /\ h <= p /\ (level = 1 => h = p)
    BY <1>2, <1>4, <2>9, <2>10
  <2>12. i - 1 = p
    <3>1. i = p + 1
      BY <2>8, <2>10
    <3> QED  BY <3>1
  <2> QED  BY <2>11, <2>12
<1> QED  BY <1>3, <1>4

(***************************************************************************)
(* The reads return what they should in every state: slices by positions,  *)
(* all nodes of a range of scores, and ranks that are not too high.        *)
(***************************************************************************)
THEOREM ReadsAreExact ==
    ASSUME NoNaN
    PROVE  Spec => []ReadsExact
<1>1. IInv => ReadsExact
  BY SliceExact, ScoresExact, RankBounded DEF ReadsExact
<1> QED  BY <1>1, Invariance, PTL
=============================================================================
