--------------------------- MODULE TypedKeysProofs ---------------------------
(***************************************************************************)
(* Theorems about TypedKeys, for every value of its constants: what Store  *)
(* holds is always one of the values that the commands make; streams,      *)
(* series and sketches are what their histories say; a JSON.SET or a       *)
(* JSON.DEL changes what its path names and nothing else; and keys that no *)
(* BITOP has joined do not change each other's bits.                       *)
(***************************************************************************)
EXTENDS TypedKeys, SequenceTheorems, FiniteSetTheorems, WellFoundedInduction, TLAPS

-----------------------------------------------------------------------------
(***************************************************************************)
(* Streams: what the loop of an XREAD collects, that a reader who follows  *)
(* a stream misses nothing, and that acknowledgements match deliveries.    *)
(***************************************************************************)

(***************************************************************************)
(* A set of natural numbers has a least one.  With it, what holds of every *)
(* turn of a loop is proved by its first turn that would break it.         *)
(***************************************************************************)
LEMMA LeastNat ==
    ASSUME NEW S \in SUBSET Nat, S # {}
    PROVE  \E n \in S : \A m \in S : n <= m
<1> DEFINE R == OpToRel(<, Nat)
<1>1. IsWellFoundedOn(R, Nat)
  BY NatLessThanWellFounded
<1>2. PICK x \in S : \A y \in S : ~ (<<y, x>> \in R)
  <2> HIDE DEF R
  <2> QED  BY <1>1, WFMin
<1>3. \A y \in S : ~ (y < x)
  BY <1>2 DEF OpToRel
<1> QED  BY <1>3

(***************************************************************************)
(* What a set that holds 0, and with each number below n the next, holds:  *)
(* all numbers up to n.                                                    *)
(***************************************************************************)
LEMMA AllUpTo ==
    ASSUME NEW n \in Nat, NEW P, 0 \in P, \A m \in 0 .. n - 1 : m \in P => m + 1 \in P
    PROVE  \A m \in 0 .. n : m \in P
<1> SUFFICES ASSUME NEW a \in 0 .. n, a \notin P PROVE FALSE
  OBVIOUS
<1> DEFINE S == {m \in 0 .. n : m \notin P}
<1>1. S \in SUBSET Nat /\ S # {}
  OBVIOUS
<1>2. PICK m \in S : \A k \in S : m <= k
  <2> HIDE DEF S
  <2> QED  BY <1>1, LeastNat
<1>3. m # 0 /\ m - 1 \in 0 .. n - 1 /\ m - 1 \notin S
  BY <1>2
<1> QED  BY <1>2, <1>3
-----------------------------------------------------------------------------
(***************************************************************************)
(* The states of the loop of an XREAD after 0, 1, ..., n turns.            *)
(***************************************************************************)
Loop(later, entries, start, n) ==
    /\ later = [m \in 0 .. n |-> later[m]]
    /\ later[0] = <<>>
    /\ \A m \in 1 .. n : later[m] = IF entries[m] > start
                                    THEN Append(later[m - 1], entries[m])
                                    ELSE later[m - 1]

(***************************************************************************)
(* The loop has such states, and its result is the last one.               *)
(***************************************************************************)
LEMMA LoopRuns ==
    ASSUME NEW entries, NEW start, NEW n \in Nat
    PROVE  \E later : Loop(later, entries, start, n)
<1> DEFINE P == {m \in Nat : \E later : Loop(later, entries, start, m)}
<1>1. 0 \in P
  <2>1. Loop([m \in 0 .. 0 |-> <<>>], entries, start, 0)
    BY DEF Loop
  <2> QED  BY <2>1
<1>2. ASSUME NEW m \in 0 .. n - 1, m \in P PROVE m + 1 \in P
  <2>1. PICK later : Loop(later, entries, start, m)
    BY <1>2
  <2>2. PICK next : next = IF entries[m + 1] > start THEN Append(later[m], entries[m + 1])
                           ELSE later[m]
    OBVIOUS
  <2> DEFINE longer == [k \in 0 .. m + 1 |-> IF k = m + 1 THEN next ELSE later[k]]
  <2>3. Loop(longer, entries, start, m + 1)
    <3>1. longer = [k \in 0 .. m + 1 |-> longer[k]] /\ longer[0] = <<>>
      BY <2>1 DEF Loop
    <3>2. ASSUME NEW k \in 1 .. m + 1
          PROVE  longer[k] = IF entries[k] > start THEN Append(longer[k - 1], entries[k])
                             ELSE longer[k - 1]
      <4>1. CASE k = m + 1
        <5>1. longer[k] = next /\ longer[k - 1] = later[m]
          BY <4>1
        <5> QED  BY <4>1, <5>1, <2>2
      <4>2. CASE k # m + 1
        <5>1. longer[k] = later[k] /\ longer[k - 1] = later[k - 1] /\ k \in 1 .. m
          BY <4>2
        <5> HIDE DEF longer
        <5> QED  BY <5>1, <2>1 DEF Loop
      <4> QED  BY <4>1, <4>2
    <3> HIDE DEF longer
    <3> QED  BY <3>1, <3>2 DEF Loop
  <2> QED  BY <2>3
<1>3. \A m \in 0 .. n : m \in P
  <2> HIDE DEF P
  <2> QED  BY <1>1, <1>2, AllUpTo
<1> QED  BY <1>3

(***************************************************************************)
(* Later is the last state of the loop.                                    *)
(***************************************************************************)
LEMMA LaterIsLoop ==
    ASSUME NEW S, NEW entries \in Seq(S), NEW start
    PROVE  \E later : /\ Loop(later, entries, start, Len(entries))
                      /\ Later(entries, start) = later[Len(entries)]
<1> DEFINE n == Len(entries)
<1>1. n \in Nat
  OBVIOUS
<1>2. PICK g : Loop(g, entries, start, n)
  BY <1>1, LoopRuns
<1> DEFINE Equation(f) == f = [m \in 0 .. n |-> IF m = 0 THEN <<>>
                                  ELSE IF entries[m] > start
                                  THEN Append(f[m - 1], entries[m])
                                  ELSE f[m - 1]]
           later == CHOOSE f : Equation(f)
<1>3. Equation(g)
  BY <1>2 DEF Loop
<1>4. Equation(later)
  <2> HIDE DEF Equation
  <2> QED  BY <1>3
<1>5. Later(entries, start) = later[n]
  BY DEF Later
<1>6. Loop(later, entries, start, n)
  <2> HIDE DEF later, n
  <2>1. later = [m \in 0 .. n |-> later[m]]
    BY <1>4
  <2>2. \A m \in 0 .. n : later[m] = IF m = 0 THEN <<>>
                                     ELSE IF entries[m] > start
                                     THEN Append(later[m - 1], entries[m])
                                     ELSE later[m - 1]
    BY <1>4
  <2>3. \A m \in 1 .. n : m \in 0 .. n /\ m # 0
    BY <1>1
  <2>4. later[0] = <<>>
    BY <1>1, <2>2
  <2> QED  BY <2>1, <2>2, <2>3, <2>4 DEF Loop
<1> HIDE DEF later
<1> QED  BY <1>5, <1>6

(***************************************************************************)
(* What an XREAD answers are entries of the stream.                        *)
(***************************************************************************)
LEMMA LaterIsSeq ==
    ASSUME NEW S, NEW entries \in Seq(S), NEW start
    PROVE  Later(entries, start) \in Seq(S)
<1> DEFINE n == Len(entries)
<1>1. PICK later : Loop(later, entries, start, n) /\ Later(entries, start) = later[n]
  BY LaterIsLoop
<1>2. n \in Nat
  OBVIOUS
<1> DEFINE P == {m \in 0 .. n : later[m] \in Seq(S)}
<1>3. 0 \in P
  BY <1>1, <1>2 DEF Loop
<1>4. ASSUME NEW m \in 0 .. n - 1, m \in P PROVE m + 1 \in P
  <2>1. m + 1 \in 1 .. n /\ (m + 1) - 1 = m
    BY <1>2
  <2>2. entries[m + 1] \in S /\ later[m] \in Seq(S)
    BY <2>1, <1>4
  <2>3. later[m + 1] = IF entries[m + 1] > start THEN Append(later[m], entries[m + 1])
                       ELSE later[m]
    <3> HIDE DEF n
    <3> QED  BY <1>1, <2>1 DEF Loop
  <2>4. Append(later[m], entries[m + 1]) \in Seq(S)
    BY <2>2
  <2>5. later[m + 1] \in Seq(S) /\ m + 1 \in 0 .. n
    BY <1>2, <2>1, <2>2, <2>3, <2>4
  <2> QED  BY <2>5
<1>5. n \in P
  <2> HIDE DEF P, n
  <2>1. \A m \in 0 .. n : m \in P
    BY <1>2, <1>3, <1>4, AllUpTo
  <2> QED  BY <1>2, <2>1
<1> QED  BY <1>1, <1>5

(***************************************************************************)
(* So they are when the answer is cut to a count.                          *)
(***************************************************************************)
LEMMA AfterIsSeq ==
    ASSUME NEW S, NEW entries \in Seq(S), NEW start, NEW count \in Nat
    PROVE  After(entries, start, count) \in Seq(S)
<1>1. PICK later \in Seq(S) : later = Later(entries, start)
  BY LaterIsSeq
<1>2. count < Len(later) => SubSeq(later, 1, count) \in Seq(S)
  <2> SUFFICES ASSUME count < Len(later) PROVE SubSeq(later, 1, count) \in Seq(S)
    OBVIOUS
  <2>1. \A i \in 1 .. count : later[i] \in S
    OBVIOUS
  <2> QED  BY <2>1, SubSeqProperties
<1> QED  BY <1>1, <1>2 DEF After

(***************************************************************************)
(* When the first f entries are not greater than the start and the others  *)
(* are, what comes later are these others.                                 *)
(***************************************************************************)
LEMMA LaterInOrder ==
    ASSUME NEW entries \in Seq(Nat), NEW start \in Nat, NEW f \in 0 .. Len(entries),
           \A i \in 1 .. f : ~ (entries[i] > start),
           \A i \in f + 1 .. Len(entries) : entries[i] > start
    PROVE  Later(entries, start) = SubSeq(entries, f + 1, Len(entries))
<1> DEFINE n == Len(entries)
<1>1. PICK later : Loop(later, entries, start, n) /\ Later(entries, start) = later[n]
  BY LaterIsLoop
<1>2. n \in Nat /\ f \in Nat /\ f <= n
  OBVIOUS
<1> DEFINE P == {m \in 0 .. n : later[m] = SubSeq(entries, f + 1, m)}
<1>3. 0 \in P
  <2>1. SubSeq(entries, f + 1, 0) = <<>>
    BY <1>2, SubSeqEmpty
  <2>2. later[0] = <<>>
    BY <1>1 DEF Loop
  <2>3. 0 \in 0 .. n
    BY <1>2
  <2> QED  BY <2>1, <2>2, <2>3
<1>4. ASSUME NEW m \in 0 .. n - 1, m \in P PROVE m + 1 \in P
  <2>1. m + 1 \in 1 .. n /\ (m + 1) - 1 = m
    BY <1>2
  <2>2. entries[m + 1] \in Nat /\ later[m] = SubSeq(entries, f + 1, m)
    BY <2>1, <1>4
  <2>3. later[m + 1] = IF entries[m + 1] > start THEN Append(later[m], entries[m + 1])
                       ELSE later[m]
    <3> HIDE DEF n
    <3> QED  BY <1>1, <2>1 DEF Loop
  <2>4. CASE m + 1 <= f
    <3>1. later[m + 1] = later[m]
      BY <2>1, <2>3, <2>4
    <3>2. SubSeq(entries, f + 1, m) = <<>> /\ SubSeq(entries, f + 1, m + 1) = <<>>
      BY <1>2, <2>4, SubSeqEmpty
    <3>3. later[m + 1] = SubSeq(entries, f + 1, m + 1)
      <4> HIDE DEF n, P
      <4> QED  BY <2>2, <3>1, <3>2
    <3>4. m + 1 \in 0 .. n
      BY <1>2, <2>1
    <3> QED  BY <3>3, <3>4
  <2>5. CASE m + 1 > f
    <3>1. f + 1 \in 1 .. n /\ m + 1 \in f + 1 .. n
      BY <1>2, <2>5
    <3>2. later[m + 1] = Append(later[m], entries[m + 1])
      BY <2>3, <3>1
    <3>3. SubSeq(entries, f + 1, m + 1) = SubSeq(entries, f + 1, m) \o <<entries[m + 1]>>
      BY <3>1, <2>1, SubSeqRecursiveSecond
    <3>4. SubSeq(entries, f + 1, m) \in Seq(Nat)
      <4>1. \A i \in f + 1 .. m : entries[i] \in Nat
        BY <1>2, <2>1
      <4> QED  BY <4>1, <1>2, SubSeqProperties
    <3>5. Append(later[m], entries[m + 1]) = SubSeq(entries, f + 1, m + 1)
      BY <2>2, <3>3, <3>4, AppendIsConcat
    <3> QED  BY <2>1, <3>2, <3>5
  <2> QED  BY <2>4, <2>5, <1>2
<1>5. n \in P
  <2> HIDE DEF P, n
  <2>1. \A m \in 0 .. n : m \in P
    BY <1>2, <1>3, <1>4, AllUpTo
  <2> QED  BY <1>2, <2>1
<1> QED  BY <1>1, <1>5

(***************************************************************************)
(* The reader that follows the stream asks behind the last ID it knows: as *)
(* long as the IDs are in order, what it knows stays a prefix of the       *)
(* stream, whatever it lets an answer be cut to.                           *)
(***************************************************************************)
StartOf(got) == IF got = <<>> THEN 0 ELSE Last(got)

(***************************************************************************)
(* A reader of a stream in order, who asks again from the last ID it       *)
(* knows, receives every entry once and in order.                          *)
(***************************************************************************)
LEMMA FollowerMissesNone ==
    ASSUME NEW entries \in Seq(Ids), NEW got \in Seq(Ids), NEW count \in Nat,
           Increasing(entries), IsPrefix(got, entries)
    PROVE  IsPrefix(got \o After(entries, StartOf(got), count), entries)
<1> USE IdsAssumption
<1>1. PICK f, n : f = Len(got) /\ n = Len(entries)
  OBVIOUS
<1>2. f \in Nat /\ n \in Nat /\ f <= n /\ DOMAIN entries = 1 .. n /\ DOMAIN got = 1 .. f
  BY <1>1 DEF IsPrefix
<1>3. got = SubSeq(entries, 1, f)
  BY <1>1, SubSeqFull DEF IsPrefix
<1>4. \A i \in 1 .. n : entries[i] \in Nat /\ entries[i] > 0
  <2>1. \A i \in 1 .. n : entries[i] \in Ids
    BY <1>1, <1>2
  <2>2. \A id \in Ids : id \in Nat /\ id > 0
    OBVIOUS
  <2> QED  BY <2>1, <2>2
<1>5. \A i \in 1 .. f : got[i] = entries[i]
  <2>1. \A i \in 1 .. f : entries[i] \in Ids
    BY <1>1, <1>2
  <2> QED  BY <1>2, <1>3, <2>1, SubSeqProperties
<1>6. PICK start : start = StartOf(got)
  OBVIOUS
<1>7. /\ start \in Nat
      /\ \A i \in 1 .. f : ~ (entries[i] > start)
      /\ \A i \in f + 1 .. n : entries[i] > start
  <2>1. CASE f = 0
    <3>1. got = <<>>
      BY <1>1, <2>1, EmptySeq
    <3>2. start = 0
      BY <1>6, <3>1 DEF StartOf
    <3> QED  BY <1>2, <1>4, <2>1, <3>2
  <2>2. CASE f # 0
    <3>1. got # <<>> /\ start = got[f]
      BY <1>1, <1>6, <2>2 DEF StartOf, Last
    <3>2. start = entries[f] /\ f \in 1 .. n
      BY <1>2, <1>5, <2>2, <3>1
    <3>3. \A i, j \in 1 .. n : i < j => entries[i] < entries[j]
      BY <1>2 DEF Increasing
    <3>4. ASSUME NEW i \in 1 .. f PROVE ~ (entries[i] > start)
      <4>1. i = f \/ entries[i] < entries[f]
        BY <1>2, <3>2, <3>3
      <4>2. entries[i] \in Nat /\ entries[f] \in Nat
        BY <1>2, <1>4, <3>2
      <4> QED  BY <3>2, <4>1, <4>2
    <3>5. ASSUME NEW i \in f + 1 .. n PROVE entries[i] > start
      <4>1. entries[f] < entries[i] /\ entries[i] \in Nat /\ entries[f] \in Nat
        BY <1>2, <1>4, <3>2, <3>3
      <4> QED  BY <3>2, <4>1
    <3> QED  BY <1>4, <3>2, <3>4, <3>5
  <2> QED  BY <2>1, <2>2
<1>8. Later(entries, start) = SubSeq(entries, f + 1, n)
  <2>1. entries \in Seq(Nat)
    <3>1. Ids \subseteq Nat
      OBVIOUS
    <3> QED  BY <3>1, SeqMonotonic
  <2>2. f \in 0 .. Len(entries)
    BY <1>1, <1>2
  <2> QED  BY <1>1, <1>7, <2>1, <2>2, LaterInOrder
<1>9. \E e \in f .. n : After(entries, start, count) = SubSeq(entries, f + 1, e)
  <2>0. \A i \in f + 1 .. n : entries[i] \in Ids
    BY <1>1, <1>2
  <2>a. /\ SubSeq(entries, f + 1, n) \in Seq(Ids)
        /\ Len(SubSeq(entries, f + 1, n)) = n - f
        /\ \A i \in 1 .. n - f : SubSeq(entries, f + 1, n)[i] = entries[f + i]
    BY <1>2, <2>0, SubSeqProperties
  <2>1. PICK later \in Seq(Ids) : later = SubSeq(entries, f + 1, n)
    BY <2>a
  <2>2. Len(later) = n - f /\ \A i \in 1 .. n - f : later[i] = entries[f + i]
    BY <2>a, <2>1
  <2>3. CASE count > 0 /\ count < Len(later)
    <3>1. After(entries, start, count) = SubSeq(later, 1, count)
      BY <1>8, <2>1, <2>3 DEF After
    <3>2. /\ \A i \in 1 .. count : later[i] \in Ids /\ later[i] = entries[f + i]
          /\ \A i \in f + 1 .. f + count : entries[i] \in Ids
          /\ f + count \in f .. n
      BY <1>2, <2>0, <2>2, <2>3
    <3>3. /\ SubSeq(later, 1, count) \in Seq(Ids)
          /\ Len(SubSeq(later, 1, count)) = count
          /\ \A i \in 1 .. count : SubSeq(later, 1, count)[i] = later[i]
      BY <3>2, SubSeqProperties
    <3>4. /\ SubSeq(entries, f + 1, f + count) \in Seq(Ids)
          /\ Len(SubSeq(entries, f + 1, f + count)) = count
          /\ \A i \in 1 .. count : SubSeq(entries, f + 1, f + count)[i] = entries[f + i]
      BY <1>2, <3>2, SubSeqProperties
    <3>5. \A i \in 1 .. count :
              SubSeq(later, 1, count)[i] = SubSeq(entries, f + 1, f + count)[i]
      BY <3>2, <3>3, <3>4
    <3>6. SubSeq(later, 1, count) = SubSeq(entries, f + 1, f + count)
      BY <3>3, <3>4, <3>5, SeqEqual
    <3> QED  BY <3>1, <3>2, <3>6
  <2>4. CASE ~ (count > 0 /\ count < Len(later))
    <3>1. After(entries, start, count) = SubSeq(entries, f + 1, n)
      BY <1>8, <2>1, <2>4 DEF After
    <3>2. n \in f .. n
      BY <1>2
    <3> QED  BY <3>1, <3>2
  <2> QED  BY <2>3, <2>4
<1>10. PICK e \in f .. n : After(entries, start, count) = SubSeq(entries, f + 1, e)
  BY <1>9
<1>11. got \o SubSeq(entries, f + 1, e) = SubSeq(entries, 1, e)
  <2>1. 1 \in 1 .. Len(entries) + 1 /\ f \in 1 - 1 .. Len(entries) /\ e \in f .. Len(entries)
    BY <1>1, <1>2
  <2> QED  BY <1>3, <2>1, ConcatAdjacentSubSeq
<1>12. IsPrefix(SubSeq(entries, 1, e), entries)
  <2>1. \A i \in 1 .. e : entries[i] \in Ids
    BY <1>1, <1>2
  <2>2. e \in Nat /\ e <= n
    BY <1>2
  <2>3. SubSeq(entries, 1, e) \in Seq(Ids) /\ Len(SubSeq(entries, 1, e)) = e
    BY <2>1, <2>2, SubSeqProperties
  <2>4. SubSeq(SubSeq(entries, 1, e), 1, e) = SubSeq(entries, 1, e)
    BY <2>3, SubSeqFull
  <2> QED  BY <1>1, <2>2, <2>3, <2>4 DEF IsPrefix
<1> QED  BY <1>6, <1>10, <1>11, <1>12

(***************************************************************************)
(* A stream that has grown and is in order was in order before, and what   *)
(* was a prefix of it still is.                                            *)
(***************************************************************************)
LEMMA GrownStream ==
    ASSUME NEW entries \in Seq(Ids), NEW got \in Seq(Ids), NEW id \in Ids,
           Increasing(entries) => IsPrefix(got, entries),
           Increasing(Append(entries, id))
    PROVE  IsPrefix(got, Append(entries, id))
<1>1. PICK f, n : f = Len(got) /\ n = Len(entries)
  OBVIOUS
<1>2. PICK grown \in Seq(Ids) : grown = Append(entries, id)
  BY AppendProperties
<1>3. /\ n \in Nat /\ f \in Nat /\ Len(grown) = n + 1
      /\ DOMAIN entries = 1 .. n /\ DOMAIN grown = 1 .. n + 1
      /\ \A i \in 1 .. n : grown[i] = entries[i]
  BY <1>1, <1>2, AppendProperties
<1>4. Increasing(entries)
  BY <1>2, <1>3 DEF Increasing
<1>5. f <= n /\ SubSeq(got, 1, f) = SubSeq(entries, 1, f)
  BY <1>1, <1>4 DEF IsPrefix
<1>6. SubSeq(grown, 1, f) = SubSeq(entries, 1, f)
  <2>1. \A i \in 1 .. f : grown[i] \in Ids /\ entries[i] \in Ids
    BY <1>1, <1>3, <1>5
  <2>2. /\ SubSeq(grown, 1, f) \in Seq(Ids) /\ SubSeq(entries, 1, f) \in Seq(Ids)
        /\ Len(SubSeq(grown, 1, f)) = f /\ Len(SubSeq(entries, 1, f)) = f
        /\ \A i \in 1 .. f : SubSeq(grown, 1, f)[i] = grown[1 + i - 1]
        /\ \A i \in 1 .. f : SubSeq(entries, 1, f)[i] = entries[1 + i - 1]
    BY <1>3, <2>1, SubSeqProperties
  <2>3. \A i \in 1 .. f : SubSeq(grown, 1, f)[i] = SubSeq(entries, 1, f)[i]
    BY <1>3, <1>5, <2>2
  <2> QED  BY <2>2, <2>3, SeqEqual
<1> QED  BY <1>1, <1>2, <1>3, <1>5, <1>6 DEF IsPrefix
-----------------------------------------------------------------------------
(***************************************************************************)
(* Finitely many finite sets have a finite union.                          *)
(***************************************************************************)
LEMMA FiniteUnion ==
    ASSUME NEW D, IsFiniteSet(D), NEW f, \A x \in D : IsFiniteSet(f[x])
    PROVE  IsFiniteSet(UNION {f[x] : x \in D})
<1> DEFINE Fine(E) == (\A x \in E : IsFiniteSet(f[x])) => IsFiniteSet(UNION {f[x] : x \in E})
           P == {m \in Nat : \A E : IsFiniteSet(E) /\ Cardinality(E) = m => Fine(E)}
<1>1. 0 \in P
  <2>1. ASSUME NEW E, IsFiniteSet(E), Cardinality(E) = 0 PROVE Fine(E)
    <3>1. E = {}
      BY <2>1, FS_EmptySet
    <3>2. UNION {f[x] : x \in E} = {}
      BY <3>1
    <3> QED  BY <3>2, FS_EmptySet
  <2> HIDE DEF Fine
  <2> QED  BY <2>1
<1>2. ASSUME NEW m \in Nat, m \in P PROVE m + 1 \in P
  <2>1. ASSUME NEW E, IsFiniteSet(E), Cardinality(E) = m + 1 PROVE Fine(E)
    <3>1. PICK x : x \in E
      BY <2>1, FS_EmptySet
    <3>2. IsFiniteSet(E \ {x}) /\ Cardinality(E \ {x}) = m
      <4>1. IsFiniteSet(E) /\ Cardinality(E) = m + 1
        BY <2>1
      <4>2. IsFiniteSet(E \ {x}) /\ Cardinality(E \ {x}) = Cardinality(E) - 1
        BY <3>1, <4>1, FS_RemoveElement
      <4> HIDE DEF Fine, P
      <4> QED  BY <4>1, <4>2
    <3>3. Fine(E \ {x})
      <4> HIDE DEF Fine
      <4> QED  BY <1>2, <3>2
    <3>4. UNION {f[y] : y \in E} = (UNION {f[y] : y \in E \ {x}}) \cup f[x]
      BY <3>1
    <3> SUFFICES ASSUME \A y \in E : IsFiniteSet(f[y])
                 PROVE  IsFiniteSet(UNION {f[y] : y \in E})
      OBVIOUS
    <3>5. IsFiniteSet(UNION {f[y] : y \in E \ {x}}) /\ IsFiniteSet(f[x])
      BY <3>1, <3>3
    <3>6. PICK V, W : V = UNION {f[y] : y \in E} /\ W = UNION {f[y] : y \in E \ {x}}
      OBVIOUS
    <3>7. IsFiniteSet(W \cup f[x])
      BY <3>5, <3>6, FS_Union
    <3>8. V = W \cup f[x]
      BY <3>4, <3>6
    <3>9. IsFiniteSet(V)
      BY <3>7, <3>8
    <3> QED  BY <3>6, <3>9
  <2> HIDE DEF Fine
  <2> QED  BY <2>1
<1>3. PICK n \in Nat : n = Cardinality(D)
  BY FS_CardinalityType
<1>4. n \in P
  <2> HIDE DEF P
  <2>1. \A m \in 0 .. n - 1 : m \in P => m + 1 \in P
    BY <1>2
  <2>2. \A m \in 0 .. n : m \in P
    BY <1>1, <2>1, AllUpTo
  <2> QED  BY <2>2
<1> QED  BY <1>3, <1>4

(***************************************************************************)
(* The image of a finite set is finite.                                    *)
(***************************************************************************)
LEMMA FinitePairs ==
    ASSUME NEW c, NEW I, IsFiniteSet(I)
    PROVE  IsFiniteSet({<<c, i>> : i \in I})
<1> DEFINE T == {<<c, i>> : i \in I}
           f == [i \in I |-> <<c, i>>]
<1>1. f \in Surjection(I, T)
  BY DEF Surjection
<1> HIDE DEF f, T
<1>2. IsFiniteSet(T)
  BY <1>1, FS_Surjection
<1> QED  BY <1>2 DEF T

(***************************************************************************)
(* An ID was delivered finitely often.                                     *)
(***************************************************************************)
LEMMA FiniteOccurrences ==
    ASSUME NEW group, IsMap(group.lists, Consumers, Seq(Ids)), NEW id
    PROVE  /\ IsFiniteSet(Occurrences(id, group))
           /\ Times(id, group) \in Nat
<1> DEFINE lists == group.lists
           At(c) == {<<c, i>> : i \in {j \in DOMAIN lists[c] : lists[c][j] = id}}
           f == [c \in DOMAIN lists |-> At(c)]
<1>1. ASSUME NEW c \in DOMAIN lists PROVE IsFiniteSet(At(c))
  <2>1. lists[c] \in Seq(Ids)
    BY DEF IsMap
  <2>2. PICK n \in Nat : DOMAIN lists[c] = 1 .. n
    BY <2>1
  <2>3. IsFiniteSet(1 .. n)
    BY FS_Interval
  <2>4. {j \in DOMAIN lists[c] : lists[c][j] = id} \in SUBSET (1 .. n)
    BY <2>2
  <2>5. IsFiniteSet({j \in DOMAIN lists[c] : lists[c][j] = id})
    BY <2>3, <2>4, FS_Subset
  <2> QED  BY <2>5, FinitePairs
<1>2. \A c \in DOMAIN lists : IsFiniteSet(f[c])
  <2> HIDE DEF At
  <2> QED  BY <1>1
<1>3. Occurrences(id, group) = UNION {f[c] : c \in DOMAIN lists}
  <2>1. \A c \in DOMAIN lists : f[c] = At(c)
    OBVIOUS
  <2>2. Occurrences(id, group) = UNION {At(c) : c \in DOMAIN lists}
    BY DEF Occurrences
  <2> HIDE DEF f, At
  <2> QED  BY <2>1, <2>2
<1>4. IsFiniteSet(DOMAIN lists)
  BY DEF IsMap
<1>5. IsFiniteSet(Occurrences(id, group))
  <2> HIDE DEF f
  <2> QED  BY <1>2, <1>3, <1>4, FiniteUnion
<1> QED  BY <1>5, FS_CardinalityType DEF Times

(***************************************************************************)
(* AcksMatchDeliveries says this of each group.                            *)
(***************************************************************************)
GroupAcks(group) ==
    \A id \in Ids :
        /\ group.auxAcks[id] <= Times(id, group)
        /\ id \in group.pending => group.auxAcks[id] < Times(id, group)
        /\ Times(id, group) > 0 /\ id \notin group.pending => group.auxAcks[id] > 0

(***************************************************************************)
(* A new group has nothing delivered and nothing acknowledged.             *)
(***************************************************************************)
LEMMA NewGroupAcks == GroupOK(NewGroup) /\ GroupAcks(NewGroup)
<1>1. /\ NewGroup = Group(NewGroup.pending, NewGroup.lists, NewGroup.auxAcks)
      /\ NewGroup.pending = {} /\ NewGroup.lists = <<>>
      /\ NewGroup.auxAcks = [id \in Ids |-> 0]
  BY DEF NewGroup, Group
<1>2. IsMap(<<>>, Consumers, Seq(Ids))
  BY FS_EmptySet DEF IsMap
<1>3. GroupOK(NewGroup)
  BY <1>1, <1>2 DEF GroupOK
<1>4. ASSUME NEW id \in Ids PROVE Times(id, NewGroup) = 0
  <2>1. Occurrences(id, NewGroup) = {}
    BY <1>1 DEF Occurrences
  <2> QED  BY <2>1, FS_EmptySet DEF Times
<1> QED  BY <1>1, <1>3, <1>4 DEF GroupAcks

(***************************************************************************)
(* A delivery appends to the list of its consumer: what is delivered has   *)
(* one occurrence more at least, everything else has the same.             *)
(***************************************************************************)
LEMMA DeliverKeepsAcks ==
    ASSUME NEW group, GroupOK(group), GroupAcks(group),
           NEW c \in Consumers, NEW entries \in Seq(Ids)
    PROVE  GroupOK(Deliver(group, c, entries)) /\ GroupAcks(Deliver(group, c, entries))
<1> DEFINE list == IF c \in DOMAIN group.lists THEN group.lists[c] ELSE <<>>
           lists == With(group.lists, c, list \o entries)
<1>0. PICK new : new = Deliver(group, c, entries)
  OBVIOUS
<1>1. list \in Seq(Ids) /\ list \o entries \in Seq(Ids)
  <2>1. list \in Seq(Ids)
    BY DEF GroupOK, IsMap
  <2> HIDE DEF list
  <2> QED  BY <2>1, ConcatProperties
<1>2. /\ new = Group(new.pending, new.lists, new.auxAcks)
      /\ new.pending = group.pending \cup ToSet(entries)
      /\ new.lists = lists /\ new.auxAcks = group.auxAcks
  BY <1>0 DEF GroupOK, Group, Deliver
<1>3. IsMap(lists, Consumers, Seq(Ids)) /\ DOMAIN lists = DOMAIN group.lists \cup {c}
  <2>1. IsFiniteSet(DOMAIN group.lists \cup {c}) /\ DOMAIN group.lists \subseteq Consumers
    BY FS_AddElement DEF GroupOK, IsMap
  <2>2. /\ DOMAIN lists = DOMAIN group.lists \cup {c}
        /\ lists = [x \in DOMAIN group.lists \cup {c} |->
                       IF x = c THEN list \o entries ELSE group.lists[x]]
    BY DEF With
  <2>3. \A x \in DOMAIN group.lists : group.lists[x] \in Seq(Ids)
    BY DEF GroupOK, IsMap
  <2> HIDE DEF lists, list
  <2> QED  BY <1>1, <2>1, <2>2, <2>3 DEF IsMap
<1>4. ToSet(entries) \subseteq Ids
  BY DEF ToSet
<1>5. GroupOK(new)
  <2> HIDE DEF lists, list
  <2> QED  BY <1>2, <1>3, <1>4 DEF GroupOK
<1>6. /\ \A x \in DOMAIN group.lists \ {c} : lists[x] = group.lists[x]
      /\ lists[c] = list \o entries
  BY DEF With
<1>7. PICK n \in Nat : /\ n = Len(list) /\ DOMAIN list = 1 .. n
                       /\ DOMAIN (list \o entries) = 1 .. n + Len(entries)
                       /\ \A i \in 1 .. n : (list \o entries)[i] = list[i]
                       /\ \A i \in 1 .. Len(entries) : (list \o entries)[n + i] = entries[i]
  <2> HIDE DEF list
  <2> QED  BY <1>1, ConcatProperties
<1>8. Len(entries) \in Nat /\ DOMAIN entries = 1 .. Len(entries)
  OBVIOUS
<1>9. ASSUME NEW id \in Ids
      PROVE  /\ Occurrences(id, group) \subseteq Occurrences(id, new)
             /\ id \notin ToSet(entries) => Occurrences(id, new) = Occurrences(id, group)
             /\ id \in ToSet(entries) => Occurrences(id, new) # Occurrences(id, group)
  <2> DEFINE In(x, i, ls) == x \in DOMAIN ls /\ i \in DOMAIN ls[x] /\ ls[x][i] = id
  <2>1. \A o : o \in Occurrences(id, group) <=> \E x, i : o = <<x, i>> /\ In(x, i, group.lists)
    BY DEF Occurrences
  <2>2. \A o : o \in Occurrences(id, new) <=> \E x, i : o = <<x, i>> /\ In(x, i, lists)
    BY <1>2 DEF Occurrences
  <2>3. \A x, i : x # c => (In(x, i, lists) <=> In(x, i, group.lists))
    <3> HIDE DEF lists
    <3> QED  BY <1>3, <1>6
  <2>4. \A i : In(c, i, group.lists) <=> i \in 1 .. n /\ list[i] = id
    BY <1>7
  <2>5. \A i : In(c, i, lists) <=> i \in 1 .. n + Len(entries) /\ (list \o entries)[i] = id
    <3> HIDE DEF lists, list
    <3> QED  BY <1>3, <1>6, <1>7
  <2>6. \A i : In(c, i, group.lists) => In(c, i, lists)
    <3> HIDE DEF In, lists, list
    <3> QED  BY <1>7, <1>8, <2>4, <2>5
  <2>7. \A i : In(c, i, lists) => In(c, i, group.lists) \/ id \in ToSet(entries)
    <3> SUFFICES ASSUME NEW i, In(c, i, lists), ~ In(c, i, group.lists)
                 PROVE  id \in ToSet(entries)
      OBVIOUS
    <3> HIDE DEF In, lists, list
    <3>1. i \in 1 .. n + Len(entries) /\ (list \o entries)[i] = id
      BY <2>5
    <3>2. ~ (i \in 1 .. n)
      BY <1>7, <2>4, <3>1
    <3>3. i - n \in 1 .. Len(entries) /\ n + (i - n) = i
      BY <1>8, <3>1, <3>2
    <3>4. entries[i - n] = id
      BY <1>7, <3>1, <3>3
    <3> QED  BY <1>8, <3>3, <3>4 DEF ToSet
  <2>8. ASSUME id \in ToSet(entries)
        PROVE  \E i : In(c, i, lists) /\ ~ In(c, i, group.lists)
    <3> HIDE DEF In, lists, list
    <3>1. PICK j \in 1 .. Len(entries) : entries[j] = id
      BY <1>8, <2>8 DEF ToSet
    <3>2. /\ n + j \in 1 .. n + Len(entries) /\ ~ (n + j \in 1 .. n)
          /\ (list \o entries)[n + j] = id
      BY <1>7, <1>8, <3>1
    <3>3. In(c, n + j, lists)
      BY <2>5, <3>2
    <3> QED  BY <2>4, <3>2, <3>3
  <2> HIDE DEF In, lists, list
  <2>9. Occurrences(id, group) \subseteq Occurrences(id, new)
    BY <2>1, <2>2, <2>3, <2>6
  <2>10. id \notin ToSet(entries) => Occurrences(id, new) \subseteq Occurrences(id, group)
    BY <2>1, <2>2, <2>3, <2>7
  <2>11. id \in ToSet(entries) => Occurrences(id, new) # Occurrences(id, group)
    <3> SUFFICES ASSUME id \in ToSet(entries)
                 PROVE  \E o : o \in Occurrences(id, new) /\ o \notin Occurrences(id, group)
      OBVIOUS
    <3>1. PICK i : In(c, i, lists) /\ ~ In(c, i, group.lists)
      BY <2>8
    <3>2. <<c, i>> \in Occurrences(id, new) /\ <<c, i>> \notin Occurrences(id, group)
      <4>1. <<c, i>> \in Occurrences(id, new)
        BY <2>2, <3>1
      <4>2. ASSUME <<c, i>> \in Occurrences(id, group) PROVE FALSE
        <5>1. PICK x, j : <<c, i>> = <<x, j>> /\ In(x, j, group.lists)
          BY <2>1, <4>2
        <5>2. x = c /\ j = i
          BY <5>1
        <5> QED  BY <3>1, <5>1, <5>2
      <4> QED  BY <4>1, <4>2
    <3> QED  BY <3>2
  <2> QED  BY <2>9, <2>10, <2>11
<1>10. ASSUME NEW id \in Ids
       PROVE  /\ Times(id, group) \in Nat /\ Times(id, new) \in Nat
              /\ Times(id, group) <= Times(id, new)
              /\ id \notin ToSet(entries) => Times(id, new) = Times(id, group)
              /\ id \in ToSet(entries) => Times(id, group) < Times(id, new)
  <2>1. /\ IsFiniteSet(Occurrences(id, new))
        /\ Times(id, group) \in Nat /\ Times(id, new) \in Nat
    BY <1>5, FiniteOccurrences DEF GroupOK
  <2>2. Occurrences(id, group) \in SUBSET Occurrences(id, new)
    BY <1>9
  <2>3. /\ Times(id, group) <= Times(id, new)
        /\ Times(id, group) = Times(id, new) =>
              Occurrences(id, new) = Occurrences(id, group)
    BY <2>1, <2>2, FS_Subset DEF Times
  <2>4. id \notin ToSet(entries) => Times(id, new) = Times(id, group)
    BY <1>9 DEF Times
  <2> QED  BY <1>9, <2>1, <2>3, <2>4
<1>11. ASSUME NEW id \in Ids
       PROVE  /\ new.auxAcks[id] <= Times(id, new)
              /\ id \in new.pending => new.auxAcks[id] < Times(id, new)
              /\ Times(id, new) > 0 /\ id \notin new.pending => new.auxAcks[id] > 0
  <2>1. group.auxAcks[id] \in Nat
    BY DEF GroupOK
  <2>2. /\ group.auxAcks[id] <= Times(id, group)
        /\ id \in group.pending => group.auxAcks[id] < Times(id, group)
        /\ Times(id, group) > 0 /\ id \notin group.pending => group.auxAcks[id] > 0
    BY DEF GroupAcks
  <2>a. /\ new.auxAcks[id] = group.auxAcks[id]
        /\ id \in new.pending <=> id \in group.pending \/ id \in ToSet(entries)
    BY <1>2
  <2>b. /\ Times(id, group) \in Nat /\ Times(id, new) \in Nat
        /\ Times(id, group) <= Times(id, new)
        /\ id \notin ToSet(entries) => Times(id, new) = Times(id, group)
        /\ id \in ToSet(entries) => Times(id, group) < Times(id, new)
    BY <1>10
  <2> HIDE DEF lists, list
  <2>3. CASE id \in ToSet(entries)
    BY <2>a, <2>b, <2>1, <2>2, <2>3
  <2>4. CASE id \notin ToSet(entries)
    BY <2>a, <2>b, <2>1, <2>2, <2>4
  <2> QED  BY <2>3, <2>4
<1> QED  BY <1>0, <1>5, <1>11 DEF GroupAcks

(***************************************************************************)
(* An XACK counts what was pending and takes it away.                      *)
(***************************************************************************)
LEMMA AcknowledgeKeepsAcks ==
    ASSUME NEW group, GroupOK(group), GroupAcks(group), NEW ids \in Seq(Ids)
    PROVE  GroupOK(Acknowledge(group, ids)) /\ GroupAcks(Acknowledge(group, ids))
<1>0. PICK new : new = Acknowledge(group, ids)
  OBVIOUS
<1>1. /\ new = Group(new.pending, new.lists, new.auxAcks)
      /\ new.pending = group.pending \ ToSet(ids) /\ new.lists = group.lists
      /\ new.auxAcks = [id \in Ids |-> group.auxAcks[id] +
                           (IF id \in ToSet(ids) \cap group.pending THEN 1 ELSE 0)]
  BY <1>0 DEF GroupOK, Group, Acknowledge
<1>2. /\ group.auxAcks \in [Ids -> Nat] /\ group.pending \subseteq Ids
      /\ IsMap(group.lists, Consumers, Seq(Ids))
  BY DEF GroupOK
<1>3. GroupOK(new)
  <2>1. new.auxAcks \in [Ids -> Nat]
    BY <1>1, <1>2
  <2> QED  BY <1>1, <1>2, <2>1 DEF GroupOK
<1>4. ASSUME NEW id \in Ids
      PROVE  /\ new.auxAcks[id] <= Times(id, new)
             /\ id \in new.pending => new.auxAcks[id] < Times(id, new)
             /\ Times(id, new) > 0 /\ id \notin new.pending => new.auxAcks[id] > 0
  <2>1. Times(id, new) = Times(id, group)
    BY <1>1 DEF Times, Occurrences
  <2>2. group.auxAcks[id] \in Nat /\ Times(id, group) \in Nat
    BY <1>2, FiniteOccurrences
  <2>3. /\ group.auxAcks[id] <= Times(id, group)
        /\ id \in group.pending => group.auxAcks[id] < Times(id, group)
        /\ Times(id, group) > 0 /\ id \notin group.pending => group.auxAcks[id] > 0
    BY DEF GroupAcks
  <2>4. new.auxAcks[id] = group.auxAcks[id] +
                           (IF id \in ToSet(ids) \cap group.pending THEN 1 ELSE 0)
    BY <1>1
  <2>5. CASE id \in ToSet(ids) \cap group.pending
    BY <1>1, <2>1, <2>2, <2>3, <2>4, <2>5
  <2>6. CASE id \notin ToSet(ids) \cap group.pending
    BY <1>1, <2>1, <2>2, <2>3, <2>4, <2>6
  <2> QED  BY <2>5, <2>6
<1> QED  BY <1>0, <1>3, <1>4 DEF GroupAcks
-----------------------------------------------------------------------------
(***************************************************************************)
(* What holds of every stream in the store.                                *)
(***************************************************************************)
StreamInv(v) ==
    /\ StreamOK(v)
    /\ Increasing(v.entries) => IsPrefix(v.auxGot, v.entries)
    /\ \A g \in DOMAIN v.groups : GroupAcks(v.groups[g])

(***************************************************************************)
(* The stream that XADD creates, and one with an entry more.               *)
(***************************************************************************)
LEMMA NewStreamInv == StreamInv(NewStream)
<1>1. /\ NewStream = Stream(NewStream.entries, NewStream.groups, NewStream.auxGot)
      /\ NewStream.entries = <<>> /\ NewStream.groups = <<>> /\ NewStream.auxGot = <<>>
  BY DEF NewStream, Stream
<1>2. <<>> = [g \in DOMAIN <<>> |-> <<>>[g]] /\ DOMAIN <<>> = {}
  OBVIOUS
<1>3. IsPrefix(<<>>, <<>>)
  BY DEF IsPrefix
<1>4. StreamOK(NewStream)
  BY <1>1, <1>2, EmptySeq DEF StreamOK
<1> QED  BY <1>1, <1>2, <1>3, <1>4 DEF StreamInv

(***************************************************************************)
(* An ID that XADD appends keeps what the stream says of itself.           *)
(***************************************************************************)
LEMMA AddedEntry ==
    ASSUME NEW v, StreamInv(v), NEW id \in Ids
    PROVE  StreamInv([v EXCEPT !.entries = Append(@, id)])
<1>0. PICK entries : entries = Append(v.entries, id)
  OBVIOUS
<1>1. PICK new : new = [v EXCEPT !.entries = entries]
  OBVIOUS
<1>2. /\ new = Stream(new.entries, new.groups, new.auxGot)
      /\ new.entries = Append(v.entries, id) /\ new.groups = v.groups
      /\ new.auxGot = v.auxGot
  <2>1. v = Stream(v.entries, v.groups, v.auxGot)
    BY DEF StreamInv, StreamOK
  <2>2. /\ new = Stream(new.entries, new.groups, new.auxGot)
        /\ new.entries = entries /\ new.groups = v.groups
        /\ new.auxGot = v.auxGot
    BY <1>1, <2>1 DEF Stream
  <2> QED  BY <1>0, <2>2
<1>3. v.entries \in Seq(Ids) /\ v.auxGot \in Seq(Ids) /\ new.entries \in Seq(Ids)
  BY <1>2, AppendProperties DEF StreamInv, StreamOK
<1>4. StreamOK(new)
  BY <1>2, <1>3 DEF StreamInv, StreamOK
<1>5. Increasing(new.entries) => IsPrefix(new.auxGot, new.entries)
  BY <1>2, <1>3, GrownStream DEF StreamInv
<1> QED  BY <1>0, <1>1, <1>2, <1>4, <1>5 DEF StreamInv

(***************************************************************************)
(* A stream of which its follower has read on.                             *)
(***************************************************************************)
LEMMA FollowedStream ==
    ASSUME NEW v, StreamInv(v), NEW count \in Nat
    PROVE  StreamInv([v EXCEPT
               !.auxGot = @ \o After(v.entries, StartOf(v.auxGot), count)])
<1>0. PICK more : more = After(v.entries, StartOf(v.auxGot), count)
  OBVIOUS
<1>a. PICK got : got = v.auxGot \o more
  OBVIOUS
<1>1. PICK new : new = [v EXCEPT !.auxGot = got]
  OBVIOUS
<1>2. /\ new = Stream(new.entries, new.groups, new.auxGot)
      /\ new.entries = v.entries /\ new.groups = v.groups
      /\ new.auxGot = v.auxGot \o more
  <2>1. v = Stream(v.entries, v.groups, v.auxGot)
    BY DEF StreamInv, StreamOK
  <2>2. /\ new = Stream(new.entries, new.groups, new.auxGot)
        /\ new.entries = v.entries /\ new.groups = v.groups
        /\ new.auxGot = got
    BY <1>1, <2>1 DEF Stream
  <2> QED  BY <1>a, <2>2
<1>3. v.entries \in Seq(Ids) /\ v.auxGot \in Seq(Ids)
  BY DEF StreamInv, StreamOK
<1>4. more \in Seq(Ids)
  BY <1>0, <1>3, AfterIsSeq
<1>5. new.auxGot \in Seq(Ids)
  BY <1>2, <1>3, <1>4, ConcatProperties
<1>6. StreamOK(new)
  BY <1>2, <1>5 DEF StreamInv, StreamOK
<1>7. Increasing(new.entries) => IsPrefix(new.auxGot, new.entries)
  BY <1>0, <1>2, <1>3, FollowerMissesNone DEF StreamInv
<1> QED  BY <1>0, <1>a, <1>1, <1>2, <1>6, <1>7 DEF StreamInv

(***************************************************************************)
(* A stream with a new group, and one with a group that has changed.       *)
(***************************************************************************)
LEMMA StreamWithGroup ==
    ASSUME NEW v, StreamInv(v), NEW g \in Groups
    PROVE  StreamInv([v EXCEPT !.groups = With(@, g, NewGroup)])
<1>1. PICK new : new = [v EXCEPT !.groups = With(@, g, NewGroup)]
  OBVIOUS
<1>2. /\ new = Stream(new.entries, new.groups, new.auxGot)
      /\ new.entries = v.entries /\ new.auxGot = v.auxGot
      /\ new.groups = With(v.groups, g, NewGroup)
  BY <1>1 DEF StreamInv, StreamOK, Stream
<1>3. /\ DOMAIN new.groups = DOMAIN v.groups \cup {g}
      /\ new.groups = [h \in DOMAIN new.groups |-> new.groups[h]]
      /\ \A h \in DOMAIN new.groups :
            new.groups[h] = IF h = g THEN NewGroup ELSE v.groups[h]
  BY <1>2 DEF With
<1>4. \A h \in DOMAIN new.groups : GroupOK(new.groups[h]) /\ GroupAcks(new.groups[h])
  BY <1>3, NewGroupAcks DEF StreamInv, StreamOK
<1>5. StreamOK(new)
  BY <1>2, <1>3, <1>4 DEF StreamInv, StreamOK
<1> QED  BY <1>1, <1>2, <1>4, <1>5 DEF StreamInv

(***************************************************************************)
(* A change of the groups leaves the entries, so the history of the        *)
(* stream, alone.                                                          *)
(***************************************************************************)
LEMMA StreamWithChange ==
    ASSUME NEW v, StreamInv(v), NEW g \in DOMAIN v.groups, NEW group,
           GroupOK(group), GroupAcks(group)
    PROVE  StreamInv([v EXCEPT !.groups[g] = group])
<1>0. PICK groups : groups = [v.groups EXCEPT ![g] = group]
  OBVIOUS
<1>1. PICK new : new = [v EXCEPT !.groups[g] = group]
  OBVIOUS
<1>2. /\ new = Stream(new.entries, new.groups, new.auxGot)
      /\ new.entries = v.entries /\ new.auxGot = v.auxGot
      /\ new.groups = [v.groups EXCEPT ![g] = group]
  <2>1. v = Stream(v.entries, v.groups, v.auxGot)
    BY DEF StreamInv, StreamOK
  <2>2. new = [v EXCEPT !.groups = groups]
    BY <1>0, <1>1
  <2>3. /\ new = Stream(new.entries, new.groups, new.auxGot)
        /\ new.entries = v.entries /\ new.groups = groups
        /\ new.auxGot = v.auxGot
    BY <2>1, <2>2 DEF Stream
  <2> QED  BY <1>0, <2>3
<1>3. /\ DOMAIN new.groups = DOMAIN v.groups
      /\ new.groups = [h \in DOMAIN new.groups |-> new.groups[h]]
      /\ \A h \in DOMAIN new.groups :
            new.groups[h] = IF h = g THEN group ELSE v.groups[h]
  BY <1>2
<1>4. \A h \in DOMAIN new.groups : GroupOK(new.groups[h]) /\ GroupAcks(new.groups[h])
  BY <1>3 DEF StreamInv, StreamOK
<1>5. StreamOK(new)
  BY <1>2, <1>3, <1>4 DEF StreamInv, StreamOK
<1> QED  BY <1>1, <1>2, <1>4, <1>5 DEF StreamInv

(***************************************************************************)
(* Every command on a stream changes nothing or leaves such a stream.      *)
(***************************************************************************)
LEMMA StreamCommand ==
    ASSUME \A k \in Keys : Is(k, "stream") => StreamInv(store[k]), StreamCommands
    PROVE  \/ UNCHANGED <<store, memory, joined>>
           \/ Become(store)
           \/ \E k \in Keys : \E v : Put(k, v) /\ v.type = "stream" /\ StreamInv(v)
<1> DEFINE Goal == \/ UNCHANGED <<store, memory, joined>>
                   \/ Become(store)
                   \/ \E k \in Keys : \E v : Put(k, v) /\ v.type = "stream" /\ StreamInv(v)
<1>1. PICK k \in Keys :
        \/ \E id \in Ids : XADD(k, id)
        \/ Read("XADD", k, 0, Error)
        \/ \E start \in Ids \cup {0}, count \in {0, 1} :
               \/ XREAD(k, start, count)
               \/ \E g \in Groups, c \in Consumers : XREADGROUP(k, g, c, start, count)
        \/ \E count \in {0, 1} : Follow(k, count)
        \/ \E first, last \in Ids : XRANGE(k, first, last)
        \/ XLEN(k)
        \/ \E g \in Groups : XGROUPCREATE(k, g)
        \/ \E g \in Groups, i, j \in Ids : i <= j /\ XACK(k, g, <<i, j>>)
  BY DEF StreamCommands, KeysOf
<1>2. StreamInv(StreamOf(k)) /\ EntriesOf(k) \in Seq(Ids)
  BY NewStreamInv DEF StreamOf, EntriesOf, StreamInv, StreamOK
<1>3. ASSUME NEW v, Put(k, v), StreamInv(v) PROVE Goal
  <2>1. v.type = "stream"
    BY <1>3 DEF StreamInv, StreamOK, Stream
  <2> QED  BY <1>3, <2>1
<1>4. ASSUME UNCHANGED <<store, memory, joined>> PROVE Goal
  BY <1>4
<1>5. ASSUME Become(store) PROVE Goal
  BY <1>5
<1> HIDE DEF Goal
<1>6. ASSUME NEW id \in Ids, XADD(k, id) PROVE Goal
  <2>1. Put(k, [StreamOf(k) EXCEPT !.entries = Append(@, id)])
    BY <1>6 DEF XADD
  <2> QED  BY <1>2, <1>3, <2>1, AddedEntry
<1>7. ASSUME Read("XADD", k, 0, Error) PROVE Goal
  BY <1>4, <1>7 DEF Read
<1>8. ASSUME NEW start, NEW count, XREAD(k, start, count) PROVE Goal
  BY <1>4, <1>8 DEF Read, XREAD
<1>9. ASSUME NEW start, NEW count \in {0, 1}, NEW g \in Groups, NEW c \in Consumers,
             XREADGROUP(k, g, c, start, count)
      PROVE  Goal
  <2>1. CASE HasGroup(k, g)
    <3>1. PICK entries : entries = After(EntriesOf(k), start, count)
      OBVIOUS
    <3>2. entries \in Seq(Ids)
      <4>1. count \in Nat
        OBVIOUS
      <4> QED  BY <1>2, <3>1, <4>1, AfterIsSeq
    <3>3. Put(k, [store[k] EXCEPT !.groups[g] = Deliver(@, c, entries)])
      BY <1>9, <2>1, <3>1 DEF XREADGROUP
    <3>4. StreamInv(store[k]) /\ g \in DOMAIN store[k].groups
      BY <2>1 DEF HasGroup
    <3>5. PICK group : group = Deliver(store[k].groups[g], c, entries)
      OBVIOUS
    <3>6. GroupOK(group) /\ GroupAcks(group)
      BY <3>2, <3>4, <3>5, DeliverKeepsAcks DEF StreamInv, StreamOK
    <3>7. Put(k, [store[k] EXCEPT !.groups[g] = group])
      BY <3>3, <3>5
    <3> QED  BY <1>3, <3>4, <3>6, <3>7, StreamWithChange
  <2>2. CASE ~ HasGroup(k, g)
    BY <1>5, <1>9, <2>2 DEF XREADGROUP
  <2> QED  BY <2>1, <2>2
<1>10. ASSUME NEW count \in {0, 1}, Follow(k, count) PROVE Goal
  <2>1. Is(k, "stream")
    BY <1>10 DEF Follow
  <2>2. StreamOf(k) = store[k] /\ EntriesOf(k) = store[k].entries /\ StreamInv(store[k])
    BY <2>1 DEF StreamOf, EntriesOf
  <2>3. Put(k, [store[k] EXCEPT
                  !.auxGot = @ \o After(store[k].entries, StartOf(store[k].auxGot), count)])
    BY <1>10, <2>2 DEF Follow, StartOf
  <2>4. count \in Nat
    OBVIOUS
  <2> QED  BY <1>3, <2>2, <2>3, <2>4, FollowedStream
<1>11. ASSUME NEW first, NEW last, XRANGE(k, first, last) PROVE Goal
  BY <1>4, <1>11 DEF Read, XRANGE
<1>12. ASSUME XLEN(k) PROVE Goal
  BY <1>4, <1>12 DEF Read, XLEN
<1>13. ASSUME NEW g \in Groups, XGROUPCREATE(k, g) PROVE Goal
  <2>1. CASE Is(k, "stream") /\ ~ HasGroup(k, g)
    <3>1. Put(k, [store[k] EXCEPT !.groups = With(@, g, NewGroup)])
      BY <1>13, <2>1 DEF XGROUPCREATE
    <3> QED  BY <1>3, <2>1, <3>1, StreamWithGroup
  <2>2. CASE ~ (Is(k, "stream") /\ ~ HasGroup(k, g))
    BY <1>4, <1>13, <2>2 DEF Read, XGROUPCREATE
  <2> QED  BY <2>1, <2>2
<1>14. ASSUME NEW g \in Groups, NEW i \in Ids, NEW j \in Ids, XACK(k, g, <<i, j>>)
       PROVE  Goal
  <2>1. CASE HasGroup(k, g)
    <3>1. PICK group : group = Acknowledge(store[k].groups[g], <<i, j>>)
      OBVIOUS
    <3>2. Put(k, [store[k] EXCEPT !.groups[g] = group])
      BY <1>14, <2>1, <3>1 DEF XACK
    <3>3. StreamInv(store[k]) /\ g \in DOMAIN store[k].groups
      BY <2>1 DEF HasGroup
    <3>4. <<i, j>> \in Seq(Ids)
      OBVIOUS
    <3>5. GroupOK(group) /\ GroupAcks(group)
      BY <3>1, <3>3, <3>4, AcknowledgeKeepsAcks DEF StreamInv, StreamOK
    <3> QED  BY <1>3, <3>2, <3>3, <3>5, StreamWithChange
  <2>2. CASE ~ HasGroup(k, g)
    BY <1>4, <1>14, <2>2 DEF Read, XACK
  <2> QED  BY <2>1, <2>2
<1>15. Goal
  BY <1>1, <1>6, <1>7, <1>8, <1>9, <1>10, <1>11, <1>12, <1>13, <1>14
<1> QED  BY <1>15 DEF Goal

-----------------------------------------------------------------------------
(***************************************************************************)
(* A bijection takes no value twice and leaves none out.                   *)
(***************************************************************************)
LEMMA BijectionMeans ==
    ASSUME NEW S, NEW T, NEW p
    PROVE  p \in Bijection(S, T) <=> /\ p \in [S -> T]
                                     /\ \A i, j \in S : p[i] = p[j] => i = j
                                     /\ \A j \in T : \E i \in S : p[i] = j
BY DEF Bijection, Injection, Surjection, IsInjective

(***************************************************************************)
(* What holds of a series and of a sketch in the store.                    *)
(***************************************************************************)
SeriesInv(v) == MeasureOK(v) /\ v.type = "series" /\ SeriesOfAdded(v)
SketchInv(v) == MeasureOK(v) /\ v.type = "sketch" /\ SketchOfAdded(v)

(***************************************************************************)
(* The shapes of the two.                                                  *)
(***************************************************************************)
LEMMA SeriesShape ==
    ASSUME NEW v
    PROVE  SeriesInv(v) <=> /\ v = Series(v.points, v.auxAdded)
                            /\ v.points \in Seq(Points) /\ v.auxAdded \in Seq(Points)
                            /\ SeriesOfAdded(v)
<1>1. ASSUME SeriesInv(v)
      PROVE  /\ v = Series(v.points, v.auxAdded)
             /\ v.points \in Seq(Points) /\ v.auxAdded \in Seq(Points)
  BY <1>1 DEF SeriesInv, MeasureOK, Series
<1>2. ASSUME v = Series(v.points, v.auxAdded),
             v.points \in Seq(Points), v.auxAdded \in Seq(Points)
      PROVE  MeasureOK(v) /\ v.type = "series"
  BY <1>2 DEF MeasureOK, Series
<1> QED  BY <1>1, <1>2 DEF SeriesInv

(***************************************************************************)
(* The series that TS.CREATE makes.                                        *)
(***************************************************************************)
LEMMA NewSeriesInv == SeriesInv(Series(<<>>, <<>>))
<1>1. PICK v : v = Series(<<>>, <<>>)
  OBVIOUS
<1>2. /\ v = Series(v.points, v.auxAdded)
      /\ v.points = <<>> /\ v.auxAdded = <<>>
  BY <1>1 DEF Series
<1>3. <<>> \in Seq(Points) /\ DOMAIN <<>> = {}
  OBVIOUS
<1>4. SeriesOfAdded(v)
  <2>1. <<>> \in Bijection({}, {})
    <3>1. <<>> \in [{} -> {}]
      BY <1>3
    <3> QED  BY <3>1, BijectionMeans
  <2> QED  BY <1>2, <1>3, <2>1 DEF SeriesOfAdded, InTimeOrder
<1> QED  BY <1>1, <1>2, <1>3, <1>4, SeriesShape

(***************************************************************************)
(* A bijection with one element more on both sides, after a permutation.   *)
(***************************************************************************)
LEMMA LongerBijection ==
    ASSUME NEW S, NEW T, NEW a, NEW b, a \notin S, b \notin T,
           NEW p \in Bijection(S, T), NEW q \in Bijection(S \cup {a}, S \cup {a})
    PROVE  [i \in S \cup {a} |-> IF q[i] = a THEN b ELSE p[q[i]]]
               \in Bijection(S \cup {a}, T \cup {b})
<1> DEFINE r == [i \in S \cup {a} |-> IF q[i] = a THEN b ELSE p[q[i]]]
<1>1. /\ p \in [S -> T]
      /\ \A i, j \in S : p[i] = p[j] => i = j
      /\ \A j \in T : \E i \in S : p[i] = j
  BY BijectionMeans
<1>2. PICK Q : Q = S \cup {a}
  OBVIOUS
<1>3. /\ q \in [Q -> Q]
      /\ \A i, j \in Q : q[i] = q[j] => i = j
      /\ \A j \in Q : \E i \in Q : q[i] = j
  BY <1>2, BijectionMeans
<1>4. \A i \in Q : \/ q[i] = a /\ r[i] = b
                   \/ q[i] \in S /\ q[i] # a /\ r[i] = p[q[i]] /\ r[i] \in T /\ r[i] # b
  BY <1>1, <1>2, <1>3
<1>5. r \in [Q -> T \cup {b}]
  BY <1>1, <1>2, <1>3
<1> HIDE DEF r
<1>6. ASSUME NEW i \in Q, NEW j \in Q, r[i] = r[j] PROVE i = j
  <2>1. q[i] = q[j]
    BY <1>1, <1>4, <1>6
  <2> QED  BY <1>3, <2>1
<1>7. ASSUME NEW j \in T \cup {b} PROVE \E i \in Q : r[i] = j
  <2>1. CASE j = b
    <3>1. PICK i \in Q : q[i] = a
      BY <1>2, <1>3
    <3> QED  BY <1>4, <2>1, <3>1
  <2>2. CASE j \in T
    <3>1. PICK h \in S : p[h] = j
      BY <1>1, <2>2
    <3>2. PICK i \in Q : q[i] = h
      BY <1>2, <1>3
    <3> QED  BY <1>4, <3>1, <3>2
  <2> QED  BY <2>1, <2>2
<1>8. r \in Bijection(Q, T \cup {b})
  BY <1>5, <1>6, <1>7, BijectionMeans
<1> QED  BY <1>2, <1>8 DEF r

(***************************************************************************)
(* TS.ADD: any order in which the sort may leave the points is an order of *)
(* the points that were added, with the new one.                           *)
(***************************************************************************)
LEMMA SortKeeps ==
    ASSUME NEW v, SeriesInv(v), NEW point \in Points,
           NEW s \in SortedPoints(Append(v.points, point))
    PROVE  SeriesInv(Series(s, Append(v.auxAdded, point)))
<1>1. /\ v.points \in Seq(Points) /\ v.auxAdded \in Seq(Points) /\ SeriesOfAdded(v)
  BY SeriesShape
<1>2. PICK n, m : n = Len(v.points) /\ m = Len(v.auxAdded)
  OBVIOUS
<1>3. PICK longer, added : longer = Append(v.points, point) /\ added = Append(v.auxAdded, point)
  OBVIOUS
<1>4. n \in Nat /\ m \in Nat /\ DOMAIN v.points = 1 .. n /\ DOMAIN v.auxAdded = 1 .. m
  BY <1>1, <1>2
<1>5. /\ longer \in Seq(Points) /\ added \in Seq(Points)
      /\ DOMAIN longer = 1 .. n + 1 /\ DOMAIN added = 1 .. m + 1
      /\ \A i \in 1 .. n : longer[i] = v.points[i]
      /\ \A i \in 1 .. m : added[i] = v.auxAdded[i]
      /\ longer[n + 1] = point /\ added[m + 1] = point
  BY <1>1, <1>2, <1>3, AppendProperties
<1>6. PICK p \in Bijection(DOMAIN v.points, DOMAIN v.auxAdded) :
          \A i \in DOMAIN v.points : v.points[i] = v.auxAdded[p[i]]
  BY <1>1 DEF SeriesOfAdded
<1>7. PICK q \in Bijection(DOMAIN longer, DOMAIN longer) : s = [i \in DOMAIN longer |-> longer[q[i]]]
  BY <1>3 DEF SortedPoints
<1>8. PICK D, E : D = DOMAIN v.points /\ E = DOMAIN v.auxAdded
  OBVIOUS
<1>9. /\ DOMAIN longer = D \cup {n + 1} /\ n + 1 \notin D
      /\ DOMAIN added = E \cup {m + 1} /\ m + 1 \notin E
  <2>1. 1 .. n + 1 = 1 .. n \cup {n + 1} /\ 1 .. m + 1 = 1 .. m \cup {m + 1}
    BY <1>4
  <2> QED  BY <1>4, <1>5, <1>8, <2>1
<1>10. PICK r : r = [i \in DOMAIN longer |-> IF q[i] = n + 1 THEN m + 1 ELSE p[q[i]]]
  OBVIOUS
<1>11. r \in Bijection(DOMAIN longer, DOMAIN added)
  <2>1. p \in Bijection(D, E)
    BY <1>8
  <2>2. q \in Bijection(D \cup {n + 1}, D \cup {n + 1})
    BY <1>9
  <2> QED  BY <1>9, <1>10, <2>1, <2>2, LongerBijection
<1>12. q \in [D \cup {n + 1} -> D \cup {n + 1}] /\ p \in [D -> E]
  BY <1>8, <1>9, BijectionMeans
<1>13. s \in Seq(Points) /\ DOMAIN s = DOMAIN longer
  <2>1. \A i \in DOMAIN longer : longer[i] \in Points
    BY <1>4, <1>5
  <2>2. s \in [DOMAIN longer -> Points]
    BY <1>7, <1>9, <1>12, <2>1
  <2>3. s \in [1 .. n + 1 -> Points] /\ n + 1 \in Nat
    BY <1>4, <1>5, <2>2
  <2> QED  BY <2>2, <2>3
<1>14. \A i \in DOMAIN longer : s[i] = added[r[i]]
  <2> TAKE i \in DOMAIN longer
  <2>1. s[i] = longer[q[i]] /\ q[i] \in D \cup {n + 1}
    BY <1>7, <1>9, <1>12
  <2>2. CASE q[i] = n + 1
    BY <1>5, <1>10, <2>1, <2>2
  <2>3. CASE q[i] \in D
    <3>1. r[i] = p[q[i]] /\ p[q[i]] \in E
      BY <1>9, <1>10, <1>12, <2>3
    <3>2. v.points[q[i]] = v.auxAdded[p[q[i]]]
      BY <1>6, <1>8, <2>3
    <3>3. longer[q[i]] = v.points[q[i]] /\ added[r[i]] = v.auxAdded[p[q[i]]]
      BY <1>4, <1>5, <1>8, <2>3, <3>1
    <3> QED  BY <2>1, <3>2, <3>3
  <2> QED  BY <2>1, <2>2, <2>3
<1>15. PICK new : new = Series(s, added)
  OBVIOUS
<1>16. new.points = s /\ new.auxAdded = added /\ new = Series(new.points, new.auxAdded)
  BY <1>15 DEF Series
<1>17. SeriesOfAdded(new)
  <2>1. InTimeOrder(new.points)
    BY <1>3, <1>16 DEF SortedPoints
  <2>2. r \in Bijection(DOMAIN new.points, DOMAIN new.auxAdded)
    BY <1>11, <1>13, <1>16
  <2>3. \A i \in DOMAIN new.points : new.points[i] = new.auxAdded[r[i]]
    BY <1>13, <1>14, <1>16
  <2> QED  BY <2>1, <2>2, <2>3 DEF SeriesOfAdded
<1>18. SeriesInv(new)
  BY <1>5, <1>13, <1>16, <1>17, SeriesShape
<1> QED  BY <1>3, <1>15, <1>18
-----------------------------------------------------------------------------
(***************************************************************************)
(* What SketchOfAdded says, one element at a time.                         *)
(***************************************************************************)
LEMMA SketchMeans ==
    ASSUME NEW v, v.auxSet \subseteq Elements
    PROVE  SketchOfAdded(v) <=>
              /\ \A x \in v.auxSet : HashOf[x].rank <= v.registers[HashOf[x].index]
              /\ \A i \in Registers :
                    \/ v.registers[i] = 0
                    \/ \E x \in v.auxSet : HashOf[x].index = i /\ HashOf[x].rank = v.registers[i]
<1> DEFINE Low == \A x \in v.auxSet : HashOf[x].rank <= v.registers[HashOf[x].index]
           Set == \A i \in Registers :
                    \/ v.registers[i] = 0
                    \/ \E x \in v.auxSet : HashOf[x].index = i /\ HashOf[x].rank = v.registers[i]
           Ranks(i) == {HashOf[e].rank : e \in {x \in v.auxSet : HashOf[x].index = i}}
<1>1. SketchOfAdded(v) <=> \A i \in Registers : /\ \A r \in Ranks(i) : r <= v.registers[i]
                                                /\ v.registers[i] \in Ranks(i) \cup {0}
  BY DEF SketchOfAdded
<1>2. ASSUME NEW i \in Registers
      PROVE  /\ (\A r \in Ranks(i) : r <= v.registers[i])
                <=> \A x \in v.auxSet : HashOf[x].index = i => HashOf[x].rank <= v.registers[i]
             /\ v.registers[i] \in Ranks(i) \cup {0} <=>
                   \/ v.registers[i] = 0
                   \/ \E x \in v.auxSet : HashOf[x].index = i /\ HashOf[x].rank = v.registers[i]
  OBVIOUS
<1>3. \A x \in v.auxSet : HashOf[x].index \in Registers
  BY DEF Registers
<1> HIDE DEF Ranks
<1> QED  BY <1>1, <1>2, <1>3

(***************************************************************************)
(* The shape of a sketch, which the registers of all elements fit.         *)
(***************************************************************************)
Sketch(registers, added) ==
    [type |-> "sketch", registers |-> registers, auxSet |-> added]

(***************************************************************************)
(* A sketch is a record of registers and of what was added.                *)
(***************************************************************************)
LEMMA SketchShape ==
    ASSUME NEW v
    PROVE  SketchInv(v) <=> /\ v = Sketch(v.registers, v.auxSet)
                            /\ v.registers \in [Registers -> Nat] /\ v.auxSet \subseteq Elements
                            /\ SketchOfAdded(v)
<1>1. ASSUME SketchInv(v)
      PROVE  /\ v = Sketch(v.registers, v.auxSet)
             /\ v.registers \in [Registers -> Nat] /\ v.auxSet \subseteq Elements
  <2>1. v \in [type : {"sketch"}, registers : [Registers -> Nat], auxSet : SUBSET Elements]
    BY <1>1 DEF SketchInv, MeasureOK
  <2> QED  BY <2>1 DEF Sketch
<1>2. ASSUME v = Sketch(v.registers, v.auxSet),
             v.registers \in [Registers -> Nat], v.auxSet \subseteq Elements
      PROVE  MeasureOK(v) /\ v.type = "sketch"
  BY <1>2 DEF MeasureOK, Sketch
<1> QED  BY <1>1, <1>2 DEF SketchInv

(***************************************************************************)
(* An element has a register and a rank.                                   *)
(***************************************************************************)
LEMMA HashOfElements ==
    ASSUME NEW e \in Elements
    PROVE  HashOf[e].index \in Registers /\ HashOf[e].rank \in Nat \ {0}
BY MeasuresAssumption DEF Registers

(***************************************************************************)
(* An empty sketch, one with an element more, and the sketch that PFMERGE  *)
(* makes of others.                                                        *)
(***************************************************************************)
LEMMA NewSketchInv == SketchInv(NewSketch)
<1>1. /\ NewSketch = Sketch(NewSketch.registers, NewSketch.auxSet)
      /\ NewSketch.registers = [i \in Registers |-> 0] /\ NewSketch.auxSet = {}
  BY DEF NewSketch, Sketch
<1>2. PICK v : v = NewSketch
  OBVIOUS
<1>3. /\ v = Sketch(v.registers, v.auxSet)
      /\ v.registers = [i \in Registers |-> 0] /\ v.auxSet = {}
  BY <1>1, <1>2
<1>4. /\ \A x \in v.auxSet : HashOf[x].rank <= v.registers[HashOf[x].index]
      /\ \A i \in Registers : v.registers[i] = 0
      /\ v.registers \in [Registers -> Nat] /\ v.auxSet \subseteq Elements
  BY <1>3
<1>5. SketchOfAdded(v)
  BY <1>4, SketchMeans
<1> QED  BY <1>2, <1>3, <1>4, <1>5, SketchShape

(***************************************************************************)
(* An element that is added raises its own register as far as it has to.   *)
(***************************************************************************)
LEMMA AddKeeps ==
    ASSUME NEW v, SketchInv(v), NEW e \in Elements
    PROVE  SketchInv(Add(v, e))
<1>1. PICK new : new = Add(v, e)
  OBVIOUS
<1>2. /\ v = Sketch(v.registers, v.auxSet)
      /\ v.registers \in [Registers -> Nat] /\ v.auxSet \subseteq Elements
  BY SketchShape
<1>3. PICK index, rank : index = HashOf[e].index /\ rank = HashOf[e].rank
  OBVIOUS
<1>4. index \in Registers /\ rank \in Nat
  BY <1>3, HashOfElements
<1>5. PICK registers :
         registers = [v.registers EXCEPT ![index] = IF @ < rank THEN rank ELSE @]
  OBVIOUS
<1>6. new = [v EXCEPT !.registers[index] = IF @ < rank THEN rank ELSE @,
                      !.auxSet = @ \cup {e}]
  BY <1>1, <1>3 DEF Add
<1>7. PICK added : added = v.auxSet \cup {e}
  OBVIOUS
<1>a. new = [v EXCEPT !.registers = registers, !.auxSet = added]
  BY <1>2, <1>5, <1>6, <1>7 DEF Sketch
<1>b. /\ new = Sketch(new.registers, new.auxSet)
      /\ new.registers = registers /\ new.auxSet = added
  <2>1. PICK old, before : old = v.registers /\ before = v.auxSet
    OBVIOUS
  <2>2. v = [type |-> "sketch", registers |-> old, auxSet |-> before]
    BY <1>2, <2>1 DEF Sketch
  <2>3. new = [type |-> "sketch", registers |-> registers, auxSet |-> added]
    BY <1>a, <2>2
  <2> QED  BY <2>3 DEF Sketch
<1>8. /\ new = Sketch(new.registers, new.auxSet)
      /\ new.registers = registers /\ new.auxSet = v.auxSet \cup {e}
  BY <1>7, <1>b
<1>9. /\ registers \in [Registers -> Nat]
      /\ \A i \in Registers : i # index => registers[i] = v.registers[i]
      /\ rank <= registers[index] /\ v.registers[index] <= registers[index]
      /\ registers[index] \in {rank, v.registers[index]}
  BY <1>2, <1>4, <1>5
<1>10. /\ \A x \in v.auxSet : HashOf[x].rank <= v.registers[HashOf[x].index]
       /\ \A i \in Registers :
            \/ v.registers[i] = 0
            \/ \E x \in v.auxSet : HashOf[x].index = i /\ HashOf[x].rank = v.registers[i]
  BY <1>2, SketchMeans DEF SketchInv
<1>11. ASSUME NEW x \in new.auxSet PROVE HashOf[x].rank <= new.registers[HashOf[x].index]
  <2>1. CASE x = e
    BY <1>3, <1>8, <1>9, <2>1
  <2>2. CASE x \in v.auxSet
    <3>1. HashOf[x].index \in Registers /\ HashOf[x].rank \in Nat
      BY <1>2, <2>2, HashOfElements
    <3>2. HashOf[x].rank <= v.registers[HashOf[x].index]
      BY <1>10, <2>2
    <3> QED  BY <1>2, <1>4, <1>8, <1>9, <3>1, <3>2
  <2> QED  BY <1>8, <2>1, <2>2
<1>12. ASSUME NEW i \in Registers
       PROVE  \/ new.registers[i] = 0
              \/ \E x \in new.auxSet : HashOf[x].index = i /\ HashOf[x].rank = new.registers[i]
  <2>1. CASE new.registers[i] = v.registers[i]
    BY <1>8, <1>10, <2>1
  <2>2. CASE i = index /\ new.registers[i] = rank
    BY <1>3, <1>8, <2>2
  <2> QED  BY <1>8, <1>9, <2>1, <2>2
<1>13. new.auxSet \subseteq Elements
  BY <1>2, <1>8
<1>14. SketchOfAdded(new)
  BY <1>11, <1>12, <1>13, SketchMeans
<1> QED  BY <1>1, <1>8, <1>9, <1>13, <1>14, SketchShape

(***************************************************************************)
(* The greatest of n numbers.                                              *)
(***************************************************************************)
LEMMA GreatestOf ==
    ASSUME NEW n \in Nat \ {0}, NEW r \in [1 .. n -> Nat]
    PROVE  \E j \in 1 .. n : \A i \in 1 .. n : r[i] <= r[j]
<1> DEFINE P == {m \in Nat : m = 0 \/ \E j \in 1 .. m : \A i \in 1 .. m : r[i] <= r[j]}
<1>1. 0 \in P
  OBVIOUS
<1>2. ASSUME NEW m \in 0 .. n - 1, m \in P PROVE m + 1 \in P
  <2>1. CASE m = 0
    <3>1. 1 \in 1 .. 1 /\ \A i \in 1 .. 1 : r[i] <= r[1]
      OBVIOUS
    <3> QED  BY <2>1, <3>1
  <2>2. CASE m # 0
    <3>1. PICK j \in 1 .. m : \A i \in 1 .. m : r[i] <= r[j]
      BY <1>2, <2>2
    <3>2. r[j] \in Nat /\ r[m + 1] \in Nat
      OBVIOUS
    <3>3. CASE r[m + 1] <= r[j]
      <4>1. \A i \in 1 .. m + 1 : r[i] <= r[j]
        <5> TAKE i \in 1 .. m + 1
        <5>1. i \in 1 .. m \/ i = m + 1
          OBVIOUS
        <5> QED  BY <3>1, <3>3, <5>1
      <4> QED  BY <4>1
    <3>4. CASE r[j] < r[m + 1]
      <4>1. \A i \in 1 .. m + 1 : r[i] <= r[m + 1]
        <5> TAKE i \in 1 .. m + 1
        <5>1. i \in 1 .. m \/ i = m + 1
          OBVIOUS
        <5>2. r[i] \in Nat
          OBVIOUS
        <5> QED  BY <3>1, <3>2, <3>4, <5>1, <5>2
      <4> QED  BY <4>1
    <3> QED  BY <3>2, <3>3, <3>4
  <2> QED  BY <2>1, <2>2
<1>3. n \in P
  <2>1. \A m \in 0 .. n : m \in P
    <3> HIDE DEF P
    <3> QED  BY <1>1, <1>2, AllUpTo
  <2>2. n \in 0 .. n
    OBVIOUS
  <2> HIDE DEF P
  <2> QED  BY <2>1, <2>2
<1> QED  BY <1>3

(***************************************************************************)
(* A merge of sketches is the sketch of what was added to any of them.     *)
(***************************************************************************)
LEMMA MergedKeeps ==
    ASSUME NEW n \in Nat \ {0}, NEW s, DOMAIN s = 1 .. n, \A j \in 1 .. n : SketchInv(s[j])
    PROVE  SketchInv(Merged({s[j] : j \in 1 .. n}))
<1>1. PICK sketches : sketches = {s[j] : j \in 1 .. n}
  OBVIOUS
<1>2. PICK new : new = Merged(sketches)
  OBVIOUS
<1>3. \A v \in sketches : SketchInv(v)
  BY <1>1
<1> DEFINE rank(i) == CHOOSE m \in {v.registers[i] : v \in sketches} :
                          \A v \in sketches : v.registers[i] <= m
<1>4. /\ new = Sketch(new.registers, new.auxSet)
      /\ new.registers = [i \in Registers |-> rank(i)]
      /\ new.auxSet = UNION {v.auxSet : v \in sketches}
  BY <1>2 DEF Merged, Sketch
<1>5. ASSUME NEW i \in Registers
      PROVE  \E v \in sketches : /\ rank(i) = v.registers[i]
                                 /\ \A u \in sketches : u.registers[i] <= v.registers[i]
  <2> DEFINE r == [j \in 1 .. n |-> s[j].registers[i]]
  <2>1. r \in [1 .. n -> Nat]
    <3>1. \A j \in 1 .. n : s[j].registers \in [Registers -> Nat]
      BY SketchShape
    <3> QED  BY <3>1
  <2>2. PICK j \in 1 .. n : \A h \in 1 .. n : r[h] <= r[j]
    <3> HIDE DEF r
    <3> QED  BY <2>1, GreatestOf
  <2>3. \A h \in 1 .. n : s[h].registers[i] <= s[j].registers[i]
    BY <2>2
  <2>4. s[j].registers[i] \in {v.registers[i] : v \in sketches}
    BY <1>1
  <2>5. \A v \in sketches : v.registers[i] <= s[j].registers[i]
    BY <1>1, <2>3
  <2>6. /\ rank(i) \in {v.registers[i] : v \in sketches}
        /\ \A v \in sketches : v.registers[i] <= rank(i)
    BY <2>4, <2>5
  <2> HIDE DEF rank
  <2>7. PICK v \in sketches : rank(i) = v.registers[i]
    BY <2>6
  <2> QED  BY <2>6, <2>7
<1> HIDE DEF rank
<1>6. \A v \in sketches : /\ v.registers \in [Registers -> Nat] /\ v.auxSet \subseteq Elements
                          /\ SketchOfAdded(v)
  BY <1>3, SketchShape
<1>7. new.registers \in [Registers -> Nat] /\ new.auxSet \subseteq Elements
  <2>1. \A i \in Registers : rank(i) \in Nat
    BY <1>5, <1>6
  <2> QED  BY <1>4, <1>6, <2>1
<1>8. \A v \in sketches :
        /\ \A x \in v.auxSet : HashOf[x].rank <= v.registers[HashOf[x].index]
        /\ \A i \in Registers :
              \/ v.registers[i] = 0
              \/ \E x \in v.auxSet : HashOf[x].index = i /\ HashOf[x].rank = v.registers[i]
  BY <1>6, SketchMeans
<1>9. ASSUME NEW x \in new.auxSet PROVE HashOf[x].rank <= new.registers[HashOf[x].index]
  <2>1. PICK u \in sketches : x \in u.auxSet
    BY <1>4
  <2>2. HashOf[x].index \in Registers /\ HashOf[x].rank \in Nat
    BY <1>6, <2>1, HashOfElements
  <2>3. PICK i : i = HashOf[x].index
    OBVIOUS
  <2>4. PICK v \in sketches : rank(i) = v.registers[i] /\ u.registers[i] <= v.registers[i]
    BY <1>5, <2>2, <2>3
  <2>5. HashOf[x].rank <= u.registers[i]
    BY <1>8, <2>1, <2>3
  <2>6. u.registers[i] \in Nat /\ v.registers[i] \in Nat
    BY <1>6, <2>2, <2>3
  <2>7. new.registers[i] = v.registers[i]
    BY <1>4, <2>2, <2>3, <2>4
  <2> QED  BY <2>2, <2>3, <2>4, <2>5, <2>6, <2>7
<1>10. ASSUME NEW i \in Registers
       PROVE  \/ new.registers[i] = 0
              \/ \E x \in new.auxSet : HashOf[x].index = i /\ HashOf[x].rank = new.registers[i]
  <2>1. PICK v \in sketches : rank(i) = v.registers[i]
    BY <1>5
  <2>2. new.registers[i] = v.registers[i] /\ v.auxSet \subseteq new.auxSet
    BY <1>4, <2>1
  <2> QED  BY <1>8, <2>2
<1>11. SketchOfAdded(new)
  BY <1>7, <1>9, <1>10, SketchMeans
<1> QED  BY <1>1, <1>2, <1>4, <1>7, <1>11, SketchShape
-----------------------------------------------------------------------------
(***************************************************************************)
(* The values other than slices, with what their histories say, and the    *)
(* invariant in these terms.                                               *)
(***************************************************************************)
PlainInv(v) ==
    \/ v = NoValue
    \/ v.type = "string" /\ v \in Texts
    \/ v.type = "set" /\ v \in [type : {"set"}, members : SUBSET Members]
    \/ v.type = "map" /\ v = Map(v.fields) /\ IsDocument(v.fields)
    \/ v.type = "stream" /\ StreamInv(v)
    \/ v.type = "json text" /\ v.of.json \in {"object", "array"}
    \/ v.type = "nil map" /\ v = NilMap
    \/ v.type = "series" /\ SeriesInv(v)
    \/ v.type = "sketch" /\ SketchInv(v)
    \/ v.type \in {"nil sketch", "geo", "vector"} /\ MeasureOK(v)

StoreInv ==
    /\ DOMAIN store = Keys
    /\ \A k \in Keys : PlainInv(store[k]) \/ (k \in BytesIn(store) /\ SliceOK(store[k]))

(***************************************************************************)
(* The invariant of TypedKeys, value by value.                             *)
(***************************************************************************)
LEMMA InvMeans == IInv <=> StoreInv /\ ArraysInv
<1>1. ASSUME IInv, NEW k \in Keys
      PROVE  PlainInv(store[k]) \/ (k \in BytesIn(store) /\ SliceOK(store[k]))
  <2>1. ValueOK(store[k])
    BY <1>1 DEF IInv, TypeOK
  <2>2. store[k] # NoValue /\ store[k].type = "stream" /\ StreamOK(store[k]) =>
            StreamInv(store[k])
    BY <1>1 DEF IInv, StreamFollowed, AcksMatchDeliveries, Is, StreamInv, GroupAcks
  <2>3. /\ store[k] # NoValue /\ store[k].type = "series" /\ MeasureOK(store[k]) =>
               SeriesInv(store[k])
        /\ store[k] # NoValue /\ store[k].type = "sketch" /\ MeasureOK(store[k]) =>
               SketchInv(store[k])
    BY <1>1 DEF IInv, KeepsWhatWasAdded, Is, SeriesInv, SketchInv
  <2>4. NilMap.type = "nil map"
    BY DEF NilMap
  <2>5. store[k] # NoValue /\ store[k].type = "bytes" => k \in BytesIn(store)
    BY DEF BytesIn
  <2> DEFINE v == store[k]
  <2>7. v \in Texts => v.type = "string"
    BY DEF Texts
  <2>8. ASSUME v # NoValue, v.type = "bytes", SliceOK(v) PROVE k \in BytesIn(store)
    BY <2>5, <2>8
  <2>9. ASSUME v # NoValue, v = NilMap PROVE PlainInv(v)
    BY <2>4, <2>9 DEF PlainInv
  <2>10. ASSUME v # NoValue, v.type = "stream", StreamOK(v) PROVE PlainInv(v)
    BY <2>2, <2>10 DEF PlainInv
  <2>11. ASSUME v # NoValue, MeasureOK(v),
                v.type \in {"series", "sketch", "nil sketch", "geo", "vector"}
         PROVE  PlainInv(v)
    <3>1. CASE v.type = "series"
      BY <2>3, <2>11, <3>1 DEF PlainInv
    <3>2. CASE v.type = "sketch"
      BY <2>3, <2>11, <3>2 DEF PlainInv
    <3>3. CASE v.type \in {"nil sketch", "geo", "vector"}
      BY <2>11, <3>3 DEF PlainInv
    <3> QED  BY <2>11, <3>1, <3>2, <3>3
  <2>12. CASE v = NoValue
    <3>1. PlainInv(v)
      BY <2>12, Zenon DEF PlainInv
    <3> QED  BY <3>1
  <2>13. CASE v # NoValue
    <3>1. ValueOK(v)
      BY <2>1
    <3>2. ASSUME \/ v.type = "string" /\ v \in Texts
                 \/ v.type = "set" /\ v \in [type : {"set"}, members : SUBSET Members]
                 \/ v.type = "map" /\ v = Map(v.fields) /\ IsDocument(v.fields)
                 \/ v.type = "json text" /\ v.of.json \in {"object", "array"}
          PROVE  PlainInv(v)
      BY <3>2, Zenon DEF PlainInv
    <3>3. CASE v.type = "bytes" /\ SliceOK(v)
      BY <2>8, <2>13, <3>3
    <3>4. CASE PlainInv(v)
      BY <3>4
    <3>5. \/ \/ v.type = "string" /\ v \in Texts
             \/ v.type = "set" /\ v \in [type : {"set"}, members : SUBSET Members]
             \/ v.type = "map" /\ v = Map(v.fields) /\ IsDocument(v.fields)
             \/ v.type = "json text" /\ v.of.json \in {"object", "array"}
          \/ v.type = "stream" /\ StreamOK(v)
          \/ v = NilMap
          \/ v.type \in {"series", "sketch", "nil sketch", "geo", "vector"} /\ MeasureOK(v)
          \/ v.type = "bytes" /\ SliceOK(v)
      BY <2>13, <3>1, Zenon DEF ValueOK
    <3> QED  BY <2>9, <2>10, <2>11, <2>13, <3>2, <3>3, <3>4, <3>5
  <2> QED  BY <2>12, <2>13
<1>2. ASSUME StoreInv, ArraysInv PROVE IInv
  <2>1. ASSUME NEW k \in Keys, store[k] # NoValue
        PROVE  /\ ValueOK(store[k])
               /\ store[k].type = "stream" => StreamInv(store[k])
               /\ store[k].type = "series" => SeriesInv(store[k])
               /\ store[k].type = "sketch" => SketchInv(store[k])
    <3>1. PlainInv(store[k]) \/ (store[k].type = "bytes" /\ SliceOK(store[k]))
      BY <1>2 DEF StoreInv, BytesIn
    <3>2. StreamInv(store[k]) => StreamOK(store[k])
      BY DEF StreamInv
    <3>3. SeriesInv(store[k]) \/ SketchInv(store[k]) => MeasureOK(store[k])
      BY DEF SeriesInv, SketchInv
    <3> QED  BY <2>1, <3>1, <3>2, <3>3 DEF PlainInv, ValueOK
  <2>2. TypeOK
    BY <1>2, <2>1 DEF TypeOK, StoreInv, ValueOK
  <2>3. StreamFollowed
    BY <2>1 DEF StreamFollowed, Is, StreamInv
  <2>4. AcksMatchDeliveries
    BY <2>1 DEF AcksMatchDeliveries, Is, StreamInv, GroupAcks
  <2>5. KeepsWhatWasAdded
    BY <2>1 DEF KeepsWhatWasAdded, Is, SeriesInv, SketchInv
  <2> QED  BY <1>2, <2>2, <2>3, <2>4, <2>5 DEF IInv
<1>3. IInv => DOMAIN store = Keys /\ ArraysInv
  BY DEF IInv, TypeOK
<1> QED  BY <1>1, <1>2, <1>3 DEF StoreInv

(***************************************************************************)
(* The step of a command that does not write bytes.                        *)
(***************************************************************************)
PlainStep ==
    \/ UNCHANGED <<store, memory, joined>>
    \/ Become(store)
    \/ Become(Empty)
    \/ \E k \in Keys : \E v : Put(k, v) /\ PlainInv(v)

(***************************************************************************)
(* A panic keeps the store or leaves an empty one.                         *)
(***************************************************************************)
LEMMA PanicIsPlain ==
    ASSUME NEW op, NEW k, NEW arg, Panic(op, k, arg)
    PROVE  PlainStep
BY DEF Panic, PlainStep

(***************************************************************************)
(* A command that reads changes nothing.                                   *)
(***************************************************************************)
LEMMA ReadIsPlain ==
    ASSUME NEW op, NEW k, NEW arg, NEW reply, Read(op, k, arg, reply)
    PROVE  PlainStep
BY DEF Read, PlainStep

(***************************************************************************)
(* A value that is as it should be may take the place of any other.        *)
(***************************************************************************)
LEMMA PutIsPlain ==
    ASSUME NEW k \in Keys, NEW v, PlainInv(v), Put(k, v)
    PROVE  PlainStep
BY DEF PlainStep

(***************************************************************************)
(* What a value of some type in the store looks like.                      *)
(***************************************************************************)
LEMMA StoredValues ==
    ASSUME StoreInv, NEW k \in Keys
    PROVE  /\ Is(k, "string") => store[k] \in Texts
           /\ Is(k, "set") => store[k] \in [type : {"set"}, members : SUBSET Members]
           /\ Is(k, "map") => store[k] = Map(store[k].fields) /\ IsDocument(store[k].fields)
           /\ Is(k, "stream") => StreamInv(store[k])
           /\ Is(k, "series") => SeriesInv(store[k])
           /\ Is(k, "sketch") => SketchInv(store[k])
           /\ Is(k, "geo") => MeasureOK(store[k])
           /\ Is(k, "bytes") => SliceOK(store[k])
<1>1. PlainInv(store[k]) \/ (k \in BytesIn(store) /\ SliceOK(store[k]))
  BY DEF StoreInv
<1>2. k \in BytesIn(store) => store[k].type = "bytes"
  BY DEF BytesIn
<1> QED  BY <1>1, <1>2 DEF PlainInv, Is

(***************************************************************************)
(* The commands on strings write strings.                                  *)
(***************************************************************************)
LEMMA TextIsPlain ==
    ASSUME StoreInv, TextCommands
    PROVE  PlainStep
<1>1. PICK k \in Keys :
        \/ \E s \in Strings : SET(k, s)
        \/ STRLEN(k)
        \/ \E start, end \in Positions : GETRANGE(k, start, end)
        \/ \E offset \in -1 .. MaxText, s \in Strings : SETRANGE(k, offset, s)
        \/ \E pattern \in Patterns : KEYS(k, pattern)
        \/ Read("GETRANGE", k, <<>>, Error)
  BY DEF TextCommands, KeysOf
<1> DEFINE T == Letters \cup {Space}
<1>2. ASSUME NEW s \in Seq(T) PROVE PlainInv(Text(s))
  BY <1>2 DEF PlainInv, Text, Texts
<1>3. \A s \in Strings : s \in Seq(T)
  <2>1. \A s \in Strings : s \in Seq(Letters)
    BY TypedKeysAssumption
  <2>2. ASSUME NEW s \in Seq(Letters) PROVE s \in Seq(T)
    <3>1. s \in [1 .. Len(s) -> T] /\ Len(s) \in Nat
      OBVIOUS
    <3> HIDE DEF T
    <3> QED  BY <3>1
  <2> QED  BY <2>1, <2>2
<1>4. TextOf(k) \in Seq(T)
  <2>1. Is(k, "string") => store[k].text \in Seq(T)
    BY StoredValues DEF Texts
  <2>2. <<>> \in Seq(T)
    OBVIOUS
  <2> QED  BY <2>1, <2>2 DEF TextOf
<1>5. ASSUME NEW s \in Strings, SET(k, s) PROVE PlainStep
  BY <1>2, <1>3, <1>5, PutIsPlain DEF SET
<1>6. ASSUME STRLEN(k) PROVE PlainStep
  BY <1>6, ReadIsPlain, PanicIsPlain DEF STRLEN
<1>7. ASSUME NEW start, NEW end, GETRANGE(k, start, end) PROVE PlainStep
  BY <1>7, ReadIsPlain DEF GETRANGE
<1>8. ASSUME NEW offset \in -1 .. MaxText, NEW s \in Strings, SETRANGE(k, offset, s)
      PROVE  PlainStep
  <2>1. CASE offset < 0
    BY <1>8, <2>1, PanicIsPlain DEF SETRANGE
  <2>2. CASE offset >= 0
    <3>1. PICK text : text = TextOf(k)
      OBVIOUS
    <3>2. PICK pad : pad = [i \in 1 .. offset - Len(text) |-> Space]
      OBVIOUS
    <3>3. Put(k, Text(SubSeq(text \o pad, 1, offset) \o s))
      BY <1>8, <2>2, <3>1, <3>2 DEF SETRANGE
    <3> HIDE DEF T
    <3>4. text \in Seq(T) /\ Len(text) \in Nat /\ offset \in Int /\ Space \in T
      BY <1>4, <3>1, TypedKeysAssumption DEF T
    <3>5. pad \in Seq(T)
      <4>1. CASE offset - Len(text) <= 0
        <5>1. 1 .. offset - Len(text) = 1 .. 0
          BY <3>4, <4>1
        <5>2. pad \in [1 .. 0 -> T]
          BY <3>2, <3>4, <5>1
        <5> QED  BY <5>2
      <4>2. CASE offset - Len(text) > 0
        <5>1. PICK n : n = offset - Len(text)
          OBVIOUS
        <5>2. n \in Nat /\ pad \in [1 .. n -> T]
          BY <3>2, <3>4, <4>2, <5>1
        <5> QED  BY <5>2
      <4> QED  BY <3>4, <4>1, <4>2
    <3>6. text \o pad \in Seq(T) /\ Len(text \o pad) = Len(text) + Len(pad)
      BY <3>4, <3>5, ConcatProperties
    <3>7. offset <= Len(text \o pad)
      <4>1. Len(pad) \in Nat
        BY <3>5
      <4>2. CASE offset - Len(text) <= 0
        BY <3>4, <3>6, <4>1, <4>2
      <4>3. CASE offset - Len(text) > 0
        <5>1. Len(pad) = offset - Len(text)
          <6>1. PICK n : n = offset - Len(text)
            OBVIOUS
          <6>2. n \in Nat /\ DOMAIN pad = 1 .. n
            BY <3>2, <3>4, <4>3, <6>1
          <6> QED  BY <3>5, <6>1, <6>2
        <5> QED  BY <3>4, <3>6, <5>1
      <4> QED  BY <3>4, <4>2, <4>3
    <3>8. SubSeq(text \o pad, 1, offset) \in Seq(T)
      <4>1. PICK all : all = text \o pad
        OBVIOUS
      <4>2. all \in Seq(T) /\ offset \in 0 .. Len(all) /\ 1 \in 1 .. Len(all) + 1
        BY <2>2, <3>4, <3>6, <3>7, <4>1
      <4>3. SubSeq(all, 1, offset) \in Seq(T)
        BY <4>2, SubSeqProperties
      <4> QED  BY <4>1, <4>3
    <3>9. SubSeq(text \o pad, 1, offset) \o s \in Seq(T)
      BY <1>3, <3>8, ConcatProperties
    <3> QED  BY <1>2, <3>3, <3>9, PutIsPlain DEF T
  <2> QED  BY <2>1, <2>2, TypedKeysAssumption
<1>9. ASSUME NEW pattern, KEYS(k, pattern) PROVE PlainStep
  BY <1>9, ReadIsPlain DEF KEYS
<1>10. ASSUME Read("GETRANGE", k, <<>>, Error) PROVE PlainStep
  BY <1>10, ReadIsPlain
<1> QED  BY <1>1, <1>5, <1>6, <1>7, <1>8, <1>9, <1>10

(***************************************************************************)
(* Those on sets write sets.                                               *)
(***************************************************************************)
LEMMA SetIsPlain ==
    ASSUME StoreInv, SetCommands
    PROVE  PlainStep
<1>1. PICK k \in Keys :
        \/ \E ms \in SUBSET Members \ {{}} : SADD(k, ms) \/ SREM(k, ms)
        \/ \E m \in Members : SISMEMBER(k, m)
        \/ SMEMBERS(k)
        \/ Read("SADD", k, {}, Error)
  BY DEF SetCommands, KeysOf
<1>2. ASSUME NEW ms \in SUBSET Members, SADD(k, ms) PROVE PlainStep
  <2>1. PICK s : s = MembersOf(k) \cup ms
    OBVIOUS
  <2>2. s \subseteq Members
    BY <2>1, StoredValues DEF MembersOf
  <2>3. PlainInv(SetValue(s))
    BY <2>2 DEF PlainInv, SetValue
  <2>4. \/ Put(k, SetValue(s))
        \/ Panic("SADD", k, ms)
    BY <1>2, <2>1 DEF SADD
  <2> QED  BY <2>3, <2>4, PutIsPlain, PanicIsPlain
<1>3. ASSUME NEW ms \in SUBSET Members, SREM(k, ms) PROVE PlainStep
  <2>1. CASE Is(k, "set")
    <3>1. PICK v : v = [store[k] EXCEPT !.members = @ \ ms]
      OBVIOUS
    <3>2. store[k] \in [type : {"set"}, members : SUBSET Members]
      BY <2>1, StoredValues
    <3>3. v \in [type : {"set"}, members : SUBSET Members] /\ v.type = "set"
      BY <3>1, <3>2
    <3>4. Become([store EXCEPT ![k].members = @ \ ms])
      BY <1>3, <2>1 DEF SREM
    <3>5. [store EXCEPT ![k].members = @ \ ms] = [store EXCEPT ![k] = v]
      BY <3>1
    <3> QED  BY <3>3, <3>4, <3>5, PutIsPlain DEF Put, PlainInv
  <2>2. CASE ~ Is(k, "set")
    BY <1>3, <2>2 DEF SREM, PlainStep
  <2> QED  BY <2>1, <2>2
<1>4. ASSUME NEW m, SISMEMBER(k, m) PROVE PlainStep
  BY <1>4, ReadIsPlain DEF SISMEMBER
<1>5. ASSUME SMEMBERS(k) PROVE PlainStep
  BY <1>5, ReadIsPlain DEF SMEMBERS
<1>6. ASSUME Read("SADD", k, {}, Error) PROVE PlainStep
  BY <1>6, ReadIsPlain
<1> QED  BY <1>1, <1>2, <1>3, <1>4, <1>5, <1>6

(***************************************************************************)
(* Those on several sets read.                                             *)
(***************************************************************************)
LEMMA AlgebraIsPlain ==
    ASSUME SetAlgebra
    PROVE  PlainStep
<1>1. PICK ks : SUNION(ks) \/ SINTER(ks) \/ SDIFF(ks)
  BY DEF SetAlgebra
<1>2. ASSUME SUNION(ks) PROVE PlainStep
  BY <1>2, ReadIsPlain DEF SUNION
<1>3. ASSUME SINTER(ks) PROVE PlainStep
  BY <1>3, ReadIsPlain DEF SINTER
<1>4. ASSUME SDIFF(ks) PROVE PlainStep
  BY <1>4, ReadIsPlain DEF SDIFF
<1> QED  BY <1>1, <1>2, <1>3, <1>4

(***************************************************************************)
(* Every map of names, as a hash or as a document.                         *)
(***************************************************************************)
LEMMA MapIsPlain ==
    ASSUME NEW f, IsDocument(f)
    PROVE  PlainInv(Map(f))
<1>1. PICK v : v = Map(f)
  OBVIOUS
<1>2. v.type = "map" /\ v.fields = f /\ v = Map(v.fields)
  BY <1>1 DEF Map
<1>3. PlainInv(v)
  BY <1>2 DEF PlainInv
<1> QED  BY <1>1, <1>3

(***************************************************************************)
(* Those on hashes write maps of names.                                    *)
(***************************************************************************)
LEMMA HashIsPlain ==
    ASSUME StoreInv, HashCommands
    PROVE  PlainStep
<1>1. PICK k \in Keys :
        \/ \E n \in Names : \/ \E v \in Leaves : HSET(k, n, v)
                            \/ HGET(k, n) \/ HEXISTS(k, n) \/ HDEL(k, n)
        \/ \E v \in Leaves : HMSET(k, [n \in Names |-> Leaf(v)])
        \/ HGETALL(k)
        \/ Read("HMSET", k, <<>>, Error)
  BY DEF HashCommands, KeysOf
<1>2. IsDocument(Fields(k))
  BY StoredValues DEF Fields, IsDocument
<1>3. ASSUME NEW op, NEW f, NEW reply, SetFields(op, k, f, reply), IsDocument(f)
      PROVE  PlainStep
  <2>1. PICK g : g = Over(f, Fields(k))
    OBVIOUS
  <2>2. IsDocument(g)
    BY <1>2, <1>3, <2>1 DEF Over, IsDocument
  <2>3. Put(k, Map(g)) \/ Panic(op, k, f)
    BY <1>3, <2>1 DEF SetFields
  <2> QED  BY <2>2, <2>3, MapIsPlain, PutIsPlain, PanicIsPlain
<1>4. ASSUME NEW n \in Names, NEW v \in Leaves, HSET(k, n, v) PROVE PlainStep
  <2>1. PICK f : f = [m \in {n} |-> Leaf(v)]
    OBVIOUS
  <2>2. \E reply : SetFields("HSET", k, f, reply)
    BY <1>4, <2>1 DEF HSET
  <2>3. IsDocument(f)
    BY <2>1, DocsAssumption DEF IsDocument
  <2> QED  BY <1>3, <2>2, <2>3
<1>5. ASSUME NEW n, HGET(k, n) PROVE PlainStep
  BY <1>5, ReadIsPlain DEF HGET
<1>6. ASSUME NEW n, HEXISTS(k, n) PROVE PlainStep
  BY <1>6, ReadIsPlain DEF HEXISTS
<1>7. ASSUME NEW n, HDEL(k, n) PROVE PlainStep
  <2>1. CASE Is(k, "map")
    <3>1. PICK f : f = Restrict(store[k].fields, DOMAIN store[k].fields \ {n})
      OBVIOUS
    <3>2. store[k] = Map(store[k].fields) /\ IsDocument(f)
      BY <2>1, <3>1, StoredValues DEF Restrict, IsDocument
    <3>3. Become([store EXCEPT ![k].fields = Restrict(@, DOMAIN @ \ {n})])
      BY <1>7, <2>1 DEF HDEL
    <3>4. [store EXCEPT ![k].fields = Restrict(@, DOMAIN @ \ {n})] = [store EXCEPT ![k].fields = f]
      BY <3>1
    <3>5. [store EXCEPT ![k].fields = f] = [store EXCEPT ![k] = Map(f)]
      <4>1. [store[k] EXCEPT !.fields = f] = Map(f)
        BY <3>2 DEF Map
      <4> QED  BY <4>1
    <3>6. Put(k, Map(f))
      BY <3>3, <3>4, <3>5 DEF Put
    <3> QED  BY <3>2, <3>6, MapIsPlain, PutIsPlain
  <2>2. CASE ~ Is(k, "map")
    BY <1>7, <2>2 DEF HDEL, PlainStep
  <2> QED  BY <2>1, <2>2
<1>8. ASSUME NEW v \in Leaves, HMSET(k, [n \in Names |-> Leaf(v)]) PROVE PlainStep
  <2>1. PICK f : f = [n \in Names |-> Leaf(v)]
    OBVIOUS
  <2>2. SetFields("HMSET", k, f, Ok)
    BY <1>8, <2>1 DEF HMSET
  <2>3. IsDocument(f)
    BY <2>1, DocsAssumption DEF IsDocument
  <2> QED  BY <1>3, <2>2, <2>3
<1>9. ASSUME HGETALL(k) PROVE PlainStep
  BY <1>9, ReadIsPlain DEF HGETALL
<1>10. ASSUME Read("HMSET", k, <<>>, Error) PROVE PlainStep
  BY <1>10, ReadIsPlain
<1> QED  BY <1>1, <1>4, <1>5, <1>6, <1>7, <1>8, <1>9, <1>10

(***************************************************************************)
(* Those on documents write maps, JSON texts and, for a document that is   *)
(* no object, the nil map.                                                 *)
(***************************************************************************)
LEMMA DocumentIsPlain ==
    ASSUME DocumentCommands
    PROVE  PlainStep
<1>1. PICK k \in Keys :
        \/ \E v \in Docs : JSONSET(k, v)
        \/ JSONSETInvalid(k)
        \/ \E path \in Paths : \/ JSONGET(k, path) \/ JSONDEL(k, path)
                               \/ \E v \in Leaves : JSONARRAPPEND(k, path, <<Leaf(v)>>)
        \/ Read("JSON.GET", k, <<>>, Error)
  BY DEF DocumentCommands, KeysOf
<1>2. ASSUME NEW v, v.json \in {"object", "array"}, Put(k, Encoded(v)) PROVE PlainStep
  <2>1. PICK new : new = Encoded(v)
    OBVIOUS
  <2>2. new.type = "json text" /\ new.of = v
    BY <2>1 DEF Encoded
  <2>3. PlainInv(new)
    BY <1>2, <2>2 DEF PlainInv
  <2> QED  BY <1>2, <2>1, <2>3, PutIsPlain
<1>3. ASSUME NEW v \in Docs, JSONSET(k, v) PROVE PlainStep
  BY <1>3, DocsAssumption, MapIsPlain, PutIsPlain DEF JSONSET
<1>4. ASSUME JSONSETInvalid(k) PROVE PlainStep
  <2>1. PlainInv(NilMap)
    BY DEF PlainInv, NilMap
  <2> QED  BY <1>4, <2>1, PutIsPlain DEF JSONSETInvalid
<1>5. ASSUME NEW path, JSONGET(k, path) PROVE PlainStep
  BY <1>5, ReadIsPlain DEF JSONGET
<1>6. ASSUME NEW path, JSONDEL(k, path) PROVE PlainStep
  <2>1. PICK holder : holder = GetAtPath(Root(k), Front(path))
    OBVIOUS
  <2>2. PICK new : new = Without(holder, Last(path))
    OBVIOUS
  <2>3. new.json \in {"object", "array"}
    BY <2>2 DEF Without, Object, Array
  <2>4. \/ Put(k, NoValue)
        \/ Put(k, Encoded(new))
        \/ Read("JSON.DEL", k, path, Error)
    BY <1>6, <2>1, <2>2 DEF JSONDEL
  <2>5. PlainInv(NoValue)
    BY DEF PlainInv
  <2> QED  BY <1>2, <2>3, <2>4, <2>5, PutIsPlain, ReadIsPlain
<1>7. ASSUME NEW path, NEW items, JSONARRAPPEND(k, path, items) PROVE PlainStep
  <2>1. \/ \E f : Put(k, Encoded(Object(f)))
        \/ Read("JSON.ARRAPPEND", k, <<path, items>>, Error)
    BY <1>7 DEF JSONARRAPPEND
  <2>2. \A f : Object(f).json = "object"
    BY DEF Object
  <2> QED  BY <1>2, <2>1, <2>2, ReadIsPlain
<1>8. ASSUME Read("JSON.GET", k, <<>>, Error) PROVE PlainStep
  BY <1>8, ReadIsPlain
<1> QED  BY <1>1, <1>3, <1>4, <1>5, <1>6, <1>7, <1>8

(***************************************************************************)
(* The values along a path, n parts far.                                   *)
(***************************************************************************)
Along(at, v, path, n) ==
    /\ at = [m \in 0 .. n |-> at[m]]
    /\ at[0] = v
    /\ \A m \in 1 .. n : at[m] = Child(at[m - 1], path[m])

(***************************************************************************)
(* Every path leads along some values.                                     *)
(***************************************************************************)
LEMMA PathRuns ==
    ASSUME NEW v, NEW path, NEW n \in Nat
    PROVE  \E at : Along(at, v, path, n)
<1> DEFINE P == {m \in Nat : \E at : Along(at, v, path, m)}
<1>1. 0 \in P
  <2>1. Along([m \in 0 .. 0 |-> v], v, path, 0)
    BY DEF Along
  <2> QED  BY <2>1
<1>2. ASSUME NEW m \in 0 .. n - 1, m \in P PROVE m + 1 \in P
  <2>1. PICK at : Along(at, v, path, m)
    BY <1>2
  <2>2. PICK next : next = Child(at[m], path[m + 1])
    OBVIOUS
  <2> DEFINE longer == [i \in 0 .. m + 1 |-> IF i = m + 1 THEN next ELSE at[i]]
  <2>3. Along(longer, v, path, m + 1)
    <3>1. longer = [i \in 0 .. m + 1 |-> longer[i]] /\ longer[0] = v
      BY <2>1 DEF Along
    <3>2. ASSUME NEW i \in 1 .. m + 1 PROVE longer[i] = Child(longer[i - 1], path[i])
      <4>1. CASE i = m + 1
        <5>1. longer[i] = next /\ longer[i - 1] = at[m]
          BY <4>1
        <5> QED  BY <2>2, <4>1, <5>1
      <4>2. CASE i # m + 1
        <5>1. longer[i] = at[i] /\ longer[i - 1] = at[i - 1] /\ i \in 1 .. m
          BY <4>2
        <5> HIDE DEF longer
        <5> QED  BY <2>1, <5>1 DEF Along
      <4> QED  BY <4>1, <4>2
    <3> HIDE DEF longer
    <3> QED  BY <3>1, <3>2 DEF Along
  <2> QED  BY <2>3
<1>3. \A m \in 0 .. n : m \in P
  <2> HIDE DEF P
  <2> QED  BY <1>1, <1>2, AllUpTo
<1> QED  BY <1>3

(***************************************************************************)
(* GetAtPath is the last of them.                                          *)
(***************************************************************************)
LEMMA PathIsLast ==
    ASSUME NEW v, NEW S, NEW path \in Seq(S)
    PROVE  \E at : Along(at, v, path, Len(path)) /\ GetAtPath(v, path) = at[Len(path)]
<1> DEFINE n == Len(path)
<1>1. n \in Nat
  OBVIOUS
<1>2. PICK g : Along(g, v, path, n)
  BY <1>1, PathRuns
<1> DEFINE Equation(f) == f = [m \in 0 .. n |-> IF m = 0 THEN v ELSE Child(f[m - 1], path[m])]
           at == CHOOSE f : Equation(f)
<1>3. Equation(g)
  <2> HIDE DEF n
  <2>1. \A m \in 0 .. n : g[m] = IF m = 0 THEN v ELSE Child(g[m - 1], path[m])
    BY <1>1, <1>2 DEF Along
  <2>2. g = [m \in 0 .. n |-> g[m]]
    BY <1>2 DEF Along
  <2> QED  BY <2>1, <2>2
<1>4. Equation(at)
  <2> HIDE DEF Equation
  <2> QED  BY <1>3
<1>5. GetAtPath(v, path) = at[n]
  BY DEF GetAtPath
<1>6. PICK h : h = at
  OBVIOUS
<1>7. Equation(h)
  BY <1>4, <1>6
<1>8. Along(h, v, path, n)
  <2>1. h[0] = v
    BY <1>1, <1>7
  <2>2. \A m \in 1 .. n : h[m] = Child(h[m - 1], path[m])
    BY <1>1, <1>7
  <2>3. h = [m \in 0 .. n |-> h[m]]
    BY <1>7
  <2> QED  BY <2>1, <2>2, <2>3 DEF Along
<1> QED  BY <1>5, <1>6, <1>8

(***************************************************************************)
(* One part more leads one step further.                                   *)
(***************************************************************************)
LEMMA OnePartMore ==
    ASSUME NEW v, NEW S, NEW path \in Seq(S), NEW p \in S
    PROVE  GetAtPath(v, path \o <<p>>) = Child(GetAtPath(v, path), p)
<1>1. PICK n \in Nat : n = Len(path)
  OBVIOUS
<1>2. PICK long : long = path \o <<p>>
  OBVIOUS
<1>3. /\ long \in Seq(S) /\ Len(long) = n + 1 /\ long[n + 1] = p
      /\ \A m \in 1 .. n : long[m] = path[m]
  BY <1>1, <1>2
<1>4. PICK f : Along(f, v, path, n) /\ GetAtPath(v, path) = f[n]
  BY <1>1, PathIsLast
<1>5. PICK g : Along(g, v, long, n + 1) /\ GetAtPath(v, long) = g[n + 1]
  BY <1>3, PathIsLast
<1> DEFINE P == {m \in 0 .. n : g[m] = f[m]}
<1>6. 0 \in P
  BY <1>4, <1>5 DEF Along
<1>7. ASSUME NEW m \in 0 .. n - 1, m \in P PROVE m + 1 \in P
  <2>1. m + 1 \in 1 .. n /\ m + 1 \in 1 .. n + 1 /\ (m + 1) - 1 = m
    OBVIOUS
  <2>2. g[m + 1] = Child(g[m], long[m + 1]) /\ f[m + 1] = Child(f[m], path[m + 1])
    BY <1>4, <1>5, <2>1 DEF Along
  <2> QED  BY <1>3, <1>7, <2>1, <2>2
<1>8. g[n] = f[n]
  <2>1. \A m \in 0 .. n : m \in P
    <3> HIDE DEF P
    <3> QED  BY <1>6, <1>7, AllUpTo
  <2> QED  BY <2>1
<1>9. g[n + 1] = Child(g[n], long[n + 1])
  <2>1. n + 1 \in 1 .. n + 1 /\ (n + 1) - 1 = n
    OBVIOUS
  <2> QED  BY <1>5, <2>1 DEF Along
<1> QED  BY <1>2, <1>3, <1>4, <1>5, <1>8, <1>9

(***************************************************************************)
(* A part of an object, of an array, and of anything else.                 *)
(***************************************************************************)
LEMMA ChildMeans ==
    ASSUME NEW v, NEW p
    PROVE  /\ v.json = "object" =>
                 Child(v, p) = IF p \in DOMAIN v.fields /\ v.fields[p] # Null
                               THEN v.fields[p] ELSE Missing
           /\ InArray(v, p) => Child(v, p) = v.items[Index[p] + 1]
           /\ v.json # "object" /\ ~ InArray(v, p) => Child(v, p) = Missing
<1>1. InArray(v, p) => v.json # "object"
  BY DEF InArray
<1>2. ASSUME v.json = "object"
      PROVE  Child(v, p) = IF p \in DOMAIN v.fields /\ v.fields[p] # Null
                           THEN v.fields[p] ELSE Missing
  BY <1>1, <1>2, Zenon DEF Child
<1>3. ASSUME InArray(v, p) PROVE Child(v, p) = v.items[Index[p] + 1]
  BY <1>1, <1>3, Zenon DEF Child
<1>4. ASSUME v.json # "object", ~ InArray(v, p) PROVE Child(v, p) = Missing
  BY <1>4, Zenon DEF Child
<1> QED  BY <1>2, <1>3, <1>4

(***************************************************************************)
(* No part leads out of the values that documents hold.                    *)
(***************************************************************************)
LEMMA ChildIsJson ==
    ASSUME NEW v \in Json \cup {Missing}, NEW part
    PROVE  Child(v, part) \in Json \cup {Missing}
<1>1. Missing.json = "missing"
  BY DEF Missing
<1>2. CASE v.json = "object"
  BY <1>1, <1>2, DocsAssumption, ChildMeans
<1>3. CASE v.json # "object" /\ InArray(v, part)
  <2>1. v \in Json /\ v.items \in Seq(Json) /\ Index[part] \in Nat /\ Index[part] < Len(v.items)
    BY <1>1, <1>3, DocsAssumption DEF InArray
  <2>2. v.items[Index[part] + 1] \in Json
    BY <2>1
  <2>3. Child(v, part) = v.items[Index[part] + 1]
    BY <1>3, ChildMeans
  <2> QED  BY <2>2, <2>3
<1>4. CASE v.json # "object" /\ ~ InArray(v, part)
  BY <1>4, ChildMeans
<1> QED  BY <1>2, <1>3, <1>4

(***************************************************************************)
(* Nor does the first part lead out of them.                               *)
(***************************************************************************)
LEMMA RootChild ==
    ASSUME StoreInv, NEW k \in Keys, NEW part
    PROVE  Root(k).json # "array" /\ Child(Root(k), part) \in Json \cup {Missing}
<1>1. CASE Is(k, "map")
  <2>1. PICK f : f = store[k].fields
    OBVIOUS
  <2>2. IsDocument(f)
    BY <1>1, <2>1, StoredValues
  <2>3. Root(k) = Object(f)
    BY <1>1, <2>1 DEF Root, Is
  <2>4. Object(f).json = "object" /\ Object(f).fields = f
    BY DEF Object
  <2> QED  BY <2>2, <2>3, <2>4, ChildMeans DEF IsDocument
<1>2. CASE ~ Is(k, "map")
  <2>1. \/ Root(k) = Missing \/ Root(k) = Leaf(store[k]) \/ Root(k) = Object(<<>>)
    <3>1. CASE store[k] = NoValue /\ ~ Is(k, "nil map")
      BY <1>2, <3>1, Zenon DEF Root
    <3>2. CASE store[k] # NoValue /\ Is(k, "nil map")
      BY <1>2, <3>2, Zenon DEF Root
    <3>3. CASE store[k] # NoValue /\ ~ Is(k, "nil map")
      BY <1>2, <3>3, Zenon DEF Root
    <3>4. ~ (store[k] = NoValue /\ Is(k, "nil map"))
      BY DEF Is
    <3> QED  BY <3>1, <3>2, <3>3, <3>4
  <2>2. /\ Missing.json = "missing" /\ Leaf(store[k]).json = "leaf"
        /\ Object(<<>>).json = "object" /\ DOMAIN Object(<<>>).fields = {}
    BY DEF Missing, Leaf, Object
  <2>3. /\ Root(k).json # "array"
        /\ Root(k).json = "object" => DOMAIN Root(k).fields = {}
    BY <2>1, <2>2
  <2> QED  BY <2>3, ChildMeans DEF InArray
<1> QED  BY <1>1, <1>2

(***************************************************************************)
(* An array at the end of a path holds such values.                        *)
(***************************************************************************)
LEMMA HolderItems ==
    ASSUME StoreInv, NEW k \in Keys, NEW S, NEW path \in Seq(S),
           NEW v, v = GetAtPath(Root(k), path), v.json = "array"
    PROVE  v.items \in Seq(Json)
<1>1. PICK n \in Nat : n = Len(path)
  OBVIOUS
<1>2. PICK at : Along(at, Root(k), path, n) /\ v = at[n]
  BY <1>1, PathIsLast
<1> DEFINE P == {m \in 0 .. n : m = 0 \/ at[m] \in Json \cup {Missing}}
<1>3. 0 \in P
  OBVIOUS
<1>4. ASSUME NEW m \in 0 .. n - 1, m \in P PROVE m + 1 \in P
  <2>1. m + 1 \in 1 .. n /\ (m + 1) - 1 = m
    OBVIOUS
  <2>2. at[m + 1] = Child(at[m], path[m + 1])
    BY <1>2, <2>1 DEF Along
  <2>3. CASE m = 0
    <3>1. at[m] = Root(k)
      BY <1>2, <2>3 DEF Along
    <3> QED  BY <2>1, <2>2, <3>1, RootChild
  <2>4. CASE m # 0
    <3>1. at[m] \in Json \cup {Missing}
      BY <1>4, <2>4
    <3>2. at[m + 1] \in Json \cup {Missing}
      BY <2>2, <3>1, ChildIsJson
    <3> QED  BY <2>1, <3>2
  <2> QED  BY <2>3, <2>4
<1>5. n \in P
  <2>1. \A m \in 0 .. n : m \in P
    <3> HIDE DEF P
    <3> QED  BY <1>3, <1>4, AllUpTo
  <2> QED  BY <2>1
<1>6. n # 0
  <2>1. n = 0 => v = Root(k)
    BY <1>2 DEF Along
  <2> QED  BY <2>1, RootChild
<1>7. v \in Json
  <2>1. Missing.json = "missing"
    BY DEF Missing
  <2> QED  BY <1>2, <1>5, <1>6, <2>1
<1> QED  BY <1>7, DocsAssumption

(***************************************************************************)
(* Every command answers under its own name.                               *)
(***************************************************************************)
Elsewhere == answer'.op \notin {"JSON.DEL", "JSON.ARRAPPEND"}

(***************************************************************************)
(* The answer of a command that is none of those two.                      *)
(***************************************************************************)
LEMMA AnswerElsewhere ==
    ASSUME NEW op, op \notin {"JSON.DEL", "JSON.ARRAPPEND"},
           NEW k, NEW arg, NEW reply,
           Answer(op, k, arg, reply) \/ Read(op, k, arg, reply) \/ Panic(op, k, arg)
    PROVE  Elsewhere
BY DEF Answer, Read, Panic, Elsewhere

(***************************************************************************)
(* The commands on strings, sets and hashes answer under names of theirs.  *)
(***************************************************************************)
LEMMA NamesElsewhere ==
    ASSUME TextCommands \/ SetCommands \/ SetAlgebra \/ HashCommands
    PROVE  Elsewhere
<1>1. ASSUME TextCommands PROVE Elsewhere
  <2>1. PICK k : \/ \E s : SET(k, s)
                 \/ STRLEN(k)
                 \/ \E start, end : GETRANGE(k, start, end)
                 \/ \E offset, s : SETRANGE(k, offset, s)
                 \/ \E pattern : KEYS(k, pattern)
                 \/ Read("GETRANGE", k, <<>>, Error)
    BY <1>1 DEF TextCommands
  <2>2. \A s : SET(k, s) => Elsewhere
    BY AnswerElsewhere DEF SET
  <2>3. STRLEN(k) => Elsewhere
    BY AnswerElsewhere DEF STRLEN
  <2>4. \A start, end : GETRANGE(k, start, end) => Elsewhere
    BY AnswerElsewhere DEF GETRANGE
  <2>5. \A offset, s : SETRANGE(k, offset, s) => Elsewhere
    BY AnswerElsewhere DEF SETRANGE
  <2>6. \A pattern : KEYS(k, pattern) => Elsewhere
    BY AnswerElsewhere DEF KEYS
  <2> QED  BY <2>1, <2>2, <2>3, <2>4, <2>5, <2>6, AnswerElsewhere
<1>2. ASSUME SetCommands PROVE Elsewhere
  <2>1. PICK k : \/ \E ms : SADD(k, ms) \/ SREM(k, ms)
                 \/ \E m : SISMEMBER(k, m)
                 \/ SMEMBERS(k)
                 \/ Read("SADD", k, {}, Error)
    BY <1>2 DEF SetCommands
  <2>2. \A ms : SADD(k, ms) \/ SREM(k, ms) => Elsewhere
    BY AnswerElsewhere DEF SADD, SREM
  <2>3. (\E m : SISMEMBER(k, m)) \/ SMEMBERS(k) => Elsewhere
    BY AnswerElsewhere DEF SISMEMBER, SMEMBERS
  <2> QED  BY <2>1, <2>2, <2>3, AnswerElsewhere
<1>3. ASSUME SetAlgebra PROVE Elsewhere
  <2>1. PICK ks : SUNION(ks) \/ SINTER(ks) \/ SDIFF(ks)
    BY <1>3 DEF SetAlgebra
  <2>2. SUNION(ks) => Elsewhere
    BY AnswerElsewhere DEF SUNION
  <2>3. SINTER(ks) => Elsewhere
    BY AnswerElsewhere DEF SINTER
  <2>4. SDIFF(ks) => Elsewhere
    BY AnswerElsewhere DEF SDIFF
  <2> QED  BY <2>1, <2>2, <2>3, <2>4
<1>4. ASSUME HashCommands PROVE Elsewhere
  <2>1. PICK k : \/ \E n : \/ \E v : HSET(k, n, v)
                           \/ HGET(k, n) \/ HEXISTS(k, n) \/ HDEL(k, n)
                 \/ \E f : HMSET(k, f)
                 \/ HGETALL(k)
                 \/ Read("HMSET", k, <<>>, Error)
    BY <1>4 DEF HashCommands
  <2>2. \A op, f, reply : op \in {"HSET", "HMSET"} /\ SetFields(op, k, f, reply) => Elsewhere
    BY AnswerElsewhere DEF SetFields
  <2>3. (\E n, v : HSET(k, n, v)) \/ (\E f : HMSET(k, f)) => Elsewhere
    BY <2>2 DEF HSET, HMSET
  <2>4. \A n : HGET(k, n) \/ HEXISTS(k, n) \/ HDEL(k, n) => Elsewhere
    BY AnswerElsewhere DEF HGET, HEXISTS, HDEL
  <2>5. HGETALL(k) => Elsewhere
    BY AnswerElsewhere DEF HGETALL
  <2> QED  BY <2>1, <2>3, <2>4, <2>5, AnswerElsewhere
<1> QED  BY <1>1, <1>2, <1>3, <1>4

(***************************************************************************)
(* So do those on streams, series and sketches.                            *)
(***************************************************************************)
LEMMA LogsElsewhere ==
    ASSUME StreamCommands \/ SeriesCommands \/ SketchCommands
    PROVE  Elsewhere
<1>1. ASSUME StreamCommands PROVE Elsewhere
  <2>1. PICK k : \/ \E id : XADD(k, id)
                 \/ Read("XADD", k, 0, Error)
                 \/ \E start, count :
                        \/ XREAD(k, start, count)
                        \/ \E g, c : XREADGROUP(k, g, c, start, count)
                 \/ \E count : Follow(k, count)
                 \/ \E first, last : XRANGE(k, first, last)
                 \/ XLEN(k)
                 \/ \E g : XGROUPCREATE(k, g) \/ \E ids : XACK(k, g, ids)
    BY <1>1 DEF StreamCommands
  <2>2. \A id : XADD(k, id) => Elsewhere
    BY AnswerElsewhere DEF XADD
  <2>3. \A start, count : XREAD(k, start, count) => Elsewhere
    BY AnswerElsewhere DEF XREAD
  <2>4. \A g, c, start, count : XREADGROUP(k, g, c, start, count) => Elsewhere
    BY AnswerElsewhere DEF XREADGROUP
  <2>5. \A count : Follow(k, count) => Elsewhere
    BY AnswerElsewhere DEF Follow
  <2>6. \A first, last : XRANGE(k, first, last) => Elsewhere
    BY AnswerElsewhere DEF XRANGE
  <2>7. XLEN(k) => Elsewhere
    BY AnswerElsewhere DEF XLEN
  <2>8. \A g : XGROUPCREATE(k, g) => Elsewhere
    BY AnswerElsewhere DEF XGROUPCREATE
  <2>9. \A g, ids : XACK(k, g, ids) => Elsewhere
    BY AnswerElsewhere DEF XACK
  <2> QED  BY <2>1, <2>2, <2>3, <2>4, <2>5, <2>6, <2>7, <2>8, <2>9, AnswerElsewhere
<1>2. ASSUME SeriesCommands PROVE Elsewhere
  <2>1. PICK k : \/ TSCREATE(k)
                 \/ Read("TS.CREATE", k, "sum", Error)
                 \/ \E p : TSADD(k, p)
                 \/ TSGET(k)
                 \/ \E w : \/ TSRANGE(k, w[1], w[2])
                           \/ \E method : DownSample(k, w[1], w[2], method)
    BY <1>2 DEF SeriesCommands
  <2>2. TSCREATE(k) \/ TSGET(k) => Elsewhere
    BY AnswerElsewhere DEF TSCREATE, TSGET
  <2>3. \A p : TSADD(k, p) => Elsewhere
    BY AnswerElsewhere DEF TSADD
  <2>4. \A start, end : TSRANGE(k, start, end) => Elsewhere
    BY AnswerElsewhere DEF TSRANGE
  <2>5. \A start, end, method : DownSample(k, start, end, method) => Elsewhere
    BY AnswerElsewhere DEF DownSample
  <2> QED  BY <2>1, <2>2, <2>3, <2>4, <2>5, AnswerElsewhere
<1>3. ASSUME SketchCommands PROVE Elsewhere
  <2>1. PICK k : \/ \E e : PFADD(k, e)
                 \/ PFCOUNT(k)
                 \/ \E sources : PFMERGE(k, sources)
                 \/ Panic("PFADD", k, <<>>)
    BY <1>3 DEF SketchCommands
  <2>2. \A e : PFADD(k, e) => \E arg, reply : Answer("PFADD", k, arg, reply)
    BY Zenon DEF PFADD, Read, Panic
  <2>3. PFCOUNT(k) => \E arg, reply : Answer("PFCOUNT", k, arg, reply)
    BY Zenon DEF PFCOUNT, Read, Panic
  <2>4. \A sources : PFMERGE(k, sources) => \E arg, reply : Answer("PFMERGE", k, arg, reply)
    BY Zenon DEF PFMERGE, Read, Panic
  <2> QED  BY <2>1, <2>2, <2>3, <2>4, AnswerElsewhere
<1> QED  BY <1>1, <1>2, <1>3

(***************************************************************************)
(* And those on places, vectors and bytes.                                 *)
(***************************************************************************)
LEMMA NumbersElsewhere ==
    ASSUME GeoCommands \/ VectorCommands \/ ByteCommands
    PROVE  Elsewhere
<1>1. ASSUME GeoCommands PROVE Elsewhere
  <2>1. PICK k : \/ \E name, spot : GEOADD(k, name, spot)
                 \/ \E a, b : GEODIST(k, a, b)
                 \/ \E spot, radius : GEOSEARCH(k, spot, radius)
                 \/ Read("GEOADD", k, <<>>, Error)
    BY <1>1 DEF GeoCommands
  <2>2. \A name, spot : GEOADD(k, name, spot) => Elsewhere
    BY AnswerElsewhere DEF GEOADD
  <2>3. \A a, b : GEODIST(k, a, b) => Elsewhere
    BY AnswerElsewhere DEF GEODIST
  <2>4. \A spot, radius : GEOSEARCH(k, spot, radius) => Elsewhere
    BY AnswerElsewhere DEF GEOSEARCH
  <2> QED  BY <2>1, <2>2, <2>3, <2>4, AnswerElsewhere
<1>2. ASSUME VectorCommands PROVE Elsewhere
  <2>1. PICK k : \/ \E v : VECTORSET(k, v)
                 \/ VECTORGET(k)
                 \/ \E query, n : VECTORSEARCH(k, query, n)
                 \/ Read("VECTOR.SEARCH", k, <<>>, Error)
    BY <1>2 DEF VectorCommands
  <2>2. (\E v : VECTORSET(k, v)) \/ VECTORGET(k) => Elsewhere
    BY AnswerElsewhere DEF VECTORSET, VECTORGET
  <2>3. \A query, n : VECTORSEARCH(k, query, n) => Elsewhere
    BY AnswerElsewhere DEF VECTORSEARCH
  <2> QED  BY <2>1, <2>2, <2>3, AnswerElsewhere
<1>3. ASSUME ByteCommands PROVE Elsewhere
  <2>1. PICK k : \/ \E offset, bit : SETBIT(k, offset, bit)
                 \/ Read("SETBIT", k, <<-1, 1>>, Number(0))
                 \/ Read("BITOP", k, <<>>, Error)
                 \/ \E offset : GETBIT(k, offset)
                 \/ BITCOUNT(k)
                 \/ \E op, sources : BITOP(op, k, sources)
                 \/ \E f : \/ BITFIELDGET(k, f[1], f[2])
                           \/ \E n : \/ BITFIELDSET(k, f[1], f[2], n)
                                     \/ BITFIELDINCRBY(k, f[1], f[2], n)
                 \/ Panic("BITFIELD GET", k, <<>>)
    BY <1>3 DEF ByteCommands
  <2>2. \A offset, bit : SETBIT(k, offset, bit) => Elsewhere
    BY AnswerElsewhere DEF SETBIT
  <2>3. (\E offset : GETBIT(k, offset)) \/ BITCOUNT(k) => Elsewhere
    BY AnswerElsewhere DEF GETBIT, BITCOUNT
  <2>4. \A op, sources : BITOP(op, k, sources) => \E arg, reply : Answer("BITOP", k, arg, reply)
    BY ZenonT(30) DEF BITOP
  <2>5. \A type, offset : BITFIELDGET(k, type, offset) =>
            \E arg, reply : Answer("BITFIELD GET", k, arg, reply)
    BY ZenonT(30) DEF BITFIELDGET, Read, Panic
  <2>6. \A type, offset, n :
            /\ BITFIELDSET(k, type, offset, n) =>
                   \E arg, reply : Answer("BITFIELD SET", k, arg, reply)
            /\ BITFIELDINCRBY(k, type, offset, n) =>
                   \E arg, reply : Answer("BITFIELD INCRBY", k, arg, reply)
    BY ZenonT(30) DEF BITFIELDSET, BITFIELDINCRBY, Read, Panic
  <2> QED  BY <2>1, <2>2, <2>3, <2>4, <2>5, <2>6, AnswerElsewhere
<1> QED  BY <1>1, <1>2, <1>3

(***************************************************************************)
(* What a removal leaves: of the part nothing, and all that is named apart *)
(* from it.                                                                *)
(***************************************************************************)
LEMMA RemovesOne ==
    ASSUME NEW holder, NEW last,
           holder.json = "object" \/ (InArray(holder, last) /\ holder.items \in Seq(Json)),
           NEW p
    PROVE  /\ Child(Without(holder, last), last) \in {Missing, Null}
           /\ (IF holder.json # "array" THEN p # last
               ELSE p \in DOMAIN Index => Index[p] # Index[last])
                 => Child(Without(holder, last), p) = Child(holder, p)
<1>1. PICK new : new = Without(holder, last)
  OBVIOUS
<1>2. CASE holder.json = "object"
  <2>1. PICK f, g : f = holder.fields /\ g = Restrict(f, DOMAIN f \ {last})
    OBVIOUS
  <2>2. new.json = "object" /\ new.fields = g
    BY <1>1, <1>2, <2>1 DEF Without, Object
  <2>3. DOMAIN g = DOMAIN f \ {last} /\ \A n \in DOMAIN g : g[n] = f[n]
    BY <2>1 DEF Restrict
  <2>4. Child(new, last) = Missing
    BY <2>2, <2>3, ChildMeans
  <2>5. p # last => Child(new, p) = Child(holder, p)
    BY <1>2, <2>1, <2>2, <2>3, ChildMeans
  <2> QED  BY <1>1, <1>2, <2>4, <2>5
<1>3. CASE holder.json = "array" /\ InArray(holder, last) /\ holder.items \in Seq(Json)
  <2>1. PICK s \in Seq(Json), i \in Nat : s = holder.items /\ i = Index[last]
    BY <1>3, DocsAssumption DEF InArray
  <2>2. PICK t : t = [s EXCEPT ![i + 1] = Null]
    OBVIOUS
  <2>3. new.json = "array" /\ new.items = t
    BY <1>1, <1>3, <2>1, <2>2 DEF Without, Array
  <2>4. i < Len(s) /\ last \in DOMAIN Index
    BY <1>3, <2>1 DEF InArray
  <2>5. Len(t) = Len(s) /\ t[i + 1] = Null /\ \A j \in Nat : j < Len(s) /\ j # i => t[j + 1] = s[j + 1]
    BY <2>2, <2>4
  <2>6. Child(new, last) = Null
    <3>1. InArray(new, last)
      BY <2>1, <2>3, <2>4, <2>5 DEF InArray
    <3> QED  BY <2>1, <2>3, <2>5, <3>1, ChildMeans
  <2>7. ASSUME p \in DOMAIN Index => Index[p] # i PROVE Child(new, p) = Child(holder, p)
    <3>1. InArray(new, p) <=> InArray(holder, p)
      BY <1>3, <2>1, <2>3, <2>5 DEF InArray
    <3>2. CASE InArray(holder, p)
      <4>1. Index[p] \in Nat /\ Index[p] # i /\ Index[p] < Len(s)
        BY <2>1, <2>7, <3>2, DocsAssumption DEF InArray
      <4>2. t[Index[p] + 1] = s[Index[p] + 1]
        BY <2>5, <4>1
      <4> QED  BY <1>3, <2>1, <2>3, <3>1, <3>2, <4>2, ChildMeans
    <3>3. CASE ~ InArray(holder, p)
      BY <1>3, <2>3, <3>1, <3>3, ChildMeans
    <3> QED  BY <3>2, <3>3
  <2> QED  BY <1>1, <1>3, <2>1, <2>6, <2>7
<1> QED  BY <1>2, <1>3 DEF InArray

(***************************************************************************)
(* What an array that has grown leaves of the object that holds it.        *)
(***************************************************************************)
LEMMA GrowsOne ==
    ASSUME NEW holder, holder.json = "object", NEW last, NEW items, NEW p,
           NEW new, new = Object(With(holder.fields, last, Array(items)))
    PROVE  /\ Child(new, last) = Array(items)
           /\ p # last => Child(new, p) = Child(holder, p)
<1>1. PICK f, a, g : f = holder.fields /\ a = Array(items) /\ g = With(f, last, a)
  OBVIOUS
<1>2. a # Null
  <2>1. a.json = "array" /\ Null.json = "null"
    BY <1>1 DEF Array, Null
  <2> QED  BY <2>1
<1>3. new.json = "object" /\ new.fields = g
  BY <1>1 DEF Object
<1>4. DOMAIN g = DOMAIN f \cup {last} /\ g[last] = a /\ \A n \in DOMAIN f \ {last} : g[n] = f[n]
  BY <1>1 DEF With
<1>5. Child(new, last) = a
  BY <1>2, <1>3, <1>4, ChildMeans
<1>6. p # last => Child(new, p) = Child(holder, p)
  BY <1>1, <1>3, <1>4, ChildMeans
<1> QED  BY <1>1, <1>5, <1>6

(***************************************************************************)
(* The empty path stays where it is, and a path of one part takes one step.*)
(***************************************************************************)
LEMMA ShortPaths ==
    ASSUME NEW v
    PROVE  GetAtPath(v, <<>>) = v /\ \A p : GetAtPath(v, <<p>>) = Child(v, p)
<1>1. GetAtPath(v, <<>>) = v
  <2>1. <<>> \in Seq({}) /\ Len(<<>>) = 0
    OBVIOUS
  <2>2. PICK at : Along(at, v, <<>>, 0) /\ GetAtPath(v, <<>>) = at[0]
    BY <2>1, PathIsLast
  <2> QED  BY <2>2 DEF Along
<1>2. ASSUME NEW p PROVE GetAtPath(v, <<p>>) = Child(v, p)
  <2>1. <<>> \in Seq({p}) /\ p \in {p} /\ <<>> \o <<p>> = <<p>>
    OBVIOUS
  <2>2. GetAtPath(v, <<>> \o <<p>>) = Child(GetAtPath(v, <<>>), p)
    BY <2>1, OnePartMore
  <2> QED  BY <1>1, <2>1, <2>2
<1> QED  BY <1>1, <1>2

(***************************************************************************)
(* A path that is not empty is its last part behind the rest.              *)
(***************************************************************************)
LEMMA FrontAndLast ==
    ASSUME NEW S, NEW path \in Seq(S), path # <<>>
    PROVE  /\ Front(path) \in Seq(S) /\ Last(path) \in S
           /\ Front(path) \o <<Last(path)>> = path
           /\ Front(path) \o <<>> = Front(path)
           /\ Front(path) = SubSeq(path, 1, Len(path) - 1)
           /\ Len(path) - 1 \in 0 .. Len(path) - 1
<1>1. PICK n \in Nat \ {0} : n = Len(path)
  OBVIOUS
<1>2. n - 1 \in Nat /\ n - 1 <= n /\ 1 \in 1 .. n + 1 /\ n - 1 \in 0 .. n - 1 /\ n \in 1 .. n
  BY <1>1
<1>3. PICK front : front = SubSeq(path, 1, n - 1)
  OBVIOUS
<1>4. front \in Seq(S) /\ Len(front) = n - 1 /\ \A i \in 1 .. n - 1 : front[i] = path[i]
  BY <1>1, <1>2, <1>3
<1>5. Front(path) = front /\ Last(path) = path[n] /\ path[n] \in S
  BY <1>1, <1>2, <1>3 DEF Front, Last
<1>6. front \o <<path[n]>> = path
  BY <1>1, <1>4, <1>5
<1>7. front \o <<>> = front
  BY <1>4
<1> QED  BY <1>1, <1>2, <1>3, <1>4, <1>5, <1>6, <1>7

(***************************************************************************)
(* What EditsExact compares: the elements next to the one that a path      *)
(* names, before in their place and after in the text that took it.        *)
(***************************************************************************)
Before(k, path, p) == GetAtPath(Root(k), Front(path) \o p)
Then(k, p) == GetAtPath(store'[k].of, p)
Named(k, path) == IF Before(k, path, <<>>).json # "array" THEN {Last(path)}
                  ELSE {p \in DOMAIN Index : Index[p] = Index[Last(path)]}
OthersStay(k, path) ==
    \A p \in (DOMAIN Index \cup Names) \ Named(k, path) :
        Then(k, <<p>>) = Before(k, path, <<p>>)

(***************************************************************************)
(* They are the children of the object or array that holds it.             *)
(***************************************************************************)
LEMMA Neighbours ==
    ASSUME NEW k, NEW path \in Seq(Names \cup DOMAIN Index), path # <<>>,
           NEW holder, holder = GetAtPath(Root(k), Front(path))
    PROVE  /\ Before(k, path, <<>>) = holder
           /\ Before(k, path, <<Last(path)>>) = GetAtPath(Root(k), path)
           /\ \A p \in DOMAIN Index \cup Names : Before(k, path, <<p>>) = Child(holder, p)
<1> DEFINE S == Names \cup DOMAIN Index
<1>1. Front(path) \in Seq(S) /\ Front(path) \o <<>> = Front(path)
      /\ Front(path) \o <<Last(path)>> = path
  BY FrontAndLast
<1>2. ASSUME NEW p \in S PROVE Before(k, path, <<p>>) = Child(holder, p)
  <2>1. GetAtPath(Root(k), Front(path) \o <<p>>) = Child(GetAtPath(Root(k), Front(path)), p)
    BY <1>1, OnePartMore
  <2> QED  BY <2>1 DEF Before
<1> QED  BY <1>1, <1>2 DEF Before

(***************************************************************************)
(* The text that a command puts in the place of a document.                *)
(***************************************************************************)
LEMMA TextPut ==
    ASSUME StoreInv, NEW k \in Keys, NEW v, Put(k, Encoded(v))
    PROVE  \A p : Then(k, <<p>>) = Child(v, p)
<1>1. store' = [store EXCEPT ![k] = Encoded(v)]
  BY DEF Put, Become
<1>2. store'[k] = Encoded(v)
  BY <1>1 DEF StoreInv
<1>3. store'[k].of = v
  <2>1. PICK text : text = Encoded(v)
    OBVIOUS
  <2>2. text.of = v
    BY <2>1 DEF Encoded
  <2> QED  BY <1>2, <2>1, <2>2
<1> QED  BY <1>3, ShortPaths DEF Then

(***************************************************************************)
(* JSON.DEL removes what it was told to, and that only.                    *)
(***************************************************************************)
LEMMA DeletesOne ==
    ASSUME StoreInv, NEW k \in Keys, NEW path \in Seq(Names \cup DOMAIN Index),
           JSONDEL(k, path)
    PROVE  /\ answer'.op = "JSON.DEL" /\ answer'.key = k /\ answer'.arg = path
           /\ answer'.reply # Number(1) => UNCHANGED store
           /\ answer'.reply = Number(1) /\ path # <<>> =>
                 OthersStay(k, path) /\ Then(k, <<Last(path)>>) \in {Missing, Null}
<1>1. PICK holder, last : holder = GetAtPath(Root(k), Front(path)) /\ last = Last(path)
  OBVIOUS
<1>2. \/ path = <<>> /\ Answer("JSON.DEL", k, path, Number(1))
      \/ /\ path # <<>>
         /\ holder.json = "object" \/ InArray(holder, last)
         /\ Put(k, Encoded(Without(holder, last)))
         /\ Answer("JSON.DEL", k, path, Number(1))
      \/ Answer("JSON.DEL", k, path, Error) /\ UNCHANGED store
  BY <1>1, Zenon DEF JSONDEL, Read
<1>3. Error # Number(1)
  BY DEF Error, Number
<1>4. answer'.op = "JSON.DEL" /\ answer'.key = k /\ answer'.arg = path
  BY <1>2 DEF Answer
<1>5. answer'.reply # Number(1) => UNCHANGED store
  BY <1>2 DEF Answer
<1>6. ASSUME answer'.reply = Number(1), path # <<>>
      PROVE  OthersStay(k, path) /\ Then(k, <<last>>) \in {Missing, Null}
  <2>1. /\ holder.json = "object" \/ InArray(holder, last)
        /\ Put(k, Encoded(Without(holder, last)))
    BY <1>2, <1>3, <1>6 DEF Answer
  <2>2. PICK new : new = Without(holder, last)
    OBVIOUS
  <2>3. \A p : Then(k, <<p>>) = Child(new, p)
    BY <2>1, <2>2, TextPut
  <2>4. /\ Before(k, path, <<>>) = holder
        /\ \A p \in DOMAIN Index \cup Names : Before(k, path, <<p>>) = Child(holder, p)
    BY <1>1, <1>6, Neighbours
  <2>5. holder.json = "array" => holder.items \in Seq(Json)
    <3>1. Front(path) \in Seq(Names \cup DOMAIN Index)
      BY <1>6, FrontAndLast
    <3> QED  BY <1>1, <3>1, HolderItems
  <2>6. holder.json = "object" \/ (InArray(holder, last) /\ holder.items \in Seq(Json))
    BY <2>1, <2>5 DEF InArray
  <2>7. ASSUME NEW p \in (DOMAIN Index \cup Names) \ Named(k, path)
        PROVE  Then(k, <<p>>) = Before(k, path, <<p>>)
    <3>1. IF holder.json # "array" THEN p # last
          ELSE p \in DOMAIN Index => Index[p] # Index[last]
      BY <1>1, <2>4, <2>7 DEF Named
    <3>2. Child(new, p) = Child(holder, p)
      BY <2>2, <2>6, <3>1, RemovesOne
    <3> QED  BY <2>3, <2>4, <3>2
  <2>8. Child(new, last) \in {Missing, Null}
    BY <2>2, <2>6, RemovesOne
  <2> QED  BY <2>3, <2>7, <2>8 DEF OthersStay
<1> QED  BY <1>1, <1>4, <1>5, <1>6

(***************************************************************************)
(* JSON.ARRAPPEND adds behind the elements, and changes nothing else.      *)
(***************************************************************************)
LEMMA AppendsBehind ==
    ASSUME StoreInv, NEW k \in Keys, NEW path \in Seq(Names \cup DOMAIN Index),
           NEW items, JSONARRAPPEND(k, path, items)
    PROVE  /\ answer'.op = "JSON.ARRAPPEND" /\ answer'.key = k /\ answer'.arg = <<path, items>>
           /\ answer'.reply # Number(1) => UNCHANGED store
           /\ answer'.reply = Number(1) =>
                 /\ path # <<>> /\ OthersStay(k, path)
                 /\ Then(k, <<Last(path)>>) =
                        Array(Before(k, path, <<Last(path)>>).items \o items)
<1>1. PICK holder, last, old :
        /\ holder = GetAtPath(Root(k), Front(path)) /\ last = Last(path)
        /\ old = GetAtPath(Root(k), path)
  OBVIOUS
<1>2. PICK new : new = Object(With(holder.fields, last, Array(old.items \o items)))
  OBVIOUS
<1>3. \/ /\ path # <<>> /\ ThroughObjects(Root(k), path)
         /\ Put(k, Encoded(new))
         /\ Answer("JSON.ARRAPPEND", k, <<path, items>>, Number(1))
      \/ Answer("JSON.ARRAPPEND", k, <<path, items>>, Error) /\ UNCHANGED store
  BY <1>1, <1>2, Zenon DEF JSONARRAPPEND, Read
<1>4. Error # Number(1)
  BY DEF Error, Number
<1>5. answer'.op = "JSON.ARRAPPEND" /\ answer'.key = k /\ answer'.arg = <<path, items>>
  BY <1>3 DEF Answer
<1>6. answer'.reply # Number(1) => UNCHANGED store
  BY <1>3 DEF Answer
<1>7. ASSUME answer'.reply = Number(1)
      PROVE  /\ path # <<>> /\ OthersStay(k, path)
             /\ Then(k, <<last>>) = Array(Before(k, path, <<last>>).items \o items)
  <2>1. path # <<>> /\ ThroughObjects(Root(k), path) /\ Put(k, Encoded(new))
    BY <1>3, <1>4, <1>7 DEF Answer
  <2>2. holder.json = "object"
    <3>1. Front(path) = SubSeq(path, 1, Len(path) - 1) /\ Len(path) - 1 \in 0 .. Len(path) - 1
      BY <2>1, FrontAndLast
    <3> QED  BY <1>1, <2>1, <3>1 DEF ThroughObjects
  <2>3. \A p : Then(k, <<p>>) = Child(new, p)
    BY <2>1, TextPut
  <2>4. /\ Before(k, path, <<>>) = holder /\ Before(k, path, <<last>>) = old
        /\ \A p \in DOMAIN Index \cup Names : Before(k, path, <<p>>) = Child(holder, p)
    BY <1>1, <2>1, Neighbours
  <2>5. \A p : /\ Child(new, last) = Array(old.items \o items)
               /\ p # last => Child(new, p) = Child(holder, p)
    <3>1. PICK longer : longer = old.items \o items
      OBVIOUS
    <3>2. new = Object(With(holder.fields, last, Array(longer)))
      BY <1>2, <3>1
    <3>3. ASSUME NEW p
          PROVE  /\ Child(new, last) = Array(longer)
                 /\ p # last => Child(new, p) = Child(holder, p)
      BY ONLY <2>2, <3>2, GrowsOne
    <3> QED  BY <3>1, <3>3
  <2>6. ASSUME NEW p \in (DOMAIN Index \cup Names) \ Named(k, path)
        PROVE  Then(k, <<p>>) = Before(k, path, <<p>>)
    <3>1. p # last
      BY <1>1, <2>2, <2>4, <2>6 DEF Named
    <3> QED  BY <2>3, <2>4, <2>5, <3>1
  <2> QED  BY <2>1, <2>3, <2>4, <2>5, <2>6 DEF OthersStay
<1> QED  BY <1>1, <1>5, <1>6, <1>7

(***************************************************************************)
(* Those on streams write streams that are what their history says.        *)
(***************************************************************************)
LEMMA StreamIsPlain ==
    ASSUME StoreInv, StreamCommands
    PROVE  PlainStep
<1>1. \A k \in Keys : Is(k, "stream") => StreamInv(store[k])
  BY StoredValues
<1>2. \/ UNCHANGED <<store, memory, joined>>
      \/ Become(store)
      \/ \E k \in Keys : \E v : Put(k, v) /\ v.type = "stream" /\ StreamInv(v)
  BY <1>1, StreamCommand
<1> QED  BY <1>2 DEF PlainStep, PlainInv

(***************************************************************************)
(* Those on time series write such series.                                 *)
(***************************************************************************)
LEMMA SeriesIsPlain ==
    ASSUME StoreInv, SeriesCommands
    PROVE  PlainStep
<1>1. PICK k \in Keys :
        \/ TSCREATE(k)
        \/ Read("TS.CREATE", k, "sum", Error)
        \/ \E p \in Points : TSADD(k, p)
        \/ TSGET(k)
        \/ \E w \in Windows :
               \/ TSRANGE(k, w[1], w[2])
               \/ \E method \in {"avg", "min", "max", "sum"} : DownSample(k, w[1], w[2], method)
  BY DEF SeriesCommands, KeysOf
<1>2. ASSUME NEW v, SeriesInv(v) PROVE PlainInv(v)
  <2>1. v.type = "series"
    BY <1>2 DEF SeriesInv
  <2> QED  BY <1>2, <2>1 DEF PlainInv
<1>3. ASSUME TSCREATE(k) PROVE PlainStep
  BY <1>2, <1>3, NewSeriesInv, PutIsPlain, ReadIsPlain DEF TSCREATE
<1>4. ASSUME Read("TS.CREATE", k, "sum", Error) PROVE PlainStep
  BY <1>4, ReadIsPlain
<1>5. ASSUME NEW p \in Points, TSADD(k, p) PROVE PlainStep
  <2>1. CASE Is(k, "series")
    <3>1. PICK s \in SortedPoints(Append(store[k].points, p)) :
              Put(k, Series(s, Append(store[k].auxAdded, p)))
      BY <1>5, <2>1 DEF TSADD
    <3>2. SeriesInv(store[k])
      BY <2>1, StoredValues
    <3>3. PICK v : v = store[k]
      OBVIOUS
    <3>4. SeriesInv(v) /\ s \in SortedPoints(Append(v.points, p))
      BY <3>2, <3>3
    <3>5. SeriesInv(Series(s, Append(v.auxAdded, p)))
      BY <3>4, SortKeeps
    <3> QED  BY <1>2, <3>1, <3>3, <3>5, PutIsPlain
  <2>2. CASE ~ Is(k, "series")
    BY <1>5, <2>2, ReadIsPlain DEF TSADD
  <2> QED  BY <2>1, <2>2
<1>6. ASSUME TSGET(k) PROVE PlainStep
  BY <1>6, ReadIsPlain DEF TSGET
<1>7. ASSUME NEW start, NEW end, TSRANGE(k, start, end) PROVE PlainStep
  BY <1>7, ReadIsPlain DEF TSRANGE
<1>8. ASSUME NEW start, NEW end, NEW method, DownSample(k, start, end, method) PROVE PlainStep
  BY <1>8, ReadIsPlain DEF DownSample
<1> QED  BY <1>1, <1>3, <1>4, <1>5, <1>6, <1>7, <1>8

(***************************************************************************)
(* Those on sketches write such sketches, and PFMERGE of none that is      *)
(* there the nil sketch.                                                   *)
(***************************************************************************)
LEMMA SketchIsPlain ==
    ASSUME StoreInv, SketchCommands
    PROVE  PlainStep
<1>1. PICK k \in Keys :
        \/ \E e \in Elements : PFADD(k, e)
        \/ PFCOUNT(k)
        \/ \E sources \in SeqOf(KeysOf("sketch"), 2) : PFMERGE(k, sources)
        \/ Panic("PFADD", k, <<>>)
  BY DEF SketchCommands, KeysOf
<1>2. ASSUME NEW v, SketchInv(v) PROVE PlainInv(v)
  <2>1. v.type = "sketch"
    BY <1>2 DEF SketchInv
  <2> QED  BY <1>2, <2>1 DEF PlainInv
<1>3. ASSUME NEW e \in Elements, PFADD(k, e) PROVE PlainStep
  <2>1. CASE store[k] = NoValue
    <3>1. Put(k, Add(NewSketch, e))
      BY <1>3, <2>1 DEF PFADD, Is
    <3> QED  BY <1>2, <3>1, NewSketchInv, AddKeeps, PutIsPlain
  <2>2. CASE store[k] # NoValue /\ Is(k, "sketch")
    <3>1. Put(k, Add(store[k], e))
      BY <1>3, <2>2 DEF PFADD, Is
    <3>2. SketchInv(store[k])
      BY <2>2, StoredValues
    <3> QED  BY <1>2, <3>1, <3>2, AddKeeps, PutIsPlain
  <2>3. CASE store[k] # NoValue /\ ~ Is(k, "sketch")
    <3>1. Panic("PFADD", k, e) \/ Read("PFADD", k, e, Error)
      BY <1>3, <2>3 DEF PFADD
    <3> QED  BY <3>1, PanicIsPlain, ReadIsPlain
  <2> QED  BY <2>1, <2>2, <2>3
<1>4. ASSUME PFCOUNT(k) PROVE PlainStep
  <2>1. \/ Read("PFCOUNT", k, <<>>, Value(store[k].registers))
        \/ Panic("PFCOUNT", k, <<>>)
        \/ Read("PFCOUNT", k, <<>>, Error)
    BY <1>4 DEF PFCOUNT
  <2> QED  BY <2>1, PanicIsPlain, ReadIsPlain
<1>5. ASSUME NEW sources \in SeqOf(KeysOf("sketch"), 2), PFMERGE(k, sources) PROVE PlainStep
  <2> DEFINE bad == {i \in DOMAIN sources : ~ Is(sources[i], "sketch")}
  <2>1. \/ sources = <<>> /\ Put(k, NilSketch)
        \/ /\ sources # <<>> /\ bad = {}
           /\ Put(k, Merged({store[s] : s \in ToSet(sources)}))
        \/ Panic("PFMERGE", k, sources)
        \/ Read("PFMERGE", k, sources, Error)
    BY <1>5 DEF PFMERGE
  <2>2. ASSUME Put(k, NilSketch) PROVE PlainStep
    <3>1. PlainInv(NilSketch)
      BY DEF PlainInv, NilSketch, MeasureOK
    <3> QED  BY <2>2, <3>1, PutIsPlain
  <2>3. ASSUME sources # <<>>, bad = {}, Put(k, Merged({store[s] : s \in ToSet(sources)}))
        PROVE  PlainStep
    <3>1. PICK n \in 0 .. 2 : sources \in [1 .. n -> KeysOf("sketch")]
      BY DEF SeqOf
    <3>2. n \in Nat \ {0}
      <4>1. n # 0
        BY <2>3, <3>1
      <4> QED  BY <4>1
    <3>3. PICK s : s = [j \in 1 .. n |-> store[sources[j]]]
      OBVIOUS
    <3>4. \A j \in 1 .. n : SketchInv(s[j])
      <4> TAKE j \in 1 .. n
      <4>1. Is(sources[j], "sketch") /\ sources[j] \in Keys
        BY <2>3, <3>1 DEF KeysOf
      <4>2. SketchInv(store[sources[j]])
        BY <4>1, StoredValues
      <4> QED  BY <3>3, <4>2
    <3>5. {store[t] : t \in ToSet(sources)} = {s[j] : j \in 1 .. n}
      BY <3>1, <3>3 DEF ToSet
    <3>6. DOMAIN s = 1 .. n
      BY <3>3
    <3>7. SketchInv(Merged({s[j] : j \in 1 .. n}))
      BY <3>2, <3>4, <3>6, MergedKeeps
    <3> QED  BY <1>2, <2>3, <3>5, <3>7, PutIsPlain
  <2> HIDE DEF bad
  <2> QED  BY <2>1, <2>2, <2>3, PanicIsPlain, ReadIsPlain
<1>6. ASSUME Panic("PFADD", k, <<>>) PROVE PlainStep
  BY <1>6, PanicIsPlain
<1> QED  BY <1>1, <1>3, <1>4, <1>5, <1>6

(***************************************************************************)
(* Those on places write geo sets.                                         *)
(***************************************************************************)
LEMMA GeoIsPlain ==
    ASSUME StoreInv, GeoCommands
    PROVE  PlainStep
<1>1. PICK k \in Keys :
        \/ \E name \in Places, spot \in Spots : GEOADD(k, name, spot)
        \/ \E a, b \in Places : GEODIST(k, a, b)
        \/ \E spot \in Spots, radius \in {0, 1} : GEOSEARCH(k, spot, radius)
        \/ Read("GEOADD", k, <<>>, Error)
  BY DEF GeoCommands, KeysOf
<1> DEFINE OK(v) == /\ v = GeoSet(v.locations, v.sorted) /\ IsMap(v.locations, Places, Spots)
                    /\ v.sorted \in Nat /\ Cardinality(DOMAIN v.locations) <= v.sorted
<1>2. ASSUME NEW v, OK(v) PROVE PlainInv(v)
  <2>1. v.type = "geo"
    BY <1>2 DEF GeoSet
  <2>2. MeasureOK(v)
    BY <1>2, <2>1 DEF MeasureOK
  <2> QED  BY <2>1, <2>2 DEF PlainInv
<1>3. ASSUME NEW name \in Places, NEW spot \in Spots, GEOADD(k, name, spot) PROVE PlainStep
  <2>1. PICK geo : geo = IF store[k] = NoValue THEN NewGeoSet ELSE store[k]
    OBVIOUS
  <2>2. PICK locations : locations = With(geo.locations, name, spot)
    OBVIOUS
  <2>3. PICK sorted : sorted = geo.sorted + 1
    OBVIOUS
  <2>4. \/ /\ store[k] = NoValue \/ Is(k, "geo")
           /\ Put(k, [geo EXCEPT !.locations = locations, !.sorted = sorted])
        \/ Panic("GEOADD", k, <<name, spot>>)
    BY <1>3, <2>1, <2>2, <2>3 DEF GEOADD
  <2>5. ASSUME store[k] = NoValue \/ Is(k, "geo")
        PROVE  OK(geo)
    <3>1. CASE store[k] = NoValue
      <4>1. /\ geo = GeoSet(geo.locations, geo.sorted)
            /\ geo.locations = <<>> /\ geo.sorted = 0
        BY <2>1, <3>1 DEF NewGeoSet, GeoSet
      <4>2. IsMap(<<>>, Places, Spots) /\ DOMAIN <<>> = {}
        BY FS_EmptySet DEF IsMap
      <4> QED  BY <4>1, <4>2, FS_EmptySet
    <3>2. CASE store[k] # NoValue /\ Is(k, "geo")
      <4>1. MeasureOK(store[k]) /\ store[k].type = "geo"
        BY <3>2, StoredValues DEF Is
      <4>2. OK(store[k])
        BY <4>1 DEF MeasureOK
      <4> QED  BY <2>1, <3>2, <4>2
    <3> QED  BY <2>5, <3>1, <3>2
  <2>6. ASSUME OK(geo)
        PROVE  OK([geo EXCEPT !.locations = locations, !.sorted = sorted])
    <3>1. PICK new : new = [geo EXCEPT !.locations = locations, !.sorted = sorted]
      OBVIOUS
    <3>2. /\ new = GeoSet(new.locations, new.sorted)
          /\ new.locations = locations /\ new.sorted = sorted
      <4>1. PICK was, length : geo = [type |-> "geo", locations |-> was, sorted |-> length]
        BY <2>6 DEF GeoSet
      <4> QED  BY <3>1, <4>1 DEF GeoSet
    <3>3. DOMAIN locations = DOMAIN geo.locations \cup {name}
      BY <2>2 DEF With
    <3>4. IsFiniteSet(DOMAIN geo.locations) /\ DOMAIN geo.locations \subseteq Places
      BY <2>6 DEF IsMap
    <3>5. /\ IsFiniteSet(DOMAIN locations)
          /\ Cardinality(DOMAIN locations) <= Cardinality(DOMAIN geo.locations) + 1
      <4>1. PICK D : D = DOMAIN geo.locations
        OBVIOUS
      <4>2. IsFiniteSet(D) /\ Cardinality(D) \in Nat
        BY <3>4, <4>1, FS_CardinalityType
      <4>3. /\ IsFiniteSet(D \cup {name})
            /\ Cardinality(D \cup {name}) = Cardinality(D) \/
               Cardinality(D \cup {name}) = Cardinality(D) + 1
        BY <4>2, FS_AddElement
      <4> QED  BY <3>3, <4>1, <4>2, <4>3
    <3>6. locations \in [DOMAIN locations -> Spots]
      BY <2>2, <2>6 DEF With, IsMap
    <3>7. IsMap(locations, Places, Spots)
      BY <3>3, <3>4, <3>5, <3>6 DEF IsMap
    <3>8. Cardinality(DOMAIN geo.locations) \in Nat /\ Cardinality(DOMAIN locations) \in Nat
      BY <3>4, <3>5, FS_CardinalityType
    <3>9. sorted \in Nat /\ Cardinality(DOMAIN locations) <= sorted
      BY <2>3, <2>6, <3>5, <3>8
    <3>10. OK(new)
      BY <3>2, <3>7, <3>9
    <3> QED  BY <3>1, <3>10
  <2> HIDE DEF OK
  <2> QED  BY <1>2, <2>4, <2>5, <2>6, PutIsPlain, PanicIsPlain
<1>4. ASSUME NEW a, NEW b, GEODIST(k, a, b) PROVE PlainStep
  BY <1>4, ReadIsPlain, PanicIsPlain DEF GEODIST
<1>5. ASSUME NEW spot, NEW radius, GEOSEARCH(k, spot, radius) PROVE PlainStep
  BY <1>5, ReadIsPlain, PanicIsPlain DEF GEOSEARCH
<1>6. ASSUME Read("GEOADD", k, <<>>, Error) PROVE PlainStep
  BY <1>6, ReadIsPlain
<1> QED  BY <1>1, <1>3, <1>4, <1>5, <1>6

(***************************************************************************)
(* Those on vectors write vectors.                                         *)
(***************************************************************************)
LEMMA VectorIsPlain ==
    ASSUME VectorCommands
    PROVE  PlainStep
<1>1. PICK k \in Keys :
        \/ \E v \in Vectors : VECTORSET(k, v)
        \/ VECTORGET(k)
        \/ \E query \in Vectors, n \in {1, 2} : VECTORSEARCH(k, query, n)
        \/ Read("VECTOR.SEARCH", k, <<>>, Error)
  BY DEF VectorCommands, KeysOf
<1>2. ASSUME NEW v \in Vectors, VECTORSET(k, v) PROVE PlainStep
  <2>1. PICK new : new = [type |-> "vector", vector |-> v]
    OBVIOUS
  <2>2. PlainInv(new)
    BY <2>1 DEF PlainInv, MeasureOK
  <2> QED  BY <1>2, <2>1, <2>2, PutIsPlain DEF VECTORSET
<1>3. ASSUME VECTORGET(k) PROVE PlainStep
  BY <1>3, ReadIsPlain DEF VECTORGET
<1>4. ASSUME NEW query, NEW n, VECTORSEARCH(k, query, n) PROVE PlainStep
  BY <1>4, ReadIsPlain DEF VECTORSEARCH
<1>5. ASSUME Read("VECTOR.SEARCH", k, <<>>, Error) PROVE PlainStep
  BY <1>5, ReadIsPlain
<1> QED  BY <1>1, <1>2, <1>3, <1>4, <1>5
-----------------------------------------------------------------------------
(***************************************************************************)
(* Bytes and the places of their bits.                                     *)
(***************************************************************************)
LEMMA Division ==
    ASSUME NEW n \in Nat
    PROVE  /\ n \div ByteBits \in Nat /\ n % ByteBits \in 0 .. ByteBits - 1
           /\ n = (n \div ByteBits) * ByteBits + (n % ByteBits)
<1>1. PICK b : b = ByteBits
  OBVIOUS
<1>2. b \in Nat \ {0}
  BY <1>1, ByteArraysAssumption
<1>3. /\ n \div b \in Nat /\ n % b \in 0 .. b - 1
      /\ n = (n \div b) * b + (n % b)
  BY <1>2
<1> QED  BY <1>1, <1>3

(***************************************************************************)
(* More bytes have more places.                                            *)
(***************************************************************************)
LEMMA MoreBytes ==
    ASSUME NEW m \in Nat, NEW n \in Nat, m <= n
    PROVE  m * ByteBits \in Nat /\ m * ByteBits <= n * ByteBits
<1>1. PICK b : b = ByteBits
  OBVIOUS
<1>2. b \in Nat \ {0}
  BY <1>1, ByteArraysAssumption
<1>3. PICK d \in Nat : n = m + d
  <2>1. n - m \in Nat /\ n = m + (n - m)
    OBVIOUS
  <2> QED  BY <2>1
<1>4. n * b = m * b + d * b
  BY <1>2, <1>3
<1>5. d * b \in Nat /\ m * b \in Nat
  BY <1>2
<1> QED  BY <1>1, <1>4, <1>5

(***************************************************************************)
(* More bytes have all the places of fewer.                                *)
(***************************************************************************)
LEMMA PlacesMonotone ==
    ASSUME NEW m \in Nat, NEW n \in Nat, m <= n
    PROVE  PlacesIn(m) \subseteq PlacesIn(n)
<1>1. m * ByteBits \in Nat /\ n * ByteBits \in Nat /\ m * ByteBits <= n * ByteBits
  BY MoreBytes
<1> QED  BY <1>1 DEF PlacesIn

(***************************************************************************)
(* A place below m * ByteBits is in one of the first m bytes.              *)
(***************************************************************************)
LEMMA ByteBelow ==
    ASSUME NEW n \in Nat, NEW m \in Nat, n < m * ByteBits
    PROVE  n \div ByteBits < m
<1>1. SUFFICES ASSUME m <= n \div ByteBits PROVE FALSE
  BY Division
<1>2. /\ n \div ByteBits \in Nat /\ n % ByteBits \in 0 .. ByteBits - 1
      /\ n = (n \div ByteBits) * ByteBits + (n % ByteBits)
  BY Division
<1>3. PICK q, r : q = n \div ByteBits /\ r = n % ByteBits
  OBVIOUS
<1>4. m * ByteBits <= q * ByteBits
  BY <1>1, <1>2, <1>3, MoreBytes
<1>5. PICK x, y : x = q * ByteBits /\ y = m * ByteBits
  OBVIOUS
<1>6. x \in Nat /\ y \in Nat
  BY <1>2, <1>3, <1>5, ByteArraysAssumption, MoreBytes
<1>7. n = x + r /\ r \in Nat /\ y <= x /\ n < y
  BY <1>2, <1>3, <1>4, <1>5, ByteArraysAssumption
<1> QED  BY <1>6, <1>7

(***************************************************************************)
(* The places of a byte are in the bytes up to it.                         *)
(***************************************************************************)
LEMMA PlaceInByte ==
    ASSUME NEW byte \in Nat, NEW bit \in 0 .. ByteBits - 1, NEW n \in Nat, byte < n
    PROVE  byte * ByteBits + bit \in PlacesIn(n)
<1>1. byte + 1 <= n /\ byte + 1 \in Nat
  OBVIOUS
<1>2. (byte + 1) * ByteBits <= n * ByteBits /\ (byte + 1) * ByteBits \in Nat
  BY <1>1, MoreBytes
<1>3. PICK b : b = ByteBits
  OBVIOUS
<1>4. b \in Nat \ {0}
  BY <1>3, ByteArraysAssumption
<1>5. (byte + 1) * b = byte * b + b
  BY <1>4
<1>6. PICK x, y, z : x = byte * b /\ y = (byte + 1) * b /\ z = n * b
  OBVIOUS
<1>7. x \in Nat /\ y \in Nat /\ z \in Nat
  BY <1>4, <1>6
<1>8. x + bit \in 0 .. z - 1
  <2>1. y = x + b /\ y <= z /\ bit \in 0 .. b - 1
    BY <1>2, <1>3, <1>5, <1>6
  <2> QED  BY <1>4, <1>7, <2>1
<1> QED  BY <1>3, <1>6, <1>8 DEF PlacesIn

(***************************************************************************)
(* A place is in the bytes up to its own.                                  *)
(***************************************************************************)
LEMMA PlaceOfByte ==
    ASSUME NEW n \in Nat
    PROVE  n \div ByteBits \in Nat /\ n \in PlacesIn(n \div ByteBits + 1)
<1>1. PICK q, r : q = n \div ByteBits /\ r = n % ByteBits
  OBVIOUS
<1>2. q \in Nat /\ r \in 0 .. ByteBits - 1 /\ n = q * ByteBits + r
  BY <1>1, Division
<1>3. q * ByteBits + r \in PlacesIn(q + 1)
  <2>1. q + 1 \in Nat /\ q < q + 1
    BY <1>2
  <2> QED  BY <1>2, <2>1, PlaceInByte
<1> QED  BY <1>1, <1>2, <1>3

(***************************************************************************)
(* What a bit field needs: its places are in the bytes that reach to its   *)
(* end, and these are no more than there are.                              *)
(***************************************************************************)
BytesFor(offset, size) == (offset + size + ByteBits - 1) \div ByteBits

(***************************************************************************)
(* The places of a bit field are in the bytes up to its end.               *)
(***************************************************************************)
LEMMA BytesForSpan ==
    ASSUME NEW offset \in Nat, NEW size \in Nat
    PROVE  BytesFor(offset, size) \in Nat /\ Span(offset, size) \subseteq PlacesIn(BytesFor(offset, size))
<1>0. PICK b : b = ByteBits
  OBVIOUS
<1>1. b \in Nat \ {0} /\ offset + size + b - 1 \in Nat
  BY <1>0, ByteArraysAssumption
<1>2. BytesFor(offset, size) \in Nat
  BY <1>0, <1>1, Division DEF BytesFor
<1>3. ASSUME NEW i \in 0 .. size - 1
      PROVE  PlaceOf(offset + i) \in PlacesIn(BytesFor(offset, size))
  <2>1. PICK n : n = offset + i
    OBVIOUS
  <2>2. n \in Nat /\ n + b <= offset + size + b - 1
    BY <1>1, <2>1
  <2>3. PICK q, r : q = n \div ByteBits /\ r = n % ByteBits
    OBVIOUS
  <2>4. q \in Nat /\ r \in 0 .. b - 1 /\ n = q * b + r
    BY <1>0, <2>2, <2>3, Division
  <2>5. q < BytesFor(offset, size)
    <3>1. PICK e, c : e = offset + size + b - 1 /\ c = BytesFor(offset, size)
      OBVIOUS
    <3>2. e \in Nat /\ c = e \div ByteBits
      BY <1>0, <1>1, <3>1 DEF BytesFor
    <3>3. PICK s : s = e % ByteBits
      OBVIOUS
    <3>4. c \in Nat /\ s \in 0 .. b - 1 /\ e = c * b + s
      BY <1>0, <3>2, <3>3, Division
    <3>5. SUFFICES ASSUME c <= q PROVE FALSE
      BY <2>4, <3>1, <3>4
    <3>6. c * b <= q * b
      BY <1>0, <2>4, <3>4, <3>5, MoreBytes
    <3>7. PICK x, y : x = c * b /\ y = q * b
      OBVIOUS
    <3>8. x \in Nat /\ y \in Nat
      BY <1>1, <2>4, <3>4, <3>7
    <3>9. /\ x <= y /\ e = x + s /\ n = y + r /\ n + b <= e
          /\ s \in 0 .. b - 1 /\ r \in 0 .. b - 1
      BY <2>2, <2>4, <3>1, <3>4, <3>6, <3>7
    <3> QED  BY <1>1, <2>2, <3>2, <3>8, <3>9
  <2>6. b - 1 - r \in 0 .. b - 1
    BY <1>1, <2>4
  <2>7. q * ByteBits + (b - 1 - r) \in PlacesIn(BytesFor(offset, size))
    BY <1>0, <1>2, <2>4, <2>5, <2>6, PlaceInByte
  <2> QED  BY <1>0, <2>1, <2>3, <2>7 DEF PlaceOf
<1> QED  BY <1>2, <1>3 DEF Span

(***************************************************************************)
(* They need no more bytes than there are.                                 *)
(***************************************************************************)
LEMMA BytesForBound ==
    ASSUME NEW offset \in Nat, NEW size \in Nat, NEW m \in Nat,
           offset + size <= m * ByteBits
    PROVE  BytesFor(offset, size) <= m
<1>0. PICK b : b = ByteBits
  OBVIOUS
<1>1. b \in Nat \ {0}
  BY <1>0, ByteArraysAssumption
<1>2. PICK e, x : e = offset + size + b - 1 /\ x = m * b
  OBVIOUS
<1>3. e \in Nat /\ x \in Nat /\ e <= x + b - 1
  BY <1>0, <1>1, <1>2
<1>4. (m + 1) * b = m * b + b
  BY <1>1
<1>5. e < (m + 1) * b
  BY <1>1, <1>2, <1>3, <1>4
<1>6. e \div ByteBits < m + 1 /\ e \div ByteBits \in Nat
  BY <1>0, <1>3, <1>5, ByteBelow, Division
<1> QED  BY <1>0, <1>2, <1>6 DEF BytesFor
-----------------------------------------------------------------------------
(***************************************************************************)
(* A name for a new array: fewer arrays are in use than there are names.   *)
(***************************************************************************)
LEMMA FreshIsNew ==
    ASSUME ArraysInv
    PROVE  Fresh \notin DOMAIN memory
<1>1. PICK B, D, N : B = BytesIn(store) /\ D = DOMAIN memory /\ N = Cardinality(Keys)
  OBVIOUS
<1>2. IsFiniteSet(B) /\ Cardinality(B) \in Nat /\ Cardinality(B) <= N /\ N \in Nat
  <2>1. B \in SUBSET Keys
    BY <1>1 DEF BytesIn
  <2>2. IsFiniteSet(Keys)
    BY KeysAssumption
  <2>3. IsFiniteSet(B) /\ Cardinality(B) <= Cardinality(Keys)
    BY <2>1, <2>2, FS_Subset
  <2> QED  BY <1>1, <2>2, <2>3, FS_CardinalityType
<1>3. IsFiniteSet(D) /\ Cardinality(D) \in Nat /\ Cardinality(D) <= Cardinality(B)
  <2>1. PICK f : f = [k \in B |-> store[k].array]
    OBVIOUS
  <2>2. D = {store[k].array : k \in B}
    BY <1>1 DEF ArraysInv
  <2>3. f \in [B -> D] /\ \A a \in D : \E k \in B : f[k] = a
    BY <2>1, <2>2
  <2>4. f \in Surjection(B, D)
    BY <2>3 DEF Surjection
  <2>5. IsFiniteSet(D) /\ Cardinality(D) <= Cardinality(B)
    BY <1>2, <2>4, FS_Surjection
  <2> QED  BY <2>5, FS_CardinalityType
<1>4. \E a \in 0 .. N : a \notin D
  <2>1. SUFFICES ASSUME 0 .. N \subseteq D PROVE FALSE
    OBVIOUS
  <2>2. IsFiniteSet(0 .. N) /\ Cardinality(0 .. N) = N + 1
    BY <1>2, FS_Interval
  <2>3. Cardinality(0 .. N) <= Cardinality(D)
    <3>1. PICK I : I = 0 .. N
      OBVIOUS
    <3>2. I \in SUBSET D
      BY <2>1, <3>1
    <3> QED  BY <1>3, <3>1, <3>2, FS_Subset
  <2> QED  BY <1>2, <1>3, <2>2, <2>3
<1>5. Fresh = CHOOSE a \in 0 .. N : a \notin D
  BY <1>1 DEF Fresh
<1> QED  BY <1>1, <1>4, <1>5

(***************************************************************************)
(* A slice that a memory holds, and a memory that differs from the present *)
(* one in one array and in new ones only.                                  *)
(***************************************************************************)
FitsIn(slice, mem) ==
    /\ slice = Slice(slice.array, slice.len) /\ slice.len \in Nat
    /\ slice.array \in DOMAIN mem /\ slice.len <= mem[slice.array].capacity

Changes(array, mem) ==
    /\ \A a \in DOMAIN mem : ArrayOK(mem[a])
    /\ \A a \in DOMAIN memory :
          /\ a \in DOMAIN mem /\ mem[a].capacity = memory[a].capacity
          /\ a # array => mem[a] = memory[a]

(***************************************************************************)
(* What a command on the bytes of a key begins with.                       *)
(***************************************************************************)
LEMMA BytesOfKey ==
    ASSUME StoreInv, ArraysInv, NEW k \in Keys
    PROVE  /\ FitsIn(SliceOf(k), MemoryFor(k))
           /\ Changes(SliceOf(k).array, MemoryFor(k))
           /\ Is(k, "bytes") => SliceOf(k) = store[k] /\ MemoryFor(k) = memory
           /\ ~ Is(k, "bytes") => SliceOf(k) = Slice(Fresh, 0) /\ SliceOf(k).array = Fresh
           /\ \A a \in DOMAIN memory : a \in DOMAIN MemoryFor(k) /\ MemoryFor(k)[a] = memory[a]
           /\ DOMAIN MemoryFor(k) = DOMAIN memory \cup {SliceOf(k).array}
<1>1. CASE Is(k, "bytes")
  <2>1. SliceOf(k) = store[k] /\ MemoryFor(k) = memory
    BY <1>1 DEF SliceOf, MemoryFor
  <2>2. SliceOK(store[k])
    BY <1>1, StoredValues
  <2>3. FitsIn(store[k], memory) /\ store[k].array \in DOMAIN memory
    BY <2>2 DEF SliceOK, FitsIn
  <2>4. Changes(store[k].array, memory)
    BY DEF Changes, ArraysInv
  <2> QED  BY <1>1, <2>1, <2>3, <2>4
<1>2. CASE ~ Is(k, "bytes")
  <2>1. PICK fresh : fresh = Fresh
    OBVIOUS
  <2>2. PICK mem : mem = With(memory, fresh, [capacity |-> 0, ones |-> {}])
    OBVIOUS
  <2>3. SliceOf(k) = Slice(fresh, 0) /\ MemoryFor(k) = mem
    BY <1>2, <2>1, <2>2 DEF SliceOf, MemoryFor
  <2>4. fresh \notin DOMAIN memory
    BY <2>1, FreshIsNew
  <2>5. /\ DOMAIN mem = DOMAIN memory \cup {fresh}
        /\ \A a \in DOMAIN memory : mem[a] = memory[a]
        /\ mem[fresh] = [capacity |-> 0, ones |-> {}]
    BY <2>2, <2>4 DEF With
  <2>6. PICK slice : slice = Slice(fresh, 0)
    OBVIOUS
  <2>7. slice.array = fresh /\ slice.len = 0 /\ slice = Slice(slice.array, slice.len)
    BY <2>6 DEF Slice
  <2>8. FitsIn(slice, mem)
    BY <2>5, <2>7 DEF FitsIn
  <2>9. ArrayOK(mem[fresh])
    BY <2>5, ByteArraysAssumption DEF ArrayOK
  <2>10. Changes(fresh, mem)
    BY <2>5, <2>9 DEF Changes, ArraysInv
  <2> QED  BY <1>2, <2>1, <2>3, <2>5, <2>6, <2>7, <2>8, <2>10
<1> QED  BY <1>1, <1>2

(***************************************************************************)
(* A slice in the place of a key's value.  Other keys keep the lengths they*)
(* have, and what is in their arrays; who shares the array of the slice    *)
(* has been joined to the key.                                             *)
(***************************************************************************)
Installs(k, slice, mem, st) ==
    /\ FitsIn(slice, mem) /\ \A a \in DOMAIN mem : ArrayOK(mem[a])
    /\ \A a \in DOMAIN memory : a \in DOMAIN mem /\ mem[a].capacity = memory[a].capacity
    /\ st = [store EXCEPT ![k] = slice] /\ store' = st
    /\ memory' = Restrict(mem, {st[j].array : j \in BytesIn(st)})
    /\ \A j, l \in BytesIn(store) \ {k} : {j, l} \in joined => {j, l} \in joined'
    /\ \A j \in BytesIn(store) \ {k} : store[j].array = slice.array => {j, k} \in joined'

(***************************************************************************)
(* A slice that is installed so keeps the invariant and says which bits    *)
(* others see.                                                             *)
(***************************************************************************)
LEMMA Installed ==
    ASSUME StoreInv, ArraysInv, NEW k \in Keys, NEW slice, NEW mem, NEW st,
           Installs(k, slice, mem, st)
    PROVE  /\ StoreInv' /\ ArraysInv'
           /\ \A j \in (BytesIn(store) \cap BytesIn(store')) \ {k} :
                  /\ Ones(j) = memory[store[j].array].ones \cap PlacesIn(store[j].len)
                  /\ Ones(j)' = mem[store[j].array].ones \cap PlacesIn(store[j].len)
<1> USE DEF Installs
<1>1. /\ DOMAIN st = Keys /\ st[k] = slice /\ \A j \in Keys \ {k} : st[j] = store[j]
  BY DEF StoreInv
<1>2. slice.type = "bytes"
  BY DEF FitsIn, Slice
<1>3. PICK B : B = BytesIn(st)
  OBVIOUS
<1>4. /\ B \subseteq Keys /\ (k \in B <=> slice # NoValue)
      /\ \A j \in Keys \ {k} : j \in B <=> j \in BytesIn(store)
  BY <1>1, <1>2, <1>3 DEF BytesIn
<1>5. PICK A : A = {st[j].array : j \in B}
  OBVIOUS
<1>6. /\ DOMAIN memory' = A /\ \A a \in A : memory'[a] = mem[a]
  BY <1>3, <1>5 DEF Restrict
<1>7. BytesIn(store)' = B
  BY <1>3 DEF BytesIn
<1>8. ASSUME NEW j \in B, j # k
      PROVE  /\ store[j].array \in DOMAIN memory /\ store[j].array \in A
             /\ SliceOK(store[j]) /\ st[j] = store[j] /\ j \in BytesIn(store)
  <2>1. j \in BytesIn(store) /\ st[j] = store[j]
    BY <1>1, <1>4, <1>8
  <2>2. SliceOK(store[j])
    BY <2>1, StoredValues DEF Is, BytesIn
  <2> QED  BY <1>5, <1>8, <2>1, <2>2 DEF SliceOK
<1>9. A \subseteq DOMAIN mem
  <2> SUFFICES ASSUME NEW j \in B PROVE st[j].array \in DOMAIN mem
    BY <1>5
  <2>1. CASE j = k
    BY <1>1, <2>1 DEF FitsIn
  <2>2. CASE j # k
    BY <1>8, <2>2
  <2> QED  BY <2>1, <2>2
<1>10. StoreInv'
  <2>1. DOMAIN store' = Keys
    BY <1>1
  <2>2. ASSUME NEW j \in Keys
        PROVE  PlainInv(st[j]) \/ (j \in B /\ SliceOK(st[j])')
    <3>1. CASE j = k /\ slice = NoValue
      BY <1>1, <3>1 DEF PlainInv
    <3>2. CASE j = k /\ slice # NoValue
      <4>1. j \in B /\ st[j] = slice /\ slice.array \in A
        BY <1>1, <1>4, <1>5, <3>2
      <4>2. SliceOK(slice)'
        BY <1>6, <4>1 DEF SliceOK, FitsIn
      <4> QED  BY <4>1, <4>2
    <3>3. CASE j # k
      <4>1. PlainInv(store[j]) \/ j \in BytesIn(store)
        BY DEF StoreInv
      <4>2. CASE PlainInv(store[j])
        BY <1>1, <3>3, <4>2
      <4>3. CASE j \in BytesIn(store)
        <5>1. j \in B
          BY <1>4, <3>3, <4>3
        <5>2. /\ SliceOK(store[j]) /\ store[j].array \in A /\ st[j] = store[j]
              /\ store[j].array \in DOMAIN memory
          BY <1>8, <3>3, <5>1
        <5>3. PICK s : s = store[j]
          OBVIOUS
        <5>4. memory'[s.array].capacity = memory[s.array].capacity
          BY <1>6, <5>2, <5>3
        <5>5. SliceOK(s)
          BY <5>2, <5>3
        <5>6. SliceOK(s)'
          BY <1>6, <5>2, <5>3, <5>4, <5>5 DEF SliceOK
        <5> QED  BY <5>1, <5>2, <5>3, <5>6
      <4> QED  BY <4>1, <4>2, <4>3
    <3> QED  BY <3>1, <3>2, <3>3
  <2> QED  BY <1>7, <2>1, <2>2 DEF StoreInv
<1>11. ArraysInv'
  <2>1. DOMAIN memory' = {store'[j].array : j \in BytesIn(store)'}
    <3>1. {store'[j].array : j \in B} = {st[j].array : j \in B}
      OBVIOUS
    <3> QED  BY <1>5, <1>6, <1>7, <3>1, Zenon
  <2>2. \A a \in DOMAIN memory' : ArrayOK(memory'[a])
    BY <1>6, <1>9
  <2>3. ASSUME NEW j \in B, NEW l \in B, st[j].array = st[l].array, j # l
        PROVE  {j, l} \in joined'
    <3>1. CASE j # k /\ l # k
      <4>1. j \in BytesIn(store) \ {k} /\ l \in BytesIn(store) \ {k}
        BY <1>8, <3>1
      <4>2. store[j].array = store[l].array
        BY <1>8, <2>3, <3>1
      <4> QED  BY <2>3, <4>1, <4>2 DEF ArraysInv
    <3>2. CASE l = k
      BY <1>1, <1>8, <2>3, <3>2
    <3>3. CASE j = k
      <4>1. {l, k} \in joined'
        BY <1>1, <1>8, <2>3, <3>3
      <4>2. {l, k} = {j, l}
        BY <3>3
      <4> QED  BY <4>1, <4>2
    <3> QED  BY <3>1, <3>2, <3>3
  <2> QED  BY <1>7, <2>1, <2>2, <2>3 DEF ArraysInv
<1>12. ASSUME NEW j \in B, j # k
       PROVE  /\ Ones(j) = memory[store[j].array].ones \cap PlacesIn(store[j].len)
              /\ Ones(j)' = mem[store[j].array].ones \cap PlacesIn(store[j].len)
  <2>1. Is(j, "bytes") /\ Is(j, "bytes")'
    BY <1>7, <1>8, <1>12 DEF Is, BytesIn
  <2>2. Ones(j) = memory[store[j].array].ones \cap PlacesIn(store[j].len)
    BY <2>1 DEF Ones, OnesIn, MemoryFor, SliceOf
  <2>3. Ones(j)' = memory'[store'[j].array].ones \cap PlacesIn(store'[j].len)
    BY <2>1 DEF Ones, OnesIn, MemoryFor, SliceOf, PlacesIn
  <2> QED  BY <1>6, <1>8, <1>12, <2>2, <2>3
<1> QED  BY <1>7, <1>10, <1>11, <1>12

(***************************************************************************)
(* What a command on the bytes of some keys may do: what is in the store   *)
(* stays as it should be, and the bits of other keys change only if these  *)
(* have been joined with one of them.                                      *)
(***************************************************************************)
ByteStep(written) ==
    /\ StoreInv' /\ ArraysInv'
    /\ \A j \in BytesIn(store) \cap BytesIn(store') :
          Ones(j)' # Ones(j) => \E w \in written : j = w \/ {j, w} \in joined

(***************************************************************************)
(* Who has the array of a key has been joined to it.                       *)
(***************************************************************************)
LEMMA Sharers ==
    ASSUME StoreInv, ArraysInv, NEW k \in Keys, NEW j \in BytesIn(store) \ {k},
           store[j].array = SliceOf(k).array
    PROVE  {j, k} \in joined
<1>1. store[j].array \in DOMAIN memory
  BY DEF ArraysInv
<1>2. SliceOf(k).array # Fresh
  BY <1>1, FreshIsNew
<1>3. Is(k, "bytes") /\ SliceOf(k) = store[k]
  BY <1>2, BytesOfKey
<1>4. k \in BytesIn(store)
  BY <1>3 DEF Is, BytesIn
<1>5. store[j].array = store[k].array /\ j # k
  BY <1>3
<1> QED  BY <1>4, <1>5 DEF ArraysInv

(***************************************************************************)
(* Write, of a slice that holds the array of its key or a new one.         *)
(***************************************************************************)
LEMMA WriteKeeps ==
    ASSUME StoreInv, ArraysInv, NEW k \in Keys, NEW slice, NEW mem, Write(k, slice, mem),
           FitsIn(slice, mem), Changes(SliceOf(k).array, mem),
           slice.array \in {SliceOf(k).array, Fresh}
    PROVE  ByteStep({k})
<1>1. PICK st : st = [store EXCEPT ![k] = slice]
  OBVIOUS
<1>2. /\ store' = st /\ joined' = joined
      /\ memory' = Restrict(mem, {st[j].array : j \in BytesIn(st)})
  BY <1>1 DEF Write
<1>3. \A j \in BytesIn(store) : store[j].array \in DOMAIN memory
  BY DEF ArraysInv
<1>4. ASSUME NEW j \in BytesIn(store) \ {k}, store[j].array = slice.array
      PROVE  {j, k} \in joined'
  <2>1. slice.array # Fresh
    BY <1>3, <1>4, FreshIsNew
  <2> QED  BY <1>2, <1>4, <2>1, Sharers
<1>5. /\ \A a \in DOMAIN mem : ArrayOK(mem[a])
      /\ \A a \in DOMAIN memory : a \in DOMAIN mem /\ mem[a].capacity = memory[a].capacity
  BY DEF Changes
<1>6. \A j, l \in BytesIn(store) \ {k} : {j, l} \in joined => {j, l} \in joined'
  BY <1>2
<1>7. /\ StoreInv' /\ ArraysInv'
      /\ \A j \in (BytesIn(store) \cap BytesIn(store')) \ {k} :
             /\ Ones(j) = memory[store[j].array].ones \cap PlacesIn(store[j].len)
             /\ Ones(j)' = mem[store[j].array].ones \cap PlacesIn(store[j].len)
  <2>1. \A j \in BytesIn(store) \ {k} : store[j].array = slice.array => {j, k} \in joined'
    BY <1>4
  <2>2. store' = st /\ memory' = Restrict(mem, {st[j].array : j \in BytesIn(st)})
    BY <1>2
  <2>3. Installs(k, slice, mem, st)
    BY <1>1, <1>5, <1>6, <2>1, <2>2 DEF Installs
  <2> QED  BY <2>3, Installed
<1>8. ASSUME NEW j \in BytesIn(store) \cap BytesIn(store'), Ones(j)' # Ones(j), j # k
      PROVE  {j, k} \in joined
  <2>1. mem[store[j].array] # memory[store[j].array]
    BY <1>7, <1>8
  <2>2. store[j].array = SliceOf(k).array
    BY <1>3, <2>1 DEF Changes
  <2> QED  BY <1>8, <2>2, Sharers
<1> QED  BY <1>7, <1>8 DEF ByteStep

(***************************************************************************)
(* A new array, and other bits in an old one.                              *)
(***************************************************************************)
LEMMA NewArray ==
    ASSUME ArraysInv, NEW array, NEW mem, Changes(array, mem), NEW fresh, fresh = Fresh,
           NEW cap \in 0 .. MaxBytes, NEW ones \in SUBSET PlacesIn(cap), NEW len \in 0 .. cap
    PROVE  /\ Changes(array, With(mem, fresh, [capacity |-> cap, ones |-> ones]))
           /\ FitsIn(Slice(fresh, len), With(mem, fresh, [capacity |-> cap, ones |-> ones]))
<1>1. PICK new : new = With(mem, fresh, [capacity |-> cap, ones |-> ones])
  OBVIOUS
<1>2. /\ DOMAIN new = DOMAIN mem \cup {fresh}
      /\ new[fresh] = [capacity |-> cap, ones |-> ones]
      /\ \A a \in DOMAIN mem \ {fresh} : new[a] = mem[a]
  BY <1>1 DEF With
<1>3. fresh \notin DOMAIN memory
  BY FreshIsNew
<1>4. ArrayOK(new[fresh])
  BY <1>2 DEF ArrayOK
<1>5. Changes(array, new)
  BY <1>2, <1>3, <1>4 DEF Changes
<1>6. PICK slice : slice = Slice(fresh, len)
  OBVIOUS
<1>7. slice.array = fresh /\ slice.len = len /\ slice = Slice(slice.array, slice.len)
  BY <1>6 DEF Slice
<1>8. FitsIn(slice, new)
  BY <1>2, <1>7, ByteArraysAssumption DEF FitsIn
<1> QED  BY <1>1, <1>5, <1>6, <1>8

(***************************************************************************)
(* Other bits in an array leave its capacity and the slices of it.         *)
(***************************************************************************)
LEMMA OldArray ==
    ASSUME NEW array, NEW mem, Changes(array, mem), NEW a \in DOMAIN mem,
           a = array \/ a \notin DOMAIN memory,
           NEW ones \in SUBSET PlacesIn(mem[a].capacity)
    PROVE  /\ Changes(array, [mem EXCEPT ![a].ones = ones])
           /\ \A slice : FitsIn(slice, mem) => FitsIn(slice, [mem EXCEPT ![a].ones = ones])
<1>1. PICK new : new = [mem EXCEPT ![a].ones = ones]
  OBVIOUS
<1>2. mem[a] \in [capacity : 0 .. MaxBytes, ones : SUBSET PlacesIn(mem[a].capacity)]
  BY DEF Changes, ArrayOK
<1>3. /\ DOMAIN new = DOMAIN mem /\ \A b \in DOMAIN mem \ {a} : new[b] = mem[b]
      /\ new[a] = [capacity |-> mem[a].capacity, ones |-> ones]
  BY <1>1, <1>2
<1>4. ArrayOK(new[a]) /\ new[a].capacity = mem[a].capacity
  BY <1>2, <1>3 DEF ArrayOK
<1>5. Changes(array, new)
  BY <1>3, <1>4 DEF Changes
<1>6. \A slice : FitsIn(slice, mem) => FitsIn(slice, new)
  BY <1>3, <1>4 DEF FitsIn
<1> QED  BY <1>1, <1>5, <1>6

(***************************************************************************)
(* The bits of a key are in its bytes.                                     *)
(***************************************************************************)
LEMMA OnesInBytes ==
    ASSUME NEW k
    PROVE  Ones(k) \subseteq PlacesIn(SliceOf(k).len)
BY DEF Ones, OnesIn

(***************************************************************************)
(* SETBIT writes the array of its key, or a new one.                       *)
(***************************************************************************)
LEMMA SetBitKeeps ==
    ASSUME StoreInv, ArraysInv, NEW k \in Keys, NEW offset \in Nat, NEW bit, SETBIT(k, offset, bit)
    PROVE  ByteStep({k})
<1>1. PICK slice, mem : slice = SliceOf(k) /\ mem = MemoryFor(k)
  OBVIOUS
<1>2. PICK byte, ones, spare :
        /\ byte = offset \div ByteBits
        /\ ones = IF bit = 1 THEN Ones(k) \cup {offset} ELSE Ones(k) \ {offset}
        /\ spare = mem[slice.array].ones \ PlacesIn(slice.len)
  OBVIOUS
<1>3. /\ byte < MaxBytes
      /\ IF slice.len <= byte
         THEN Write(k, Slice(Fresh, byte + 1),
                    With(memory, Fresh, [capacity |-> byte + 1, ones |-> ones]))
         ELSE Write(k, store[k], [memory EXCEPT ![slice.array].ones = ones \cup spare])
  BY <1>1, <1>2 DEF SETBIT
<1>4. /\ FitsIn(slice, mem) /\ Changes(slice.array, mem)
      /\ Is(k, "bytes") => slice = store[k] /\ mem = memory
      /\ ~ Is(k, "bytes") => slice = Slice(Fresh, 0)
  BY <1>1, BytesOfKey
<1>5. /\ byte \in Nat /\ offset \in PlacesIn(byte + 1)
      /\ slice.len \in Nat /\ slice.array \in DOMAIN mem /\ slice.len <= mem[slice.array].capacity
  BY <1>2, <1>4, PlaceOfByte DEF FitsIn
<1>6. Ones(k) \subseteq PlacesIn(slice.len)
  BY <1>1, OnesInBytes
<1>7. CASE slice.len <= byte
  <2>1. ones \in SUBSET PlacesIn(byte + 1)
    <3>1. byte + 1 \in Nat /\ slice.len <= byte + 1
      BY <1>5, <1>7
    <3>2. PlacesIn(slice.len) \subseteq PlacesIn(byte + 1)
      BY <1>5, <3>1, PlacesMonotone
    <3> QED  BY <1>2, <1>5, <1>6, <3>2
  <2>2. byte + 1 \in 0 .. MaxBytes /\ byte + 1 \in 0 .. byte + 1
    BY <1>3, <1>5, ByteArraysAssumption
  <2>3. Changes(slice.array, memory)
    BY DEF Changes, ArraysInv
  <2>4. PICK fresh : fresh = Fresh
    OBVIOUS
  <2>5. PICK new : new = With(memory, fresh, [capacity |-> byte + 1, ones |-> ones])
    OBVIOUS
  <2>6. Changes(slice.array, new) /\ FitsIn(Slice(fresh, byte + 1), new)
    BY <2>1, <2>2, <2>3, <2>4, <2>5, NewArray
  <2>7. Write(k, Slice(fresh, byte + 1), new)
    BY <1>3, <1>7, <2>4, <2>5
  <2>8. Slice(fresh, byte + 1).array = fresh
    BY DEF Slice
  <2>9. PICK s : s = Slice(fresh, byte + 1)
    OBVIOUS
  <2>10. /\ Write(k, s, new) /\ FitsIn(s, new) /\ Changes(SliceOf(k).array, new)
         /\ s.array \in {SliceOf(k).array, Fresh}
    BY <1>1, <2>4, <2>6, <2>7, <2>8, <2>9
  <2> QED  BY <2>10, WriteKeeps
<1>8. CASE ~ slice.len <= byte
  <2>1. Is(k, "bytes")
    <3>1. Slice(Fresh, 0).len = 0
      BY DEF Slice
    <3> QED  BY <1>4, <1>5, <1>8, <3>1
  <2>2. slice = store[k] /\ mem = memory
    BY <1>4, <2>1
  <2>3. byte + 1 <= slice.len /\ byte + 1 \in Nat
    BY <1>5, <1>8
  <2>4. PICK cap : cap = mem[slice.array].capacity
    OBVIOUS
  <2>5. /\ mem[slice.array] \in [capacity : 0 .. MaxBytes, ones : SUBSET PlacesIn(cap)]
        /\ cap \in Nat /\ slice.len <= cap
    BY <1>4, <1>5, <2>4 DEF Changes, ArrayOK
  <2>6. /\ PlacesIn(byte + 1) \subseteq PlacesIn(slice.len)
        /\ PlacesIn(slice.len) \subseteq PlacesIn(cap)
    BY <1>5, <2>3, <2>5, PlacesMonotone
  <2>7. ones \cup spare \in SUBSET PlacesIn(cap)
    <3>1. mem[slice.array].ones \subseteq PlacesIn(cap)
      BY <2>5
    <3>2. spare \subseteq PlacesIn(cap)
      BY <1>2, <3>1
    <3>3. ones \subseteq PlacesIn(cap)
      BY <1>2, <1>5, <1>6, <2>6
    <3> QED  BY <3>2, <3>3
  <2>8. PICK new : new = [mem EXCEPT ![slice.array].ones = ones \cup spare]
    OBVIOUS
  <2>9. Changes(slice.array, new) /\ FitsIn(slice, new)
    BY <1>4, <1>5, <2>4, <2>7, <2>8, OldArray
  <2>10. Write(k, slice, new)
    BY <1>3, <1>8, <2>2, <2>8
  <2>11. Changes(SliceOf(k).array, new) /\ slice.array \in {SliceOf(k).array, Fresh}
    BY <1>1, <2>9
  <2> QED  BY <2>9, <2>10, <2>11, WriteKeeps
<1> QED  BY <1>7, <1>8

(***************************************************************************)
(* append, and the number that goes into the room it makes.                *)
(***************************************************************************)
LEMMA ExtendedKeeps ==
    ASSUME StoreInv, ArraysInv, NEW k \in Keys, NEW bytes \in Nat,
           NEW room \in Extended(SliceOf(k), MemoryFor(k), bytes)
    PROVE  /\ FitsIn(room.slice, room.memory) /\ Changes(SliceOf(k).array, room.memory)
           /\ room.slice.array \in {SliceOf(k).array, Fresh}
           /\ bytes <= room.slice.len
<1>1. PICK slice, mem, fresh : slice = SliceOf(k) /\ mem = MemoryFor(k) /\ fresh = Fresh
  OBVIOUS
<1>2. FitsIn(slice, mem) /\ Changes(slice.array, mem)
  BY <1>1, BytesOfKey
<1>3. PICK cap, old : cap = mem[slice.array].capacity /\ old = OnesIn(mem, slice)
  OBVIOUS
<1>4. /\ slice = Slice(slice.array, slice.len) /\ slice.len \in Nat
      /\ slice.array \in DOMAIN mem /\ slice.len <= cap
      /\ mem[slice.array] \in [capacity : 0 .. MaxBytes, ones : SUBSET PlacesIn(cap)]
  BY <1>2, <1>3 DEF FitsIn, Changes, ArrayOK
<1>5. cap \in 0 .. MaxBytes /\ mem[slice.array].ones \subseteq PlacesIn(cap)
  BY <1>3, <1>4
<1>6. old \subseteq PlacesIn(slice.len)
  BY <1>3 DEF OnesIn
<1>7. CASE bytes <= slice.len
  <2>1. room = [slice |-> slice, memory |-> mem]
    BY <1>1, <1>7 DEF Extended
  <2> QED  BY <1>1, <1>2, <1>7, <2>1
<1>8. CASE ~ bytes <= slice.len /\ bytes <= cap
  <2>1. PICK ones : ones = (mem[slice.array].ones \ PlacesIn(bytes)) \cup old
    OBVIOUS
  <2>2. room = [slice |-> Slice(slice.array, bytes),
                memory |-> [mem EXCEPT ![slice.array].ones = ones]]
    BY <1>1, <1>3, <1>8, <2>1 DEF Extended
  <2>3. PlacesIn(slice.len) \subseteq PlacesIn(cap)
    BY <1>4, <1>5, PlacesMonotone, ByteArraysAssumption
  <2>4. ones \in SUBSET PlacesIn(cap)
    BY <1>5, <1>6, <2>1, <2>3
  <2>5. PICK new : new = [mem EXCEPT ![slice.array].ones = ones]
    OBVIOUS
  <2>6. /\ Changes(slice.array, new)
        /\ \A s : FitsIn(s, mem) => FitsIn(s, new)
    BY <1>2, <1>3, <1>4, <2>4, <2>5, OldArray
  <2>7. PICK s : s = Slice(slice.array, bytes)
    OBVIOUS
  <2>8. s.array = slice.array /\ s.len = bytes /\ s = Slice(s.array, s.len)
    BY <2>7 DEF Slice
  <2>9. FitsIn(s, mem)
    BY <1>3, <1>4, <1>8, <2>8 DEF FitsIn
  <2>10. room.slice = s /\ room.memory = new
    BY <2>2, <2>5, <2>7
  <2> QED  BY <1>1, <2>6, <2>8, <2>9, <2>10
<1>9. CASE ~ bytes <= slice.len /\ ~ bytes <= cap
  <2>1. PICK c \in bytes .. MaxBytes :
          room = [slice |-> Slice(fresh, bytes),
                  memory |-> With(mem, fresh, [capacity |-> c, ones |-> old])]
    BY <1>1, <1>3, <1>9 DEF Extended
  <2>2. c \in 0 .. MaxBytes /\ bytes \in 0 .. c /\ slice.len <= c /\ c \in Nat
    BY <1>4, <1>9, ByteArraysAssumption
  <2>3. old \in SUBSET PlacesIn(c)
    <3>1. PlacesIn(slice.len) \subseteq PlacesIn(c)
      BY <1>4, <2>2, PlacesMonotone
    <3> QED  BY <1>6, <3>1
  <2>4. PICK new : new = With(mem, fresh, [capacity |-> c, ones |-> old])
    OBVIOUS
  <2>5. Changes(slice.array, new) /\ FitsIn(Slice(fresh, bytes), new)
    BY <1>1, <1>2, <2>2, <2>3, <2>4, NewArray
  <2>6. PICK s : s = Slice(fresh, bytes)
    OBVIOUS
  <2>7. s.array = fresh /\ s.len = bytes
    BY <2>6 DEF Slice
  <2>8. room.slice = s /\ room.memory = new
    BY <2>1, <2>4, <2>6
  <2> QED  BY <1>1, <2>5, <2>6, <2>7, <2>8
<1> QED  BY <1>7, <1>8, <1>9

(***************************************************************************)
(* So do the commands on bit fields.                                       *)
(***************************************************************************)
LEMMA SetFieldKeeps ==
    ASSUME StoreInv, ArraysInv, NEW k \in Keys, NEW offset \in Nat, NEW size \in Nat, NEW n,
           SetField(k, offset, size, n)
    PROVE  ByteStep({k})
<1>1. PICK bytes : bytes = BytesFor(offset, size)
  OBVIOUS
<1>2. bytes \in Nat /\ Span(offset, size) \subseteq PlacesIn(bytes)
  BY <1>1, BytesForSpan
<1>3. PICK room \in Extended(SliceOf(k), MemoryFor(k), bytes) :
          Write(k, room.slice,
                [room.memory EXCEPT ![room.slice.array].ones =
                    (@ \ Span(offset, size)) \cup OnesOf(offset, size, n)])
  BY <1>1 DEF SetField, BytesFor
<1>4. PICK slice, mem, array : slice = room.slice /\ mem = room.memory /\ array = SliceOf(k).array
  OBVIOUS
<1>5. /\ FitsIn(slice, mem) /\ Changes(array, mem) /\ slice.array \in {array, Fresh}
      /\ bytes <= slice.len
  BY <1>2, <1>4, ExtendedKeeps
<1>6. PICK ones : ones = (mem[slice.array].ones \ Span(offset, size)) \cup OnesOf(offset, size, n)
  OBVIOUS
<1>7. /\ slice.len \in Nat /\ slice.array \in DOMAIN mem
      /\ slice.len <= mem[slice.array].capacity
      /\ mem[slice.array] \in [capacity : 0 .. MaxBytes,
                               ones : SUBSET PlacesIn(mem[slice.array].capacity)]
  BY <1>5 DEF FitsIn, Changes, ArrayOK
<1>8. PICK cap : cap = mem[slice.array].capacity
  OBVIOUS
<1>9. cap \in Nat /\ bytes <= cap /\ mem[slice.array].ones \subseteq PlacesIn(cap)
  BY <1>2, <1>5, <1>7, <1>8
<1>10. OnesOf(offset, size, n) \subseteq Span(offset, size)
  BY DEF OnesOf, Span
<1>11. ones \in SUBSET PlacesIn(cap)
  <2>1. PlacesIn(bytes) \subseteq PlacesIn(cap)
    BY <1>2, <1>9, PlacesMonotone
  <2> QED  BY <1>2, <1>6, <1>9, <1>10, <2>1
<1>12. slice.array = array \/ slice.array \notin DOMAIN memory
  BY <1>5, FreshIsNew
<1>13. PICK new : new = [mem EXCEPT ![slice.array].ones = ones]
  OBVIOUS
<1>14. Changes(array, new) /\ FitsIn(slice, new)
  BY <1>5, <1>7, <1>8, <1>11, <1>12, <1>13, OldArray
<1>15. Write(k, slice, new)
  BY <1>3, <1>4, <1>6, <1>13
<1> QED  BY <1>4, <1>5, <1>14, <1>15, WriteKeeps
-----------------------------------------------------------------------------
(***************************************************************************)
(* The states of the loop of a BITOP after 0, 1, ..., n turns; it has such,*)
(* and the last one is its result.                                         *)
(***************************************************************************)
Turns(state, op, start, sources, n) ==
    /\ state = [m \in 0 .. n |-> state[m]]
    /\ state[0] = start
    /\ \A m \in 1 .. n : state[m] = BitopStep(op, state[m - 1], sources[m])

(***************************************************************************)
(* The loop has the states that it runs through.                           *)
(***************************************************************************)
LEMMA TurnsRun ==
    ASSUME NEW op, NEW start, NEW sources, NEW n \in Nat
    PROVE  \E state : Turns(state, op, start, sources, n)
<1> DEFINE P == {m \in Nat : \E state : Turns(state, op, start, sources, m)}
<1>1. 0 \in P
  <2>1. Turns([m \in 0 .. 0 |-> start], op, start, sources, 0)
    BY DEF Turns
  <2> QED  BY <2>1
<1>2. ASSUME NEW m \in 0 .. n - 1, m \in P PROVE m + 1 \in P
  <2>1. PICK state : Turns(state, op, start, sources, m)
    BY <1>2
  <2>2. PICK next : next = BitopStep(op, state[m], sources[m + 1])
    OBVIOUS
  <2> DEFINE longer == [k \in 0 .. m + 1 |-> IF k = m + 1 THEN next ELSE state[k]]
  <2>3. Turns(longer, op, start, sources, m + 1)
    <3>1. longer = [k \in 0 .. m + 1 |-> longer[k]] /\ longer[0] = start
      BY <2>1 DEF Turns
    <3>2. ASSUME NEW k \in 1 .. m + 1
          PROVE  longer[k] = BitopStep(op, longer[k - 1], sources[k])
      <4>1. CASE k = m + 1
        <5>1. longer[k] = next /\ longer[k - 1] = state[m]
          BY <4>1
        <5> QED  BY <4>1, <5>1, <2>2
      <4>2. CASE k # m + 1
        <5>1. longer[k] = state[k] /\ longer[k - 1] = state[k - 1] /\ k \in 1 .. m
          BY <4>2
        <5> HIDE DEF longer
        <5> QED  BY <5>1, <2>1 DEF Turns
      <4> QED  BY <4>1, <4>2
    <3> HIDE DEF longer
    <3> QED  BY <3>1, <3>2 DEF Turns
  <2> QED  BY <2>3
<1>3. \A m \in 0 .. n : m \in P
  <2> HIDE DEF P
  <2> QED  BY <1>1, <1>2, AllUpTo
<1> QED  BY <1>3

(***************************************************************************)
(* BitopTurns is the last of them.                                         *)
(***************************************************************************)
LEMMA BitopIsTurns ==
    ASSUME NEW op, NEW start, NEW sources \in Seq(Keys)
    PROVE  \E state : /\ Turns(state, op, start, sources, Len(sources))
                      /\ BitopTurns(op, start, sources) = state[Len(sources)]
<1> DEFINE n == Len(sources)
<1>1. n \in Nat
  OBVIOUS
<1>2. PICK g : Turns(g, op, start, sources, n)
  BY <1>1, TurnsRun
<1> DEFINE Equation(f) == f = [m \in 0 .. n |-> IF m = 0 THEN start
                                  ELSE BitopStep(op, f[m - 1], sources[m])]
           state == CHOOSE f : Equation(f)
<1>3. Equation(g)
  <2>1. \A m \in 0 .. n : g[m] = IF m = 0 THEN start ELSE BitopStep(op, g[m - 1], sources[m])
    <3> HIDE DEF n
    <3> QED  BY <1>1, <1>2 DEF Turns
  <2>2. g = [m \in 0 .. n |-> g[m]]
    <3> HIDE DEF n
    <3> QED  BY <1>2 DEF Turns
  <2> HIDE DEF n
  <2> QED  BY <2>1, <2>2
<1>4. Equation(state)
  <2> HIDE DEF Equation
  <2> QED  BY <1>3
<1>5. BitopTurns(op, start, sources) = state[n]
  BY DEF BitopTurns
<1>6. PICK h : h = state
  OBVIOUS
<1>7. Equation(h)
  BY <1>4, <1>6
<1>8. Turns(h, op, start, sources, n)
  <2>1. h[0] = start
    BY <1>1, <1>7
  <2>2. \A m \in 1 .. n : h[m] = BitopStep(op, h[m - 1], sources[m])
    BY <1>1, <1>7
  <2>3. h = [m \in 0 .. n |-> h[m]]
    BY <1>7
  <2> QED  BY <2>1, <2>2, <2>3 DEF Turns
<1> QED  BY <1>5, <1>6, <1>8

(***************************************************************************)
(* After every turn, the memory differs from the present one in the array  *)
(* of the first source only, and the result is in that array as long as no *)
(* source was longer, in a new one afterwards.                             *)
(***************************************************************************)
Record(ones, len, array, mem, failed) ==
    [ones |-> ones, len |-> len, array |-> array, memory |-> mem, failed |-> failed]

TurnInv(s, first, sources, m) ==
    /\ s = Record(s.ones, s.len, s.array, s.memory, s.failed)
    /\ Changes(SliceOf(first).array, s.memory)
    /\ s.len \in 0 .. MaxBytes /\ s.ones \subseteq PlacesIn(s.len)
    /\ s.array \in {SliceOf(first).array, Fresh}
    /\ s.array # Fresh => s.len = SliceOf(first).len
    /\ \/ s.failed = TRUE
       \/ /\ s.failed = FALSE
          /\ \A i \in 1 .. m : Is(sources[i], "bytes")
          /\ s.array # Fresh => \A i \in 1 .. m : store[sources[i]].len <= SliceOf(first).len

(***************************************************************************)
(* The bits of a combination are in the bytes of the longer operand.       *)
(***************************************************************************)
LEMMA CombinedPlaces ==
    ASSUME NEW op \in {"AND", "OR", "XOR", "NOT"}, NEW len, NEW ones \in SUBSET PlacesIn(len),
           NEW others \in SUBSET PlacesIn(len)
    PROVE  Combined(op, ones, others, len) \in SUBSET PlacesIn(len)
BY DEF Combined

(***************************************************************************)
(* Where the first source has its array, and how much room there is.       *)
(***************************************************************************)
LEMMA FirstArray ==
    ASSUME StoreInv, ArraysInv, NEW k \in Keys, SliceOf(k).array # Fresh
    PROVE  /\ Is(k, "bytes") /\ SliceOf(k) = store[k]
           /\ SliceOf(k).array \in DOMAIN memory
           /\ SliceOf(k).len \in Nat /\ SliceOf(k).len <= memory[SliceOf(k).array].capacity
<1>1. Is(k, "bytes") /\ SliceOf(k) = store[k]
  BY BytesOfKey
<1>2. SliceOK(store[k])
  BY <1>1, StoredValues
<1> QED  BY <1>1, <1>2 DEF SliceOK

(***************************************************************************)
(* A turn keeps this.                                                      *)
(***************************************************************************)
LEMMA TurnKeeps ==
    ASSUME StoreInv, ArraysInv, NEW first \in Keys, NEW sources \in Seq(Keys),
           NEW m \in Nat, m + 1 \in 1 .. Len(sources),
           NEW op \in {"AND", "OR", "XOR", "NOT"}, NEW s, TurnInv(s, first, sources, m)
    PROVE  TurnInv(BitopStep(op, s, sources[m + 1]), first, sources, m + 1)
<1>1. PICK k : k = sources[m + 1]
  OBVIOUS
<1>2. PICK new : new = BitopStep(op, s, k)
  OBVIOUS
<1>3. PICK a1, l1 : a1 = SliceOf(first).array /\ l1 = SliceOf(first).len
  OBVIOUS
<1>4. k \in Keys
  BY <1>1
<1>5. /\ s = Record(s.ones, s.len, s.array, s.memory, s.failed)
      /\ Changes(a1, s.memory) /\ s.len \in 0 .. MaxBytes /\ s.ones \subseteq PlacesIn(s.len)
      /\ s.array \in {a1, Fresh} /\ (s.array # Fresh => s.len = l1)
  BY <1>3 DEF TurnInv
<1>6. CASE s.failed \/ ~ Is(k, "bytes")
  <2>1. new = [s EXCEPT !.failed = TRUE]
    BY <1>2, <1>6 DEF BitopStep
  <2>2. /\ new = Record(new.ones, new.len, new.array, new.memory, new.failed)
        /\ new.ones = s.ones /\ new.len = s.len /\ new.array = s.array
        /\ new.memory = s.memory /\ new.failed = TRUE
    BY <1>5, <2>1 DEF Record
  <2> QED  BY <1>1, <1>2, <1>3, <1>5, <2>2 DEF TurnInv
<1>7. CASE ~ s.failed /\ Is(k, "bytes")
  <2>1. SliceOK(store[k])
    BY <1>4, <1>7, StoredValues
  <2>2. PICK l : l = store[k].len
    OBVIOUS
  <2>3. l \in 0 .. MaxBytes
    <3>1. ArrayOK(memory[store[k].array])
      BY <2>1 DEF SliceOK, ArraysInv
    <3>2. memory[store[k].array].capacity \in 0 .. MaxBytes
      BY <3>1 DEF ArrayOK
    <3> QED  BY <2>1, <2>2, <3>2, ByteArraysAssumption DEF SliceOK
  <2>4. PICK len : len = IF s.len < l THEN l ELSE s.len
    OBVIOUS
  <2>5. PICK array : array = IF s.len < l THEN Fresh ELSE s.array
    OBVIOUS
  <2>6. PICK ones : ones = Combined(op, s.ones, OnesIn(s.memory, store[k]), len)
    OBVIOUS
  <2>7. PICK cells : cells = (s.memory[array].ones \ PlacesIn(len)) \cup ones
    OBVIOUS
  <2>8. PICK mem : mem = IF array = Fresh THEN s.memory
                         ELSE [s.memory EXCEPT ![array].ones = cells]
    OBVIOUS
  <2>9. new = [s EXCEPT !.ones = ones, !.len = len, !.array = array, !.memory = mem]
    <3> DEFINE length == IF s.len < store[k].len THEN store[k].len ELSE s.len
               place == IF s.len < store[k].len THEN Fresh ELSE s.array
               bits == Combined(op, s.ones, OnesIn(s.memory, store[k]), length)
               filled == IF place = Fresh THEN s.memory
                         ELSE [s.memory EXCEPT ![place].ones =
                                   (@ \ PlacesIn(length)) \cup bits]
    <3>1. new = IF s.failed \/ ~ Is(k, "bytes") THEN [s EXCEPT !.failed = TRUE]
                ELSE [s EXCEPT !.ones = bits, !.len = length, !.array = place,
                               !.memory = filled]
      BY <1>2, Zenon DEF BitopStep
    <3>2. length = len /\ place = array
      BY <2>2, <2>4, <2>5
    <3>3. bits = ones
      BY <2>6, <3>2
    <3> HIDE DEF length, place, bits
    <3>4. filled = mem
      BY <2>7, <2>8, <3>2, <3>3
    <3> HIDE DEF filled
    <3> QED  BY <1>7, <3>1, <3>2, <3>3, <3>4, Zenon
  <2>10. /\ new = Record(new.ones, new.len, new.array, new.memory, new.failed)
         /\ new.ones = ones /\ new.len = len /\ new.array = array
         /\ new.memory = mem /\ new.failed = s.failed
    <3>1. PICK o, n, a, x, f : s = [ones |-> o, len |-> n, array |-> a, memory |-> x, failed |-> f]
      BY <1>5 DEF Record
    <3>2. new = [ones |-> ones, len |-> len, array |-> array, memory |-> mem, failed |-> f]
      BY <2>9, <3>1
    <3> QED  BY <3>1, <3>2 DEF Record
  <2>11. len \in 0 .. MaxBytes /\ s.len <= len /\ l <= len
    BY <1>5, <2>3, <2>4, ByteArraysAssumption
  <2>12. ones \subseteq PlacesIn(len)
    <3>1. len \in Nat /\ s.len \in Nat /\ l \in Nat
      BY <1>5, <2>3, <2>11
    <3>2. PlacesIn(s.len) \subseteq PlacesIn(len) /\ PlacesIn(l) \subseteq PlacesIn(len)
      BY <2>11, <3>1, PlacesMonotone
    <3>3. OnesIn(s.memory, store[k]) \in SUBSET PlacesIn(len)
      BY <2>2, <3>2 DEF OnesIn
    <3>4. s.ones \in SUBSET PlacesIn(len)
      BY <1>5, <3>2
    <3> QED  BY <2>6, <3>3, <3>4, CombinedPlaces
  <2>13. array \in {a1, Fresh} /\ (array # Fresh => len = l1 /\ array = a1 /\ s.array # Fresh /\ l <= l1)
    BY <1>5, <2>4, <2>5, <2>11
  <2>14. Changes(a1, mem)
    <3>1. CASE array = Fresh
      BY <1>5, <2>8, <3>1
    <3>2. CASE array # Fresh
      <4>1. /\ a1 \in DOMAIN memory /\ l1 \in Nat /\ l1 <= memory[a1].capacity
        BY <1>3, <2>13, <3>2, FirstArray
      <4>2. a1 \in DOMAIN s.memory /\ s.memory[a1].capacity = memory[a1].capacity
        BY <1>5, <4>1 DEF Changes
      <4>3. PICK cap : cap = s.memory[a1].capacity
        OBVIOUS
      <4>4. ArrayOK(s.memory[a1])
        BY <1>5, <4>2 DEF Changes
      <4>5. cap \in Nat /\ len \in Nat /\ len <= cap /\ s.memory[a1].ones \subseteq PlacesIn(cap)
        <5>1. cap \in 0 .. MaxBytes /\ s.memory[a1].ones \subseteq PlacesIn(cap)
          BY <4>3, <4>4 DEF ArrayOK
        <5> QED  BY <2>13, <3>2, <4>1, <4>2, <4>3, <5>1
      <4>6. PlacesIn(len) \subseteq PlacesIn(cap)
        BY <4>5, PlacesMonotone
      <4>7. cells \in SUBSET PlacesIn(cap)
        BY <2>7, <2>12, <2>13, <3>2, <4>5, <4>6
      <4>8. mem = [s.memory EXCEPT ![a1].ones = cells]
        BY <2>8, <2>13, <3>2
      <4> QED  BY <1>5, <4>2, <4>3, <4>7, <4>8, OldArray
    <3> QED  BY <3>1, <3>2
  <2>15. /\ s.failed = FALSE
         /\ \A i \in 1 .. m : Is(sources[i], "bytes")
         /\ s.array # Fresh => \A i \in 1 .. m : store[sources[i]].len <= l1
    BY <1>3, <1>7 DEF TurnInv
  <2>16. \A i \in 1 .. m + 1 : i \in 1 .. m \/ i = m + 1
    OBVIOUS
  <2>17. \A i \in 1 .. m + 1 : Is(sources[i], "bytes")
    BY <1>1, <1>7, <2>15, <2>16
  <2>18. array # Fresh => \A i \in 1 .. m + 1 : store[sources[i]].len <= l1
    BY <1>1, <2>2, <2>13, <2>15, <2>16
  <2> QED  BY <1>1, <1>2, <1>3, <2>10, <2>11, <2>12, <2>13, <2>14, <2>15, <2>17, <2>18
           DEF TurnInv
<1> QED  BY <1>6, <1>7

(***************************************************************************)
(* So the result of all turns has it.                                      *)
(***************************************************************************)
LEMMA TurnsKeep ==
    ASSUME StoreInv, ArraysInv, NEW sources \in Seq(Keys), sources # <<>>,
           NEW op \in {"AND", "OR", "XOR", "NOT"}, NEW first, first = sources[1], NEW start,
           start = Record(Ones(first), SliceOf(first).len, SliceOf(first).array,
                          MemoryFor(first), FALSE)
    PROVE  TurnInv(BitopTurns(op, start, sources), first, sources, Len(sources))
<1>1. PICK n : n = Len(sources)
  OBVIOUS
<1>2. n \in Nat \ {0} /\ first \in Keys
  BY <1>1
<1>3. PICK state : /\ Turns(state, op, start, sources, n)
                   /\ BitopTurns(op, start, sources) = state[n]
  <2>1. PICK state : /\ Turns(state, op, start, sources, Len(sources))
                     /\ BitopTurns(op, start, sources) = state[Len(sources)]
    BY ONLY BitopIsTurns, sources \in Seq(Keys)
  <2> QED  BY <1>1, <2>1
<1> DEFINE P == {m \in 0 .. n : TurnInv(state[m], first, sources, m)}
<1>4. 0 \in P
  <2>1. state[0] = start
    BY <1>3 DEF Turns
  <2>2. /\ start = Record(start.ones, start.len, start.array, start.memory, start.failed)
        /\ start.ones = Ones(first) /\ start.len = SliceOf(first).len
        /\ start.array = SliceOf(first).array
        /\ start.memory = MemoryFor(first) /\ start.failed = FALSE
    BY DEF Record
  <2>3. /\ FitsIn(SliceOf(first), MemoryFor(first))
        /\ Changes(SliceOf(first).array, MemoryFor(first))
    BY <1>2, BytesOfKey
  <2>4. SliceOf(first).len \in 0 .. MaxBytes
    <3>1. PICK slice, mem : slice = SliceOf(first) /\ mem = MemoryFor(first)
      OBVIOUS
    <3>2. slice.len \in Nat /\ slice.len <= mem[slice.array].capacity /\ ArrayOK(mem[slice.array])
      BY <2>3, <3>1 DEF FitsIn, Changes
    <3>3. mem[slice.array].capacity \in 0 .. MaxBytes
      BY <3>2 DEF ArrayOK
    <3> QED  BY <3>1, <3>2, <3>3, ByteArraysAssumption
  <2>5. start.ones \subseteq PlacesIn(start.len)
    BY <2>2, OnesInBytes
  <2>6. \A i \in 1 .. 0 : FALSE
    OBVIOUS
  <2>7. TurnInv(start, first, sources, 0)
    BY <2>2, <2>3, <2>4, <2>5, <2>6 DEF TurnInv
  <2>8. TurnInv(state[0], first, sources, 0)
    BY <2>1, <2>7, Zenon
  <2>9. 0 \in 0 .. n
    BY <1>2
  <2> QED  BY <2>8, <2>9, Zenon
<1>5. ASSUME NEW m \in 0 .. n - 1, m \in P PROVE m + 1 \in P
  <2>1. TurnInv(state[m], first, sources, m)
    BY <1>5
  <2>2. m + 1 \in 1 .. n /\ m \in Nat /\ m + 1 - 1 = m
    BY <1>2
  <2>3. state[m + 1] = BitopStep(op, state[m], sources[m + 1])
    <3>1. PICK h : h = m + 1
      OBVIOUS
    <3>2. h \in 1 .. n /\ h - 1 = m
      BY <2>2, <3>1
    <3>3. state[h] = BitopStep(op, state[h - 1], sources[h])
      BY <1>3, <3>2, Zenon DEF Turns
    <3> QED  BY <3>1, <3>2, <3>3
  <2>4. PICK s : s = state[m]
    OBVIOUS
  <2>5. TurnInv(BitopStep(op, s, sources[m + 1]), first, sources, m + 1)
    BY <1>1, <1>2, <2>1, <2>2, <2>4, TurnKeeps
  <2>6. TurnInv(state[m + 1], first, sources, m + 1)
    BY <2>3, <2>4, <2>5
  <2>7. m + 1 \in 0 .. n
    BY <1>2
  <2> QED  BY <2>6, <2>7
<1>6. n \in P
  <2>1. \A m \in 0 .. n : m \in P
    <3> HIDE DEF P
    <3> QED  BY <1>2, <1>4, <1>5, AllUpTo
  <2>2. n \in 0 .. n
    BY <1>2
  <2> HIDE DEF P
  <2> QED  BY <2>1, <2>2
<1> QED  BY <1>1, <1>3, <1>6

(***************************************************************************)
(* What the result of BITOP shares with other keys, it has been joined to. *)
(***************************************************************************)
LEMMA ResultSharers ==
    ASSUME StoreInv, ArraysInv, NEW sources \in Seq(Keys), sources # <<>>,
           NEW first, first = sources[1], NEW dest \in Keys, NEW end,
           TurnInv(end, first, sources, Len(sources)), end.failed = FALSE,
           joined' = IF dest = first THEN joined
                     ELSE IF \A k \in ToSet(sources) : store[k].len <= store[first].len
                     THEN {pair \in joined : dest \notin pair} \cup Joins(dest, first)
                     ELSE {pair \in joined : dest \notin pair},
           NEW j \in BytesIn(store) \ {dest}, store[j].array = end.array
    PROVE  {j, dest} \in joined'
<1>1. first \in Keys /\ 1 \in 1 .. Len(sources)
  OBVIOUS
<1>2. end.array # Fresh
  <2>1. store[j].array \in DOMAIN memory
    BY DEF ArraysInv
  <2> QED  BY <2>1, FreshIsNew
<1>3. /\ end.array = SliceOf(first).array
      /\ Is(first, "bytes")
      /\ \A i \in 1 .. Len(sources) : store[sources[i]].len <= SliceOf(first).len
  BY <1>1, <1>2 DEF TurnInv
<1>4. SliceOf(first) = store[first]
  BY <1>1, <1>3, BytesOfKey
<1>5. \A k \in ToSet(sources) : store[k].len <= store[first].len
  <2> SUFFICES ASSUME NEW k \in ToSet(sources) PROVE store[k].len <= store[first].len
    OBVIOUS
  <2>1. PICK i \in 1 .. Len(sources) : k = sources[i]
    BY DEF ToSet
  <2> QED  BY <1>3, <1>4, <2>1
<1>6. j # first => {j, first} \in joined
  BY <1>1, <1>3, Sharers
<1>7. CASE dest = first
  BY <1>6, <1>7
<1>8. CASE dest # first
  <2>1. {dest, j} \in Joins(dest, first)
    <3>1. j \in {first} \cup {i \in Keys : {i, first} \in joined}
      BY <1>6 DEF BytesIn
    <3>2. {dest, j} # {dest}
      OBVIOUS
    <3> QED  BY <3>1, <3>2, Zenon DEF Joins
  <2>2. {j, dest} = {dest, j}
    OBVIOUS
  <2> QED  BY <1>5, <1>8, <2>1, <2>2
<1> QED  BY <1>7, <1>8

(***************************************************************************)
(* BITOP panics, or changes only the bits of the destination, of the first *)
(* source and of the keys that have the array of that source.              *)
(***************************************************************************)
LEMMA BitopKeeps ==
    ASSUME StoreInv, ArraysInv, NEW dest \in Keys, NEW sources \in Seq(Keys), sources # <<>>,
           NEW op \in {"AND", "OR", "XOR", "NOT"}, BITOP(op, dest, sources)
    PROVE  PlainStep \/ ByteStep({dest, sources[1]})
<1> DEFINE begin == [ones |-> Ones(sources[1]), len |-> SliceOf(sources[1]).len,
                     array |-> SliceOf(sources[1]).array,
                     memory |-> MemoryFor(sources[1]), failed |-> FALSE]
           turned == BitopTurns(op, begin, sources)
           slice == Slice(turned.array, turned.len)
           stored == [store EXCEPT ![dest] = slice]
           apart == {pair \in joined : dest \notin pair}
<1>0. \/ /\ ~ turned.failed
         /\ store' = stored
         /\ memory' = Restrict(With(turned.memory, Fresh,
                                    [capacity |-> turned.len, ones |-> turned.ones]),
                               {stored[k].array : k \in BytesIn(stored)})
         /\ joined' = IF dest = sources[1] THEN joined
                      ELSE IF \A k \in ToSet(sources) : store[k].len <= store[sources[1]].len
                      THEN apart \cup Joins(dest, sources[1]) ELSE apart
      \/ Become(Empty)
      \/ /\ memory' = Restrict(turned.memory, DOMAIN memory)
         /\ UNCHANGED <<store, joined>>
  BY Zenon DEF BITOP
<1>1. PICK first : first = sources[1]
  OBVIOUS
<1>2. PICK start : start = Record(Ones(first), SliceOf(first).len, SliceOf(first).array,
                                  MemoryFor(first), FALSE)
  OBVIOUS
<1>3. PICK end : end = BitopTurns(op, start, sources)
  OBVIOUS
<1>4. PICK result : result = Slice(end.array, end.len)
  OBVIOUS
<1>5. PICK st : st = [store EXCEPT ![dest] = result]
  OBVIOUS
<1>6. PICK fresh : fresh = Fresh
  OBVIOUS
<1>7. PICK new : new = With(end.memory, fresh, [capacity |-> end.len, ones |-> end.ones])
  OBVIOUS
<1>8. \/ /\ ~ end.failed
         /\ store' = st
         /\ memory' = Restrict(new, {st[k].array : k \in BytesIn(st)})
         /\ joined' = IF dest = first THEN joined
                      ELSE IF \A k \in ToSet(sources) : store[k].len <= store[first].len
                      THEN {pair \in joined : dest \notin pair} \cup Joins(dest, first)
                      ELSE {pair \in joined : dest \notin pair}
      \/ Become(Empty)
      \/ /\ memory' = Restrict(end.memory, DOMAIN memory)
         /\ UNCHANGED <<store, joined>>
  <2>1. begin = start
    BY <1>1, <1>2 DEF Record
  <2>2. turned = end
    BY <1>3, <2>1, Zenon
  <2>3. slice = result
    BY <1>4, <2>2, Zenon
  <2>4. stored = st
    BY <1>5, <2>3, Zenon
  <2>5. With(turned.memory, Fresh, [capacity |-> turned.len, ones |-> turned.ones]) = new
    BY <1>6, <1>7, <2>2, Zenon
  <2> HIDE DEF begin, turned, slice, stored
  <2>6. {stored[k].array : k \in BytesIn(stored)} = {st[k].array : k \in BytesIn(st)}
    BY <2>4, Zenon
  <2> QED  BY <1>0, <1>1, <2>2, <2>4, <2>5, <2>6, Zenon
<1>9. TurnInv(end, first, sources, Len(sources))
  BY <1>1, <1>2, <1>3, TurnsKeep
<1>10. first \in Keys /\ 1 \in 1 .. Len(sources)
  BY <1>1
<1>11. PICK a1 : a1 = SliceOf(first).array
  OBVIOUS
<1>12. Changes(a1, end.memory)
  BY <1>9, <1>11 DEF TurnInv
<1>13. \A j \in BytesIn(store) : store[j].array \in DOMAIN memory
  BY DEF ArraysInv
<1>14. ASSUME NEW j \in BytesIn(store), store[j].array = a1
       PROVE  j = first \/ {j, first} \in joined
  BY <1>10, <1>11, <1>14, Sharers
<1>15. CASE Become(Empty)
  BY <1>15 DEF PlainStep
<1>16. CASE /\ ~ end.failed
            /\ store' = st
            /\ memory' = Restrict(new, {st[k].array : k \in BytesIn(st)})
            /\ joined' = IF dest = first THEN joined
                         ELSE IF \A k \in ToSet(sources) : store[k].len <= store[first].len
                         THEN {pair \in joined : dest \notin pair} \cup Joins(dest, first)
                         ELSE {pair \in joined : dest \notin pair}
  <2>1. /\ end.len \in 0 .. MaxBytes /\ end.ones \in SUBSET PlacesIn(end.len)
        /\ end.array \in {a1, fresh} /\ end.failed = FALSE /\ Is(first, "bytes")
        /\ end.array # fresh => end.len = SliceOf(first).len
    <3>1. end.failed = FALSE
      BY <1>9, <1>16 DEF TurnInv
    <3>2. Is(first, "bytes")
      BY <1>1, <1>9, <1>10, <3>1 DEF TurnInv
    <3> QED  BY <1>6, <1>9, <1>11, <3>1, <3>2 DEF TurnInv
  <2>2. Changes(a1, new) /\ FitsIn(Slice(fresh, end.len), new)
    <3>1. end.len \in 0 .. end.len
      BY <2>1, ByteArraysAssumption
    <3> QED  BY <1>6, <1>7, <1>12, <2>1, <3>1, NewArray
  <2>3. FitsIn(result, new)
    <3>1. CASE end.array = fresh
      BY <1>4, <2>2, <3>1
    <3>2. CASE end.array # fresh
      <4>1. SliceOf(first) = store[first] /\ FitsIn(store[first], memory)
        BY <1>10, <2>1, BytesOfKey
      <4>2. /\ a1 \in DOMAIN memory /\ end.len \in Nat /\ end.len <= memory[a1].capacity
        BY <1>11, <2>1, <3>2, <4>1 DEF FitsIn
      <4>3. a1 \in DOMAIN new /\ new[a1].capacity = memory[a1].capacity
        BY <2>2, <4>2 DEF Changes
      <4>4. result.array = a1 /\ result.len = end.len /\ result = Slice(result.array, result.len)
        BY <1>4, <2>1, <3>2 DEF Slice
      <4> QED  BY <4>2, <4>3, <4>4 DEF FitsIn
    <3> QED  BY <3>1, <3>2
  <2>4. result.array = end.array
    BY <1>4 DEF Slice
  <2>5. \A j \in BytesIn(store) \ {dest} : store[j].array = result.array => {j, dest} \in joined'
    BY <1>1, <1>9, <1>16, <2>1, <2>4, ResultSharers
  <2>6. \A j, l \in BytesIn(store) \ {dest} : {j, l} \in joined => {j, l} \in joined'
    <3>1. \A j, l \in BytesIn(store) \ {dest} : dest \notin {j, l}
      OBVIOUS
    <3> QED  BY <1>16, <3>1
  <2>7. Installs(dest, result, new, st)
    BY <1>5, <1>16, <2>2, <2>3, <2>5, <2>6 DEF Installs, Changes
  <2>8. /\ StoreInv' /\ ArraysInv'
        /\ \A j \in (BytesIn(store) \cap BytesIn(store')) \ {dest} :
               /\ Ones(j) = memory[store[j].array].ones \cap PlacesIn(store[j].len)
               /\ Ones(j)' = new[store[j].array].ones \cap PlacesIn(store[j].len)
    BY <2>7, Installed
  <2>9. ASSUME NEW j \in BytesIn(store) \cap BytesIn(store'), Ones(j)' # Ones(j), j # dest
        PROVE  j = first \/ {j, first} \in joined
    <3>1. new[store[j].array] # memory[store[j].array]
      BY <2>8, <2>9
    <3>2. store[j].array = a1
      BY <1>13, <2>2, <3>1 DEF Changes
    <3> QED  BY <1>14, <3>2
  <2> QED  BY <1>1, <2>8, <2>9 DEF ByteStep
<1>17. CASE /\ memory' = Restrict(end.memory, DOMAIN memory)
            /\ UNCHANGED <<store, joined>>
  <2>1. PICK D : D = DOMAIN memory
    OBVIOUS
  <2>2. /\ DOMAIN memory' = D
        /\ \A a \in D : /\ memory'[a] = end.memory[a] /\ ArrayOK(end.memory[a])
                        /\ memory'[a].capacity = memory[a].capacity
                        /\ a # a1 => memory'[a] = memory[a]
    BY <1>12, <1>17, <2>1 DEF Restrict, Changes
  <2>3. BytesIn(store)' = BytesIn(store)
    BY <1>17 DEF BytesIn
  <2>4. \A v : SliceOK(v) => SliceOK(v)'
    BY <2>1, <2>2 DEF SliceOK
  <2>5. StoreInv'
    <3>1. ASSUME NEW j \in Keys
          PROVE  PlainInv(store'[j]) \/ (j \in BytesIn(store') /\ SliceOK(store[j])')
      <4>1. store'[j] = store[j]
        BY <1>17
      <4> QED  BY <2>3, <2>4, <4>1 DEF StoreInv
    <3> QED  BY <1>17, <3>1 DEF StoreInv
  <2>6. ArraysInv'
    <3>1. \A a \in DOMAIN memory' : ArrayOK(memory'[a])
      BY <2>2
    <3>2. D = {store[k].array : k \in BytesIn(store)}
      BY <2>1 DEF ArraysInv
    <3>3. {store'[k].array : k \in BytesIn(store')} = D
      BY <1>17, <2>3, <3>2
    <3>4. \A j, k \in BytesIn(store') :
             store'[j].array = store'[k].array => j = k \/ {j, k} \in joined'
      BY <1>17, <2>3 DEF ArraysInv
    <3> QED  BY <2>2, <3>1, <3>3, <3>4 DEF ArraysInv, ArrayOK, PlacesIn
  <2>7. ASSUME NEW j \in BytesIn(store), Ones(j)' # Ones(j)
        PROVE  j = first \/ {j, first} \in joined
    <3>1. Is(j, "bytes") /\ Is(j, "bytes")' /\ store'[j] = store[j]
      BY <1>17 DEF BytesIn, Is
    <3>2. memory'[store[j].array] # memory[store[j].array]
      <4>1. Ones(j) = memory[store[j].array].ones \cap PlacesIn(store[j].len)
        BY <3>1 DEF Ones, OnesIn, MemoryFor, SliceOf
      <4>2. Ones(j)' = memory'[store[j].array].ones \cap PlacesIn(store[j].len)
        BY <3>1 DEF Ones, OnesIn, MemoryFor, SliceOf, PlacesIn
      <4> QED  BY <2>7, <4>1, <4>2
    <3>3. store[j].array = a1
      BY <1>13, <2>1, <2>2, <3>2
    <3> QED  BY <1>14, <3>3
  <2> QED  BY <1>1, <2>5, <2>6, <2>7 DEF ByteStep
<1> QED  BY <1>8, <1>15, <1>16, <1>17

(***************************************************************************)
(* The commands on bit fields.                                             *)
(***************************************************************************)
LEMMA FieldKeeps ==
    ASSUME StoreInv, ArraysInv, NEW k \in Keys, NEW f \in BitFields, NEW n,
           BITFIELDSET(k, f[1], f[2], n) \/ BITFIELDINCRBY(k, f[1], f[2], n)
    PROVE  PlainStep \/ ByteStep({k})
<1>1. PICK type, offset : type = f[1] /\ offset = f[2]
  OBVIOUS
<1>2. offset \in Nat /\ SizeOf(type) \in Nat
  <2>1. f \in {"i8", "u16", "u8"} \X Nat /\ ByteBits \in Nat
    BY ByteArraysAssumption
  <2> QED  BY <1>1, <2>1 DEF SizeOf
<1>3. CASE BITFIELDSET(k, type, offset, n)
  <2>1. \/ Panic("BITFIELD SET", k, <<type, offset, n>>)
        \/ Write(k, SliceOf(k), MemoryFor(k))
        \/ SetField(k, offset, SizeOf(type), n)
    BY <1>3, Zenon DEF BITFIELDSET
  <2>2. CASE Write(k, SliceOf(k), MemoryFor(k))
    <3>1. PICK slice, mem : slice = SliceOf(k) /\ mem = MemoryFor(k)
      OBVIOUS
    <3>2. FitsIn(slice, mem) /\ Changes(SliceOf(k).array, mem)
      BY <3>1, BytesOfKey
    <3>3. Write(k, slice, mem) /\ slice.array \in {SliceOf(k).array, Fresh}
      BY <2>2, <3>1
    <3> QED  BY <3>2, <3>3, WriteKeeps
  <2> QED  BY <1>2, <2>1, <2>2, PanicIsPlain, SetFieldKeeps
<1>4. CASE BITFIELDINCRBY(k, type, offset, n)
  <2>1. PICK sum : sum = FieldIn(Ones(k), offset, SizeOf(type)) + n
    OBVIOUS
  <2>2. \/ Panic("BITFIELD INCRBY", k, <<type, offset, n>>)
        \/ SetField(k, offset, SizeOf(type), sum)
        \/ Read("BITFIELD INCRBY", k, <<type, offset, n>>, Error)
    BY <1>4, <2>1, Zenon DEF BITFIELDINCRBY
  <2> QED  BY <1>2, <2>2, PanicIsPlain, ReadIsPlain, SetFieldKeeps
<1> QED  BY <1>1, <1>3, <1>4

(***************************************************************************)
(* The keys whose bits a command may change, and those joined to them.     *)
(***************************************************************************)
Written(a) == {a.key} \cup (IF a.op = "BITOP" /\ a.arg # <<>> THEN {a.arg[2][1]} ELSE {})

(***************************************************************************)
(* Every command on bytes panics, reads, or changes only what its answer   *)
(* names.                                                                  *)
(***************************************************************************)
LEMMA BytesKeep ==
    ASSUME StoreInv, ArraysInv, ByteCommands
    PROVE  PlainStep \/ ByteStep(Written(answer'))
<1>1. PICK k \in KeysOf("bytes") :
        \/ \E offset \in Offsets, bit \in {0, 1} : SETBIT(k, offset, bit)
        \/ Read("SETBIT", k, <<-1, 1>>, Number(0))
        \/ Read("BITOP", k, <<>>, Error)
        \/ \E offset \in Offsets : GETBIT(k, offset)
        \/ BITCOUNT(k)
        \/ \E i, j \in KeysOf("bytes"), op \in {"AND", "OR", "XOR"} : BITOP(op, k, <<i, j>>)
        \/ \E j \in KeysOf("bytes") : BITOP("NOT", k, <<j>>)
        \/ \E f \in BitFields :
               \/ BITFIELDGET(k, f[1], f[2])
               \/ \E n \in Numbers : \/ BITFIELDSET(k, f[1], f[2], n)
                                     \/ BITFIELDINCRBY(k, f[1], f[2], n)
        \/ Panic("BITFIELD GET", k, <<>>)
  BY DEF ByteCommands
<1>2. k \in Keys /\ KeysOf("bytes") \subseteq Keys
  BY DEF KeysOf
<1>3. ASSUME NEW written, written \subseteq Written(answer'), ByteStep(written)
      PROVE  ByteStep(Written(answer'))
  BY <1>3 DEF ByteStep
<1>4. ASSUME NEW offset \in Offsets, NEW bit \in {0, 1}, SETBIT(k, offset, bit)
      PROVE  ByteStep(Written(answer'))
  <2>1. offset \in Nat
    BY ByteArraysAssumption
  <2>2. answer'.key = k
    BY <1>4 DEF SETBIT, Answer
  <2>3. ByteStep({k})
    BY <1>2, <1>4, <2>1, SetBitKeeps
  <2> QED  BY <1>3, <2>2, <2>3 DEF Written
<1>5. ASSUME NEW op \in {"AND", "OR", "XOR", "NOT"}, NEW sources \in Seq(Keys),
             sources # <<>>, BITOP(op, k, sources)
      PROVE  PlainStep \/ ByteStep(Written(answer'))
  <2>1. /\ answer'.op = "BITOP" /\ answer'.key = k
        /\ answer'.arg = <<op, sources>> /\ <<op, sources>> # <<>>
    <3>1. \E reply : Answer("BITOP", k, <<op, sources>>, reply)
      BY <1>5, Zenon DEF BITOP
    <3> QED  BY <3>1 DEF Answer
  <2>2. PICK written : written = {k, sources[1]}
    OBVIOUS
  <2>3. written \subseteq Written(answer')
    BY <2>1, <2>2 DEF Written
  <2>4. PlainStep \/ ByteStep(written)
    BY <1>2, <1>5, <2>2, BitopKeeps
  <2> QED  BY <1>3, <2>3, <2>4
<1>6. ASSUME NEW f \in BitFields, NEW n,
             BITFIELDSET(k, f[1], f[2], n) \/ BITFIELDINCRBY(k, f[1], f[2], n)
      PROVE  PlainStep \/ ByteStep(Written(answer'))
  <2>1. \E op, arg, reply : Answer(op, k, arg, reply)
    BY <1>6, Zenon DEF BITFIELDSET, BITFIELDINCRBY, Panic, Read
  <2>2. answer'.key = k
    BY <2>1 DEF Answer
  <2>3. PlainStep \/ ByteStep({k})
    BY <1>2, <1>6, FieldKeeps
  <2> QED  BY <1>3, <2>2, <2>3 DEF Written
<1>7. ASSUME NEW f \in BitFields, BITFIELDGET(k, f[1], f[2])
      PROVE  PlainStep
  <2>1. \E op, arg, reply : Panic(op, k, arg) \/ Read(op, k, arg, reply)
    BY <1>7, Zenon DEF BITFIELDGET
  <2> QED  BY <2>1, PanicIsPlain, ReadIsPlain
<1>8. \A offset : GETBIT(k, offset) => PlainStep
  BY ReadIsPlain DEF GETBIT
<1>9. BITCOUNT(k) => PlainStep
  BY ReadIsPlain DEF BITCOUNT
<1>10. ASSUME NEW i \in KeysOf("bytes"), NEW j \in KeysOf("bytes"), NEW op \in {"AND", "OR", "XOR"},
              BITOP(op, k, <<i, j>>)
       PROVE  PlainStep \/ ByteStep(Written(answer'))
  <2>1. <<i, j>> \in Seq(Keys) /\ <<i, j>> # <<>> /\ op \in {"AND", "OR", "XOR", "NOT"}
    BY <1>2
  <2> QED  BY <1>5, <1>10, <2>1
<1>11. ASSUME NEW j \in KeysOf("bytes"), BITOP("NOT", k, <<j>>)
       PROVE  PlainStep \/ ByteStep(Written(answer'))
  <2>1. <<j>> \in Seq(Keys) /\ <<j>> # <<>>
    BY <1>2
  <2> QED  BY <1>5, <1>11, <2>1
<1> QED  BY <1>1, <1>4, <1>6, <1>7, <1>8, <1>9, <1>10, <1>11, PanicIsPlain, ReadIsPlain

(***************************************************************************)
(* A command that does not write bytes drops slices and arrays, and that is*)
(* all it does to them.                                                    *)
(***************************************************************************)
LEMMA BecomeKeeps ==
    ASSUME StoreInv, ArraysInv, NEW st, DOMAIN st = Keys, Become(st),
           \A j \in Keys : PlainInv(st[j]) \/ st[j] = store[j]
    PROVE  ByteStep({})
<1>1. PICK B : B = BytesIn(st)
  OBVIOUS
<1>2. B \subseteq Keys /\ \A j \in B : st[j] # NoValue /\ st[j].type = "bytes"
  BY <1>1 DEF BytesIn
<1>3. \A v : PlainInv(v) => v = NoValue \/ v.type # "bytes"
  BY DEF PlainInv
<1>4. \A j \in B : st[j] = store[j] /\ j \in BytesIn(store)
  BY <1>2, <1>3 DEF BytesIn
<1>5. PICK A : A = {st[j].array : j \in B}
  OBVIOUS
<1>6. /\ store' = st /\ joined' = {pair \in joined : pair \subseteq B}
      /\ DOMAIN memory' = A /\ \A a \in A : memory'[a] = memory[a]
      /\ BytesIn(store)' = B
  BY <1>1, <1>5 DEF Become, Restrict, BytesIn
<1>7. ASSUME NEW j \in B
      PROVE  /\ SliceOK(store[j]) /\ SliceOK(store[j])' /\ store[j].array \in A
             /\ store[j].array \in DOMAIN memory
  <2>1. SliceOK(store[j])
    BY <1>4, StoredValues DEF Is, BytesIn
  <2>2. store[j].array \in A
    BY <1>4, <1>5
  <2>3. st[j] = store[j]
    BY <1>4
  <2> QED  BY <1>6, <2>1, <2>2, <2>3 DEF SliceOK
<1>8. StoreInv'
  <2>1. ASSUME NEW j \in Keys
        PROVE  PlainInv(st[j]) \/ (j \in B /\ SliceOK(st[j])')
    <3>1. PlainInv(store[j]) \/ j \in BytesIn(store)
      BY DEF StoreInv
    <3>2. st[j] = store[j] /\ j \in BytesIn(store) => j \in B
      BY <1>1 DEF BytesIn
    <3>3. j \in B => SliceOK(store[j])' /\ store'[j] = st[j]
      BY <1>6, <1>7
    <3>4. j \in B => SliceOK(st[j])'
      BY <1>4, <1>6, <1>7 DEF SliceOK
    <3> QED  BY <3>1, <3>2, <3>4
  <2> QED  BY <1>6, <2>1 DEF StoreInv
<1>9. ArraysInv'
  <2>1. DOMAIN memory' = {store'[k].array : k \in BytesIn(store')}
    BY <1>5, <1>6
  <2>2. \A a \in DOMAIN memory' : ArrayOK(memory'[a])
    BY <1>4, <1>5, <1>6, <1>7 DEF ArraysInv
  <2>3. \A j, k \in B : st[j].array = st[k].array => j = k \/ {j, k} \in joined'
    BY <1>4, <1>6 DEF ArraysInv
  <2> QED  BY <1>6, <2>1, <2>2, <2>3 DEF ArraysInv, ArrayOK, PlacesIn
<1>10. ASSUME NEW j \in B PROVE Ones(j)' = Ones(j)
  <2>1. Is(j, "bytes") /\ Is(j, "bytes")' /\ store'[j] = store[j]
    BY <1>2, <1>4, <1>6 DEF Is
  <2>2. Ones(j) = memory[store[j].array].ones \cap PlacesIn(store[j].len)
    BY <2>1 DEF Ones, OnesIn, MemoryFor, SliceOf
  <2>3. Ones(j)' = memory'[store[j].array].ones \cap PlacesIn(store[j].len)
    BY <2>1 DEF Ones, OnesIn, MemoryFor, SliceOf, PlacesIn
  <2> QED  BY <1>6, <1>7, <2>2, <2>3
<1> QED  BY <1>6, <1>8, <1>9, <1>10 DEF ByteStep

(***************************************************************************)
(* Nothing changes.                                                        *)
(***************************************************************************)
LEMMA SameBytes ==
    ASSUME StoreInv, ArraysInv, UNCHANGED <<store, memory, joined>>
    PROVE  ByteStep({})
<1>1. BytesIn(store)' = BytesIn(store)
  BY DEF BytesIn
<1>2. \A v : SliceOK(v)' <=> SliceOK(v)
  BY DEF SliceOK
<1>3. StoreInv'
  <2>1. \A j \in Keys : SliceOK(store[j])' <=> SliceOK(store[j])
    BY <1>2
  <2> QED  BY <1>1, <2>1 DEF StoreInv
<1>4. ArraysInv'
  BY <1>1 DEF ArraysInv, ArrayOK, PlacesIn
<1>5. \A j : Ones(j)' = Ones(j)
  BY DEF Ones, OnesIn, MemoryFor, SliceOf, PlacesIn, Is, Fresh
<1> QED  BY <1>3, <1>4, <1>5 DEF ByteStep

(***************************************************************************)
(* No plain step changes any bits.                                         *)
(***************************************************************************)
LEMMA PlainKeeps ==
    ASSUME StoreInv, ArraysInv, PlainStep
    PROVE  ByteStep({})
<1>1. DOMAIN store = Keys /\ DOMAIN Empty = Keys /\ \A j \in Keys : Empty[j] = NoValue
  BY DEF StoreInv, Empty
<1>2. PlainInv(NoValue)
  BY DEF PlainInv
<1>3. Become(store) => ByteStep({})
  BY <1>1, BecomeKeeps
<1>4. Become(Empty) => ByteStep({})
  BY <1>1, <1>2, BecomeKeeps
<1>5. ASSUME NEW k \in Keys, NEW v, Put(k, v), PlainInv(v) PROVE ByteStep({})
  <2>1. PICK st : st = [store EXCEPT ![k] = v]
    OBVIOUS
  <2>2. DOMAIN st = Keys /\ \A j \in Keys : PlainInv(st[j]) \/ st[j] = store[j]
    BY <1>1, <1>5, <2>1
  <2>3. Become(st)
    BY <1>5, <2>1 DEF Put
  <2> QED  BY <2>2, <2>3, BecomeKeeps
<1> QED  BY <1>3, <1>4, <1>5, SameBytes DEF PlainStep
-----------------------------------------------------------------------------
(***************************************************************************)
(* The invariant holds at first, and what every command does.              *)
(***************************************************************************)
LEMMA InitInv == Init => IInv
<1> SUFFICES ASSUME Init PROVE StoreInv /\ ArraysInv
  BY InvMeans
<1>1. store = [k \in Keys |-> NoValue] /\ memory = <<>> /\ joined = {}
  BY DEF Init, Empty
<1>2. BytesIn(store) = {}
  BY <1>1 DEF BytesIn
<1>3. StoreInv
  BY <1>1 DEF StoreInv, PlainInv
<1>4. DOMAIN memory = {}
  BY <1>1
<1> QED  BY <1>2, <1>3, <1>4 DEF ArraysInv

(***************************************************************************)
(* Every step keeps the invariant and changes the bits of the keys that it *)
(* names, and of those joined to them, only.                               *)
(***************************************************************************)
LEMMA NextKeeps ==
    ASSUME IInv, [Next]_vars
    PROVE  ByteStep(Written(answer'))
<1>1. StoreInv /\ ArraysInv
  BY InvMeans
<1>2. ByteStep({}) => ByteStep(Written(answer'))
  BY DEF ByteStep
<1>3. PlainStep \/ ByteStep(Written(answer'))
  <2>1. CASE UNCHANGED vars
    BY <2>1 DEF vars, PlainStep
  <2>2. CASE TextCommands \/ SetCommands \/ SetAlgebra \/ HashCommands \/ DocumentCommands
    BY <1>1, <2>2, TextIsPlain, SetIsPlain, AlgebraIsPlain, HashIsPlain, DocumentIsPlain
  <2>3. CASE StreamCommands \/ SeriesCommands \/ SketchCommands \/ GeoCommands \/ VectorCommands
    BY <1>1, <2>3, StreamIsPlain, SeriesIsPlain, SketchIsPlain, GeoIsPlain, VectorIsPlain
  <2>4. CASE ByteCommands
    BY <1>1, <2>4, BytesKeep
  <2>5. CASE \E k \in Keys : DEL(k)
    <3>1. PICK k \in Keys : Put(k, NoValue)
      BY <2>5 DEF DEL
    <3>2. PlainInv(NoValue)
      BY DEF PlainInv
    <3> QED  BY <3>1, <3>2, PutIsPlain
  <2> QED  BY <2>1, <2>2, <2>3, <2>4, <2>5 DEF Next
<1> QED  BY <1>1, <1>2, <1>3, PlainKeeps

(***************************************************************************)
(* Every value in Store is one of those the commands make, the arrays in   *)
(* use are those of the slices in it, and the histories are right: what    *)
(* the sections under Tealis.Mu keep, whichever of them come in which order*)
(***************************************************************************)
THEOREM Invariance == Spec => []IInv
<1>1. Init => IInv
  BY InitInv
<1>2. IInv /\ [Next]_vars => IInv'
  <2> SUFFICES ASSUME IInv, [Next]_vars PROVE IInv'
    OBVIOUS
  <2>1. StoreInv' /\ ArraysInv'
    BY NextKeeps DEF ByteStep
  <2>2. (StoreInv /\ ArraysInv => IInv)'
    BY InvMeans, PTL
  <2> QED  BY <2>1, <2>2
<1> QED  BY <1>1, <1>2, PTL DEF Spec

(***************************************************************************)
(* Store is a Go map of interface{} (tealis.go:17): what a command finds   *)
(* under its key is nothing, or a complete value of one of the types that  *)
(* the other commands write.                                               *)
(***************************************************************************)
THEOREM TypeCorrect == Spec => []TypeOK
<1>1. IInv => TypeOK
  BY DEF IInv
<1> QED  BY <1>1, Invariance, PTL

(***************************************************************************)
(* Who follows a stream of increasing IDs by the last ID it knows receives *)
(* every entry once and in order (stream.go:70-82), however long the stream*)
(* is and however many entries it asks for at a time.                      *)
(***************************************************************************)
THEOREM Followed == Spec => []StreamFollowed
<1>1. IInv => StreamFollowed
  BY DEF IInv
<1> QED  BY <1>1, Invariance, PTL

(***************************************************************************)
(* XACK acknowledges no more than was delivered, and what was delivered is *)
(* pending or was acknowledged (stream.go:171-182, 204-211), for every     *)
(* number of entries, groups, consumers and deliveries.                    *)
(***************************************************************************)
THEOREM AcksMatch == Spec => []AcksMatchDeliveries
<1>1. IInv => AcksMatchDeliveries
  BY DEF IInv
<1> QED  BY <1>1, Invariance, PTL

(***************************************************************************)
(* A series has the points that were added, in the order of their times,   *)
(* and a sketch in each register the greatest rank of the elements that    *)
(* were added, here or where it was merged from (timeSeries.go:61-64;      *)
(* hyperloglog.go:41-58, 85-110), for every number of them.                *)
(***************************************************************************)
THEOREM KeepsAdded == Spec => []KeepsWhatWasAdded
<1>1. IInv => KeepsWhatWasAdded
  BY DEF IInv
<1> QED  BY <1>1, Invariance, PTL

(***************************************************************************)
(* An edit of a document (json.go:88-121, 245-254) leaves of the object or *)
(* array that held the element everything else where it was, and of the    *)
(* element what the command says; a refusal changes nothing: for documents *)
(* and paths of any depth.                                                 *)
(***************************************************************************)
THEOREM EditsAreExact == Spec => EditsExact
<1> DEFINE Edit == answer'.op \in {"JSON.DEL", "JSON.ARRAPPEND"}
           k == answer'.key
           path == IF answer'.op = "JSON.DEL" THEN answer'.arg ELSE answer'.arg[1]
           before(p) == GetAtPath(Root(k), Front(path) \o p)
           after(p) == GetAtPath(store'[k].of, p)
           last == <<Last(path)>>
           parts == DOMAIN Index \cup Names
           named == IF before(<<>>).json # "array" THEN {Last(path)}
                    ELSE {p \in DOMAIN Index : Index[p] = Index[Last(path)]}
           Goal == IF answer'.reply # Number(1) THEN UNCHANGED store
                   ELSE path # <<>> =>
                        /\ \A p \in parts \ named : after(<<p>>) = before(<<p>>)
                        /\ IF answer'.op = "JSON.DEL"
                           THEN after(last) \in {Missing, Null}
                           ELSE after(last) = Array(before(last).items \o answer'.arg[2])
<1>1. ASSUME IInv, Next, Edit PROVE Goal
  <2>1. StoreInv
    BY <1>1, InvMeans
  <2>2. PICK j \in Keys, way \in Paths :
            JSONDEL(j, way) \/ \E items : JSONARRAPPEND(j, way, items)
    <3>1. ~ Elsewhere
      BY <1>1 DEF Elsewhere
    <3>2. DocumentCommands
      <4>1. \A x : DEL(x) => Elsewhere
        BY AnswerElsewhere DEF DEL
      <4> QED  BY <1>1, <3>1, <4>1, NamesElsewhere, LogsElsewhere, NumbersElsewhere DEF Next
    <3>3. PICK j \in Keys :
            \/ \E v : JSONSET(j, v)
            \/ JSONSETInvalid(j)
            \/ \E way \in Paths : \/ JSONGET(j, way) \/ JSONDEL(j, way)
                                  \/ \E items : JSONARRAPPEND(j, way, items)
            \/ Read("JSON.GET", j, <<>>, Error)
      BY <3>2 DEF DocumentCommands, KeysOf
    <3>4. (\E v : JSONSET(j, v)) \/ JSONSETInvalid(j) => Elsewhere
      BY AnswerElsewhere DEF JSONSET, JSONSETInvalid
    <3>5. \A way : JSONGET(j, way) => Elsewhere
      BY AnswerElsewhere DEF JSONGET
    <3> QED  BY <3>1, <3>3, <3>4, <3>5, AnswerElsewhere
  <2>3. way \in Seq(Names \cup DOMAIN Index)
    BY DocsAssumption
  <2>4. ASSUME JSONDEL(j, way) PROVE Goal
    <3>1. /\ answer'.op = "JSON.DEL" /\ answer'.key = j /\ answer'.arg = way
          /\ answer'.reply # Number(1) => UNCHANGED store
          /\ answer'.reply = Number(1) /\ way # <<>> =>
                OthersStay(j, way) /\ Then(j, <<Last(way)>>) \in {Missing, Null}
      BY <2>1, <2>3, <2>4, DeletesOne
    <3>2. k = j /\ path = way
      BY <3>1
    <3> QED  BY <3>1, <3>2, Zenon DEF OthersStay, Named, Before, Then
  <2>5. ASSUME NEW items, JSONARRAPPEND(j, way, items) PROVE Goal
    <3>1. /\ answer'.op = "JSON.ARRAPPEND" /\ answer'.key = j /\ answer'.arg = <<way, items>>
          /\ answer'.reply # Number(1) => UNCHANGED store
          /\ answer'.reply = Number(1) =>
                /\ way # <<>> /\ OthersStay(j, way)
                /\ Then(j, <<Last(way)>>) = Array(Before(j, way, <<Last(way)>>).items \o items)
      BY <2>1, <2>3, <2>5, AppendsBehind
    <3>2. k = j /\ path = way /\ answer'.arg[2] = items /\ answer'.op # "JSON.DEL"
      BY <3>1
    <3> QED  BY <3>1, <3>2, Zenon DEF OthersStay, Named, Before, Then
  <2> QED  BY <2>2, <2>4, <2>5
<1>2. IInv /\ [Next]_vars => [Edit => Goal]_vars
  BY <1>1
<1> QED  BY <1>2, Invariance, PTL DEF Spec, EditsExact

(***************************************************************************)
(* The bits of a key change only by a command on it, or on one to which    *)
(* BITOP has joined it (bitmap.go:22-26, 88-132; bitfield.go:161), for all *)
(* keys, arrays and sizes of bytes.                                        *)
(***************************************************************************)
THEOREM KeysStayApart == Spec => KeysApart
<1>1. IInv /\ [Next]_vars =>
        [LET a == answer'
             written == {a.key} \cup (IF a.op = "BITOP" /\ a.arg # <<>>
                                      THEN {a.arg[2][1]} ELSE {})
         IN  \A k \in BytesIn(store) \cap BytesIn(store') :
                 Ones(k)' # Ones(k) => \E w \in written : k = w \/ {k, w} \in joined]_vars
  BY NextKeeps DEF ByteStep, Written
<1> QED  BY <1>1, Invariance, PTL DEF Spec, KeysApart
=============================================================================
