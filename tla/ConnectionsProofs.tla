-------------------------- MODULE ConnectionsProofs --------------------------
(***************************************************************************)
(* Proofs about Connections, for any number of connections, any lines and  *)
(* any way the network may cut them: what the loops over bytes compute,    *)
(* that the bytes of a client become its commands, and that EXEC runs what *)
(* was queued.                                                             *)
(***************************************************************************)
EXTENDS Connections, SequenceTheorems, FiniteSetTheorems, WellFoundedInduction, TLAPS

(***************************************************************************)
(* A set of natural numbers has a least one.                               *)
(***************************************************************************)
LEMMA LeastNat ==
    ASSUME NEW S \in SUBSET Nat, S # {}
    PROVE  \E n \in S : \A m \in S : n <= m
<1> DEFINE R == OpToRel(<, Nat)
<1>1. IsWellFoundedOn(R, Nat)
  BY NatLessThanWellFounded
<1>2. PICK x \in S : \A y \in S : ~ (<<y, x>> \in R)
  <2> HIDE DEF R
  <2> QED  BY <1>1, WFMin
<1>3. \A y \in S : ~ (y < x)
  BY <1>2 DEF OpToRel
<1> QED  BY <1>3

(***************************************************************************)
(* What a set that holds 0, and with each number below n the next, holds:  *)
(* all numbers up to n.                                                    *)
(***************************************************************************)
LEMMA AllUpTo ==
    ASSUME NEW n \in Nat, NEW P, 0 \in P, \A m \in 0 .. n - 1 : m \in P => m + 1 \in P
    PROVE  \A m \in 0 .. n : m \in P
<1> SUFFICES ASSUME NEW a \in 0 .. n, a \notin P PROVE FALSE
  OBVIOUS
<1> DEFINE S == {m \in 0 .. n : m \notin P}
<1>1. S \in SUBSET Nat /\ S # {}
  OBVIOUS
<1>2. PICK m \in S : \A k \in S : m <= k
  <2> HIDE DEF S
  <2> QED  BY <1>1, LeastNat
<1>3. m # 0 /\ m - 1 \in 0 .. n - 1 /\ m - 1 \notin S
  BY <1>2
<1> QED  BY <1>2, <1>3

(***************************************************************************)
(* The same from n downwards, each number from all that are greater.       *)
(***************************************************************************)
LEMMA AllDownFrom ==
    ASSUME NEW n \in Nat, NEW P,
           \A m \in 1 .. n : (\A k \in m + 1 .. n : k \in P) => m \in P
    PROVE  \A m \in 1 .. n : m \in P
<1> SUFFICES ASSUME NEW a \in 1 .. n, a \notin P PROVE FALSE
  OBVIOUS
<1> DEFINE S == {d \in 0 .. n : n - d \in 1 .. n /\ n - d \notin P}
<1>1. S \in SUBSET Nat /\ S # {}
  <2>1. n - a \in 0 .. n /\ n - (n - a) = a
    OBVIOUS
  <2>2. n - a \in S
    BY <2>1
  <2>3. S \in SUBSET Nat
    OBVIOUS
  <2> HIDE DEF S
  <2> QED  BY <2>2, <2>3
<1>2. PICK d \in S : \A e \in S : d <= e
  <2> HIDE DEF S
  <2> QED  BY <1>1, LeastNat
<1>3. ASSUME NEW k \in (n - d) + 1 .. n PROVE k \in P
  <2>1. n - k \in 0 .. n /\ n - (n - k) = k /\ ~ (d <= n - k) /\ k \in 1 .. n
    OBVIOUS
  <2>2. n - k \notin S
    BY <1>2, <2>1
  <2> QED  BY <2>1, <2>2
<1>4. n - d \in 1 .. n /\ n - d \notin P
  OBVIOUS
<1> QED  BY <1>3, <1>4

(***************************************************************************)
(* What a set that holds the empty sequence, and with each sequence all of *)
(* one more element, holds: all sequences.                                 *)
(***************************************************************************)
LEMMA AllSequences ==
    ASSUME NEW S, NEW P, <<>> \in P,
           \A s \in Seq(S), x \in S : s \in P => Append(s, x) \in P
    PROVE  \A s \in Seq(S) : s \in P
<1> SUFFICES ASSUME NEW s \in Seq(S) PROVE s \in P
  OBVIOUS
<1> DEFINE L == {n \in Nat : \A t \in Seq(S) : Len(t) = n => t \in P}
<1>1. 0 \in L
  <2>1. \A t \in Seq(S) : Len(t) = 0 => t = <<>>
    OBVIOUS
  <2> QED  BY <2>1
<1>2. ASSUME NEW n \in 0 .. Len(s) - 1, n \in L PROVE n + 1 \in L
  <2> SUFFICES ASSUME NEW t \in Seq(S), Len(t) = n + 1 PROVE t \in P
    OBVIOUS
  <2>1. PICK u : u = SubSeq(t, 1, n)
    OBVIOUS
  <2>2. u \in Seq(S) /\ Len(u) = n /\ t[n + 1] \in S /\ t = Append(u, t[n + 1])
    BY <2>1
  <2> QED  BY <1>2, <2>2
<1>3. Len(s) \in Nat
  OBVIOUS
<1>4. Len(s) \in L
  <2> HIDE DEF L
  <2>1. \A m \in 0 .. Len(s) : m \in L
    BY <1>1, <1>2, <1>3, AllUpTo
  <2> QED  BY <1>3, <2>1
<1> QED  BY <1>4

(***************************************************************************)
(* \o is associative.  (Cat is a name for it that the provers do not       *)
(* expand.)                                                                *)
(***************************************************************************)
Cat(u, v) == u \o v

(***************************************************************************)
(* Three and four sequences may be put together in any grouping, and so may*)
(* a sequence and an element.                                              *)
(***************************************************************************)
LEMMA Regroup ==
    ASSUME NEW A, NEW u \in Seq(A), NEW v \in Seq(A), NEW w \in Seq(A), NEW x \in Seq(A)
    PROVE  /\ Cat(Cat(u, v), w) = Cat(u, Cat(v, w))
           /\ Cat(u, Cat(Cat(v, w), x)) = Cat(Cat(u, v), Cat(w, x))
           /\ \A e \in A : Cat(u, Append(v, e)) = Append(Cat(u, v), e)
<1>1. \A r \in Seq(A), s \in Seq(A) : Cat(r, s) \in Seq(A)
  BY DEF Cat
<1>2. \A i \in Seq(A), o \in Seq(A), l \in Seq(A) : Cat(Cat(i, o), l) = Cat(i, Cat(o, l))
  <2>1. \A i \in Seq(A), o \in Seq(A), l \in Seq(A) : (i \o o) \o l = i \o (o \o l)
    BY SMTT(30)
  <2> QED  BY <2>1 DEF Cat
<1>3. \A e \in A : Cat(u, Append(v, e)) = Append(Cat(u, v), e)
  <2>1. \A e \in A : u \o Append(v, e) = Append(u \o v, e)
    BY SMTT(30)
  <2> QED  BY <2>1 DEF Cat
<1>4. Cat(v, w) \in Seq(A) /\ Cat(w, x) \in Seq(A)
  BY <1>1
<1>5. Cat(Cat(v, w), x) = Cat(v, Cat(w, x))
  BY <1>2
<1>6. Cat(Cat(u, v), Cat(w, x)) = Cat(u, Cat(v, Cat(w, x)))
  BY <1>2, <1>4
<1>7. Cat(Cat(u, v), w) = Cat(u, Cat(v, w))
  BY <1>2
<1> QED  BY <1>3, <1>5, <1>6, <1>7

-----------------------------------------------------------------------------
(***************************************************************************)
(* A loop that starts with a and goes through the steps 1 to n.            *)
(***************************************************************************)
Loop(f, A, a, step, n) ==
    /\ f \in [0 .. n -> A] /\ f[0] = a
    /\ \A m \in 1 .. n : f[m] = step[m][f[m - 1]]

(***************************************************************************)
(* If no step leaves A, it runs.                                           *)
(***************************************************************************)
LEMMA LoopRuns ==
    ASSUME NEW A, NEW a \in A, NEW n \in Nat, NEW step,
           \A m \in 1 .. n : \A x \in A : step[m][x] \in A
    PROVE  \E f : Loop(f, A, a, step, n)
<1> DEFINE P == {m \in Nat : \E f : Loop(f, A, a, step, m)}
<1>1. 0 \in P
  <2>1. Loop([m \in 0 .. 0 |-> a], A, a, step, 0)
    BY DEF Loop
  <2> QED  BY <2>1
<1>2. ASSUME NEW m \in 0 .. n - 1, m \in P PROVE m + 1 \in P
  <2>1. PICK f : Loop(f, A, a, step, m)
    BY <1>2
  <2>2. PICK next \in A : next = step[m + 1][f[m]]
    BY <2>1 DEF Loop
  <2> DEFINE longer == [k \in 0 .. m + 1 |-> IF k = m + 1 THEN next ELSE f[k]]
  <2>3. Loop(longer, A, a, step, m + 1)
    <3>1. longer \in [0 .. m + 1 -> A] /\ longer[0] = a
      BY <2>1 DEF Loop
    <3>2. ASSUME NEW k \in 1 .. m + 1 PROVE longer[k] = step[k][longer[k - 1]]
      <4>1. CASE k = m + 1
        <5>1. longer[k] = next /\ longer[k - 1] = f[m]
          BY <4>1
        <5> QED  BY <2>2, <4>1, <5>1
      <4>2. CASE k # m + 1
        <5>1. longer[k] = f[k] /\ longer[k - 1] = f[k - 1] /\ k \in 1 .. m
          BY <4>2
        <5> HIDE DEF longer
        <5> QED  BY <2>1, <5>1 DEF Loop
      <4> QED  BY <4>1, <4>2
    <3> HIDE DEF longer
    <3> QED  BY <3>1, <3>2 DEF Loop
  <2> QED  BY <2>3
<1>3. n \in P
  <2>1. \A m \in 0 .. n : m \in P
    <3> HIDE DEF P
    <3> QED  BY <1>1, <1>2, AllUpTo
  <2> QED  BY <2>1
<1> QED  BY <1>3

(***************************************************************************)
(* Two loops with the same steps up to n are in the same state then.       *)
(***************************************************************************)
LEMMA LoopsAgree ==
    ASSUME NEW n \in Nat, NEW f, NEW g, f[0] = g[0],
           \A m \in 1 .. n : f[m - 1] = g[m - 1] => f[m] = g[m]
    PROVE  f[n] = g[n]
<1> DEFINE P == {m \in 0 .. n : f[m] = g[m]}
<1>1. 0 \in P
  OBVIOUS
<1>2. ASSUME NEW m \in 0 .. n - 1, m \in P PROVE m + 1 \in P
  <2>1. m + 1 \in 1 .. n /\ (m + 1) - 1 = m
    OBVIOUS
  <2> QED  BY <1>2, <2>1
<1>3. \A m \in 0 .. n : m \in P
  <2> HIDE DEF P
  <2> QED  BY <1>1, <1>2, AllUpTo
<1> QED  BY <1>3
-----------------------------------------------------------------------------
(***************************************************************************)
(* The states of the loop of cleanBytes.                                   *)
(***************************************************************************)
Cleaned(f, data) ==
    /\ f = [m \in 0 .. Len(data) |-> f[m]] /\ f[0] = <<>>
    /\ \A m \in 1 .. Len(data) :
          /\ f[m - 1] \in Seq(Bytes) /\ f[m] \in Seq(Bytes)
          /\ f[m] = IF data[m] # "backspace" THEN Append(f[m - 1], data[m])
                    ELSE SubSeq(f[m - 1], 1, Len(f[m - 1]) - 1)

(***************************************************************************)
(* cleanBytes is the last of them.                                         *)
(***************************************************************************)
LEMMA CleanIsLast ==
    ASSUME NEW data \in Seq(Bytes)
    PROVE  \E f : Cleaned(f, data) /\ cleanBytes(data) = f[Len(data)]
<1> DEFINE n == Len(data)
           A == Seq(Bytes)
           step == [m \in 1 .. n |-> [s \in A |->
                       IF data[m] # "backspace" THEN Append(s, data[m])
                       ELSE SubSeq(s, 1, Len(s) - 1)]]
<1>1. n \in Nat /\ <<>> \in A
  OBVIOUS
<1>2. \A m \in 1 .. n : \A s \in A : step[m][s] \in A
  <2> TAKE m \in 1 .. n
  <2> TAKE s \in A
  <2>1. data[m] \in Bytes /\ Append(s, data[m]) \in A
    OBVIOUS
  <2>2. SubSeq(s, 1, Len(s) - 1) \in A
    <3>1. \A i \in 1 .. Len(s) - 1 : s[i] \in Bytes
      OBVIOUS
    <3> QED  BY <3>1, SubSeqProperties
  <2> QED  BY <2>1, <2>2
<1>3. PICK g : Loop(g, A, <<>>, step, n)
  <2> HIDE DEF A, n, step
  <2> QED  BY <1>1, <1>2, LoopRuns
<1>4. Cleaned(g, data)
  <2>1. \A m \in 1 .. n : m - 1 \in 0 .. n /\ m \in 0 .. n
    BY <1>1
  <2>2. \A m \in 0 .. n : g[m] \in A
    BY <1>3 DEF Loop
  <2>3. \A m \in 1 .. n : g[m] = step[m][g[m - 1]]
    BY <1>3 DEF Loop
  <2>4. g = [m \in 0 .. n |-> g[m]] /\ g[0] = <<>>
    BY <1>3 DEF Loop
  <2> QED  BY <2>1, <2>2, <2>3, <2>4 DEF Cleaned
<1> DEFINE Equation(f) == f = [m \in 0 .. n |-> IF m = 0 THEN <<>>
                                  ELSE IF data[m] # "backspace" THEN Append(f[m - 1], data[m])
                                  ELSE SubSeq(f[m - 1], 1, Len(f[m - 1]) - 1)]
           clean == CHOOSE f : Equation(f)
<1>5. Equation(g)
  <2>1. g[0] = <<>> /\ g = [m \in 0 .. n |-> g[m]]
    BY <1>4 DEF Cleaned
  <2>2. \A m \in 1 .. n :
            g[m] = IF data[m] # "backspace" THEN Append(g[m - 1], data[m])
                   ELSE SubSeq(g[m - 1], 1, Len(g[m - 1]) - 1)
    BY <1>4 DEF Cleaned
  <2>3. \A m \in 0 .. n : m = 0 \/ m \in 1 .. n
    BY <1>1
  <2> HIDE DEF n
  <2> QED  BY <2>1, <2>2, <2>3
<1>6. Equation(clean)
  <2> HIDE DEF Equation
  <2> QED  BY <1>5
<1>7. cleanBytes(data) = clean[n]
  BY DEF cleanBytes
<1>8. PICK h : h = clean
  OBVIOUS
<1>9. h = g
  <2>1. Equation(h)
    BY <1>6, <1>8
  <2>2. h = [m \in 0 .. n |-> h[m]]
    BY <2>1
  <2>3. \A m \in 0 .. n : h[m] = g[m]
    <3> TAKE k \in 0 .. n
    <3>1. h[0] = g[0]
      BY <1>1, <2>1, <1>5
    <3>2. ASSUME NEW m \in 1 .. k, h[m - 1] = g[m - 1] PROVE h[m] = g[m]
      <4>1. m \in 0 .. n /\ m # 0
        BY <1>1
      <4> HIDE DEF n
      <4> QED  BY <1>5, <2>1, <3>2, <4>1
    <3> HIDE DEF n, Equation
    <3> QED  BY <1>1, <3>1, <3>2, LoopsAgree
  <2> QED  BY <2>2, <2>3, <1>4 DEF Cleaned
<1> QED  BY <1>4, <1>7, <1>8, <1>9

(***************************************************************************)
(* One byte more.                                                          *)
(***************************************************************************)
LEMMA CleanAppend ==
    ASSUME NEW data \in Seq(Bytes), NEW b \in Bytes
    PROVE  /\ cleanBytes(data) \in Seq(Bytes)
           /\ b # "backspace" =>
                 cleanBytes(Append(data, b)) = Append(cleanBytes(data), b)
<1>1. PICK n, long : n = Len(data) /\ long = Append(data, b)
  OBVIOUS
<1>2. /\ n \in Nat /\ long \in Seq(Bytes) /\ Len(long) = n + 1 /\ long[n + 1] = b
      /\ \A m \in 1 .. n : long[m] = data[m]
  BY <1>1
<1>3. PICK f : Cleaned(f, data) /\ cleanBytes(data) = f[n]
  BY <1>1, CleanIsLast
<1>4. PICK g : Cleaned(g, long) /\ cleanBytes(long) = g[n + 1]
  BY <1>2, CleanIsLast
<1>5. f[n] \in Seq(Bytes)
  BY <1>1, <1>3 DEF Cleaned
<1>6. f[n] = g[n]
  <2>1. f[0] = g[0]
    BY <1>3, <1>4 DEF Cleaned
  <2>2. ASSUME NEW m \in 1 .. n, f[m - 1] = g[m - 1] PROVE f[m] = g[m]
    <3>1. m \in 1 .. Len(data) /\ m \in 1 .. Len(long) /\ long[m] = data[m]
      BY <1>1, <1>2
    <3>2. f[m] = IF data[m] # "backspace" THEN Append(f[m - 1], data[m])
                 ELSE SubSeq(f[m - 1], 1, Len(f[m - 1]) - 1)
      BY <1>3, <3>1 DEF Cleaned
    <3>3. g[m] = IF long[m] # "backspace" THEN Append(g[m - 1], long[m])
                 ELSE SubSeq(g[m - 1], 1, Len(g[m - 1]) - 1)
      BY <1>4, <3>1 DEF Cleaned
    <3> QED  BY <2>2, <3>1, <3>2, <3>3
  <2> QED  BY <1>2, <2>1, <2>2, LoopsAgree
<1>7. b # "backspace" => g[n + 1] = Append(g[n], b)
  <2>1. n + 1 \in 1 .. Len(long) /\ (n + 1) - 1 = n
    BY <1>2
  <2> QED  BY <1>2, <1>4, <2>1 DEF Cleaned
<1> QED  BY <1>1, <1>3, <1>4, <1>5, <1>6, <1>7

(***************************************************************************)
(* What has no backspace stays as it is.                                   *)
(***************************************************************************)
LEMMA CleanSimple ==
    ASSUME NEW s \in Seq(Bytes \ {"backspace"})
    PROVE  cleanBytes(s) = s
<1> DEFINE S == Bytes \ {"backspace"}
           P == {t \in Seq(S) : cleanBytes(t) = t}
<1>1. cleanBytes(<<>>) = <<>>
  <2>1. PICK f : Cleaned(f, <<>>) /\ cleanBytes(<<>>) = f[Len(<<>>)]
    <3>1. <<>> \in Seq(Bytes)
      OBVIOUS
    <3> QED  BY <3>1, CleanIsLast
  <2> QED  BY <2>1 DEF Cleaned
<1>2. <<>> \in P
  BY <1>1
<1>3. ASSUME NEW t \in Seq(S), NEW b \in S, t \in P PROVE Append(t, b) \in P
  <2>1. t \in Seq(Bytes) /\ b \in Bytes /\ b # "backspace" /\ Append(t, b) \in Seq(S)
    OBVIOUS
  <2> QED  BY <1>3, <2>1, CleanAppend
<1>4. \A t \in Seq(S) : t \in P
  <2> HIDE DEF P
  <2> QED  BY <1>2, <1>3, AllSequences
<1> QED  BY <1>4

(***************************************************************************)
(* The states of the loop of Visible.                                      *)
(***************************************************************************)
Seen(f, s) ==
    /\ f = [m \in 0 .. Len(s) |-> f[m]] /\ f[0] = <<>>
    /\ \A m \in 1 .. Len(s) :
          /\ f[m - 1] \in Seq(Bytes) /\ f[m] \in Seq(Bytes)
          /\ f[m] = IF s[m] \in Blanks THEN f[m - 1] ELSE Append(f[m - 1], s[m])

(***************************************************************************)
(* Visible is the last of them.                                            *)
(***************************************************************************)
LEMMA VisibleIsLast ==
    ASSUME NEW s \in Seq(Bytes)
    PROVE  \E f : Seen(f, s) /\ Visible(s) = f[Len(s)]
<1> DEFINE n == Len(s)
           A == Seq(Bytes)
           step == [m \in 1 .. n |-> [t \in A |->
                       IF s[m] \in Blanks THEN t ELSE Append(t, s[m])]]
<1>1. n \in Nat /\ <<>> \in A
  OBVIOUS
<1>2. \A m \in 1 .. n : \A t \in A : step[m][t] \in A
  OBVIOUS
<1>3. PICK g : Loop(g, A, <<>>, step, n)
  <2> HIDE DEF A, n, step
  <2> QED  BY <1>1, <1>2, LoopRuns
<1>4. Seen(g, s)
  <2>1. \A m \in 1 .. n : m - 1 \in 0 .. n /\ m \in 0 .. n
    BY <1>1
  <2>2. \A m \in 0 .. n : g[m] \in A
    BY <1>3 DEF Loop
  <2>3. \A m \in 1 .. n : g[m] = step[m][g[m - 1]]
    BY <1>3 DEF Loop
  <2>4. g = [m \in 0 .. n |-> g[m]] /\ g[0] = <<>>
    BY <1>3 DEF Loop
  <2> QED  BY <2>1, <2>2, <2>3, <2>4 DEF Seen
<1> DEFINE Equation(f) == f = [m \in 0 .. n |-> IF m = 0 THEN <<>>
                                  ELSE IF s[m] \in Blanks THEN f[m - 1]
                                  ELSE Append(f[m - 1], s[m])]
           visible == CHOOSE f : Equation(f)
<1>5. Equation(g)
  <2>1. \A m \in 0 .. n : g[m] = IF m = 0 THEN <<>>
                                 ELSE IF s[m] \in Blanks THEN g[m - 1]
                                 ELSE Append(g[m - 1], s[m])
    <3>1. g[0] = <<>>
      BY <1>4 DEF Seen
    <3>2. \A m \in 1 .. n : g[m] = IF s[m] \in Blanks THEN g[m - 1] ELSE Append(g[m - 1], s[m])
      BY <1>4 DEF Seen
    <3> HIDE DEF n
    <3> QED  BY <1>1, <3>1, <3>2
  <2>2. g = [m \in 0 .. n |-> g[m]]
    BY <1>4 DEF Seen
  <2> HIDE DEF n
  <2> QED  BY <2>1, <2>2
<1>6. Equation(visible)
  <2> HIDE DEF Equation
  <2> QED  BY <1>5
<1>7. Visible(s) = visible[n]
  BY DEF Visible
<1>8. PICK h : h = visible
  OBVIOUS
<1>9. h[n] = g[n]
  <2>1. Equation(h)
    BY <1>6, <1>8
  <2>2. h[0] = g[0]
    BY <1>1, <1>5, <2>1
  <2>3. ASSUME NEW m \in 1 .. n, h[m - 1] = g[m - 1] PROVE h[m] = g[m]
    <3>1. m \in 0 .. n /\ m # 0
      BY <1>1
    <3> HIDE DEF n
    <3> QED  BY <1>5, <2>1, <2>3, <3>1
  <2> HIDE DEF n, Equation
  <2> QED  BY <1>1, <2>2, <2>3, LoopsAgree
<1> QED  BY <1>4, <1>7, <1>8, <1>9

(***************************************************************************)
(* One byte more.                                                          *)
(***************************************************************************)
LEMMA VisibleAppend ==
    /\ Visible(<<>>) = <<>>
    /\ \A s \in Seq(Bytes), b \in Bytes :
          /\ Visible(s) \in Seq(Bytes)
          /\ Visible(Append(s, b)) = IF b \in Blanks THEN Visible(s) ELSE Append(Visible(s), b)
<1>1. Visible(<<>>) = <<>>
  <2>1. <<>> \in Seq(Bytes) /\ Len(<<>>) = 0
    OBVIOUS
  <2>2. PICK f : Seen(f, <<>>) /\ Visible(<<>>) = f[0]
    BY <2>1, VisibleIsLast
  <2> QED  BY <2>2 DEF Seen
<1>2. ASSUME NEW s \in Seq(Bytes), NEW b \in Bytes
      PROVE  /\ Visible(s) \in Seq(Bytes)
             /\ Visible(Append(s, b)) = IF b \in Blanks THEN Visible(s) ELSE Append(Visible(s), b)
  <2>1. PICK n, long : n = Len(s) /\ long = Append(s, b)
    OBVIOUS
  <2>2. /\ n \in Nat /\ long \in Seq(Bytes) /\ Len(long) = n + 1 /\ long[n + 1] = b
        /\ \A m \in 1 .. n : long[m] = s[m]
    BY <2>1
  <2>3. PICK f : Seen(f, s) /\ Visible(s) = f[n]
    BY <2>1, VisibleIsLast
  <2>4. PICK g : Seen(g, long) /\ Visible(long) = g[n + 1]
    BY <2>2, VisibleIsLast
  <2>5. f[n] \in Seq(Bytes)
    BY <2>1, <2>3 DEF Seen
  <2>6. f[n] = g[n]
    <3>1. f[0] = g[0]
      BY <2>3, <2>4 DEF Seen
    <3>2. ASSUME NEW m \in 1 .. n, f[m - 1] = g[m - 1] PROVE f[m] = g[m]
      <4>1. m \in 1 .. Len(s) /\ m \in 1 .. Len(long) /\ long[m] = s[m]
        BY <2>1, <2>2
      <4>2. f[m] = IF s[m] \in Blanks THEN f[m - 1] ELSE Append(f[m - 1], s[m])
        BY <2>3, <4>1 DEF Seen
      <4>3. g[m] = IF long[m] \in Blanks THEN g[m - 1] ELSE Append(g[m - 1], long[m])
        BY <2>4, <4>1 DEF Seen
      <4> QED  BY <3>2, <4>1, <4>2, <4>3
    <3> QED  BY <2>2, <3>1, <3>2, LoopsAgree
  <2>7. g[n + 1] = IF b \in Blanks THEN g[n] ELSE Append(g[n], b)
    <3>1. n + 1 \in 1 .. Len(long) /\ (n + 1) - 1 = n
      BY <2>2
    <3> QED  BY <2>2, <2>4, <3>1 DEF Seen
  <2> QED  BY <2>1, <2>3, <2>4, <2>5, <2>6, <2>7
<1> QED  BY <1>1, <1>2

(***************************************************************************)
(* What is visible of two runs of bytes is visible of each of them, and all*)
(* of a word is.                                                           *)
(***************************************************************************)
LEMMA VisibleConcat ==
    /\ \A s, t \in Seq(Bytes) : Visible(s \o t) = Visible(s) \o Visible(t)
    /\ \A s \in Seq(Bytes \ Blanks) : Visible(s) = s
<1>1. ASSUME NEW s \in Seq(Bytes), NEW t \in Seq(Bytes)
      PROVE  Visible(s \o t) = Visible(s) \o Visible(t)
  <2> DEFINE P == {u \in Seq(Bytes) : Visible(s \o u) = Visible(s) \o Visible(u)}
  <2>1. <<>> \in P
    <3>1. s \o <<>> = s /\ Visible(s) \o <<>> = Visible(s)
      BY VisibleAppend
    <3> QED  BY <3>1, VisibleAppend
  <2>2. ASSUME NEW u \in Seq(Bytes), NEW b \in Bytes, u \in P PROVE Append(u, b) \in P
    <3>1. s \o u \in Seq(Bytes) /\ s \o Append(u, b) = Append(s \o u, b)
      OBVIOUS
    <3>2. Visible(s) \in Seq(Bytes) /\ Visible(u) \in Seq(Bytes)
      BY VisibleAppend
    <3>3. Visible(s) \o Append(Visible(u), b) = Append(Visible(s) \o Visible(u), b)
      BY <3>2
    <3>4. Visible(Append(u, b)) = IF b \in Blanks THEN Visible(u) ELSE Append(Visible(u), b)
      BY VisibleAppend
    <3>5. Visible(Append(s \o u, b)) = IF b \in Blanks THEN Visible(s \o u)
                                       ELSE Append(Visible(s \o u), b)
      BY <3>1, VisibleAppend
    <3>6. Append(u, b) \in Seq(Bytes)
      OBVIOUS
    <3> QED  BY <2>2, <3>1, <3>3, <3>4, <3>5, <3>6
  <2>3. \A u \in Seq(Bytes) : u \in P
    <3> HIDE DEF P
    <3> QED  BY <2>1, <2>2, AllSequences
  <2> QED  BY <2>3
<1>2. ASSUME NEW s \in Seq(Bytes \ Blanks) PROVE Visible(s) = s
  <2> DEFINE S == Bytes \ Blanks
             P == {t \in Seq(S) : Visible(t) = t}
  <2>1. <<>> \in P
    BY VisibleAppend
  <2>2. ASSUME NEW t \in Seq(S), NEW b \in S, t \in P PROVE Append(t, b) \in P
    <3>1. t \in Seq(Bytes) /\ b \in Bytes /\ b \notin Blanks /\ Append(t, b) \in Seq(S)
      OBVIOUS
    <3> QED  BY <2>2, <3>1, VisibleAppend
  <2>3. \A t \in Seq(S) : t \in P
    <3> HIDE DEF P
    <3> QED  BY <2>1, <2>2, AllSequences
  <2> QED  BY <2>3
<1> QED  BY <1>1, <1>2

(***************************************************************************)
(* The states of the loop of FlattenSeq over sequences of elements of S.   *)
(***************************************************************************)
Flattened(f, ss, S) ==
    /\ f[0] = <<>>
    /\ \A m \in 0 .. Len(ss) : f[m] \in Seq(S)
    /\ \A m \in 1 .. Len(ss) : f[m] = f[m - 1] \o ss[m]

(***************************************************************************)
(* FlattenSeq is the last of them.                                         *)
(***************************************************************************)
LEMMA FlattenIsLast ==
    ASSUME NEW S, NEW ss \in Seq(Seq(S))
    PROVE  \E f : Flattened(f, ss, S) /\ FlattenSeq(ss) = f[Len(ss)]
<1> DEFINE n == Len(ss)
           A == Seq(S)
           step == [m \in 1 .. n |-> [t \in A |-> t \o ss[m]]]
<1>1. n \in Nat /\ <<>> \in A
  OBVIOUS
<1>2. \A m \in 1 .. n : \A t \in A : step[m][t] \in A
  OBVIOUS
<1>3. PICK g : Loop(g, A, <<>>, step, n)
  <2> HIDE DEF A, n, step
  <2> QED  BY <1>1, <1>2, LoopRuns
<1>4. Flattened(g, ss, S)
  <2>1. \A m \in 1 .. n : m - 1 \in 0 .. n
    BY <1>1
  <2>2. \A m \in 0 .. n : g[m] \in A
    BY <1>3 DEF Loop
  <2>3. \A m \in 1 .. n : g[m] = step[m][g[m - 1]]
    BY <1>3 DEF Loop
  <2>4. g[0] = <<>>
    BY <1>3 DEF Loop
  <2> QED  BY <2>1, <2>2, <2>3, <2>4 DEF Flattened
<1>5. CASE n = 0
  <2>1. FlattenSeq(ss) = ss /\ ss = <<>>
    BY <1>5 DEF FlattenSeq
  <2> QED  BY <1>4, <1>5, <2>1 DEF Flattened
<1>6. CASE n # 0
  <2> DEFINE Equation(f) == f = [m \in 1 .. n |-> IF m = 1 THEN ss[m] ELSE f[m - 1] \o ss[m]]
             flatten == CHOOSE f : Equation(f)
             short == [m \in 1 .. n |-> g[m]]
  <2>1. Equation(short)
    <3>1. \A m \in 1 .. n : g[m] = IF m = 1 THEN ss[m] ELSE g[m - 1] \o ss[m]
      <4>1. ASSUME 1 \in 1 .. n PROVE g[1] = ss[1]
        <5>1. ss[1] \in Seq(S)
          BY <4>1
        <5>2. 1 \in 1 .. Len(ss) /\ 1 - 1 = 0
          BY <4>1
        <5>3. g[1] = g[0] \o ss[1] /\ g[0] = <<>>
          BY <1>4, <5>2 DEF Flattened
        <5> QED  BY <5>1, <5>3
      <4>2. \A m \in 1 .. n : g[m] = g[m - 1] \o ss[m]
        BY <1>4 DEF Flattened
      <4> HIDE DEF n
      <4> QED  BY <4>1, <4>2
    <3>2. \A m \in 1 .. n : m = 1 \/ m - 1 \in 1 .. n
      BY <1>1
    <3> HIDE DEF n
    <3> QED  BY <3>1, <3>2
  <2>2. Equation(flatten)
    <3> HIDE DEF Equation, short
    <3> QED  BY <2>1
  <2>3. FlattenSeq(ss) = flatten[n]
    BY <1>6, ZenonT(30) DEF FlattenSeq
  <2>4. PICK h : h = flatten
    OBVIOUS
  <2>5. h[n] = g[n]
    <3>1. Equation(h)
      <4> HIDE DEF Equation
      <4> QED  BY <2>2, <2>4
    <3> DEFINE h0 == [m \in 0 .. n |-> IF m = 0 THEN <<>> ELSE h[m]]
    <3>2. h0[0] = g[0]
      BY <1>1, <1>4 DEF Flattened
    <3>3. ASSUME NEW m \in 1 .. n, h0[m - 1] = g[m - 1] PROVE h0[m] = g[m]
      <4>1. m \in 0 .. n /\ m # 0 /\ m - 1 \in 0 .. n /\ (m - 1 = 0 <=> m = 1)
        BY <1>1
      <4>2. h[m] = IF m = 1 THEN ss[m] ELSE h[m - 1] \o ss[m]
        <5> HIDE DEF n
        <5> QED  BY <3>1
      <4>3. g[m] = IF m = 1 THEN ss[m] ELSE g[m - 1] \o ss[m]
        <5>1. \A k \in 1 .. n : short[k] = IF k = 1 THEN ss[k] ELSE short[k - 1] \o ss[k]
          <6> HIDE DEF n, short
          <6> QED  BY <2>1
        <5>2. m = 1 \/ m - 1 \in 1 .. n
          BY <1>1
        <5> HIDE DEF n
        <5> QED  BY <5>1, <5>2
      <4>4. h0[m] = h[m] /\ (m # 1 => h0[m - 1] = h[m - 1])
        <5> HIDE DEF n
        <5> QED  BY <4>1
      <4> HIDE DEF n, h0
      <4> QED  BY <3>3, <4>2, <4>3, <4>4
    <3>4. h0[n] = g[n]
      <4> HIDE DEF n, Equation, h0
      <4> QED  BY <1>1, <3>2, <3>3, LoopsAgree
    <3>5. n \in 0 .. n /\ h0[n] = h[n]
      BY <1>1, <1>6
    <3> QED  BY <3>4, <3>5
  <2> QED  BY <1>4, <2>3, <2>4, <2>5
<1> QED  BY <1>5, <1>6

(***************************************************************************)
(* One sequence more.                                                      *)
(***************************************************************************)
LEMMA FlattenAppend ==
    ASSUME NEW S
    PROVE  /\ FlattenSeq(<<>>) = <<>>
           /\ \A ss \in Seq(Seq(S)), s \in Seq(S) :
                 /\ FlattenSeq(ss) \in Seq(S)
                 /\ FlattenSeq(Append(ss, s)) = FlattenSeq(ss) \o s
<1>1. FlattenSeq(<<>>) = <<>>
  BY DEF FlattenSeq
<1>2. ASSUME NEW ss \in Seq(Seq(S)), NEW s \in Seq(S)
      PROVE  /\ FlattenSeq(ss) \in Seq(S)
             /\ FlattenSeq(Append(ss, s)) = FlattenSeq(ss) \o s
  <2>1. PICK n, long : n = Len(ss) /\ long = Append(ss, s)
    OBVIOUS
  <2>2. /\ n \in Nat /\ long \in Seq(Seq(S)) /\ Len(long) = n + 1 /\ long[n + 1] = s
        /\ \A m \in 1 .. n : long[m] = ss[m]
    BY <2>1
  <2>3. PICK f : Flattened(f, ss, S) /\ FlattenSeq(ss) = f[n]
    BY <2>1, FlattenIsLast
  <2>4. PICK g : Flattened(g, long, S) /\ FlattenSeq(long) = g[n + 1]
    BY <2>2, FlattenIsLast
  <2>5. f[n] \in Seq(S)
    BY <2>1, <2>2, <2>3 DEF Flattened
  <2>6. f[n] = g[n]
    <3>1. f[0] = g[0]
      BY <2>3, <2>4 DEF Flattened
    <3>2. ASSUME NEW m \in 1 .. n, f[m - 1] = g[m - 1] PROVE f[m] = g[m]
      <4>1. m \in 1 .. Len(ss) /\ m \in 1 .. Len(long) /\ long[m] = ss[m]
        BY <2>1, <2>2
      <4>2. f[m] = f[m - 1] \o ss[m] /\ g[m] = g[m - 1] \o long[m]
        BY <2>3, <2>4, <4>1 DEF Flattened
      <4> QED  BY <3>2, <4>1, <4>2
    <3> QED  BY <2>2, <3>1, <3>2, LoopsAgree
  <2>7. g[n + 1] = g[n] \o s
    <3>1. n + 1 \in 1 .. Len(long) /\ (n + 1) - 1 = n
      BY <2>2
    <3> QED  BY <2>2, <2>4, <3>1 DEF Flattened
  <2> QED  BY <2>1, <2>3, <2>4, <2>5, <2>6, <2>7
<1> QED  BY <1>1, <1>2

(***************************************************************************)
(* Of two sequences of sequences.                                          *)
(***************************************************************************)
LEMMA FlattenConcat ==
    ASSUME NEW S
    PROVE  /\ \A s \in Seq(S) : FlattenSeq(<<s>>) = s
           /\ \A u, v \in Seq(Seq(S)) : FlattenSeq(u \o v) = FlattenSeq(u) \o FlattenSeq(v)
<1>1. ASSUME NEW s \in Seq(S) PROVE FlattenSeq(<<s>>) = s
  <2>1. <<>> \in Seq(Seq(S)) /\ Append(<<>>, s) = <<s>> /\ <<>> \o s = s
    OBVIOUS
  <2> QED  BY <2>1, FlattenAppend
<1>2. ASSUME NEW u \in Seq(Seq(S)), NEW v \in Seq(Seq(S))
      PROVE  FlattenSeq(u \o v) = FlattenSeq(u) \o FlattenSeq(v)
  <2> DEFINE P == {w \in Seq(Seq(S)) : FlattenSeq(u \o w) = FlattenSeq(u) \o FlattenSeq(w)}
  <2>1. <<>> \in P
    <3>1. FlattenSeq(u) \in Seq(S) /\ FlattenSeq(<<>>) = <<>>
      BY FlattenAppend
    <3>2. u \o <<>> = u /\ FlattenSeq(u) \o <<>> = FlattenSeq(u)
      BY <3>1
    <3> QED  BY <3>1, <3>2
  <2>2. ASSUME NEW w \in Seq(Seq(S)), NEW s \in Seq(S), w \in P PROVE Append(w, s) \in P
    <3>1. /\ u \o w \in Seq(Seq(S)) /\ u \o Append(w, s) = Append(u \o w, s)
          /\ Append(w, s) \in Seq(Seq(S))
      OBVIOUS
    <3>2. FlattenSeq(u) \in Seq(S) /\ FlattenSeq(w) \in Seq(S)
      BY FlattenAppend
    <3>3. /\ FlattenSeq(Append(u \o w, s)) = FlattenSeq(u \o w) \o s
          /\ FlattenSeq(Append(w, s)) = FlattenSeq(w) \o s
      BY <3>1, FlattenAppend
    <3>4. (FlattenSeq(u) \o FlattenSeq(w)) \o s = FlattenSeq(u) \o (FlattenSeq(w) \o s)
      BY <3>2
    <3> QED  BY <2>2, <3>1, <3>3, <3>4
  <2>3. \A w \in Seq(Seq(S)) : w \in P
    <3> HIDE DEF P
    <3> QED  BY <2>1, <2>2, AllSequences
  <2> QED  BY <2>3
<1> QED  BY <1>1, <1>2

-----------------------------------------------------------------------------
(***************************************************************************)
(* The first byte of some set, from a place on.                            *)
(***************************************************************************)
LEMMA FirstMeans ==
    ASSUME NEW S, NEW s \in Seq(Bytes), NEW i \in 1 .. Len(s) + 1
    PROVE  /\ FirstOf(S, s, i) \in i .. Len(s) + 1
           /\ FirstOf(S, s, i) <= Len(s) => s[FirstOf(S, s, i)] \in S
           /\ \A j \in i .. FirstOf(S, s, i) - 1 : s[j] \notin S
<1> DEFINE T == {j \in i .. Len(s) : s[j] \in S} \cup {Len(s) + 1}
<1>1. T \in SUBSET Nat /\ T # {} /\ T \subseteq i .. Len(s) + 1
  OBVIOUS
<1>2. PICK m \in T : \A k \in T : m <= k
  <2> HIDE DEF T
  <2> QED  BY <1>1, LeastNat
<1>3. FirstOf(S, s, i) \in T /\ \A k \in T : FirstOf(S, s, i) <= k
  <2>1. FirstOf(S, s, i) = CHOOSE x \in T : \A y \in T : x <= y
    BY DEF FirstOf, Min
  <2> HIDE DEF T
  <2> QED  BY <1>2, <2>1
<1>4. PICK f : f = FirstOf(S, s, i)
  OBVIOUS
<1>5. f \in i .. Len(s) + 1 /\ (f <= Len(s) => s[f] \in S)
  BY <1>3, <1>4
<1>6. ASSUME NEW j \in i .. f - 1 PROVE s[j] \notin S
  <2>1. j \in i .. Len(s) /\ ~ (f <= j)
    BY <1>5
  <2> QED  BY <1>3, <1>4, <2>1
<1> QED  BY <1>4, <1>5, <1>6

(***************************************************************************)
(* There is only one first.                                                *)
(***************************************************************************)
LEMMA FirstIs ==
    ASSUME NEW S, NEW s \in Seq(Bytes), NEW i \in 1 .. Len(s) + 1,
           NEW f \in i .. Len(s) + 1,
           f <= Len(s) => s[f] \in S,
           \A j \in i .. f - 1 : s[j] \notin S
    PROVE  FirstOf(S, s, i) = f
<1>1. PICK g : g = FirstOf(S, s, i)
  OBVIOUS
<1>2. /\ g \in i .. Len(s) + 1 /\ (g <= Len(s) => s[g] \in S)
      /\ \A j \in i .. g - 1 : s[j] \notin S
  BY <1>1, FirstMeans
<1>3. CASE g < f
  <2>1. g <= Len(s) /\ g \in i .. f - 1
    BY <1>2, <1>3
  <2> QED  BY <1>2, <2>1
<1>4. CASE f < g
  <2>1. f <= Len(s) /\ f \in i .. g - 1
    BY <1>2, <1>4
  <2> QED  BY <1>2, <2>1
<1> QED  BY <1>1, <1>2, <1>3, <1>4

(***************************************************************************)
(* A part ends where it starts, or behind, and within the bytes.           *)
(***************************************************************************)
LEMMA PartWithin ==
    ASSUME NEW s \in Seq(Bytes), NEW i \in 1 .. Len(s), s[i] \notin Blanks
    PROVE  EndOfPart(s, i) \in i .. Len(s)
<1>1. PICK closing, blank : closing = FirstOf({"quote"}, s, i + 1) /\ blank = FirstOf(Blanks, s, i)
  OBVIOUS
<1>2. EndOfPart(s, i) = IF s[i] = "quote" /\ closing <= Len(s) THEN closing ELSE blank - 1
  BY <1>1 DEF EndOfPart
<1>3. closing \in i + 1 .. Len(s) + 1
  <2>1. i + 1 \in 1 .. Len(s) + 1
    OBVIOUS
  <2> QED  BY <1>1, <2>1, FirstMeans
<1>4. blank \in i .. Len(s) + 1 /\ (blank <= Len(s) => s[blank] \in Blanks)
  <2>1. i \in 1 .. Len(s) + 1
    OBVIOUS
  <2> QED  BY <1>1, <2>1, FirstMeans
<1>5. blank # i
  BY <1>4
<1> QED  BY <1>2, <1>3, <1>4, <1>5

(***************************************************************************)
(* A part without its quotes is some of its bytes, and one without quotes  *)
(* stays as it is.                                                         *)
(***************************************************************************)
LEMMA UnquotedKeeps ==
    ASSUME NEW s \in Seq(Bytes)
    PROVE  /\ Unquoted(s) \in Seq(Bytes)
           /\ (\A i \in DOMAIN s : s[i] # "quote") => Unquoted(s) = s
<1> DEFINE kept == {i \in DOMAIN s : s[i] # "quote"}
           n == Len(s)
<1>1. kept \subseteq 1 .. n /\ n \in Nat
  OBVIOUS
<1>2. CASE kept = {}
  <2>1. Unquoted(s) = <<>>
    BY <1>2 DEF Unquoted
  <2>2. (\A i \in DOMAIN s : s[i] # "quote") => s = <<>>
    BY <1>2
  <2> QED  BY <2>1, <2>2
<1>3. CASE kept # {}
  <2>1. PICK a \in kept : \A k \in kept : a <= k
    <3> HIDE DEF kept, n
    <3>1. kept \in SUBSET Nat
      BY <1>1
    <3> QED  BY <1>3, <3>1, LeastNat
  <2>2. PICK b \in kept : \A k \in kept : b >= k
    <3> DEFINE R == {n - k : k \in kept}
    <3>1. R \in SUBSET Nat /\ R # {}
      <4> HIDE DEF kept
      <4> QED  BY <1>1, <1>3
    <3>2. PICK r \in R : \A q \in R : r <= q
      <4> HIDE DEF R
      <4> QED  BY <3>1, LeastNat
    <3>3. PICK b \in kept : r = n - b
      BY <3>2
    <3>4. ASSUME NEW k \in kept PROVE b >= k
      <4>1. n - k \in R
        OBVIOUS
      <4>2. n - b <= n - k
        BY <3>2, <3>3, <4>1
      <4>3. k \in Int /\ b \in Int
        BY <1>1
      <4> HIDE DEF kept, R
      <4> QED  BY <1>1, <4>2, <4>3
    <3> QED  BY <3>3, <3>4
  <2>3. PICK low, high : low = Min(kept) /\ high = Max(kept)
    OBVIOUS
  <2>4. low \in kept /\ \A k \in kept : low <= k
    <3> HIDE DEF kept
    <3> QED  BY <2>1, <2>3 DEF Min
  <2>5. high \in kept /\ \A k \in kept : high >= k
    <3> HIDE DEF kept
    <3> QED  BY <2>2, <2>3 DEF Max
  <2>6. Unquoted(s) = SubSeq(s, low, high)
    BY <1>3, <2>3 DEF Unquoted
  <2>7. low \in 1 .. n /\ high \in 1 .. n
    BY <1>1, <2>4, <2>5
  <2>8. SubSeq(s, low, high) \in Seq(Bytes)
    BY <2>7
  <2>9. ASSUME \A i \in DOMAIN s : s[i] # "quote" PROVE Unquoted(s) = s
    <3>1. kept = 1 .. n
      BY <2>9
    <3>2. low = 1 /\ high = n
      <4>1. 1 \in kept /\ n \in kept
        BY <2>7, <3>1
      <4> HIDE DEF kept, n
      <4> QED  BY <2>4, <2>5, <2>7, <4>1
    <3> QED  BY <2>6, <3>2
  <2> QED  BY <2>6, <2>8, <2>9
<1> QED  BY <1>2, <1>3

(***************************************************************************)
(* The parts of s from each place on: part[i] is the one that starts at i, *)
(* and next[i] the place behind it.                                        *)
(***************************************************************************)
Split(f, s, part, next, a) ==
    /\ f \in [a .. Len(s) + 1 -> Seq(Seq(Bytes))] /\ f[Len(s) + 1] = <<>>
    /\ \A i \in a .. Len(s) :
          f[i] = IF s[i] \in Blanks THEN f[i + 1] ELSE <<part[i]>> \o f[next[i]]

(***************************************************************************)
(* There are such parts.                                                   *)
(***************************************************************************)
LEMMA SplitRuns ==
    ASSUME NEW s \in Seq(Bytes), NEW part, NEW next,
           \A i \in 1 .. Len(s) : s[i] \notin Blanks =>
               part[i] \in Seq(Bytes) /\ next[i] \in i + 1 .. Len(s) + 1
    PROVE  \E f : Split(f, s, part, next, 1)
<1> DEFINE n == Len(s)
           P == {k \in Nat : \E f : Split(f, s, part, next, (n + 1) - k)}
<1>1. n \in Nat
  OBVIOUS
<1>2. 0 \in P
  <2>1. (n + 1) - 0 = n + 1 /\ n + 1 .. n + 1 = {n + 1} /\ n + 1 .. n = {}
    BY <1>1
  <2>2. Split([i \in n + 1 .. n + 1 |-> <<>>], s, part, next, n + 1)
    BY <2>1 DEF Split
  <2> QED  BY <2>1, <2>2
<1>3. ASSUME NEW k \in 0 .. n - 1, k \in P PROVE k + 1 \in P
  <2>1. PICK f : Split(f, s, part, next, (n + 1) - k)
    BY <1>3
  <2>2. PICK a : a = n - k
    OBVIOUS
  <2>3. a \in 1 .. n /\ (n + 1) - k = a + 1 /\ (n + 1) - (k + 1) = a
    BY <1>1, <2>2
  <2>4. /\ f \in [a + 1 .. n + 1 -> Seq(Seq(Bytes))] /\ f[n + 1] = <<>>
        /\ \A i \in a + 1 .. n :
              f[i] = IF s[i] \in Blanks THEN f[i + 1] ELSE <<part[i]>> \o f[next[i]]
    BY <2>1, <2>3 DEF Split
  <2>5. s[a] \notin Blanks => part[a] \in Seq(Bytes) /\ next[a] \in a + 1 .. n + 1
    BY <2>3
  <2>6. PICK new : new = IF s[a] \in Blanks THEN f[a + 1] ELSE <<part[a]>> \o f[next[a]]
    OBVIOUS
  <2>7. new \in Seq(Seq(Bytes))
    <3>1. a + 1 \in a + 1 .. n + 1
      BY <1>1, <2>3
    <3> HIDE DEF n
    <3>2. f[a + 1] \in Seq(Seq(Bytes))
      BY <2>4, <3>1
    <3>3. s[a] \notin Blanks => <<part[a]>> \in Seq(Seq(Bytes)) /\ f[next[a]] \in Seq(Seq(Bytes))
      BY <2>4, <2>5
    <3> QED  BY <2>6, <3>2, <3>3
  <2> DEFINE longer == [i \in a .. n + 1 |-> IF i = a THEN new ELSE f[i]]
  <2>8. \A i \in a .. n + 1 : i = a \/ i \in a + 1 .. n + 1
    BY <1>1, <2>3
  <2>9. longer \in [a .. n + 1 -> Seq(Seq(Bytes))]
    <3> HIDE DEF n
    <3> QED  BY <2>4, <2>7, <2>8
  <2>10. longer[n + 1] = <<>>
    <3>1. n + 1 \in a .. n + 1 /\ n + 1 # a
      BY <1>1, <2>3
    <3> HIDE DEF n
    <3> QED  BY <2>4, <3>1
  <2>11. ASSUME NEW i \in a .. n
         PROVE  longer[i] = IF s[i] \in Blanks THEN longer[i + 1] ELSE <<part[i]>> \o longer[next[i]]
    <3>1. i \in a .. n + 1 /\ i + 1 \in a .. n + 1 /\ i + 1 # a /\ i \in 1 .. n
      BY <1>1, <2>3
    <3>2. s[i] \notin Blanks => next[i] \in a .. n + 1 /\ next[i] # a
      <4>1. s[i] \notin Blanks => next[i] \in i + 1 .. n + 1
        BY <3>1
      <4> QED  BY <1>1, <2>3, <4>1
    <3>3. longer[i] = IF s[i] \in Blanks THEN f[i + 1] ELSE <<part[i]>> \o f[next[i]]
      <4>1. CASE i = a
        BY <2>6, <3>1, <4>1
      <4>2. CASE i # a
        <5>1. i \in a + 1 .. n
          BY <1>1, <2>3, <4>2
        <5> HIDE DEF n
        <5> QED  BY <2>4, <3>1, <4>2, <5>1
      <4> QED  BY <4>1, <4>2
    <3>4. longer[i + 1] = f[i + 1] /\ (s[i] \notin Blanks => longer[next[i]] = f[next[i]])
      <4> HIDE DEF n
      <4> QED  BY <3>1, <3>2
    <3> HIDE DEF longer, n
    <3> QED  BY <3>3, <3>4
  <2>12. Split(longer, s, part, next, a)
    <3> HIDE DEF longer
    <3> QED  BY <2>9, <2>10, <2>11 DEF Split
  <2>13. k + 1 \in Nat
    OBVIOUS
  <2> HIDE DEF longer, n
  <2> QED  BY <2>3, <2>12, <2>13
<1>4. n \in P
  <2>1. \A m \in 0 .. n : m \in P
    <3> HIDE DEF P, n
    <3> QED  BY <1>1, <1>2, <1>3, AllUpTo
  <2> HIDE DEF P
  <2> QED  BY <1>1, <2>1
<1>5. (n + 1) - n = 1
  BY <1>1
<1> HIDE DEF n
<1> QED  BY <1>4, <1>5

(***************************************************************************)
(* The parts that ParseCommand finds in s from each place on.              *)
(***************************************************************************)
Parsed(f, s) ==
    Split(f, s, [i \in 1 .. Len(s) |-> Unquoted(SubSeq(s, i, EndOfPart(s, i)))],
                [i \in 1 .. Len(s) |-> EndOfPart(s, i) + 1], 1)

(***************************************************************************)
(* What that is, written out.                                              *)
(***************************************************************************)
LEMMA ParsedMeans ==
    ASSUME NEW s \in Seq(Bytes), NEW f, Parsed(f, s)
    PROVE  /\ f \in [1 .. Len(s) + 1 -> Seq(Seq(Bytes))] /\ f[Len(s) + 1] = <<>>
           /\ \A i \in 1 .. Len(s) :
                 f[i] = IF s[i] \in Blanks THEN f[i + 1]
                        ELSE <<Unquoted(SubSeq(s, i, EndOfPart(s, i)))>> \o f[EndOfPart(s, i) + 1]
BY DEF Parsed, Split

(***************************************************************************)
(* ParseCommand takes them from the first place on.                        *)
(***************************************************************************)
LEMMA ParseIsFirst ==
    ASSUME NEW s \in Seq(Bytes)
    PROVE  \E f : Parsed(f, s) /\ ParseCommand(s) = f[1]
<1> DEFINE n == Len(s)
           part == [i \in 1 .. n |-> Unquoted(SubSeq(s, i, EndOfPart(s, i)))]
           next == [i \in 1 .. n |-> EndOfPart(s, i) + 1]
<1>1. n \in Nat
  OBVIOUS
<1>2. ASSUME NEW i \in 1 .. n, s[i] \notin Blanks
      PROVE  part[i] \in Seq(Bytes) /\ next[i] \in i + 1 .. n + 1
  <2>1. PICK e : e = EndOfPart(s, i)
    OBVIOUS
  <2>2. e \in i .. n
    BY <1>2, <2>1, PartWithin
  <2>3. SubSeq(s, i, e) \in Seq(Bytes)
    BY <2>2
  <2>4. part[i] \in Seq(Bytes)
    BY <2>1, <2>3, UnquotedKeeps
  <2> QED  BY <1>1, <2>1, <2>2, <2>4
<1>3. PICK g : Split(g, s, part, next, 1)
  <2> HIDE DEF part, next
  <2> QED  BY <1>2, SplitRuns
<1>4. Parsed(g, s)
  BY <1>3 DEF Parsed
<1> DEFINE Equation(f) == f = [i \in 1 .. n + 1 |->
                                  IF i > n THEN <<>>
                                  ELSE IF s[i] \in Blanks THEN f[i + 1]
                                  ELSE <<Unquoted(SubSeq(s, i, EndOfPart(s, i)))>>
                                           \o f[EndOfPart(s, i) + 1]]
           from == CHOOSE f : Equation(f)
<1>5. Equation(g)
  <2>1. g = [i \in 1 .. n + 1 |-> g[i]]
    BY <1>4, ParsedMeans
  <2>2. g[n + 1] = <<>> /\ \A i \in 1 .. n :
            g[i] = IF s[i] \in Blanks THEN g[i + 1]
                   ELSE <<Unquoted(SubSeq(s, i, EndOfPart(s, i)))>> \o g[EndOfPart(s, i) + 1]
    BY <1>4, ParsedMeans
  <2>3. \A i \in 1 .. n + 1 : IF i > n THEN i = n + 1 ELSE i \in 1 .. n
    BY <1>1
  <2> HIDE DEF n
  <2> QED  BY <2>1, <2>2, <2>3
<1>6. Equation(from)
  <2> HIDE DEF Equation
  <2> QED  BY <1>5
<1>7. ParseCommand(s) = from[1]
  BY DEF ParseCommand
<1>8. PICK h : h = from
  OBVIOUS
<1>9. h[1] = g[1]
  <2>1. Equation(h)
    BY <1>6, <1>8
  <2>2. n + 1 \in 1 .. n + 1 /\ n + 1 > n
    BY <1>1
  <2>3. h[n + 1] = g[n + 1]
    <3> HIDE DEF n
    <3> QED  BY <1>5, <2>1, <2>2
  <2>4. ASSUME NEW i \in 1 .. n,
               IF s[i] \in Blanks THEN h[i + 1] = g[i + 1] ELSE h[next[i]] = g[next[i]]
        PROVE  h[i] = g[i]
    <3>1. i \in 1 .. n + 1 /\ ~ (i > n)
      BY <1>1
    <3>2. s[i] \notin Blanks => h[EndOfPart(s, i) + 1] = g[EndOfPart(s, i) + 1]
      BY <2>4
    <3> HIDE DEF n, next
    <3> QED  BY <1>5, <2>1, <2>4, <3>1, <3>2
  <2>5. \A i \in 1 .. n : s[i] \notin Blanks => next[i] \in i + 1 .. n + 1
    BY <1>2
  <2>6. \A i \in 1 .. n + 1 : h[i] = g[i]
    <3>1. PICK k, nx : k = n /\ nx = next
      OBVIOUS
    <3>2. k \in Nat /\ h[k + 1] = g[k + 1]
      BY <1>1, <2>3, <3>1
    <3>3. \A i \in 1 .. k : s[i] \notin Blanks => nx[i] \in i + 1 .. k + 1
      BY <2>5, <3>1
    <3>4. \A i \in 1 .. k : s[i] \in Blanks /\ h[i + 1] = g[i + 1] => h[i] = g[i]
      <4> HIDE DEF n, next
      <4> QED  BY <2>4, <3>1
    <3>5. \A i \in 1 .. k : s[i] \notin Blanks /\ h[nx[i]] = g[nx[i]] => h[i] = g[i]
      <4> HIDE DEF n, next
      <4> QED  BY <2>4, <3>1
    <3>6. \A i \in 1 .. k + 1 : h[i] = g[i]
      <4> DEFINE P == {i \in 1 .. k + 1 : h[i] = g[i]}
      <4>1. ASSUME NEW i \in 1 .. k + 1, \A m \in i + 1 .. k + 1 : m \in P PROVE i \in P
        <5>1. CASE i = k + 1
          BY <3>2, <5>1
        <5>2. CASE i # k + 1
          <6>1. i \in 1 .. k /\ i + 1 \in i + 1 .. k + 1
            BY <3>2, <5>2
          <6>2. h[i + 1] = g[i + 1]
            BY <4>1, <6>1
          <6>3. s[i] \notin Blanks => h[nx[i]] = g[nx[i]]
            BY <3>3, <4>1, <6>1
          <6> QED  BY <3>4, <3>5, <6>1, <6>2, <6>3
        <5> QED  BY <5>1, <5>2
      <4>2. k + 1 \in Nat
        BY <3>2
      <4>3. \A i \in 1 .. k + 1 : i \in P
        <5> HIDE DEF P
        <5> QED  BY <4>1, <4>2, AllDownFrom
      <4> QED  BY <4>3
    <3> QED  BY <3>1, <3>6
  <2>7. 1 \in 1 .. n + 1
    BY <1>1
  <2> HIDE DEF n
  <2> QED  BY <2>6, <2>7
<1> QED  BY <1>4, <1>7, <1>8, <1>9

(***************************************************************************)
(* What ParseCommand returns are sequences of bytes.                       *)
(***************************************************************************)
LEMMA ParseType ==
    ASSUME NEW s \in Seq(Bytes)
    PROVE  ParseCommand(s) \in Seq(Seq(Bytes))
<1>1. PICK f : Parsed(f, s) /\ ParseCommand(s) = f[1]
  BY ParseIsFirst
<1>2. f \in [1 .. Len(s) + 1 -> Seq(Seq(Bytes))] /\ 1 \in 1 .. Len(s) + 1
  BY <1>1, ParsedMeans
<1> QED  BY <1>1, <1>2

(***************************************************************************)
(* A newline at the end changes nothing for ParseCommand.                  *)
(***************************************************************************)
LEMMA ParseNewline ==
    ASSUME NEW s \in Seq(Bytes)
    PROVE  ParseCommand(Append(s, "newline")) = ParseCommand(s)
<1>1. PICK n, t : n = Len(s) /\ t = Append(s, "newline")
  OBVIOUS
<1>2. /\ n \in Nat /\ t \in Seq(Bytes) /\ Len(t) = n + 1 /\ t[n + 1] = "newline"
      /\ \A i \in 1 .. n : t[i] = s[i]
  <2>1. "newline" \in Bytes
    BY DEF Bytes, Blanks
  <2> QED  BY <1>1, <2>1
<1>3. PICK f : Parsed(f, s) /\ ParseCommand(s) = f[1]
  BY ParseIsFirst
<1>4. PICK g : Parsed(g, t) /\ ParseCommand(t) = g[1]
  BY <1>2, ParseIsFirst
<1>5. ASSUME NEW i \in 1 .. n, s[i] \notin Blanks
      PROVE  EndOfPart(t, i) = EndOfPart(s, i) /\ EndOfPart(s, i) \in i .. n
  <2>1. PICK closing : closing = FirstOf({"quote"}, s, i + 1)
    OBVIOUS
  <2>2. /\ closing \in i + 1 .. n + 1 /\ (closing <= n => s[closing] = "quote")
        /\ \A j \in i + 1 .. closing - 1 : s[j] # "quote"
    <3>1. i + 1 \in 1 .. Len(s) + 1
      BY <1>1, <1>2
    <3> QED  BY <1>1, <2>1, <3>1, FirstMeans
  <2>3. IF closing <= n THEN FirstOf({"quote"}, t, i + 1) = closing
        ELSE FirstOf({"quote"}, t, i + 1) = n + 2
    <3>1. i + 1 \in 1 .. Len(t) + 1
      BY <1>2
    <3>2. CASE closing <= n
      <4>1. closing \in i + 1 .. Len(t) + 1 /\ t[closing] = "quote"
        BY <1>2, <2>2, <3>2
      <4>2. \A j \in i + 1 .. closing - 1 : t[j] \notin {"quote"}
        BY <1>2, <2>2, <3>2
      <4> QED  BY <1>2, <3>1, <3>2, <4>1, <4>2, FirstIs
    <3>3. CASE closing = n + 1
      <4>1. n + 2 \in i + 1 .. Len(t) + 1 /\ ~ (n + 2 <= Len(t))
        BY <1>2
      <4>2. \A j \in i + 1 .. (n + 2) - 1 : t[j] \notin {"quote"}
        BY <1>2, <2>2, <3>3
      <4>3. FirstOf({"quote"}, t, i + 1) = n + 2
        BY <1>2, <3>1, <4>1, <4>2, FirstIs
      <4> QED  BY <1>2, <3>3, <4>3
    <3> QED  BY <1>2, <2>2, <3>2, <3>3
  <2>4. PICK blank : blank = FirstOf(Blanks, s, i)
    OBVIOUS
  <2>5. /\ blank \in i .. n + 1 /\ (blank <= n => s[blank] \in Blanks)
        /\ \A j \in i .. blank - 1 : s[j] \notin Blanks
    <3>1. i \in 1 .. Len(s) + 1
      BY <1>1, <1>2
    <3> QED  BY <1>1, <2>4, <3>1, FirstMeans
  <2>6. FirstOf(Blanks, t, i) = blank
    <3>1. i \in 1 .. Len(t) + 1 /\ blank \in i .. Len(t) + 1
      BY <1>2, <2>5
    <3>2. t[blank] \in Blanks
      <4>1. blank \in 1 .. n \/ blank = n + 1
        BY <1>2, <2>5
      <4> QED  BY <1>2, <2>5, <4>1 DEF Blanks
    <3>3. \A j \in i .. blank - 1 : t[j] \notin Blanks
      BY <1>2, <2>5
    <3> QED  BY <1>2, <3>1, <3>2, <3>3, FirstIs
  <2>7. EndOfPart(s, i) = IF s[i] = "quote" /\ closing <= n THEN closing ELSE blank - 1
    BY <1>1, <2>1, <2>4 DEF EndOfPart
  <2>8. EndOfPart(t, i) = IF s[i] = "quote" /\ closing <= n THEN closing ELSE blank - 1
    <3>1. EndOfPart(t, i) = IF t[i] = "quote" /\ FirstOf({"quote"}, t, i + 1) <= Len(t)
                            THEN FirstOf({"quote"}, t, i + 1)
                            ELSE FirstOf(Blanks, t, i) - 1
      BY DEF EndOfPart
    <3>2. t[i] = s[i]
      BY <1>2
    <3>3. FirstOf({"quote"}, t, i + 1) <= Len(t) <=> closing <= n
      BY <1>2, <2>2, <2>3
    <3> QED  BY <2>3, <2>6, <3>1, <3>2, <3>3
  <2>9. EndOfPart(s, i) \in i .. n
    BY <1>1, <1>5, PartWithin
  <2> QED  BY <2>7, <2>8, <2>9
<1>6. f[n + 1] = <<>> /\ \A i \in 1 .. n :
          f[i] = IF s[i] \in Blanks THEN f[i + 1]
                 ELSE <<Unquoted(SubSeq(s, i, EndOfPart(s, i)))>> \o f[EndOfPart(s, i) + 1]
  BY <1>1, <1>3, ParsedMeans
<1>7. g[(n + 1) + 1] = <<>> /\ \A i \in 1 .. n + 1 :
          g[i] = IF t[i] \in Blanks THEN g[i + 1]
                 ELSE <<Unquoted(SubSeq(t, i, EndOfPart(t, i)))>> \o g[EndOfPart(t, i) + 1]
  <2>1. g[Len(t) + 1] = <<>> /\ \A i \in 1 .. Len(t) :
            g[i] = IF t[i] \in Blanks THEN g[i + 1]
                   ELSE <<Unquoted(SubSeq(t, i, EndOfPart(t, i)))>> \o g[EndOfPart(t, i) + 1]
    BY <1>2, <1>4, ParsedMeans
  <2> QED  BY <1>2, <2>1
<1>8. g[n + 1] = <<>>
  <2>1. n + 1 \in 1 .. n + 1 /\ t[n + 1] \in Blanks
    BY <1>2 DEF Blanks
  <2> QED  BY <1>7, <2>1
<1> DEFINE P == {i \in 1 .. n + 1 : f[i] = g[i]}
<1>9. ASSUME NEW i \in 1 .. n + 1, \A k \in i + 1 .. n + 1 : k \in P PROVE i \in P
  <2>1. CASE i = n + 1
    BY <1>6, <1>8, <2>1
  <2>2. CASE i # n + 1
    <3>1. i \in 1 .. n /\ i + 1 \in i + 1 .. n + 1 /\ t[i] = s[i]
      BY <1>2, <2>2
    <3>2. CASE s[i] \in Blanks
      <4>1. f[i + 1] = g[i + 1]
        BY <1>9, <3>1
      <4>2. f[i] = f[i + 1] /\ g[i] = g[i + 1]
        BY <1>6, <1>7, <3>1, <3>2
      <4> QED  BY <4>1, <4>2
    <3>3. CASE s[i] \notin Blanks
      <4>1. PICK e : e = EndOfPart(s, i)
        OBVIOUS
      <4>2. EndOfPart(t, i) = e /\ e \in i .. n
        BY <1>5, <3>1, <3>3, <4>1
      <4>3. e + 1 \in i + 1 .. n + 1
        BY <1>2, <4>2
      <4>4. f[e + 1] = g[e + 1]
        BY <1>9, <4>3
      <4>5. SubSeq(t, i, e) = SubSeq(s, i, e)
        <5>1. \A j \in 1 .. (e - i) + 1 : t[i + j - 1] = s[i + j - 1]
          BY <1>2, <3>1, <4>2
        <5>2. SubSeq(s, i, e) = [j \in 1 .. (e - i) + 1 |-> s[i + j - 1]]
          BY <1>1, <1>2, <3>1, <4>2
        <5>3. SubSeq(t, i, e) = [j \in 1 .. (e - i) + 1 |-> t[i + j - 1]]
          BY <1>2, <3>1, <4>2
        <5> QED  BY <5>1, <5>2, <5>3
      <4>6. f[i] = <<Unquoted(SubSeq(s, i, e))>> \o f[e + 1]
        BY <1>6, <3>1, <3>3, <4>1
      <4>7. g[i] = <<Unquoted(SubSeq(t, i, e))>> \o g[e + 1]
        BY <1>7, <3>1, <3>3, <4>2
      <4> QED  BY <4>4, <4>5, <4>6, <4>7
    <3> QED  BY <3>2, <3>3
  <2> QED  BY <2>1, <2>2
<1>10. 1 \in P
  <2>1. n + 1 \in Nat /\ 1 \in 1 .. n + 1
    BY <1>2
  <2>2. \A i \in 1 .. n + 1 : i \in P
    <3> HIDE DEF P
    <3> QED  BY <1>9, <2>1, AllDownFrom
  <2> HIDE DEF P
  <2> QED  BY <2>1, <2>2
<1> QED  BY <1>1, <1>3, <1>4, <1>10

(***************************************************************************)
(* Without quotes, ParseCommand loses no byte of a word.                   *)
(***************************************************************************)
LEMMA ParseVisible ==
    ASSUME NEW s \in Seq(Bytes \ {"quote"})
    PROVE  FlattenSeq(ParseCommand(s)) = Visible(s)
<1>1. PICK n : n = Len(s)
  OBVIOUS
<1>2. n \in Nat /\ s \in Seq(Bytes) /\ \A i \in 1 .. n : s[i] \in Bytes /\ s[i] # "quote"
  BY <1>1
<1>3. PICK f : Parsed(f, s) /\ ParseCommand(s) = f[1]
  BY <1>2, ParseIsFirst
<1>4. /\ \A i \in 1 .. n + 1 : f[i] \in Seq(Seq(Bytes))
      /\ f[n + 1] = <<>>
      /\ \A i \in 1 .. n :
            f[i] = IF s[i] \in Blanks THEN f[i + 1]
                   ELSE <<Unquoted(SubSeq(s, i, EndOfPart(s, i)))>> \o f[EndOfPart(s, i) + 1]
  <2>1. /\ f \in [1 .. Len(s) + 1 -> Seq(Seq(Bytes))] /\ f[Len(s) + 1] = <<>>
        /\ \A i \in 1 .. Len(s) :
              f[i] = IF s[i] \in Blanks THEN f[i + 1]
                     ELSE <<Unquoted(SubSeq(s, i, EndOfPart(s, i)))>> \o f[EndOfPart(s, i) + 1]
    BY <1>2, <1>3, ParsedMeans
  <2> QED  BY <1>1, <2>1
<1>5. ASSUME NEW i \in 1 .. n, NEW e \in i .. n
      PROVE  /\ SubSeq(s, i, n) = SubSeq(s, i, e) \o SubSeq(s, e + 1, n)
             /\ SubSeq(s, i, e) \in Seq(Bytes) /\ SubSeq(s, e + 1, n) \in Seq(Bytes)
             /\ Len(SubSeq(s, i, e)) = (e - i) + 1
             /\ \A j \in 1 .. (e - i) + 1 : SubSeq(s, i, e)[j] = s[i + j - 1]
  <2>1. PICK t, u, v : t = SubSeq(s, i, n) /\ u = SubSeq(s, i, e) /\ v = SubSeq(s, e + 1, n)
    OBVIOUS
  <2>2. /\ t \in Seq(Bytes) /\ Len(t) = (n - i) + 1
        /\ \A j \in 1 .. (n - i) + 1 : t[j] = s[i + j - 1]
    BY <1>1, <1>2, <2>1
  <2>3. /\ u \in Seq(Bytes) /\ Len(u) = (e - i) + 1
        /\ \A j \in 1 .. (e - i) + 1 : u[j] = s[i + j - 1]
    BY <1>1, <1>2, <2>1
  <2>4. /\ v \in Seq(Bytes) /\ Len(v) = n - e
        /\ \A j \in 1 .. n - e : v[j] = s[e + j]
    <3>1. CASE e = n
      BY <1>1, <1>2, <2>1, <3>1
    <3>2. CASE e # n
      BY <1>1, <1>2, <2>1, <3>2
    <3> QED  BY <3>1, <3>2
  <2>5. u \o v \in Seq(Bytes) /\ Len(u \o v) = (n - i) + 1
    <3>1. u \o v \in Seq(Bytes) /\ Len(u \o v) = Len(u) + Len(v)
      <4>1. u \in Seq(Bytes) /\ v \in Seq(Bytes)
        BY <2>3, <2>4
      <4> QED  BY ONLY <4>1
    <3> QED  BY <1>2, <2>3, <2>4, <3>1
  <2>6. ASSUME NEW j \in 1 .. (n - i) + 1 PROVE (u \o v)[j] = t[j]
    <3>1. CASE j <= (e - i) + 1
      BY <1>2, <2>2, <2>3, <2>4, <3>1
    <3>2. CASE ~ (j <= (e - i) + 1)
      <4>1. PICK k : k = j - ((e - i) + 1)
        OBVIOUS
      <4>2. k \in 1 .. n - e /\ e + k = i + j - 1
        BY <1>2, <3>2, <4>1
      <4>3. (u \o v)[j] = v[k]
        BY <1>2, <2>3, <2>4, <3>2, <4>1, <4>2
      <4> QED  BY <2>2, <2>4, <4>2, <4>3
    <3> QED  BY <3>1, <3>2
  <2>7. u \o v = t
    BY <2>2, <2>5, <2>6, SMTT(20)
  <2> QED  BY <2>1, <2>3, <2>4, <2>7
<1> DEFINE P == {i \in 1 .. n + 1 : FlattenSeq(f[i]) = Visible(SubSeq(s, i, n))}
<1>6. ASSUME NEW i \in 1 .. n + 1, \A k \in i + 1 .. n + 1 : k \in P PROVE i \in P
  <2>1. CASE i = n + 1
    <3>1. SubSeq(s, i, n) = <<>>
      BY <1>1, <1>2, <2>1
    <3> QED  BY <1>4, <2>1, <3>1, VisibleAppend, FlattenAppend
  <2>2. CASE i \in 1 .. n /\ s[i] \in Blanks
    <3>1. FlattenSeq(f[i + 1]) = Visible(SubSeq(s, i + 1, n)) /\ f[i] = f[i + 1]
      <4>1. i + 1 \in i + 1 .. n + 1
        BY <1>2, <2>2
      <4> QED  BY <1>4, <1>6, <2>2, <4>1
    <3>2. /\ SubSeq(s, i, n) = SubSeq(s, i, i) \o SubSeq(s, i + 1, n)
          /\ SubSeq(s, i, i) \in Seq(Bytes) /\ SubSeq(s, i + 1, n) \in Seq(Bytes)
          /\ SubSeq(s, i, i) = <<s[i]>>
      <4>1. i \in i .. n /\ (i - i) + 1 = 1 /\ i + 1 - 1 = i
        BY <1>2, <2>2
      <4>2. SubSeq(s, i, i) \in Seq(Bytes) /\ Len(SubSeq(s, i, i)) = 1 /\ SubSeq(s, i, i)[1] = s[i]
        <5>1. 1 \in 1 .. 1
          OBVIOUS
        <5> QED  BY <1>5, <2>2, <4>1, <5>1
      <4>3. SubSeq(s, i, i) = <<s[i]>>
        <5>1. PICK u : u = SubSeq(s, i, i)
          OBVIOUS
        <5>2. u \in Seq(Bytes) /\ Len(u) = 1 /\ u[1] = s[i]
          BY <4>2, <5>1
        <5>3. u = <<u[1]>>
          BY <5>2
        <5> QED  BY <5>1, <5>2, <5>3
      <4> QED  BY <1>5, <2>2, <4>1, <4>3
    <3>3. Visible(<<s[i]>>) = <<>>
      <4>1. <<s[i]>> = Append(<<>>, s[i]) /\ <<>> \in Seq(Bytes) /\ s[i] \in Bytes
        BY <1>2, <2>2
      <4> QED  BY <2>2, <4>1, VisibleAppend
    <3>4. Visible(SubSeq(s, i, n)) = Visible(SubSeq(s, i, i)) \o Visible(SubSeq(s, i + 1, n))
      BY <3>2, VisibleConcat
    <3>5. Visible(SubSeq(s, i + 1, n)) \in Seq(Bytes)
      <4>1. "space" \in Bytes
        BY DEF Bytes, Blanks
      <4> QED  BY <3>2, <4>1, VisibleAppend
    <3>6. Visible(SubSeq(s, i, n)) = Visible(SubSeq(s, i + 1, n))
      <4>1. <<>> \o Visible(SubSeq(s, i + 1, n)) = Visible(SubSeq(s, i + 1, n))
        BY <3>5
      <4> QED  BY <3>2, <3>3, <3>4, <4>1
    <3> QED  BY <3>1, <3>6
  <2>3. CASE i \in 1 .. n /\ s[i] \notin Blanks
    <3>1. PICK e : e = EndOfPart(s, i)
      OBVIOUS
    <3>2. e = FirstOf(Blanks, s, i) - 1
      <4>1. s[i] # "quote"
        BY <1>2, <2>3
      <4> QED  BY <3>1, <4>1 DEF EndOfPart
    <3>3. /\ e \in i .. n
          /\ \A j \in i .. e : s[j] \notin Blanks
      <4>1. i \in 1 .. Len(s) + 1
        BY <1>1, <1>2
      <4>2. \A j \in i .. FirstOf(Blanks, s, i) - 1 : s[j] \notin Blanks
        BY <1>2, <4>1, FirstMeans
      <4>3. e \in i .. n
        BY <1>1, <1>2, <2>3, <3>1, PartWithin
      <4> QED  BY <3>2, <4>2, <4>3
    <3>4. PICK w, rest : w = SubSeq(s, i, e) /\ rest = SubSeq(s, e + 1, n)
      OBVIOUS
    <3>5. /\ SubSeq(s, i, n) = w \o rest /\ w \in Seq(Bytes) /\ rest \in Seq(Bytes)
          /\ Len(w) = (e - i) + 1
          /\ \A j \in 1 .. (e - i) + 1 : w[j] = s[i + j - 1]
      BY <1>5, <2>3, <3>3, <3>4
    <3>6. ASSUME NEW j \in 1 .. Len(w) PROVE w[j] \notin Blanks /\ w[j] # "quote" /\ w[j] \in Bytes
      <4>1. i + j - 1 \in i .. e /\ i + j - 1 \in 1 .. n /\ j \in 1 .. (e - i) + 1
        BY <1>2, <3>3, <3>5
      <4> QED  BY <1>2, <3>3, <3>5, <4>1
    <3>7. Unquoted(w) = w
      BY <3>5, <3>6, UnquotedKeeps
    <3>8. w \in Seq(Bytes \ Blanks)
      BY <3>5, <3>6
    <3>9. f[i] = <<w>> \o f[e + 1]
      BY <1>4, <2>3, <3>1, <3>4, <3>7
    <3>10. FlattenSeq(f[e + 1]) = Visible(rest) /\ f[e + 1] \in Seq(Seq(Bytes))
      <4>1. e + 1 \in i + 1 .. n + 1 /\ e + 1 \in 1 .. n + 1
        BY <1>2, <3>3
      <4> QED  BY <1>4, <1>6, <3>4, <4>1
    <3>11. FlattenSeq(f[i]) = w \o Visible(rest)
      <4>1. <<w>> \in Seq(Seq(Bytes))
        BY <3>5
      <4>2. FlattenSeq(<<w>> \o f[e + 1]) = FlattenSeq(<<w>>) \o FlattenSeq(f[e + 1])
        BY <3>10, <4>1, FlattenConcat
      <4>3. FlattenSeq(<<w>>) = w
        BY <3>5, FlattenConcat
      <4> QED  BY <3>9, <3>10, <4>2, <4>3
    <3>12. Visible(w \o rest) = w \o Visible(rest)
      BY <3>5, <3>8, VisibleConcat
    <3> QED  BY <3>5, <3>11, <3>12
  <2>4. i = n + 1 \/ i \in 1 .. n
    BY <1>2
  <2> QED  BY <2>1, <2>2, <2>3, <2>4
<1>7. 1 \in P
  <2>1. n + 1 \in Nat /\ 1 \in 1 .. n + 1
    BY <1>2
  <2>2. \A i \in 1 .. n + 1 : i \in P
    <3> HIDE DEF P
    <3> QED  BY <1>6, <2>1, AllDownFrom
  <2> HIDE DEF P
  <2> QED  BY <2>1, <2>2
<1>8. SubSeq(s, 1, n) = s
  BY <1>1
<1> QED  BY <1>3, <1>7, <1>8

-----------------------------------------------------------------------------
(***************************************************************************)
(* A line means a sequence of parts; on TCP the newline behind it adds     *)
(* nothing.                                                                *)
(***************************************************************************)
LEMMA PartsType ==
    ASSUME NEW c \in Conns, NEW line \in Seq(Bytes)
    PROVE  /\ PartsOf(c, line) \in Seq(Seq(Bytes))
           /\ Transport[c] = "tcp" =>
                 PartsOf(c, line) = ParseCommand(cleanBytes(Append(line, "newline")))
<1>1. "newline" \in Bytes /\ "newline" # "backspace" /\ cleanBytes(line) \in Seq(Bytes)
  <2>1. "newline" \in Bytes
    BY DEF Bytes, Blanks
  <2> QED  BY <2>1, CleanAppend
<1>2. PartsOf(c, line) \in Seq(Seq(Bytes))
  BY <1>1, ParseType DEF PartsOf
<1>3. ParseCommand(cleanBytes(Append(line, "newline"))) = ParseCommand(cleanBytes(line))
  <2>1. cleanBytes(Append(line, "newline")) = Append(cleanBytes(line), "newline")
    BY <1>1, CleanAppend
  <2> QED  BY <1>1, <2>1, ParseNewline
<1> QED  BY <1>2, <1>3 DEF PartsOf

(***************************************************************************)
(* The states of the loop of Commands.                                     *)
(***************************************************************************)
Counts(c, line) == Transport[c] = "websocket" \/ PartsOf(c, line) # <<>>

Listed(f, c, lines) ==
    /\ f = [m \in 0 .. Len(lines) |-> f[m]] /\ f[0] = <<>>
    /\ \A m \in 1 .. Len(lines) :
          /\ f[m - 1] \in Seq(Seq(Seq(Bytes))) /\ f[m] \in Seq(Seq(Seq(Bytes)))
          /\ f[m] = IF Counts(c, lines[m]) THEN Append(f[m - 1], PartsOf(c, lines[m]))
                    ELSE f[m - 1]

(***************************************************************************)
(* Commands is the last of them.                                           *)
(***************************************************************************)
LEMMA CommandsIsLast ==
    ASSUME NEW c \in Conns, NEW lines \in Seq(Seq(Bytes))
    PROVE  \E f : Listed(f, c, lines) /\ Commands(c, lines) = f[Len(lines)]
<1> DEFINE n == Len(lines)
           A == Seq(Seq(Seq(Bytes)))
           step == [m \in 1 .. n |-> [t \in A |->
                       IF Counts(c, lines[m]) THEN Append(t, PartsOf(c, lines[m])) ELSE t]]
<1>1. n \in Nat /\ <<>> \in A
  OBVIOUS
<1>2. \A m \in 1 .. n : \A t \in A : step[m][t] \in A
  <2> TAKE m \in 1 .. n
  <2> TAKE t \in A
  <2>1. PartsOf(c, lines[m]) \in Seq(Seq(Bytes))
    BY PartsType
  <2> QED  BY <2>1
<1>3. PICK g : Loop(g, A, <<>>, step, n)
  <2> HIDE DEF A, n, step
  <2> QED  BY <1>1, <1>2, LoopRuns
<1>4. Listed(g, c, lines)
  <2>1. \A m \in 1 .. n : m - 1 \in 0 .. n /\ m \in 0 .. n
    BY <1>1
  <2>2. \A m \in 0 .. n : g[m] \in A
    BY <1>3 DEF Loop
  <2>3. \A m \in 1 .. n : g[m] = step[m][g[m - 1]]
    BY <1>3 DEF Loop
  <2>4. g = [m \in 0 .. n |-> g[m]] /\ g[0] = <<>>
    BY <1>3 DEF Loop
  <2> QED  BY <2>1, <2>2, <2>3, <2>4 DEF Listed
<1> DEFINE Equation(f) == f = [m \in 0 .. n |-> IF m = 0 THEN <<>>
                  ELSE IF Transport[c] = "websocket" \/ PartsOf(c, lines[m]) # <<>>
                  THEN Append(f[m - 1], PartsOf(c, lines[m]))
                  ELSE f[m - 1]]
           commands == CHOOSE f : Equation(f)
<1>5. Equation(g)
  <2>1. \A m \in 0 .. n : g[m] = IF m = 0 THEN <<>>
                  ELSE IF Transport[c] = "websocket" \/ PartsOf(c, lines[m]) # <<>>
                  THEN Append(g[m - 1], PartsOf(c, lines[m]))
                  ELSE g[m - 1]
    <3>1. g[0] = <<>>
      BY <1>4 DEF Listed
    <3>2. \A m \in 1 .. n : g[m] = IF Counts(c, lines[m])
                                   THEN Append(g[m - 1], PartsOf(c, lines[m])) ELSE g[m - 1]
      BY <1>4 DEF Listed
    <3> HIDE DEF n
    <3> QED  BY <1>1, <3>1, <3>2 DEF Counts
  <2>2. g = [m \in 0 .. n |-> g[m]]
    BY <1>4 DEF Listed
  <2> HIDE DEF n
  <2> QED  BY <2>1, <2>2
<1>6. Equation(commands)
  <2> HIDE DEF Equation
  <2> QED  BY <1>5
<1>7. Commands(c, lines) = commands[n]
  BY DEF Commands
<1>8. PICK h : h = commands
  OBVIOUS
<1>9. h[n] = g[n]
  <2>1. Equation(h)
    BY <1>6, <1>8
  <2>2. h[0] = g[0]
    BY <1>1, <1>5, <2>1
  <2>3. ASSUME NEW m \in 1 .. n, h[m - 1] = g[m - 1] PROVE h[m] = g[m]
    <3>1. m \in 0 .. n /\ m # 0
      BY <1>1
    <3> HIDE DEF n
    <3> QED  BY <1>5, <2>1, <2>3, <3>1
  <2> HIDE DEF n, Equation
  <2> QED  BY <1>1, <2>2, <2>3, LoopsAgree
<1> QED  BY <1>4, <1>7, <1>8, <1>9

(***************************************************************************)
(* One line more.                                                          *)
(***************************************************************************)
LEMMA CommandsAppend ==
    ASSUME NEW c \in Conns
    PROVE  /\ Commands(c, <<>>) = <<>>
           /\ \A lines \in Seq(Seq(Bytes)), line \in Seq(Bytes) :
                 /\ Commands(c, lines) \in Seq(Seq(Seq(Bytes)))
                 /\ Commands(c, Append(lines, line)) =
                       IF Counts(c, line) THEN Append(Commands(c, lines), PartsOf(c, line))
                       ELSE Commands(c, lines)
<1>1. Commands(c, <<>>) = <<>>
  <2>1. <<>> \in Seq(Seq(Bytes)) /\ Len(<<>>) = 0
    OBVIOUS
  <2>2. PICK f : Listed(f, c, <<>>) /\ Commands(c, <<>>) = f[0]
    BY <2>1, CommandsIsLast
  <2> QED  BY <2>2 DEF Listed
<1>2. ASSUME NEW s \in Seq(Seq(Bytes)), NEW b \in Seq(Bytes)
      PROVE  /\ Commands(c, s) \in Seq(Seq(Seq(Bytes)))
             /\ Commands(c, Append(s, b)) =
                       IF Counts(c, b) THEN Append(Commands(c, s), PartsOf(c, b))
                       ELSE Commands(c, s)
  <2>1. PICK n, long : n = Len(s) /\ long = Append(s, b)
    OBVIOUS
  <2>2. /\ n \in Nat /\ long \in Seq(Seq(Bytes)) /\ Len(long) = n + 1 /\ long[n + 1] = b
        /\ \A m \in 1 .. n : long[m] = s[m]
    BY <2>1
  <2>3. PICK f : Listed(f, c, s) /\ Commands(c, s) = f[n]
    BY <2>1, CommandsIsLast
  <2>4. PICK g : Listed(g, c, long) /\ Commands(c, long) = g[n + 1]
    BY <2>2, CommandsIsLast
  <2>5. f[n] \in Seq(Seq(Seq(Bytes)))
    <3>1. CASE n = 0
      <4>1. f[0] = <<>> /\ <<>> \in Seq(Seq(Seq(Bytes)))
        BY <2>3 DEF Listed
      <4> QED  BY <3>1, <4>1
    <3>2. CASE n \in 1 .. Len(s)
      BY <2>3, <3>2 DEF Listed
    <3> QED  BY <2>1, <2>2, <3>1, <3>2
  <2>6. f[n] = g[n]
    <3>1. f[0] = g[0]
      BY <2>3, <2>4 DEF Listed
    <3>2. ASSUME NEW m \in 1 .. n, f[m - 1] = g[m - 1] PROVE f[m] = g[m]
      <4>1. m \in 1 .. Len(s) /\ m \in 1 .. Len(long) /\ long[m] = s[m]
        BY <2>1, <2>2
      <4>2. f[m] = IF Counts(c, s[m]) THEN Append(f[m - 1], PartsOf(c, s[m])) ELSE f[m - 1]
        BY <2>3, <4>1 DEF Listed
      <4>3. g[m] = IF Counts(c, long[m]) THEN Append(g[m - 1], PartsOf(c, long[m]))
                   ELSE g[m - 1]
        BY <2>4, <4>1 DEF Listed
      <4> QED  BY <3>2, <4>1, <4>2, <4>3
    <3> QED  BY <2>2, <3>1, <3>2, LoopsAgree
  <2>7. g[n + 1] = IF Counts(c, b) THEN Append(g[n], PartsOf(c, b)) ELSE g[n]
    <3>1. n + 1 \in 1 .. Len(long) /\ (n + 1) - 1 = n
      BY <2>2
    <3> QED  BY <2>2, <2>4, <3>1 DEF Listed
  <2> QED  BY <2>1, <2>3, <2>4, <2>5, <2>6, <2>7
<1> QED  BY <1>1, <1>2

(***************************************************************************)
(* There are no more commands than lines.                                  *)
(***************************************************************************)
LEMMA CommandsAreFewer ==
    ASSUME NEW c \in Conns, NEW lines \in Seq(Seq(Bytes))
    PROVE  Len(Commands(c, lines)) <= Len(lines)
<1> DEFINE P == {u \in Seq(Seq(Bytes)) : Len(Commands(c, u)) <= Len(u)}
<1>1. <<>> \in P
  BY CommandsAppend
<1>2. ASSUME NEW u \in Seq(Seq(Bytes)), NEW line \in Seq(Bytes), u \in P
      PROVE  Append(u, line) \in P
  <2>1. /\ Commands(c, u) \in Seq(Seq(Seq(Bytes)))
        /\ \/ Commands(c, Append(u, line)) = Append(Commands(c, u), PartsOf(c, line))
           \/ Commands(c, Append(u, line)) = Commands(c, u)
    BY CommandsAppend
  <2>2. Len(Append(u, line)) = Len(u) + 1 /\ Append(u, line) \in Seq(Seq(Bytes))
    OBVIOUS
  <2>3. Len(Append(Commands(c, u), PartsOf(c, line))) = Len(Commands(c, u)) + 1
    BY <2>1, PartsType
  <2>4. Len(Commands(c, u)) \in Nat /\ Len(u) \in Nat
    BY <2>1
  <2> QED  BY <1>2, <2>1, <2>2, <2>3, <2>4
<1>3. \A u \in Seq(Seq(Bytes)) : u \in P
  <2> HIDE DEF P
  <2> QED  BY <1>1, <1>2, AllSequences
<1> QED  BY <1>3

-----------------------------------------------------------------------------
(***************************************************************************)
(* The words that Fields finds in s from each place on.                    *)
(***************************************************************************)
Worded(f, s) ==
    Split(f, s, [i \in 1 .. Len(s) |-> SubSeq(s, i, FirstOf(Blanks, s, i) - 1)],
                [i \in 1 .. Len(s) |-> FirstOf(Blanks, s, i)], 1)

(***************************************************************************)
(* What that is, written out.                                              *)
(***************************************************************************)
LEMMA WordedMeans ==
    ASSUME NEW s \in Seq(Bytes), NEW f, Worded(f, s)
    PROVE  /\ f \in [1 .. Len(s) + 1 -> Seq(Seq(Bytes))] /\ f[Len(s) + 1] = <<>>
           /\ \A i \in 1 .. Len(s) :
                 f[i] = IF s[i] \in Blanks THEN f[i + 1]
                        ELSE <<SubSeq(s, i, FirstOf(Blanks, s, i) - 1)>> \o f[FirstOf(Blanks, s, i)]
BY DEF Worded, Split

(***************************************************************************)
(* Fields takes them from the first place on.                              *)
(***************************************************************************)
LEMMA FieldsAreFirst ==
    ASSUME NEW s \in Seq(Bytes)
    PROVE  \E f : Worded(f, s) /\ Fields(s) = f[1]
<1> DEFINE n == Len(s)
           part == [i \in 1 .. n |-> SubSeq(s, i, FirstOf(Blanks, s, i) - 1)]
           next == [i \in 1 .. n |-> FirstOf(Blanks, s, i)]
<1>1. n \in Nat
  OBVIOUS
<1>2. ASSUME NEW i \in 1 .. n, s[i] \notin Blanks
      PROVE  part[i] \in Seq(Bytes) /\ next[i] \in i + 1 .. n + 1
  <2>1. PICK e : e = FirstOf(Blanks, s, i)
    OBVIOUS
  <2>2. e \in i .. n + 1 /\ (e <= n => s[e] \in Blanks)
    <3>1. i \in 1 .. Len(s) + 1
      BY <1>1
    <3> QED  BY <2>1, <3>1, FirstMeans
  <2>3. e \in i + 1 .. n + 1
    BY <1>1, <1>2, <2>2
  <2>4. SubSeq(s, i, e - 1) \in Seq(Bytes)
    <3>1. i \in 1 .. n /\ e - 1 \in i .. n
      BY <1>1, <2>3
    <3> QED  BY <3>1
  <2> QED  BY <2>1, <2>3, <2>4
<1>3. PICK g : Split(g, s, part, next, 1)
  <2> HIDE DEF part, next
  <2> QED  BY <1>2, SplitRuns
<1>4. Worded(g, s)
  BY <1>3 DEF Worded
<1> DEFINE Equation(f) == f = [i \in 1 .. n + 1 |->
                                  IF i > n THEN <<>>
                                  ELSE IF s[i] \in Blanks THEN f[i + 1]
                                  ELSE <<SubSeq(s, i, FirstOf(Blanks, s, i) - 1)>>
                                           \o f[FirstOf(Blanks, s, i)]]
           from == CHOOSE f : Equation(f)
<1>5. Equation(g)
  <2>1. g = [i \in 1 .. n + 1 |-> g[i]]
    BY <1>4, WordedMeans
  <2>2. g[n + 1] = <<>> /\ \A i \in 1 .. n :
            g[i] = IF s[i] \in Blanks THEN g[i + 1]
                   ELSE <<SubSeq(s, i, FirstOf(Blanks, s, i) - 1)>> \o g[FirstOf(Blanks, s, i)]
    BY <1>4, WordedMeans
  <2>3. \A i \in 1 .. n + 1 : IF i > n THEN i = n + 1 ELSE i \in 1 .. n
    BY <1>1
  <2> HIDE DEF n
  <2> QED  BY <2>1, <2>2, <2>3
<1>6. Equation(from)
  <2> HIDE DEF Equation
  <2> QED  BY <1>5
<1>7. Fields(s) = from[1]
  BY DEF Fields
<1>8. PICK h : h = from
  OBVIOUS
<1>9. h[1] = g[1]
  <2>1. Equation(h)
    BY <1>6, <1>8
  <2>2. n + 1 \in 1 .. n + 1 /\ n + 1 > n
    BY <1>1
  <2>3. h[n + 1] = g[n + 1]
    <3> HIDE DEF n
    <3> QED  BY <1>5, <2>1, <2>2
  <2>4. ASSUME NEW i \in 1 .. n,
               IF s[i] \in Blanks THEN h[i + 1] = g[i + 1] ELSE h[next[i]] = g[next[i]]
        PROVE  h[i] = g[i]
    <3>1. i \in 1 .. n + 1 /\ ~ (i > n)
      BY <1>1
    <3>2. s[i] \notin Blanks => h[FirstOf(Blanks, s, i)] = g[FirstOf(Blanks, s, i)]
      BY <2>4
    <3> HIDE DEF n, next
    <3> QED  BY <1>5, <2>1, <2>4, <3>1, <3>2
  <2>5. \A i \in 1 .. n : s[i] \notin Blanks => next[i] \in i + 1 .. n + 1
    BY <1>2
  <2>6. \A i \in 1 .. n + 1 : h[i] = g[i]
    <3>1. PICK k, nx : k = n /\ nx = next
      OBVIOUS
    <3>2. k \in Nat /\ h[k + 1] = g[k + 1]
      BY <1>1, <2>3, <3>1
    <3>3. \A i \in 1 .. k : s[i] \notin Blanks => nx[i] \in i + 1 .. k + 1
      BY <2>5, <3>1
    <3>4. \A i \in 1 .. k : s[i] \in Blanks /\ h[i + 1] = g[i + 1] => h[i] = g[i]
      <4> HIDE DEF n, next
      <4> QED  BY <2>4, <3>1
    <3>5. \A i \in 1 .. k : s[i] \notin Blanks /\ h[nx[i]] = g[nx[i]] => h[i] = g[i]
      <4> HIDE DEF n, next
      <4> QED  BY <2>4, <3>1
    <3>6. \A i \in 1 .. k + 1 : h[i] = g[i]
      <4> DEFINE P == {i \in 1 .. k + 1 : h[i] = g[i]}
      <4>1. ASSUME NEW i \in 1 .. k + 1, \A m \in i + 1 .. k + 1 : m \in P PROVE i \in P
        <5>1. CASE i = k + 1
          BY <3>2, <5>1
        <5>2. CASE i # k + 1
          <6>1. i \in 1 .. k /\ i + 1 \in i + 1 .. k + 1
            BY <3>2, <5>2
          <6>2. h[i + 1] = g[i + 1]
            BY <4>1, <6>1
          <6>3. s[i] \notin Blanks => h[nx[i]] = g[nx[i]]
            BY <3>3, <4>1, <6>1
          <6> QED  BY <3>4, <3>5, <6>1, <6>2, <6>3
        <5> QED  BY <5>1, <5>2
      <4>2. k + 1 \in Nat
        BY <3>2
      <4>3. \A i \in 1 .. k + 1 : i \in P
        <5> HIDE DEF P
        <5> QED  BY <4>1, <4>2, AllDownFrom
      <4> QED  BY <4>3
    <3> QED  BY <3>1, <3>6
  <2>7. 1 \in 1 .. n + 1
    BY <1>1
  <2> HIDE DEF n
  <2> QED  BY <2>6, <2>7
<1> QED  BY <1>4, <1>7, <1>8, <1>9

(***************************************************************************)
(* A blank and a word more.                                                *)
(***************************************************************************)
LEMMA FieldsAppend ==
    ASSUME NEW s \in Seq(Bytes), NEW p \in Seq(Bytes \ Blanks), p # <<>>
    PROVE  /\ Fields(s) \in Seq(Seq(Bytes))
           /\ Fields((s \o <<"space">>) \o p) = Append(Fields(s), p)
<1>2. PICK n, m, t : n = Len(s) /\ m = Len(p) /\ t = (s \o <<"space">>) \o p
  OBVIOUS
<1>3. n \in Nat /\ m \in Nat \ {0} /\ p \in Seq(Bytes)
  BY <1>2
<1>4. /\ t \in Seq(Bytes) /\ Len(t) = n + 1 + m /\ t[n + 1] = "space"
      /\ \A i \in 1 .. n : t[i] = s[i]
      /\ \A i \in 1 .. m : t[n + 1 + i] = p[i]
  <2>1. "space" \in Bytes
    BY DEF Bytes, Blanks
  <2>2. PICK u : u = s \o <<"space">>
    OBVIOUS
  <2>3. /\ u \in Seq(Bytes) /\ Len(u) = n + 1 /\ u[n + 1] = "space"
        /\ \A i \in 1 .. n : u[i] = s[i]
    BY <1>2, <1>3, <2>1, <2>2
  <2>4. t = u \o p
    BY <1>2, <2>2
  <2>5. /\ t \in Seq(Bytes) /\ Len(t) = n + 1 + m
        /\ \A i \in 1 .. n + 1 : t[i] = u[i]
    <3>1. t \in Seq(Bytes) /\ Len(t) = Len(u) + Len(p)
      <4>1. u \in Seq(Bytes) /\ p \in Seq(Bytes)
        BY <1>3, <2>3
      <4> QED  BY ONLY <2>4, <4>1
    <3>2. Len(t) = n + 1 + m
      BY <1>2, <1>3, <2>3, <3>1
    <3>3. \A i \in 1 .. Len(u) : t[i] = u[i]
      BY <1>3, <2>3, <2>4
    <3> QED  BY <2>3, <3>1, <3>2, <3>3
  <2>6. \A i \in 1 .. m : t[n + 1 + i] = p[i]
    BY <1>2, <1>3, <2>3, <2>4
  <2> QED  BY <1>3, <2>3, <2>5, <2>6
<1>5. PICK f : Worded(f, s) /\ Fields(s) = f[1]
  BY FieldsAreFirst
<1>6. PICK g : Worded(g, t) /\ Fields(t) = g[1]
  BY <1>4, FieldsAreFirst
<1>7. /\ \A i \in 1 .. n + 1 : f[i] \in Seq(Seq(Bytes))
      /\ f[n + 1] = <<>>
      /\ \A i \in 1 .. n :
            f[i] = IF s[i] \in Blanks THEN f[i + 1]
                   ELSE <<SubSeq(s, i, FirstOf(Blanks, s, i) - 1)>> \o f[FirstOf(Blanks, s, i)]
  <2>1. /\ f \in [1 .. Len(s) + 1 -> Seq(Seq(Bytes))] /\ f[Len(s) + 1] = <<>>
        /\ \A i \in 1 .. Len(s) :
            f[i] = IF s[i] \in Blanks THEN f[i + 1]
                   ELSE <<SubSeq(s, i, FirstOf(Blanks, s, i) - 1)>> \o f[FirstOf(Blanks, s, i)]
    BY <1>5, WordedMeans
  <2> QED  BY <1>2, <2>1
<1>8. /\ g[Len(t) + 1] = <<>>
      /\ \A i \in 1 .. Len(t) :
            g[i] = IF t[i] \in Blanks THEN g[i + 1]
                   ELSE <<SubSeq(t, i, FirstOf(Blanks, t, i) - 1)>> \o g[FirstOf(Blanks, t, i)]
  BY <1>4, <1>6, WordedMeans
<1>9. g[n + 1] = <<p>>
  <2>1. n + 1 \in 1 .. Len(t) /\ t[n + 1] \in Blanks
    BY <1>3, <1>4 DEF Blanks
  <2>2. n + 2 \in 1 .. Len(t) /\ n + 2 = n + 1 + 1
    BY <1>3, <1>4
  <2>3. \A i \in n + 2 .. Len(t) : t[i] \notin Blanks
    <3> TAKE i \in n + 2 .. Len(t)
    <3>1. PICK k : k = i - (n + 1)
      OBVIOUS
    <3>2. k \in 1 .. m /\ i = n + 1 + k
      BY <1>3, <1>4, <3>1
    <3>3. p[k] \in Bytes \ Blanks
      BY <1>2, <3>2
    <3> QED  BY <1>4, <3>2, <3>3
  <2>4. FirstOf(Blanks, t, n + 2) = Len(t) + 1
    <3>1. n + 2 \in 1 .. Len(t) + 1 /\ Len(t) + 1 \in n + 2 .. Len(t) + 1
          /\ ~ (Len(t) + 1 <= Len(t)) /\ (Len(t) + 1) - 1 = Len(t)
      BY <1>3, <1>4
    <3> QED  BY <1>4, <2>3, <3>1, FirstIs
  <2>5. SubSeq(t, n + 2, Len(t)) = p
    <3>1. PICK v : v = SubSeq(t, n + 2, Len(t))
      OBVIOUS
    <3>2. v \in Seq(Bytes) /\ Len(v) = m /\ \A i \in 1 .. m : v[i] = t[n + 1 + i]
      BY <1>3, <1>4, <3>1
    <3>3. \A i \in 1 .. m : v[i] = p[i]
      BY <1>4, <3>2
    <3>4. v = p
      <4>1. v = [i \in 1 .. m |-> v[i]] /\ p = [i \in 1 .. m |-> p[i]]
        BY <1>2, <1>3, <3>2
      <4> QED  BY <3>3, <4>1
    <3> QED  BY <3>1, <3>4
  <2>6. g[n + 2] = <<SubSeq(t, n + 2, (Len(t) + 1) - 1)>> \o g[Len(t) + 1]
    <3>1. t[n + 2] \notin Blanks
      BY <1>3, <1>4, <2>2, <2>3
    <3> QED  BY <1>8, <2>2, <2>4, <3>1
  <2>7. (Len(t) + 1) - 1 = Len(t)
    BY <1>3, <1>4
  <2>8. g[n + 2] = <<p>> \o <<>>
    BY <1>8, <2>5, <2>6, <2>7
  <2>9. g[n + 1] = g[n + 2]
    BY <1>8, <2>1, <2>2
  <2> QED  BY <1>3, <2>8, <2>9
<1> DEFINE P == {i \in 1 .. n + 1 : g[i] = Append(f[i], p)}
<1>10. ASSUME NEW i \in 1 .. n + 1, \A k \in i + 1 .. n + 1 : k \in P PROVE i \in P
  <2>1. CASE i = n + 1
    <3>1. Append(<<>>, p) = <<p>>
      BY <1>3
    <3> QED  BY <1>7, <1>9, <2>1, <3>1
  <2>2. CASE i # n + 1
    <3>1. i \in 1 .. n /\ i \in 1 .. Len(t) /\ i + 1 \in i + 1 .. n + 1 /\ t[i] = s[i]
      BY <1>3, <1>4, <2>2
    <3>2. CASE s[i] \in Blanks
      <4>1. g[i + 1] = Append(f[i + 1], p)
        BY <1>10, <3>1
      <4>2. f[i] = f[i + 1] /\ g[i] = g[i + 1]
        BY <1>7, <1>8, <3>1, <3>2
      <4> QED  BY <4>1, <4>2
    <3>3. CASE s[i] \notin Blanks
      <4>1. PICK k : k = FirstOf(Blanks, s, i)
        OBVIOUS
      <4>2. /\ k \in i .. n + 1 /\ (k <= n => s[k] \in Blanks)
            /\ \A j \in i .. k - 1 : s[j] \notin Blanks
        <5>1. i \in 1 .. Len(s) + 1
          BY <1>2, <1>3
        <5> QED  BY <1>2, <4>1, <5>1, FirstMeans
      <4>3. k \in i + 1 .. n + 1
        BY <1>3, <3>1, <3>3, <4>2
      <4>4. FirstOf(Blanks, t, i) = k
        <5>1. i \in 1 .. Len(t) + 1 /\ k \in i .. Len(t) + 1
          BY <1>3, <1>4, <4>2
        <5>2. t[k] \in Blanks
          <6>1. k \in 1 .. n \/ k = n + 1
            BY <1>3, <4>2
          <6> QED  BY <1>4, <4>2, <6>1 DEF Blanks
        <5>3. \A j \in i .. k - 1 : t[j] \notin Blanks
          <6> TAKE j \in i .. k - 1
          <6>1. j \in 1 .. n
            BY <1>3, <4>2
          <6> QED  BY <1>4, <4>2, <6>1
        <5> QED  BY <1>4, <5>1, <5>2, <5>3, FirstIs
      <4>5. g[k] = Append(f[k], p)
        BY <1>10, <4>3
      <4>6. SubSeq(t, i, k - 1) = SubSeq(s, i, k - 1)
        <5>1. \A j \in 1 .. k - i : t[i + j - 1] = s[i + j - 1]
          <6> TAKE j \in 1 .. k - i
          <6>1. i + j - 1 \in 1 .. n
            BY <1>3, <4>3
          <6> QED  BY <1>4, <6>1
        <5>2. SubSeq(s, i, k - 1) = [j \in 1 .. k - i |-> s[i + j - 1]]
          BY <1>2, <1>3, <3>1, <4>3
        <5>3. SubSeq(t, i, k - 1) = [j \in 1 .. k - i |-> t[i + j - 1]]
          BY <1>3, <1>4, <3>1, <4>3
        <5> QED  BY <5>1, <5>2, <5>3
      <4>7. PICK w : w = SubSeq(s, i, k - 1)
        OBVIOUS
      <4>8. f[i] = <<w>> \o f[k] /\ g[i] = <<w>> \o g[k]
        BY <1>7, <1>8, <3>1, <3>3, <4>1, <4>4, <4>6, <4>7
      <4>9. f[k] \in Seq(Seq(Bytes))
        BY <1>7, <4>3
      <4>10. <<w>> \o Append(f[k], p) = Append(<<w>> \o f[k], p)
        BY <1>3, <4>9
      <4> QED  BY <4>5, <4>8, <4>10
    <3> QED  BY <3>2, <3>3
  <2> QED  BY <2>1, <2>2
<1>11. 1 \in P
  <2>1. n + 1 \in Nat /\ 1 \in 1 .. n + 1
    BY <1>3
  <2>2. \A i \in 1 .. n + 1 : i \in P
    <3> HIDE DEF P
    <3> QED  BY <1>10, <2>1, AllDownFrom
  <2> HIDE DEF P
  <2> QED  BY <2>1, <2>2
<1>12. f[1] \in Seq(Seq(Bytes))
  BY <1>3, <1>7
<1> QED  BY <1>2, <1>5, <1>6, <1>11, <1>12

(***************************************************************************)
(* A word alone.                                                           *)
(***************************************************************************)
LEMMA FieldsWord ==
    ASSUME NEW p \in Seq(Bytes \ Blanks), p # <<>>
    PROVE  Fields(p) = <<p>>
<1>1. PICK m : m = Len(p)
  OBVIOUS
<1>2. m \in Nat \ {0} /\ p \in Seq(Bytes) /\ \A i \in 1 .. m : p[i] \notin Blanks
  BY <1>1
<1>3. PICK f : Worded(f, p) /\ Fields(p) = f[1]
  BY <1>2, FieldsAreFirst
<1>4. f[m + 1] = <<>>
  BY <1>1, <1>2, <1>3, WordedMeans
<1>5. f[1] = <<SubSeq(p, 1, FirstOf(Blanks, p, 1) - 1)>> \o f[FirstOf(Blanks, p, 1)]
  <2>1. 1 \in 1 .. Len(p) /\ p[1] \notin Blanks
    BY <1>1, <1>2
  <2>2. \A i \in 1 .. Len(p) :
            f[i] = IF p[i] \in Blanks THEN f[i + 1]
                   ELSE <<SubSeq(p, i, FirstOf(Blanks, p, i) - 1)>> \o f[FirstOf(Blanks, p, i)]
    BY <1>2, <1>3, WordedMeans
  <2> QED  BY <2>1, <2>2
<1>6. FirstOf(Blanks, p, 1) = m + 1
  <2>1. 1 \in 1 .. Len(p) + 1 /\ m + 1 \in 1 .. Len(p) + 1 /\ ~ (m + 1 <= Len(p))
        /\ (m + 1) - 1 = m
    BY <1>1, <1>2
  <2> QED  BY <1>1, <1>2, <2>1, FirstIs
<1>7. SubSeq(p, 1, (m + 1) - 1) = p
  BY <1>1, <1>2
<1>8. <<p>> \o <<>> = <<p>>
  OBVIOUS
<1> QED  BY <1>3, <1>4, <1>5, <1>6, <1>7, <1>8

(***************************************************************************)
(* Join with one part more.                                                *)
(***************************************************************************)
LEMMA JoinAppend ==
    /\ Join(<<>>) = <<>>
    /\ \A parts \in Seq(Seq(Bytes)), p \in Seq(Bytes) :
          /\ Join(parts) \in Seq(Bytes)
          /\ Join(Append(parts, p)) = IF parts = <<>> THEN p
                                      ELSE (Join(parts) \o <<"space">>) \o p
<1> DEFINE J(parts) == [i \in DOMAIN parts |-> IF i = 1 THEN parts[i]
                                               ELSE <<"space">> \o parts[i]]
<1>1. \A parts : Join(parts) = FlattenSeq(J(parts))
  BY DEF Join
<1>2. Join(<<>>) = <<>>
  <2>1. J(<<>>) = <<>>
    OBVIOUS
  <2> HIDE DEF J
  <2> QED  BY <1>1, <2>1, FlattenAppend
<1>3. <<"space">> \in Seq(Bytes)
  BY DEF Bytes, Blanks
<1>4. ASSUME NEW parts \in Seq(Seq(Bytes)) PROVE J(parts) \in Seq(Seq(Bytes))
  <2>1. \A i \in 1 .. Len(parts) : <<"space">> \o parts[i] \in Seq(Bytes)
    BY <1>3
  <2>2. \A i \in 1 .. Len(parts) : J(parts)[i] \in Seq(Bytes)
    BY <2>1
  <2>3. J(parts) = [i \in 1 .. Len(parts) |-> J(parts)[i]] /\ Len(parts) \in Nat
    BY SMTT(20)
  <2> HIDE DEF J
  <2> QED  BY <2>2, <2>3
<1>5. ASSUME NEW parts \in Seq(Seq(Bytes)), NEW p \in Seq(Bytes)
      PROVE  /\ Join(parts) \in Seq(Bytes)
             /\ Join(Append(parts, p)) = IF parts = <<>> THEN p
                                         ELSE (Join(parts) \o <<"space">>) \o p
  <2>1. J(parts) \in Seq(Seq(Bytes)) /\ Len(J(parts)) = Len(parts)
    BY <1>4
  <2>2. Join(parts) \in Seq(Bytes)
    <3> HIDE DEF J
    <3> QED  BY <1>1, <2>1, FlattenAppend
  <2>3. PICK q : q = IF parts = <<>> THEN p ELSE <<"space">> \o p
    OBVIOUS
  <2>4. q \in Seq(Bytes)
    BY <1>3, <2>3
  <2>5. J(Append(parts, p)) = Append(J(parts), q)
    <3>1. PICK n, long, a, b : /\ n = Len(parts) /\ long = Append(parts, p)
                               /\ a = J(Append(parts, p)) /\ b = Append(J(parts), q)
      OBVIOUS
    <3>2. n \in Nat /\ DOMAIN long = 1 .. n + 1 /\ long[n + 1] = p
          /\ \A i \in 1 .. n : long[i] = parts[i]
      BY <3>1
    <3>3. b \in Seq(Seq(Bytes)) /\ Len(b) = n + 1 /\ b[n + 1] = q
          /\ \A i \in 1 .. n : b[i] = J(parts)[i]
      <4> HIDE DEF J
      <4> QED  BY <2>1, <2>4, <3>1
    <3>4. a = [i \in 1 .. n + 1 |-> IF i = 1 THEN long[i] ELSE <<"space">> \o long[i]]
      BY <3>1, <3>2
    <3>5. a[n + 1] = q
      <4>1. parts = <<>> <=> n = 0
        BY <3>1
      <4> QED  BY <2>3, <3>2, <3>4, <4>1
    <3>6. ASSUME NEW i \in 1 .. n PROVE a[i] = b[i]
      <4>1. i \in 1 .. n + 1 /\ i \in DOMAIN parts
        BY <3>1, <3>2
      <4>2. J(parts)[i] = IF i = 1 THEN parts[i] ELSE <<"space">> \o parts[i]
        BY <4>1
      <4> HIDE DEF J
      <4> QED  BY <3>2, <3>3, <3>4, <4>1, <4>2
    <3>7. \A i \in 1 .. n + 1 : a[i] = b[i]
      <4>1. \A i \in 1 .. n + 1 : i \in 1 .. n \/ i = n + 1
        BY <3>2
      <4>2. a[n + 1] = b[n + 1]
        BY <3>3, <3>5
      <4> QED  BY <3>6, <4>1, <4>2
    <3>8. a = [i \in 1 .. n + 1 |-> a[i]] /\ b = [i \in 1 .. n + 1 |-> b[i]]
      BY <3>2, <3>3, <3>4
    <3>9. a = b
      BY <3>7, <3>8
    <3> QED  BY <3>1, <3>9
  <2>6. Join(Append(parts, p)) = Join(parts) \o q
    <3> HIDE DEF J
    <3> QED  BY <1>1, <2>1, <2>4, <2>5, FlattenAppend
  <2>7. CASE parts = <<>>
    <3>1. <<>> \o p = p
      OBVIOUS
    <3>2. Join(parts) = <<>> /\ q = p
      BY <1>2, <2>3, <2>7
    <3> QED  BY <2>2, <2>6, <2>7, <3>1, <3>2
  <2>8. CASE parts # <<>>
    <3>1. (Join(parts) \o <<"space">>) \o p = Join(parts) \o (<<"space">> \o p)
      BY <1>3, <2>2
    <3> QED  BY <2>2, <2>3, <2>6, <2>8, <3>1
  <2> QED  BY <2>2, <2>7, <2>8
<1> QED  BY <1>2, <1>5

(***************************************************************************)
(* The text of parts that are words splits into the same parts again.      *)
(***************************************************************************)
LEMMA FieldsOfJoin ==
    ASSUME NEW parts \in Seq({p \in Seq(Bytes \ Blanks) : p # <<>>})
    PROVE  Fields(Join(parts)) = parts
<1> DEFINE S == {p \in Seq(Bytes \ Blanks) : p # <<>>}
           P == {u \in Seq(S) : Fields(Join(u)) = u}
<1>1. <<>> \in P
  <2>1. Fields(<<>>) = <<>>
    <3>1. PICK f : Worded(f, <<>>) /\ Fields(<<>>) = f[1]
      <4>1. <<>> \in Seq(Bytes)
        OBVIOUS
      <4> QED  BY <4>1, FieldsAreFirst
    <3>2. <<>> \in Seq(Bytes) /\ Len(<<>>) = 0 /\ 0 + 1 = 1
      OBVIOUS
    <3>3. f[Len(<<>>) + 1] = <<>>
      BY <3>1, <3>2, WordedMeans
    <3> QED  BY <3>1, <3>2, <3>3
  <2> QED  BY <2>1, JoinAppend
<1>2. ASSUME NEW u \in Seq(S), NEW p \in S, u \in P PROVE Append(u, p) \in P
  <2>1. u \in Seq(Seq(Bytes)) /\ p \in Seq(Bytes) /\ p \in Seq(Bytes \ Blanks) /\ p # <<>>
    <3>1. \A q \in S : q \in Seq(Bytes)
      OBVIOUS
    <3> HIDE DEF S
    <3>2. u \in Seq(Seq(Bytes)) /\ p \in Seq(Bytes)
      BY <3>1
    <3> USE DEF S
    <3> QED  BY <3>2
  <2>2. CASE u = <<>>
    <3>1. Join(Append(u, p)) = p
      BY <2>1, <2>2, JoinAppend
    <3>2. Append(u, p) = <<p>>
      BY <2>2
    <3> QED  BY <2>1, <3>1, <3>2, FieldsWord
  <2>3. CASE u # <<>>
    <3>1. Join(Append(u, p)) = (Join(u) \o <<"space">>) \o p /\ Join(u) \in Seq(Bytes)
      BY <2>1, <2>3, JoinAppend
    <3>2. Fields(Join(Append(u, p))) = Append(Fields(Join(u)), p)
      BY <2>1, <3>1, FieldsAppend
    <3> QED  BY <1>2, <3>2
  <2> QED  BY <2>2, <2>3
<1>3. \A u \in Seq(S) : u \in P
  <2> HIDE DEF P, S
  <2> QED  BY <1>1, <1>2, AllSequences
<1> QED  BY <1>3

(***************************************************************************)
(* What Fields returns are sequences of bytes.                             *)
(***************************************************************************)
LEMMA FieldsType ==
    ASSUME NEW s \in Seq(Bytes)
    PROVE  Fields(s) \in Seq(Seq(Bytes))
<1>1. PICK f : Worded(f, s) /\ Fields(s) = f[1]
  BY FieldsAreFirst
<1>2. f \in [1 .. Len(s) + 1 -> Seq(Seq(Bytes))] /\ 1 \in 1 .. Len(s) + 1
  BY <1>1, WordedMeans
<1> QED  BY <1>1, <1>2
-----------------------------------------------------------------------------
(***************************************************************************)
(* Each queue holds the texts of what was asked, no text of nothing, of an *)
(* EXEC or of a DISCARD.                                                   *)
(***************************************************************************)
Askable(parts) == parts # <<>> /\ parts[1] \notin {<<"EXEC">>, <<"DISCARD">>}

Sound ==
    {st \in ServerStates :
        \A i \in ClientIds :
            /\ \/ st.queue[i] = None
               \/ st.queue[i] = [n \in DOMAIN st.asked[i] |-> Join(st.asked[i][n])]
            /\ \A n \in DOMAIN st.asked[i] : Askable(st.asked[i][n])}

(***************************************************************************)
(* APPENDTO, by its fields.                                                *)
(***************************************************************************)
LEMMA AppendToDoes ==
    ASSUME NEW st \in ServerStates, NEW id \in ClientIds, NEW parts \in Seq(Seq(Bytes))
    PROVE  \E r \in ServerStates :
              /\ r = APPENDTO(st, id, parts)
              /\ r = st \/ \A i \in ClientIds :
                    IF i = id
                    THEN /\ st.queue[i] \in Seq(Seq(Bytes))
                         /\ r.queue[i] = Append(st.queue[i], Join(parts))
                         /\ r.asked[i] = Append(st.asked[i], parts)
                    ELSE r.queue[i] = st.queue[i] /\ r.asked[i] = st.asked[i]
<1>1. CASE st.queue[id] = None
  <2>1. APPENDTO(st, id, parts) = st
    BY <1>1 DEF APPENDTO
  <2> QED  BY <2>1
<1>2. CASE st.queue[id] # None
  <2>1. PICK r : r = APPENDTO(st, id, parts)
    OBVIOUS
  <2>2. r = [st EXCEPT !.queue[id] = Append(@, Join(parts)),
                       !.asked[id] = Append(@, parts)]
    BY <1>2, <2>1 DEF APPENDTO
  <2>3. /\ st.queue \in [ClientIds -> {None} \cup Seq(Seq(Bytes))]
        /\ st.asked \in [ClientIds -> Seq(Seq(Seq(Bytes)))]
        /\ st = [multi |-> st.multi, queue |-> st.queue, asked |-> st.asked, log |-> st.log]
        /\ st.multi \in BOOLEAN /\ st.log \in Seq(ClientIds \X Seq(Seq(Bytes)))
    BY DEF ServerStates
  <2>4. r = [multi |-> st.multi,
             queue |-> [st.queue EXCEPT ![id] = Append(@, Join(parts))],
             asked |-> [st.asked EXCEPT ![id] = Append(@, parts)],
             log |-> st.log]
    BY <2>2, <2>3
  <2>5. [st.queue EXCEPT ![id] = Append(@, Join(parts))]
            \in [ClientIds -> {None} \cup Seq(Seq(Bytes))]
    <3>1. st.queue[id] \in Seq(Seq(Bytes)) /\ Join(parts) \in Seq(Bytes)
      <4>1. <<>> \in Seq(Bytes)
        OBVIOUS
      <4> QED  BY <1>2, <2>3, <4>1, JoinAppend
    <3>2. Append(st.queue[id], Join(parts)) \in Seq(Seq(Bytes))
      BY <3>1
    <3> QED  BY <2>3, <3>2
  <2>6. [st.asked EXCEPT ![id] = Append(@, parts)] \in [ClientIds -> Seq(Seq(Seq(Bytes)))]
    <3>1. Append(st.asked[id], parts) \in Seq(Seq(Seq(Bytes)))
      BY <2>3
    <3> QED  BY <2>3, <3>1
  <2>7. r \in ServerStates
    BY <2>3, <2>4, <2>5, <2>6 DEF ServerStates
  <2>8. st.queue[id] \in Seq(Seq(Bytes))
    BY <1>2, <2>3
  <2>9. r.queue = [st.queue EXCEPT ![id] = Append(@, Join(parts))]
        /\ r.asked = [st.asked EXCEPT ![id] = Append(@, parts)]
    BY <2>4
  <2>10. \A i \in ClientIds :
            IF i = id
            THEN /\ st.queue[i] \in Seq(Seq(Bytes))
                 /\ r.queue[i] = Append(st.queue[i], Join(parts))
                 /\ r.asked[i] = Append(st.asked[i], parts)
            ELSE r.queue[i] = st.queue[i] /\ r.asked[i] = st.asked[i]
    BY <2>3, <2>8, <2>9
  <2> QED  BY <2>1, <2>7, <2>10
<1> QED  BY <1>1, <1>2

(***************************************************************************)
(* MULTI and DISCARD, by their fields.                                     *)
(***************************************************************************)
LEMMA MultiDoes ==
    ASSUME NEW st \in ServerStates, NEW id \in ClientIds
    PROVE  \E m, r \in ServerStates :
              /\ m = MULTI(st, id) /\ r = DISCARD(st, id)
              /\ ~ r.multi /\ r.log = st.log
              /\ \A i \in ClientIds :
                    IF i = id THEN /\ m.queue[i] = <<>> /\ m.asked[i] = <<>>
                                   /\ r.queue[i] = None /\ r.asked[i] = <<>>
                    ELSE /\ m.queue[i] = st.queue[i] /\ m.asked[i] = st.asked[i]
                         /\ r.queue[i] = st.queue[i] /\ r.asked[i] = st.asked[i]
<1>1. /\ st.queue \in [ClientIds -> {None} \cup Seq(Seq(Bytes))]
      /\ st.asked \in [ClientIds -> Seq(Seq(Seq(Bytes)))]
  BY DEF ServerStates
<1>2. PICK q, d, a, yes, no : /\ q = [st.queue EXCEPT ![id] = <<>>]
                              /\ d = [st.queue EXCEPT ![id] = None]
                              /\ a = [st.asked EXCEPT ![id] = <<>>]
                              /\ yes = TRUE /\ no = FALSE
  OBVIOUS
<1>3. /\ q \in [ClientIds -> {None} \cup Seq(Seq(Bytes))]
      /\ d \in [ClientIds -> {None} \cup Seq(Seq(Bytes))]
      /\ a \in [ClientIds -> Seq(Seq(Seq(Bytes)))]
      /\ yes \in BOOLEAN /\ no \in BOOLEAN
  <2>1. <<>> \in Seq(Seq(Bytes)) /\ <<>> \in Seq(Seq(Seq(Bytes)))
    OBVIOUS
  <2> QED  BY <1>1, <1>2, <2>1
<1>4. MULTI(st, id) = [st EXCEPT !.multi = yes, !.queue = q, !.asked = a]
  BY <1>2 DEF MULTI
<1>5. DISCARD(st, id) = [st EXCEPT !.multi = no, !.queue = d, !.asked = a]
  BY <1>2 DEF DISCARD
<1>6. /\ MULTI(st, id) \in ServerStates
      /\ MULTI(st, id).queue = q /\ MULTI(st, id).asked = a
  BY <1>3, <1>4 DEF ServerStates
<1>7. /\ DISCARD(st, id) \in ServerStates
      /\ DISCARD(st, id).multi = no /\ DISCARD(st, id).queue = d /\ DISCARD(st, id).asked = a
      /\ DISCARD(st, id).log = st.log
  BY <1>3, <1>5 DEF ServerStates
<1>8. PICK m, r : m = MULTI(st, id) /\ r = DISCARD(st, id)
  OBVIOUS
<1>9. ~ r.multi
  BY <1>2, <1>7, <1>8
<1>10. m.queue = q /\ m.asked = a /\ r.queue = d /\ r.asked = a
  BY <1>6, <1>7, <1>8
<1>11. \A i \in ClientIds :
           IF i = id THEN /\ m.queue[i] = <<>> /\ m.asked[i] = <<>>
                          /\ r.queue[i] = None /\ r.asked[i] = <<>>
           ELSE /\ m.queue[i] = st.queue[i] /\ m.asked[i] = st.asked[i]
                /\ r.queue[i] = st.queue[i] /\ r.asked[i] = st.asked[i]
  BY <1>1, <1>2, <1>10
<1>12. m \in ServerStates /\ r \in ServerStates /\ r.log = st.log
  BY <1>6, <1>7, <1>8
<1> QED  BY <1>8, <1>9, <1>11, <1>12

(***************************************************************************)
(* The log with a command more, by its fields.                             *)
(***************************************************************************)
LEMMA LogDoes ==
    ASSUME NEW st \in ServerStates, NEW id \in ClientIds, NEW parts \in Seq(Seq(Bytes))
    PROVE  \E r \in ServerStates :
              /\ r = [st EXCEPT !.log = Append(@, <<id, parts>>)]
              /\ (r.multi <=> st.multi) /\ r.queue = st.queue /\ r.asked = st.asked
              /\ r.log = Append(st.log, <<id, parts>>)
<1>1. PICK log : log = Append(st.log, <<id, parts>>)
  OBVIOUS
<1>2. log \in Seq(ClientIds \X Seq(Seq(Bytes)))
  BY <1>1 DEF ServerStates
<1>3. [st EXCEPT !.log = Append(@, <<id, parts>>)] = [st EXCEPT !.log = log]
  BY <1>1
<1>4. PICK r : r = [st EXCEPT !.log = log]
  OBVIOUS
<1>5. /\ r \in ServerStates /\ r.multi = st.multi /\ r.queue = st.queue /\ r.asked = st.asked
      /\ r.log = log
  BY <1>2, <1>4 DEF ServerStates
<1> QED  BY <1>1, <1>3, <1>4, <1>5

(***************************************************************************)
(* What each of them leaves of a sound state is sound.                     *)
(***************************************************************************)
Right(q, a) == /\ q = None \/ q = [n \in DOMAIN a |-> Join(a[n])]
               /\ \A n \in DOMAIN a : Askable(a[n])

(***************************************************************************)
(* Soundness, client by client.                                            *)
(***************************************************************************)
LEMMA SoundMeans ==
    ASSUME NEW st \in ServerStates
    PROVE  st \in Sound <=> \A i \in ClientIds : Right(st.queue[i], st.asked[i])
BY DEF Sound, Right

(***************************************************************************)
(* Queueing a command, MULTI, DISCARD and a command that is executed keep a*)
(* state sound.                                                            *)
(***************************************************************************)
LEMMA SoundStays ==
    ASSUME NEW st \in Sound, NEW id \in ClientIds, NEW parts \in Seq(Seq(Bytes))
    PROVE  /\ Askable(parts) => APPENDTO(st, id, parts) \in Sound
           /\ MULTI(st, id) \in Sound
           /\ DISCARD(st, id) \in Sound
           /\ [st EXCEPT !.log = Append(@, <<id, parts>>)] \in Sound
<1>1. st \in ServerStates /\ \A i \in ClientIds : Right(st.queue[i], st.asked[i])
  <2>1. st \in ServerStates
    BY DEF Sound
  <2> QED  BY <2>1, SoundMeans
<1>2. ASSUME Askable(parts) PROVE APPENDTO(st, id, parts) \in Sound
  <2>1. PICK r \in ServerStates :
              /\ r = APPENDTO(st, id, parts)
              /\ r = st \/ \A i \in ClientIds :
                    IF i = id
                    THEN /\ st.queue[i] \in Seq(Seq(Bytes))
                         /\ r.queue[i] = Append(st.queue[i], Join(parts))
                         /\ r.asked[i] = Append(st.asked[i], parts)
                    ELSE r.queue[i] = st.queue[i] /\ r.asked[i] = st.asked[i]
    BY <1>1, AppendToDoes
  <2>2. CASE r = st
    BY <2>1, <2>2
  <2>3. CASE r # st
    <3>1. PICK q, a : q = st.queue[id] /\ a = st.asked[id]
      OBVIOUS
    <3>2. q \in Seq(Seq(Bytes)) /\ a \in Seq(Seq(Seq(Bytes)))
      BY <1>1, <2>1, <2>3, <3>1 DEF ServerStates
    <3>3. q # None
      BY <3>2, ConnectionsAssumption DEF ConnectionsAssumption
    <3>4. q = [n \in DOMAIN a |-> Join(a[n])] /\ \A n \in DOMAIN a : Askable(a[n])
      BY <1>1, <3>1, <3>3 DEF Right
    <3>5. Right(Append(q, Join(parts)), Append(a, parts))
      <4>1. PICK n, b, v : n = Len(a) /\ b = Append(a, parts) /\ v = Append(q, Join(parts))
        OBVIOUS
      <4>2. n \in Nat /\ DOMAIN b = 1 .. n + 1 /\ b[n + 1] = parts /\ \A k \in 1 .. n : b[k] = a[k]
        BY <3>2, <4>1
      <4>3. Len(q) = n /\ \A k \in 1 .. n : q[k] = Join(a[k])
        <5>1. DOMAIN a = 1 .. n /\ n \in Nat
          BY <3>2, <4>1
        <5>2. DOMAIN q = 1 .. n /\ \A k \in 1 .. n : q[k] = Join(a[k])
          BY <3>4, <5>1
        <5> QED  BY <3>2, <5>1, <5>2
      <4>4. v = [k \in 1 .. n + 1 |-> v[k]] /\ v[n + 1] = Join(parts)
            /\ \A k \in 1 .. n : v[k] = q[k]
        <5>1. Join(parts) \in Seq(Bytes)
          <6>1. <<>> \in Seq(Bytes)
            OBVIOUS
          <6> QED  BY <6>1, JoinAppend
        <5>2. PICK j \in Seq(Bytes) : j = Join(parts)
          BY <5>1
        <5>3. q \in Seq(Seq(Bytes)) /\ v = Append(q, j) /\ Len(q) = n /\ n \in Nat
              /\ j \in Seq(Bytes)
          BY <3>2, <4>1, <4>2, <4>3, <5>2
        <5>4. v = [k \in 1 .. n + 1 |-> v[k]] /\ v[n + 1] = j
              /\ \A k \in 1 .. n : v[k] = q[k]
          <6>1. v \in Seq(Seq(Bytes)) /\ Len(v) = n + 1 /\ n + 1 \in Nat
            BY ONLY <5>3
          <6>2. v = [k \in 1 .. n + 1 |-> v[k]]
            BY <6>1
          <6> QED  BY <5>3, <6>2
        <5> QED  BY <5>2, <5>4
      <4>5. \A k \in 1 .. n + 1 : k \in 1 .. n \/ k = n + 1
        BY <4>2
      <4>6. \A k \in 1 .. n + 1 : v[k] = Join(b[k])
        BY <4>2, <4>3, <4>4, <4>5
      <4>7. v = [k \in DOMAIN b |-> Join(b[k])]
        BY <4>2, <4>4, <4>6
      <4>8. \A k \in DOMAIN b : Askable(b[k])
        BY <1>2, <3>2, <3>4, <4>1, <4>2, <4>5
      <4> QED  BY <4>1, <4>7, <4>8 DEF Right
    <3>6. \A i \in ClientIds : Right(r.queue[i], r.asked[i])
      BY <1>1, <2>1, <2>3, <3>1, <3>5
    <3> QED  BY <2>1, <3>6, SoundMeans
  <2> QED  BY <2>2, <2>3
<1>3. MULTI(st, id) \in Sound /\ DISCARD(st, id) \in Sound
  <2>1. PICK m \in ServerStates, r \in ServerStates :
              /\ m = MULTI(st, id) /\ r = DISCARD(st, id)
              /\ \A i \in ClientIds :
                    IF i = id THEN /\ m.queue[i] = <<>> /\ m.asked[i] = <<>>
                                   /\ r.queue[i] = None /\ r.asked[i] = <<>>
                    ELSE /\ m.queue[i] = st.queue[i] /\ m.asked[i] = st.asked[i]
                         /\ r.queue[i] = st.queue[i] /\ r.asked[i] = st.asked[i]
    BY <1>1, MultiDoes
  <2>2. Right(<<>>, <<>>) /\ Right(None, <<>>)
    BY DEF Right
  <2>3. \A i \in ClientIds : Right(m.queue[i], m.asked[i]) /\ Right(r.queue[i], r.asked[i])
    BY <1>1, <2>1, <2>2
  <2> QED  BY <2>1, <2>3, SoundMeans
<1>4. [st EXCEPT !.log = Append(@, <<id, parts>>)] \in Sound
  <2>1. PICK r \in ServerStates :
              /\ r = [st EXCEPT !.log = Append(@, <<id, parts>>)]
              /\ (r.multi <=> st.multi) /\ r.queue = st.queue /\ r.asked = st.asked
              /\ r.log = Append(st.log, <<id, parts>>)
    BY <1>1, LogDoes
  <2>2. \A i \in ClientIds : Right(r.queue[i], r.asked[i])
    BY <1>1, <2>1
  <2> QED  BY <2>1, <2>2, SoundMeans
<1> QED  BY <1>2, <1>3, <1>4

(***************************************************************************)
(* The dispatch leaves neither the states nor the sound states, if EXEC    *)
(* does not.                                                               *)
(***************************************************************************)
LEMMA DispatchIn ==
    ASSUME NEW G \in {ServerStates, Sound}, NEW st \in G, NEW id \in ClientIds,
           NEW parts \in Seq(Seq(Bytes)), NEW e \in G
    PROVE  Dispatch(st, id, parts, e) \in G
<1>1. PICK a, m, d, log : /\ a = APPENDTO(st, id, parts) /\ m = MULTI(st, id)
                          /\ d = DISCARD(st, id)
                          /\ log = [st EXCEPT !.log = Append(@, <<id, parts>>)]
  OBVIOUS
<1>2. /\ Askable(parts) => a \in G
      /\ m \in G /\ d \in G /\ log \in G
  <2>1. CASE G = ServerStates
    <3>1. st \in ServerStates
      BY <2>1
    <3>2. a \in ServerStates
      BY <1>1, <3>1, AppendToDoes
    <3>3. m \in ServerStates /\ d \in ServerStates
      BY <1>1, <3>1, MultiDoes
    <3>4. log \in ServerStates
      <4>1. PICK r \in ServerStates :
                /\ r = [st EXCEPT !.log = Append(@, <<id, parts>>)]
                /\ (r.multi <=> st.multi) /\ r.queue = st.queue /\ r.asked = st.asked
                /\ r.log = Append(st.log, <<id, parts>>)
        BY <3>1, LogDoes
      <4> QED  BY <1>1, <4>1
    <3> QED  BY <2>1, <3>2, <3>3, <3>4
  <2>2. CASE G = Sound
    <3>1. st \in Sound
      BY <2>2
    <3>2. /\ Askable(parts) => a \in Sound
          /\ m \in Sound /\ d \in Sound /\ log \in Sound
      BY <1>1, <3>1, SoundStays
    <3> QED  BY <2>2, <3>2
  <2> QED  BY <2>1, <2>2
<1>3. \/ Dispatch(st, id, parts, e) = st
      \/ Askable(parts) /\ Dispatch(st, id, parts, e) = a
      \/ Dispatch(st, id, parts, e) = m
      \/ Dispatch(st, id, parts, e) = e
      \/ Dispatch(st, id, parts, e) = d
      \/ Dispatch(st, id, parts, e) = log
  BY <1>1, Zenon DEF Dispatch, Askable
<1> QED  BY <1>2, <1>3

(***************************************************************************)
(* The states of the loop of RunTexts.                                     *)
(***************************************************************************)
Ran(f, st, id, texts, exec, G) ==
    /\ f = [m \in 0 .. Len(texts) |-> f[m]] /\ f[0] = DISCARD(st, id)
    /\ \A m \in 0 .. Len(texts) : f[m] \in G
    /\ \A m \in 1 .. Len(texts) :
          f[m] = Dispatch(f[m - 1], id, Fields(texts[m]), exec[f[m - 1]])

(***************************************************************************)
(* RunTexts leaves the last of them.                                       *)
(***************************************************************************)
LEMMA RunTextsIn ==
    ASSUME NEW G \in {ServerStates, Sound}, NEW st \in G, NEW id \in ClientIds,
           NEW texts \in Seq(Seq(Bytes)), NEW exec, \A s \in G : exec[s] \in G
    PROVE  \E f : /\ Ran(f, st, id, texts, exec, G)
                  /\ RunTexts(st, id, texts, exec) = f[Len(texts)]
<1> DEFINE n == Len(texts)
           a == DISCARD(st, id)
           step == [m \in 1 .. n |-> [s \in G |-> Dispatch(s, id, Fields(texts[m]), exec[s])]]
<1>1. n \in Nat /\ a \in G
  <2>1. CASE G = ServerStates
    <3>1. st \in ServerStates
      BY <2>1
    <3>2. DISCARD(st, id) \in ServerStates
      BY <3>1, MultiDoes
    <3> QED  BY <2>1, <3>2
  <2>2. CASE G = Sound
    <3>1. st \in Sound /\ <<>> \in Seq(Seq(Bytes))
      BY <2>2
    <3>2. DISCARD(st, id) \in Sound
      BY <3>1, SoundStays, Zenon
    <3> QED  BY <2>2, <3>2
  <2> QED  BY <2>1, <2>2
<1>2. \A m \in 1 .. n : \A s \in G : step[m][s] \in G
  <2> TAKE m \in 1 .. n
  <2> TAKE s \in G
  <2>1. Fields(texts[m]) \in Seq(Seq(Bytes))
    <3>1. texts[m] \in Seq(Bytes)
      OBVIOUS
    <3> QED  BY <3>1, FieldsType
  <2>2. Dispatch(s, id, Fields(texts[m]), exec[s]) \in G
    BY <2>1, DispatchIn
  <2> QED  BY <2>2
<1>3. PICK g : Loop(g, G, a, step, n)
  <2> HIDE DEF n, step, a
  <2> QED  BY <1>1, <1>2, LoopRuns
<1>4. Ran(g, st, id, texts, exec, G)
  <2>1. \A m \in 1 .. n : m - 1 \in 0 .. n /\ m \in 0 .. n
    BY <1>1
  <2>2. \A m \in 0 .. n : g[m] \in G
    BY <1>3 DEF Loop
  <2>3. \A m \in 1 .. n : g[m] = step[m][g[m - 1]]
    BY <1>3 DEF Loop
  <2>4. g = [m \in 0 .. n |-> g[m]] /\ g[0] = a
    BY <1>3 DEF Loop
  <2>5. \A m \in 1 .. n : g[m] = Dispatch(g[m - 1], id, Fields(texts[m]), exec[g[m - 1]])
    BY <2>1, <2>2, <2>3
  <2> QED  BY <2>2, <2>4, <2>5 DEF Ran
<1> DEFINE Equation(f) == f = [m \in 0 .. n |-> IF m = 0 THEN DISCARD(st, id)
                  ELSE Dispatch(f[m - 1], id, Fields(texts[m]), exec[f[m - 1]])]
           run == CHOOSE f : Equation(f)
<1>5. Equation(g)
  <2>1. \A m \in 0 .. n : g[m] = IF m = 0 THEN DISCARD(st, id)
                  ELSE Dispatch(g[m - 1], id, Fields(texts[m]), exec[g[m - 1]])
    <3>1. g[0] = DISCARD(st, id)
      BY <1>4 DEF Ran
    <3>2. \A m \in 1 .. n : g[m] = Dispatch(g[m - 1], id, Fields(texts[m]), exec[g[m - 1]])
      BY <1>4 DEF Ran
    <3> HIDE DEF n
    <3> QED  BY <1>1, <3>1, <3>2
  <2>2. g = [m \in 0 .. n |-> g[m]]
    BY <1>4 DEF Ran
  <2> HIDE DEF n
  <2> QED  BY <2>1, <2>2
<1>6. Equation(run)
  <2> HIDE DEF Equation
  <2> QED  BY <1>5
<1>7. RunTexts(st, id, texts, exec) = run[n]
  BY DEF RunTexts
<1>8. PICK h : h = run
  OBVIOUS
<1>9. h[n] = g[n]
  <2>1. Equation(h)
    BY <1>6, <1>8
  <2>2. h[0] = g[0]
    BY <1>1, <1>5, <2>1
  <2>3. ASSUME NEW m \in 1 .. n, h[m - 1] = g[m - 1] PROVE h[m] = g[m]
    <3>1. m \in 0 .. n /\ m # 0
      BY <1>1
    <3> HIDE DEF n
    <3> QED  BY <1>5, <2>1, <2>3, <3>1
  <2> HIDE DEF n, Equation
  <2> QED  BY <1>1, <2>2, <2>3, LoopsAgree
<1> QED  BY <1>4, <1>7, <1>8, <1>9

(***************************************************************************)
(* EXEC of a queue runs its texts, and in the states that this leads to an *)
(* EXEC that stays among the states, and among the sound ones.             *)
(***************************************************************************)
Stays(exec) == /\ \A s \in ServerStates : exec[s] \in ServerStates
               /\ \A s \in Sound : exec[s] \in Sound

(***************************************************************************)
(* EXEC without a transaction changes nothing; with one, it runs the texts *)
(* of the queue, and an EXEC among them stays among the states.            *)
(***************************************************************************)
LEMMA ExecIs ==
    ASSUME NEW st \in ServerStates, NEW id \in ClientIds
    PROVE  /\ st.queue[id] = None => EXEC(st, id) = st
           /\ st.queue[id] # None =>
                 \E exec : /\ Stays(exec)
                           /\ EXEC(st, id) = RunTexts(st, id, st.queue[id], exec)
<1> DEFINE most == IF st.queue[id] = None THEN 0 ELSE Len(st.queue[id])
           n == most + 1
           A == {x \in [ServerStates -> ServerStates] : \A s \in Sound : x[s] \in Sound}
           none == [s \in ServerStates |-> s]
           one(x) == [s \in ServerStates |->
                         IF s.queue[id] = None THEN s ELSE RunTexts(s, id, s.queue[id], x)]
           step == [m \in 1 .. n |-> [x \in A |-> one(x)]]
<1>1. most \in Nat /\ n \in Nat /\ n # 0
  <2>1. st.queue[id] # None => st.queue[id] \in Seq(Seq(Bytes))
    BY DEF ServerStates
  <2> QED  BY <2>1
<1>2. Sound \subseteq ServerStates
  BY DEF Sound
<1>3. none \in A
  BY <1>2
<1>4. ASSUME NEW x \in A PROVE one(x) \in A
  <2>1. ASSUME NEW G \in {ServerStates, Sound}, NEW s \in G, s.queue[id] # None
        PROVE  RunTexts(s, id, s.queue[id], x) \in G
    <3>1. PICK texts : texts = s.queue[id]
      OBVIOUS
    <3>2. texts \in Seq(Seq(Bytes))
      <4>1. s \in ServerStates
        BY <1>2
      <4> QED  BY <2>1, <3>1, <4>1 DEF ServerStates
    <3>3. \A r \in G : x[r] \in G
      <4>1. CASE G = ServerStates
        BY <4>1
      <4>2. CASE G = Sound
        BY <4>2
      <4> QED  BY <4>1, <4>2
    <3> HIDE DEF A
    <3>4. PICK f : Ran(f, s, id, texts, x, G) /\ RunTexts(s, id, texts, x) = f[Len(texts)]
      BY <3>2, <3>3, RunTextsIn
    <3>5. f[Len(texts)] \in G
      <4>1. Len(texts) \in 0 .. Len(texts)
        BY <3>2
      <4> QED  BY <3>4, <4>1 DEF Ran
    <3> QED  BY <3>1, <3>4, <3>5
  <2>2. PICK y : y = one(x)
    OBVIOUS
  <2>3. ASSUME NEW G \in {ServerStates, Sound}, NEW s \in G PROVE y[s] \in G
    <3>1. s \in ServerStates
      BY <1>2
    <3>2. y[s] = IF s.queue[id] = None THEN s ELSE RunTexts(s, id, s.queue[id], x)
      BY <2>2, <3>1
    <3> HIDE DEF A
    <3> QED  BY <2>1, <3>2
  <2>4. y = [s \in ServerStates |-> y[s]]
    BY <2>2
  <2>5. y \in [ServerStates -> ServerStates]
    BY <2>3, <2>4
  <2>6. \A s \in Sound : y[s] \in Sound
    BY <2>3
  <2> HIDE DEF one
  <2> QED  BY <2>2, <2>5, <2>6
<1>5. \A m \in 1 .. n : \A x \in A : step[m][x] \in A
  <2> HIDE DEF A, one
  <2> QED  BY <1>4
<1>6. PICK g : Loop(g, A, none, step, n)
  <2> HIDE DEF A, n, none, step
  <2> QED  BY <1>1, <1>3, <1>5, LoopRuns
<1>7. /\ g = [m \in 0 .. n |-> g[m]] /\ g[0] = none
      /\ \A m \in 0 .. n : g[m] \in A
      /\ \A m \in 1 .. n : g[m] = one(g[m - 1])
  <2> HIDE DEF A, one, none
  <2>1. \A m \in 1 .. n : m - 1 \in 0 .. n /\ m \in 0 .. n
    BY <1>1
  <2>2. \A m \in 0 .. n : g[m] \in A
    BY <1>6 DEF Loop
  <2>3. \A m \in 1 .. n : g[m] = step[m][g[m - 1]]
    BY <1>6 DEF Loop
  <2>4. g = [m \in 0 .. n |-> g[m]] /\ g[0] = none
    BY <1>6 DEF Loop
  <2>5. \A m \in 1 .. n : g[m] = one(g[m - 1])
    BY <2>1, <2>2, <2>3
  <2> QED  BY <2>2, <2>4, <2>5
<1> DEFINE Equation(f) == f = [m \in 0 .. n |-> [s \in ServerStates |->
                IF m = 0 \/ s.queue[id] = None THEN s
                ELSE RunTexts(s, id, s.queue[id], f[m - 1])]]
           depth == CHOOSE f : Equation(f)
<1>8. Equation(g)
  <2>1. \A m \in 0 .. n : g[m] = [s \in ServerStates |->
                IF m = 0 \/ s.queue[id] = None THEN s
                ELSE RunTexts(s, id, s.queue[id], g[m - 1])]
    <3> TAKE m \in 0 .. n
    <3>1. CASE m = 0
      BY <1>7, <3>1
    <3>2. CASE m # 0
      <4>1. m \in 1 .. n
        BY <1>1, <3>2
      <4>2. g[m] = one(g[m - 1])
        BY <1>7, <4>1
      <4> QED  BY <3>2, <4>2
    <3> QED  BY <3>1, <3>2
  <2> HIDE DEF n
  <2> QED  BY <1>7, <2>1
<1>9. Equation(depth)
  <2> HIDE DEF Equation
  <2> QED  BY <1>8
<1>10. EXEC(st, id) = depth[n][st]
  BY DEF EXEC
<1>11. PICK h : h = depth
  OBVIOUS
<1>12. h[n] = g[n]
  <2>1. Equation(h)
    <3> HIDE DEF Equation, depth
    <3> QED  BY <1>9, <1>11
  <2>2. h[0] = g[0]
    <3>1. 0 \in 0 .. n
      BY <1>1
    <3>2. h[0] = none
      BY <2>1, <3>1
    <3> QED  BY <1>7, <3>2
  <2>3. ASSUME NEW m \in 1 .. n, h[m - 1] = g[m - 1] PROVE h[m] = g[m]
    <3>1. m \in 0 .. n /\ m # 0
      BY <1>1
    <3>2. h[m] = [s \in ServerStates |->
                IF m = 0 \/ s.queue[id] = None THEN s
                ELSE RunTexts(s, id, s.queue[id], h[m - 1])]
      BY <2>1, <3>1
    <3>3. g[m] = [s \in ServerStates |->
                IF m = 0 \/ s.queue[id] = None THEN s
                ELSE RunTexts(s, id, s.queue[id], g[m - 1])]
      BY <1>8, <3>1
    <3> HIDE DEF n
    <3> QED  BY <2>3, <3>2, <3>3
  <2> HIDE DEF n, Equation
  <2> QED  BY <1>1, <2>2, <2>3, LoopsAgree
<1>13. EXEC(st, id) = IF st.queue[id] = None THEN st
                      ELSE RunTexts(st, id, st.queue[id], g[n - 1])
  <2>1. n \in 1 .. n
    BY <1>1
  <2>2. g[n] = one(g[n - 1])
    <3> HIDE DEF one, n, A
    <3> QED  BY <1>7, <2>1
  <2>3. g[n][st] = IF st.queue[id] = None THEN st ELSE RunTexts(st, id, st.queue[id], g[n - 1])
    <3>1. PICK x, u : x = g[n - 1] /\ u = g[n]
      OBVIOUS
    <3>2. u = [s \in ServerStates |->
                  IF s.queue[id] = None THEN s ELSE RunTexts(s, id, s.queue[id], x)]
      BY <2>2, <3>1
    <3>3. u[st] = IF st.queue[id] = None THEN st ELSE RunTexts(st, id, st.queue[id], x)
      BY <3>2
    <3> HIDE DEF n
    <3> QED  BY <3>1, <3>3
  <2> QED  BY <1>10, <1>11, <1>12, <2>3
<1>14. Stays(g[n - 1])
  <2>1. n - 1 \in 0 .. n
    BY <1>1
  <2>2. g[n - 1] \in A
    BY <1>7, <2>1
  <2> HIDE DEF n
  <2> QED  BY <2>2 DEF Stays
<1> HIDE DEF n
<1> QED  BY <1>13, <1>14

(***************************************************************************)
(* So ProcessCommand leaves neither the states nor the sound states.       *)
(***************************************************************************)
LEMMA ProcessIn ==
    ASSUME NEW G \in {ServerStates, Sound}, NEW st \in G, NEW id \in ClientIds,
           NEW parts \in Seq(Seq(Bytes))
    PROVE  ProcessCommand(st, id, parts) \in G
<1>1. st \in ServerStates
  BY DEF Sound
<1>2. EXEC(st, id) \in G
  <2>1. CASE st.queue[id] = None
    BY <1>1, <2>1, ExecIs
  <2>2. CASE st.queue[id] # None
    <3>1. PICK exec : Stays(exec) /\ EXEC(st, id) = RunTexts(st, id, st.queue[id], exec)
      BY <1>1, <2>2, ExecIs
    <3>2. PICK texts : texts = st.queue[id]
      OBVIOUS
    <3>3. texts \in Seq(Seq(Bytes))
      BY <1>1, <2>2, <3>2 DEF ServerStates
    <3>4. \A r \in G : exec[r] \in G
      BY <3>1 DEF Stays
    <3>5. PICK f : Ran(f, st, id, texts, exec, G) /\ RunTexts(st, id, texts, exec) = f[Len(texts)]
      BY <3>3, <3>4, RunTextsIn
    <3>6. f[Len(texts)] \in G
      <4>1. Len(texts) \in 0 .. Len(texts)
        BY <3>3
      <4> QED  BY <3>5, <4>1 DEF Ran
    <3> QED  BY <3>1, <3>2, <3>5, <3>6
  <2> QED  BY <2>1, <2>2
<1> QED  BY <1>2, DispatchIn DEF ProcessCommand

(***************************************************************************)
(* EXEC of a queue of plain commands runs them as they were asked.         *)
(***************************************************************************)
LEMMA ExecRunsQueue ==
    ASSUME NEW st \in Sound, NEW id \in ClientIds, st.queue[id] # None,
           \A j \in DOMAIN st.asked[id] : Plain(st.asked[id][j])
    PROVE  EXEC(st, id).log = st.log \o [j \in DOMAIN st.asked[id] |-> <<id, st.asked[id][j]>>]
<1>1. PICK texts, asked : texts = st.queue[id] /\ asked = st.asked[id]
  OBVIOUS
<1>2. st \in ServerStates /\ Right(texts, asked)
  <2>1. st \in ServerStates
    BY DEF Sound
  <2> QED  BY <1>1, <2>1, SoundMeans
<1>3. /\ texts \in Seq(Seq(Bytes)) /\ asked \in Seq(Seq(Seq(Bytes)))
      /\ st.log \in Seq(ClientIds \X Seq(Seq(Bytes)))
  BY <1>1, <1>2 DEF ServerStates
<1>4. texts = [j \in DOMAIN asked |-> Join(asked[j])] /\ \A j \in DOMAIN asked : Askable(asked[j])
  BY <1>1, <1>2 DEF Right
<1>5. PICK n : n = Len(asked)
  OBVIOUS
<1>6. n \in Nat /\ DOMAIN asked = 1 .. n /\ Len(texts) = n
  <2>1. n \in Nat /\ DOMAIN asked = 1 .. n
    BY <1>3, <1>5
  <2>2. DOMAIN texts = 1 .. n
    BY <1>4, <2>1
  <2> QED  BY <1>3, <2>1, <2>2
<1>7. PICK exec : Stays(exec) /\ EXEC(st, id) = RunTexts(st, id, texts, exec)
  BY <1>1, <1>2, ExecIs
<1>8. PICK f : Ran(f, st, id, texts, exec, Sound) /\ RunTexts(st, id, texts, exec) = f[n]
  <2>1. \A s \in Sound : exec[s] \in Sound
    BY <1>7 DEF Stays
  <2>2. \E f : Ran(f, st, id, texts, exec, Sound) /\ RunTexts(st, id, texts, exec) = f[Len(texts)]
    <3>1. PICK G \in {ServerStates, Sound} : G = Sound
      OBVIOUS
    <3>2. \A s \in G : exec[s] \in G
      BY <2>1, <3>1
    <3>3. PICK u \in G : u = st
      BY <3>1
    <3>4. PICK t \in Seq(Seq(Bytes)) : t = texts
      BY <1>3
    <3>5. \E f : Ran(f, u, id, t, exec, G) /\ RunTexts(u, id, t, exec) = f[Len(t)]
      BY <3>2, RunTextsIn
    <3> QED  BY <3>1, <3>3, <3>4, <3>5
  <2> QED  BY <1>6, <2>2
<1>9. /\ f[0] = DISCARD(st, id)
      /\ \A m \in 0 .. n : f[m] \in ServerStates
      /\ \A m \in 1 .. n : f[m] = Dispatch(f[m - 1], id, Fields(texts[m]), exec[f[m - 1]])
  <2>1. Sound \subseteq ServerStates
    BY DEF Sound
  <2> QED  BY <1>6, <1>8, <2>1 DEF Ran
<1> DEFINE ran(m) == [j \in 1 .. m |-> <<id, asked[j]>>]
           P == {m \in 0 .. n : ~ f[m].multi /\ f[m].log = st.log \o ran(m)}
<1>10. \A m \in 0 .. n : ran(m) \in Seq(ClientIds \X Seq(Seq(Bytes))) /\ Len(ran(m)) = m
  <2> TAKE m \in 0 .. n
  <2>1. \A j \in 1 .. m : <<id, asked[j]>> \in ClientIds \X Seq(Seq(Bytes))
    BY <1>3, <1>6
  <2>2. m \in Nat
    BY <1>6
  <2>3. ran(m) \in Seq(ClientIds \X Seq(Seq(Bytes)))
    BY <2>1, <2>2
  <2>4. DOMAIN ran(m) = 1 .. m
    OBVIOUS
  <2> HIDE DEF ran
  <2> QED  BY <2>2, <2>3, <2>4
<1>11. 0 \in P
  <2>1. ran(0) = <<>>
    OBVIOUS
  <2>2. ~ DISCARD(st, id).multi /\ DISCARD(st, id).log = st.log
    BY <1>2, MultiDoes
  <2>3. st.log \o <<>> = st.log
    BY <1>3
  <2>4. ~ f[0].multi /\ f[0].log = st.log
    BY <1>9, <2>2
  <2>5. f[0].log = st.log \o ran(0)
    <3> HIDE DEF ran
    <3> QED  BY <2>1, <2>3, <2>4
  <2>6. 0 \in 0 .. n
    BY <1>6
  <2> HIDE DEF ran
  <2> QED  BY <2>4, <2>5, <2>6
<1>12. ASSUME NEW m \in 0 .. n - 1, m \in P PROVE m + 1 \in P
  <2>1. m + 1 \in 1 .. n /\ (m + 1) - 1 = m /\ m \in 0 .. n /\ m + 1 \in 0 .. n
    BY <1>6
  <2>2. PICK parts, s : parts = asked[m + 1] /\ s = f[m]
    OBVIOUS
  <2>3. parts \in Seq(Seq(Bytes)) /\ Plain(parts) /\ Askable(parts)
    BY <1>1, <1>3, <1>4, <1>6, <2>1, <2>2
  <2>4. Fields(texts[m + 1]) = parts
    <3>1. texts[m + 1] = Join(parts)
      BY <1>4, <1>6, <2>1, <2>2
    <3>2. \A i \in 1 .. Len(parts) : parts[i] \in Seq(Bytes \ Blanks) /\ parts[i] # <<>>
      <4> TAKE i \in 1 .. Len(parts)
      <4>1. parts[i] \in Seq(Bytes) /\ i \in DOMAIN parts
        BY <2>3
      <4>2. parts[i] # <<>> /\ \A b \in Blanks : ~ Contains(parts[i], b)
        BY <2>3, <4>1 DEF Plain
      <4>3. \A k \in 1 .. Len(parts[i]) : parts[i][k] \in Bytes \ Blanks
        BY <4>1, <4>2 DEF Contains
      <4>4. parts[i] \in Seq(Bytes \ Blanks)
        BY <4>1, <4>3
      <4> QED  BY <4>2, <4>4
    <3>3. parts \in Seq({p \in Seq(Bytes \ Blanks) : p # <<>>})
      BY <2>3, <3>2
    <3> QED  BY <3>1, <3>3, FieldsOfJoin
  <2>5. PICK e : e = exec[s]
    OBVIOUS
  <2>6. f[m + 1] = Dispatch(s, id, parts, e)
    BY <1>9, <2>1, <2>2, <2>4, <2>5
  <2>7. ~ s.multi /\ s.log = st.log \o ran(m) /\ s \in ServerStates
    <3> HIDE DEF ran
    <3> QED  BY <1>9, <1>12, <2>1, <2>2
  <2>8. f[m + 1] = [s EXCEPT !.log = Append(@, <<id, parts>>)]
    <3>1. /\ parts # <<>> /\ parts[1] # <<"EXEC">> /\ parts[1] # <<"DISCARD">>
          /\ parts[1] # <<"MULTI">>
      BY <2>3 DEF Plain, Askable
    <3> HIDE DEF ran, P
    <3> QED  BY <2>6, <2>7, <3>1, Zenon DEF Dispatch
  <2>9. (f[m + 1].multi <=> s.multi) /\ f[m + 1].log = Append(s.log, <<id, parts>>)
    <3>1. \E r \in ServerStates :
              /\ r = [s EXCEPT !.log = Append(@, <<id, parts>>)]
              /\ (r.multi <=> s.multi) /\ r.queue = s.queue /\ r.asked = s.asked
              /\ r.log = Append(s.log, <<id, parts>>)
      <4>1. s \in ServerStates /\ parts \in Seq(Seq(Bytes))
        BY <2>3, <2>7
      <4> QED  BY ONLY <4>1, id \in ClientIds, LogDoes, Zenon
    <3> QED  BY <2>8, <3>1
  <2>10. ran(m + 1) = Append(ran(m), <<id, parts>>)
    <3>1. PICK a, b : a = ran(m) /\ b = Append(ran(m), <<id, parts>>)
      OBVIOUS
    <3>2. a \in Seq(ClientIds \X Seq(Seq(Bytes))) /\ Len(a) = m
          /\ \A j \in 1 .. m : a[j] = <<id, asked[j]>>
      BY <1>10, <2>1, <3>1
    <3>3. PICK x \in ClientIds \X Seq(Seq(Bytes)) : x = <<id, parts>>
      BY <2>3
    <3>4. b = Append(a, x)
      BY <3>1, <3>3
    <3>5. b \in Seq(ClientIds \X Seq(Seq(Bytes))) /\ Len(b) = m + 1 /\ b[m + 1] = x
          /\ \A j \in 1 .. m : b[j] = a[j]
      <4>1. PICK S : S = ClientIds \X Seq(Seq(Bytes))
        OBVIOUS
      <4>2. a \in Seq(S) /\ x \in S /\ Len(a) = m /\ m \in Nat
        BY <1>6, <3>2, <4>1
      <4>3. b \in Seq(S) /\ Len(b) = m + 1 /\ b[m + 1] = x /\ \A j \in 1 .. m : b[j] = a[j]
        BY ONLY <3>4, <4>2
      <4> QED  BY <4>1, <4>3
    <3>6. b = [j \in 1 .. m + 1 |-> b[j]]
      BY <3>5
    <3>7. \A j \in 1 .. m + 1 : b[j] = <<id, asked[j]>>
      <4>1. \A j \in 1 .. m + 1 : j \in 1 .. m \/ j = m + 1
        BY <2>1
      <4> HIDE DEF ran
      <4> QED  BY <2>2, <3>2, <3>3, <3>5, <4>1
    <3> QED  BY <3>1, <3>6, <3>7
  <2>11. Append(st.log \o ran(m), <<id, parts>>) = st.log \o Append(ran(m), <<id, parts>>)
    <3>1. PICK x \in ClientIds \X Seq(Seq(Bytes)) : x = <<id, parts>>
      BY <2>3
    <3>2. PICK a : a = ran(m)
      OBVIOUS
    <3>3. a \in Seq(ClientIds \X Seq(Seq(Bytes)))
      BY <1>10, <2>1, <3>2
    <3>4. Append(st.log \o a, x) = st.log \o Append(a, x)
      <4>1. PICK l \in Seq(ClientIds \X Seq(Seq(Bytes))) : l = st.log
        BY <1>3
      <4>2. PICK q \in Seq(ClientIds \X Seq(Seq(Bytes))), y \in ClientIds \X Seq(Seq(Bytes)) :
                q = a /\ y = x
        BY <3>3
      <4>3. Cat(l, Append(q, y)) = Append(Cat(l, q), y)
        BY Regroup
      <4> QED  BY <4>1, <4>2, <4>3 DEF Cat
    <3> QED  BY <3>1, <3>2, <3>4
  <2> HIDE DEF ran
  <2> QED  BY <2>1, <2>7, <2>9, <2>10, <2>11
<1>13. n \in P
  <2>1. \A m \in 0 .. n : m \in P
    <3> HIDE DEF P
    <3> QED  BY <1>6, <1>11, <1>12, AllUpTo
  <2> HIDE DEF P
  <2> QED  BY <1>6, <2>1
<1>14. EXEC(st, id).log = st.log \o ran(n)
  <2> HIDE DEF ran
  <2> QED  BY <1>7, <1>8, <1>13
<1> QED  BY <1>1, <1>6, <1>14

-----------------------------------------------------------------------------
(***************************************************************************)
(* Prefixes: of itself, of one element more, of what is put behind.        *)
(***************************************************************************)
LEMMA PrefixFacts ==
    ASSUME NEW S, NEW u \in Seq(S), NEW v \in Seq(S)
    PROVE  /\ IsPrefix(u, u)
           /\ IsPrefix(u, u \o v)
           /\ \A x \in S : IsPrefix(u, v) => IsPrefix(u, Append(v, x))
<1>1. IsPrefix(u, u)
  BY DEF IsPrefix
<1>2. IsPrefix(u, u \o v)
  <2>1. Len(u) <= Len(u \o v) /\ Len(u) \in Nat
    BY ConcatProperties
  <2>2. CASE Len(u) = 0
    <3>1. SubSeq(u, 1, Len(u)) = <<>> /\ SubSeq(u \o v, 1, Len(u)) = <<>>
      BY <2>2
    <3> QED  BY <2>1, <3>1 DEF IsPrefix
  <2>3. CASE Len(u) # 0
    <3>1. 1 \in 1 .. Len(u) /\ Len(u) \in 1 .. Len(u)
      BY <2>1, <2>3
    <3>2. SubSeq(u \o v, 1, Len(u)) = SubSeq(u, 1, Len(u))
      BY <3>1, SubSeqOfConcat1
    <3> QED  BY <2>1, <3>2 DEF IsPrefix
  <2> QED  BY <2>2, <2>3
<1>3. ASSUME NEW x \in S, IsPrefix(u, v) PROVE IsPrefix(u, Append(v, x))
  <2>1. PICK w : w = Append(v, x)
    OBVIOUS
  <2>2. w \in Seq(S) /\ Len(w) = Len(v) + 1 /\ \A i \in 1 .. Len(v) : w[i] = v[i]
    BY <2>1
  <2>3. Len(u) <= Len(v) /\ SubSeq(u, 1, Len(u)) = SubSeq(v, 1, Len(u))
    BY <1>3 DEF IsPrefix
  <2>4. Len(u) <= Len(w) /\ Len(u) \in Nat
    BY <2>2, <2>3
  <2>5. SubSeq(w, 1, Len(u)) = SubSeq(v, 1, Len(u))
    <3>1. SubSeq(w, 1, Len(u)) = [i \in 1 .. Len(u) |-> w[i]]
      BY <2>2, <2>4
    <3>2. SubSeq(v, 1, Len(u)) = [i \in 1 .. Len(u) |-> v[i]]
      BY <2>3, <2>4
    <3>3. \A i \in 1 .. Len(u) : w[i] = v[i]
      BY <2>2, <2>3, <2>4
    <3> QED  BY <3>1, <3>2, <3>3
  <2> QED  BY <2>1, <2>3, <2>4, <2>5 DEF IsPrefix
<1> QED  BY <1>1, <1>2, <1>3

(***************************************************************************)
(* A client that waits for each answer: nothing is on its way, and what it *)
(* typed was executed; or its last line is.                                *)
(***************************************************************************)
Lines == Seq(Bytes \ {"newline"})

Waits(c, b, ty, rec) ==
    \/ b = <<>> /\ rec = Commands(c, ty)
    \/ \E u \in Seq(Lines), l \in Lines :
          ty = Append(u, l) /\ b = Append(l, "newline") /\ rec = Commands(c, u)

(***************************************************************************)
(* No byte of a word has been lost so far.                                 *)
(***************************************************************************)
Keeps(b, ty, rec) ==
    /\ b \in Seq(Bytes \ {"quote", "backspace"})
    /\ FlattenSeq(FlattenSeq(rec)) \o Visible(b) = Visible(FlattenSeq(ty))

(***************************************************************************)
(* A list of parts with a command more, unless it is none.                 *)
(***************************************************************************)
With(rec, parts) == IF parts = <<>> THEN rec ELSE Append(rec, parts)

(***************************************************************************)
(* Lines are bytes.                                                        *)
(***************************************************************************)
LEMMA LinesAreBytes ==
    /\ "newline" \in Bytes /\ "newline" \in Blanks
    /\ "newline" # "quote" /\ "newline" # "backspace"
    /\ \A l \in Lines : l \in Seq(Bytes) /\ \A i \in 1 .. Len(l) : l[i] # "newline"
    /\ \A u \in Seq(Lines) : u \in Seq(Seq(Bytes))
<1>1. "newline" \in Bytes /\ "newline" \in Blanks
  BY DEF Bytes, Blanks
<1>2. \A l \in Lines : l \in Seq(Bytes) /\ \A i \in 1 .. Len(l) : l[i] # "newline"
  BY DEF Lines
<1>3. \A u \in Seq(Lines) : u \in Seq(Seq(Bytes))
  BY <1>2
<1> QED  BY <1>1, <1>2, <1>3

(***************************************************************************)
(* Sending the next line, when there are as many answers as lines.         *)
(***************************************************************************)
LEMMA WaitsSend ==
    ASSUME NEW c \in Conns, NEW b \in Seq(Bytes), NEW ty \in Seq(Lines), NEW l \in Lines,
           NEW rec, Waits(c, b, ty, rec), Len(rec) = Len(ty)
    PROVE  Waits(c, b \o (l \o <<"newline">>), Append(ty, l), rec)
<1>1. b = <<>> /\ rec = Commands(c, ty)
  <2>1. ASSUME NEW u \in Seq(Lines), NEW m \in Lines, ty = Append(u, m), rec = Commands(c, u)
        PROVE  FALSE
    <3>1. Len(ty) = Len(u) + 1 /\ Len(u) \in Nat
      BY <2>1
    <3>2. u \in Seq(Seq(Bytes))
      BY LinesAreBytes
    <3>3. Len(Commands(c, u)) <= Len(u)
      BY <3>2, CommandsAreFewer
    <3> QED  BY <2>1, <3>1, <3>3
  <2> QED  BY <2>1 DEF Waits
<1>2. l \in Seq(Bytes) /\ "newline" \in Bytes
  BY LinesAreBytes
<1>3. b \o (l \o <<"newline">>) = Append(l, "newline")
  BY <1>1, <1>2
<1> QED  BY <1>1, <1>3 DEF Waits

(***************************************************************************)
(* A chunk that completes a line takes all that was on its way.            *)
(***************************************************************************)
LEMMA WaitsChunk ==
    ASSUME NEW c \in Conns, Transport[c] = "tcp", NEW data \in Seq(Bytes), NEW rest \in Seq(Bytes),
           NEW ty \in Seq(Lines), NEW rec, Waits(c, data \o rest, ty, rec),
           Contains(data, "newline")
    PROVE  rest = <<>> /\ With(rec, ParseCommand(cleanBytes(data))) = Commands(c, ty)
<1>1. PICK k \in 1 .. Len(data) : data[k] = "newline"
  BY DEF Contains
<1>2. PICK b : b = data \o rest
  OBVIOUS
<1>3. /\ b \in Seq(Bytes) /\ Len(b) = Len(data) + Len(rest) /\ b[k] = "newline"
      /\ Len(data) \in Nat /\ Len(rest) \in Nat
  BY <1>1, <1>2
<1>4. b # <<>>
  BY <1>1, <1>3
<1>5. PICK u \in Seq(Lines) : \E m \in Lines :
          ty = Append(u, m) /\ b = Append(m, "newline") /\ rec = Commands(c, u)
  BY <1>2, <1>4 DEF Waits
<1>6. PICK m \in Lines : ty = Append(u, m) /\ b = Append(m, "newline") /\ rec = Commands(c, u)
  BY <1>5
<1>7. /\ m \in Seq(Bytes) /\ u \in Seq(Seq(Bytes)) /\ "newline" \in Bytes
      /\ \A i \in 1 .. Len(m) : m[i] # "newline"
  BY LinesAreBytes
<1>8. Len(b) = Len(m) + 1 /\ Len(m) \in Nat /\ \A i \in 1 .. Len(m) : b[i] = m[i]
  BY <1>6, <1>7
<1>9. Len(rest) = 0
  <2>1. k \notin 1 .. Len(m)
    BY <1>3, <1>7, <1>8
  <2> QED  BY <1>1, <1>3, <1>8, <2>1
<1>10. rest = <<>>
  BY <1>9
<1>11. data = Append(m, "newline")
  <2>1. data \o <<>> = data
    OBVIOUS
  <2> QED  BY <1>2, <1>6, <1>10, <2>1
<1>12. ParseCommand(cleanBytes(data)) = PartsOf(c, m)
  BY <1>7, <1>11, PartsType
<1>13. Commands(c, ty) = IF Counts(c, m) THEN Append(Commands(c, u), PartsOf(c, m))
                         ELSE Commands(c, u)
  BY <1>6, <1>7, CommandsAppend
<1>14. Counts(c, m) <=> PartsOf(c, m) # <<>>
  BY DEF Counts
<1> QED  BY <1>6, <1>10, <1>12, <1>13, <1>14 DEF With

(***************************************************************************)
(* Sending a line without quotes and backspaces.                           *)
(***************************************************************************)
LEMMA KeepsSend ==
    ASSUME NEW b, NEW ty \in Seq(Seq(Bytes)), NEW l \in Seq(Bytes), Simple(l),
           NEW rec \in Seq(Seq(Seq(Bytes))), Keeps(b, ty, rec)
    PROVE  Keeps(b \o (l \o <<"newline">>), Append(ty, l), rec)
<1> DEFINE S == Bytes \ {"quote", "backspace"}
<1>1. l \in Seq(S) /\ <<"newline">> \in Seq(S) /\ b \in Seq(S)
  <2>1. \A i \in 1 .. Len(l) : l[i] \in S
    BY DEF Simple, Contains
  <2>2. "newline" \in S
    BY LinesAreBytes
  <2>3. b \in Seq(S)
    BY DEF Keeps
  <2> HIDE DEF S
  <2> QED  BY <2>1, <2>2, <2>3
<1>2. b \o (l \o <<"newline">>) \in Seq(S)
  <2> HIDE DEF S
  <2> QED  BY <1>1
<1>3. /\ b \in Seq(Bytes) /\ <<"newline">> \in Seq(Bytes) /\ l \o <<"newline">> \in Seq(Bytes)
      /\ "newline" \in Bytes
  <2>1. \A x \in S : x \in Bytes
    OBVIOUS
  <2>2. b \in Seq(Bytes) /\ "newline" \in Bytes
    BY <1>1, <2>1, LinesAreBytes
  <2> QED  BY <2>2
<1>4. Visible(l \o <<"newline">>) = Visible(l)
  <2>1. Visible(<<"newline">>) = <<>>
    <3>1. <<"newline">> = Append(<<>>, "newline") /\ <<>> \in Seq(Bytes)
      OBVIOUS
    <3>2. Visible(Append(<<>>, "newline")) = Visible(<<>>)
      BY <1>3, <3>1, LinesAreBytes, VisibleAppend
    <3> QED  BY <3>1, <3>2, VisibleAppend
  <2>2. Visible(l) \in Seq(Bytes)
    BY <1>3, VisibleAppend
  <2>3. Visible(l \o <<"newline">>) = Visible(l) \o Visible(<<"newline">>)
    BY <1>3, VisibleConcat
  <2> QED  BY <2>1, <2>2, <2>3
<1>5. Visible(b \o (l \o <<"newline">>)) = Visible(b) \o Visible(l)
  <2>1. Visible(b \o (l \o <<"newline">>)) = Visible(b) \o Visible(l \o <<"newline">>)
    BY <1>3, VisibleConcat
  <2> QED  BY <1>4, <2>1
<1>6. FlattenSeq(ty) \in Seq(Bytes) /\ FlattenSeq(Append(ty, l)) = FlattenSeq(ty) \o l
  BY FlattenAppend
<1>7. Visible(FlattenSeq(Append(ty, l))) = Visible(FlattenSeq(ty)) \o Visible(l)
  BY <1>6, VisibleConcat
<1>8. PICK w, x, y, z : /\ w = FlattenSeq(FlattenSeq(rec)) /\ x = Visible(b)
                        /\ y = Visible(l) /\ z = Visible(FlattenSeq(ty))
  OBVIOUS
<1>9. w \in Seq(Bytes) /\ x \in Seq(Bytes) /\ y \in Seq(Bytes)
  <2>1. FlattenSeq(rec) \in Seq(Seq(Bytes))
    <3>1. <<>> \in Seq(Seq(Bytes))
      OBVIOUS
    <3> QED  BY <3>1, FlattenAppend
  <2>2. FlattenSeq(FlattenSeq(rec)) \in Seq(Bytes)
    BY <2>1, FlattenAppend
  <2>3. Visible(b) \in Seq(Bytes) /\ Visible(l) \in Seq(Bytes)
    BY <1>3, VisibleAppend
  <2> QED  BY <1>8, <2>2, <2>3
<1>10. w \o (x \o y) = z \o y
  <2>1. w \o x = z
    BY <1>8 DEF Keeps
  <2>2. (w \o x) \o y = w \o (x \o y)
    <3>1. PICK i \in Seq(Bytes), o \in Seq(Bytes), e \in Seq(Bytes) : i = w /\ o = x /\ e = y
      BY <1>9
    <3>2. Cat(Cat(i, o), e) = Cat(i, Cat(o, e))
      BY Regroup
    <3> QED  BY ONLY <3>1, <3>2 DEF Cat
  <2> QED  BY <2>1, <2>2
<1> HIDE DEF S
<1>11. FlattenSeq(FlattenSeq(rec)) \o Visible(b \o (l \o <<"newline">>))
           = Visible(FlattenSeq(Append(ty, l)))
  BY <1>5, <1>7, <1>8, <1>10
<1> USE DEF S
<1> QED  BY <1>2, <1>11 DEF Keeps

(***************************************************************************)
(* A chunk that becomes a command.                                         *)
(***************************************************************************)
LEMMA KeepsChunk ==
    ASSUME NEW data \in Seq(Bytes), NEW rest \in Seq(Bytes), NEW ty,
           NEW rec \in Seq(Seq(Seq(Bytes))), Keeps(data \o rest, ty, rec)
    PROVE  Keeps(rest, ty, With(rec, ParseCommand(cleanBytes(data))))
<1>1. PICK b : b = data \o rest
  OBVIOUS
<1>2. /\ b \in Seq(Bytes) /\ Len(b) = Len(data) + Len(rest)
      /\ \A i \in 1 .. Len(data) : b[i] = data[i]
      /\ \A i \in 1 .. Len(rest) : b[Len(data) + i] = rest[i]
      /\ Len(data) \in Nat /\ Len(rest) \in Nat
  BY <1>1
<1>3. \A i \in 1 .. Len(b) : b[i] # "quote" /\ b[i] # "backspace"
  BY <1>1 DEF Keeps
<1>4. data \in Seq(Bytes \ {"quote"}) /\ data \in Seq(Bytes \ {"backspace"})
  <2>1. \A i \in 1 .. Len(data) : data[i] # "quote" /\ data[i] # "backspace" /\ data[i] \in Bytes
    BY <1>2, <1>3
  <2>2. data \in Seq(Bytes \ {"quote"})
    BY <2>1
  <2>3. data \in Seq(Bytes \ {"backspace"})
    BY <2>1
  <2> QED  BY <2>2, <2>3
<1>5. rest \in Seq(Bytes \ {"quote", "backspace"})
  <2>1. \A i \in 1 .. Len(rest) : rest[i] # "quote" /\ rest[i] # "backspace" /\ rest[i] \in Bytes
    <3> TAKE i \in 1 .. Len(rest)
    <3>1. Len(data) + i \in 1 .. Len(b)
      BY <1>2
    <3> QED  BY <1>2, <1>3, <3>1
  <2> QED  BY <2>1
<1>6. PICK parts : parts = ParseCommand(cleanBytes(data))
  OBVIOUS
<1>7. FlattenSeq(parts) = Visible(data) /\ parts \in Seq(Seq(Bytes))
  <2>1. cleanBytes(data) = data
    BY <1>4, CleanSimple
  <2> QED  BY <1>4, <1>6, <2>1, ParseVisible, ParseType
<1>8. PICK flat, v, r : flat = FlattenSeq(FlattenSeq(rec)) /\ v = Visible(data) /\ r = Visible(rest)
  OBVIOUS
<1>9. FlattenSeq(rec) \in Seq(Seq(Bytes)) /\ flat \in Seq(Bytes)
      /\ v \in Seq(Bytes) /\ r \in Seq(Bytes)
  <2>1. <<>> \in Seq(Seq(Bytes)) /\ "newline" \in Bytes
    BY LinesAreBytes
  <2>2. FlattenSeq(rec) \in Seq(Seq(Bytes))
    BY <2>1, FlattenAppend
  <2>3. FlattenSeq(FlattenSeq(rec)) \in Seq(Bytes)
    BY <2>2, FlattenAppend
  <2>4. Visible(data) \in Seq(Bytes) /\ Visible(rest) \in Seq(Bytes)
    BY <2>1, VisibleAppend
  <2> QED  BY <1>8, <2>2, <2>3, <2>4
<1>10. FlattenSeq(FlattenSeq(With(rec, parts))) = flat \o v
  <2>1. CASE parts = <<>>
    <3>1. v = <<>>
      BY <1>7, <1>8, <2>1, FlattenAppend
    <3> QED  BY <1>8, <1>9, <2>1, <3>1 DEF With
  <2>2. CASE parts # <<>>
    <3>1. With(rec, parts) = Append(rec, parts)
      BY <2>2 DEF With
    <3>2. FlattenSeq(Append(rec, parts)) = FlattenSeq(rec) \o parts
      BY <1>7, FlattenAppend
    <3>3. FlattenSeq(FlattenSeq(rec) \o parts) = FlattenSeq(FlattenSeq(rec)) \o FlattenSeq(parts)
      BY <1>7, <1>9, FlattenConcat
    <3> QED  BY <1>7, <1>8, <3>1, <3>2, <3>3
  <2> QED  BY <2>1, <2>2
<1>11. Visible(b) = v \o r
  BY <1>1, <1>8, VisibleConcat
<1>12. (flat \o v) \o r = flat \o (v \o r)
  <2>1. PICK x \in Seq(Bytes), y \in Seq(Bytes), z \in Seq(Bytes) : x = flat /\ y = v /\ z = r
    BY <1>9
  <2>2. (x \o y) \o z = x \o (y \o z)
    <3>1. Cat(Cat(x, y), z) = Cat(x, Cat(y, z))
      BY Regroup
    <3> QED  BY ONLY <3>1 DEF Cat
  <2> QED  BY <2>1, <2>2
<1>13. flat \o Visible(b) = Visible(FlattenSeq(ty))
  BY <1>1, <1>8 DEF Keeps
<1>14. FlattenSeq(FlattenSeq(With(rec, parts))) \o Visible(rest) = Visible(FlattenSeq(ty))
  BY <1>8, <1>10, <1>11, <1>12, <1>13
<1> QED  BY <1>5, <1>6, <1>14 DEF Keeps

(***************************************************************************)
(* What is on its way, when all of it is read at once.                     *)
(***************************************************************************)
LEMMA AllAtOnce ==
    ASSUME NEW c \in Conns, NEW b \in Seq(Bytes), NEW rec \in Seq(Seq(Seq(Bytes)))
    PROVE  /\ ParseCommand(cleanBytes(b)) \in Seq(Seq(Bytes))
           /\ ParseCommand(cleanBytes(<<>>)) = <<>>
           /\ LET parts == ParseCommand(cleanBytes(b))
              IN  rec \o (IF parts = <<>> THEN <<>> ELSE <<parts>>) = With(rec, parts)
           /\ \A ty \in Seq(Lines) : Transport[c] = "tcp" /\ Waits(c, b, ty, rec) =>
                  With(rec, ParseCommand(cleanBytes(b))) = Commands(c, ty)
           /\ \A ty : Keeps(b, ty, rec) =>
                  FlattenSeq(FlattenSeq(With(rec, ParseCommand(cleanBytes(b)))))
                      = Visible(FlattenSeq(ty))
<1>1. \A x \in Seq(Bytes) : ParseCommand(cleanBytes(x)) \in Seq(Seq(Bytes))
  <2> TAKE x \in Seq(Bytes)
  <2>1. cleanBytes(x) \in Seq(Bytes)
    BY LinesAreBytes, CleanAppend
  <2> QED  BY <2>1, ParseType
<1>2. ParseCommand(cleanBytes(<<>>)) = <<>>
  <2>1. cleanBytes(<<>>) = <<>>
    <3>1. <<>> \in Seq(Bytes \ {"backspace"})
      OBVIOUS
    <3> QED  BY <3>1, CleanSimple
  <2>2. PICK u : u = <<>>
    OBVIOUS
  <2>3. u \in Seq(Bytes) /\ Len(u) = 0
    BY <2>2
  <2>4. PICK f : Parsed(f, u) /\ ParseCommand(u) = f[1]
    BY <2>3, ParseIsFirst
  <2>5. f[Len(u) + 1] = <<>>
    BY <2>3, <2>4, ParsedMeans
  <2> QED  BY <2>1, <2>2, <2>3, <2>4, <2>5
<1>3. PICK parts \in Seq(Seq(Bytes)) : parts = ParseCommand(cleanBytes(b))
  BY <1>1
<1>4. rec \o (IF parts = <<>> THEN <<>> ELSE <<parts>>) = With(rec, parts)
  <2>1. CASE parts = <<>>
    BY <2>1 DEF With
  <2>2. CASE parts # <<>>
    BY <2>2 DEF With
  <2> QED  BY <2>1, <2>2
<1>5. ASSUME NEW ty \in Seq(Lines), Transport[c] = "tcp", Waits(c, b, ty, rec)
      PROVE  With(rec, parts) = Commands(c, ty)
  <2>1. CASE b = <<>>
    <3>1. parts = <<>>
      BY <1>2, <1>3, <2>1
    <3>2. rec = Commands(c, ty)
      <4>1. ASSUME NEW l \in Lines, b = Append(l, "newline") PROVE FALSE
        <5>1. Len(b) = Len(l) + 1 /\ Len(l) \in Nat
          BY <4>1, LinesAreBytes
        <5> QED  BY <2>1, <5>1
      <4> QED  BY <1>5, <4>1 DEF Waits
    <3> QED  BY <3>1, <3>2 DEF With
  <2>2. CASE b # <<>>
    <3>1. PICK l \in Lines : b = Append(l, "newline")
      BY <1>5, <2>2 DEF Waits
    <3>2. Contains(b, "newline")
      <4>1. Len(b) = Len(l) + 1 /\ Len(l) \in Nat /\ b[Len(l) + 1] = "newline"
        BY <3>1, LinesAreBytes
      <4>2. Len(l) + 1 \in 1 .. Len(b)
        BY <4>1
      <4> QED  BY <4>1, <4>2 DEF Contains
    <3>6. <<>> \in Seq(Bytes)
      OBVIOUS
    <3>3. PICK rest \in Seq(Bytes) : rest = <<>>
      BY ONLY <3>6
    <3>4. b \o rest = b
      <4>1. b \o <<>> = b
        OBVIOUS
      <4> QED  BY <3>3, <4>1
    <3>5. Waits(c, b \o rest, ty, rec)
      BY <1>5, <3>4
    <3> QED  BY <1>3, <1>5, <3>2, <3>5, WaitsChunk
  <2> QED  BY <2>1, <2>2
<1>6. ASSUME NEW ty, Keeps(b, ty, rec)
      PROVE  FlattenSeq(FlattenSeq(With(rec, parts))) = Visible(FlattenSeq(ty))
  <2>10. <<>> \in Seq(Bytes)
    OBVIOUS
  <2>1. PICK rest \in Seq(Bytes) : rest = <<>>
    BY ONLY <2>10
  <2>2. b \o rest = b
    <3>1. b \o <<>> = b
      OBVIOUS
    <3> QED  BY <2>1, <3>1
  <2>3. Keeps(b \o rest, ty, rec)
    BY <1>6, <2>2
  <2>4. Keeps(rest, ty, With(rec, parts))
    BY <1>3, <2>3, KeepsChunk
  <2>5. FlattenSeq(FlattenSeq(With(rec, parts))) \o Visible(<<>>) = Visible(FlattenSeq(ty))
    BY <2>1, <2>4 DEF Keeps
  <2>6. With(rec, parts) \in Seq(Seq(Seq(Bytes)))
    BY DEF With
  <2>7. FlattenSeq(With(rec, parts)) \in Seq(Seq(Bytes))
    <3>1. <<>> \in Seq(Seq(Bytes))
      OBVIOUS
    <3> QED  BY <2>6, <3>1, FlattenAppend
  <2>8. FlattenSeq(FlattenSeq(With(rec, parts))) \in Seq(Bytes)
    <3>1. <<>> \in Seq(Bytes)
      OBVIOUS
    <3> QED  BY <2>7, <3>1, FlattenAppend
  <2>9. \A x \in Seq(Bytes) : x \o <<>> = x
    OBVIOUS
  <2> QED  BY <2>5, <2>8, <2>9, VisibleAppend
<1> QED  BY <1>1, <1>2, <1>3, <1>4, <1>5, <1>6

(***************************************************************************)
(* A sequence whose elements are in a set is a sequence over it.           *)
(***************************************************************************)
LEMMA OtherSet ==
    ASSUME NEW A, NEW B, NEW s \in Seq(A), \A i \in 1 .. Len(s) : s[i] \in B
    PROVE  s \in Seq(B)
OBVIOUS

(***************************************************************************)
(* A sequence is its first elements and the others.                        *)
(***************************************************************************)
LEMMA Cut ==
    ASSUME NEW A, NEW s \in Seq(A), NEW n \in 1 .. Len(s)
    PROVE  SubSeq(s, 1, n) \o SubSeq(s, n + 1, Len(s)) = s
<1>1. PICK a, b, m : a = SubSeq(s, 1, n) /\ b = SubSeq(s, n + 1, Len(s)) /\ m = Len(s)
  OBVIOUS
<1>2. m \in Nat /\ n \in 1 .. m /\ s = [i \in 1 .. m |-> s[i]]
  BY <1>1
<1>3. a \in Seq(A) /\ Len(a) = n /\ \A i \in 1 .. n : a[i] = s[i]
  BY <1>1
<1>4. b \in Seq(A) /\ Len(b) = m - n /\ \A i \in 1 .. m - n : b[i] = s[n + i]
  BY <1>1
<1>5. PICK d : d = a \o b
  OBVIOUS
<1>6. d \in Seq(A) /\ Len(d) = m
  <2>1. d \in Seq(A) /\ Len(d) = Len(a) + Len(b)
    <3>1. PICK u \in Seq(A), v \in Seq(A) : u = a /\ v = b
      BY <1>3, <1>4
    <3>2. u \o v \in Seq(A) /\ Len(u \o v) = Len(u) + Len(v)
      OBVIOUS
    <3> QED  BY <1>5, <3>1, <3>2
  <2>2. n + (m - n) = m
    BY <1>2
  <2> QED  BY <1>3, <1>4, <2>1, <2>2
<1>7. d = [i \in 1 .. m |-> d[i]]
  BY <1>6
<1>8. \A i \in 1 .. m : d[i] = s[i]
  <2> TAKE i \in 1 .. m
  <2>1. CASE i \in 1 .. n
    BY <1>3, <1>4, <1>5, <2>1
  <2>2. CASE i \notin 1 .. n
    <3>1. i - n \in 1 .. m - n /\ n + (i - n) = i
      BY <1>2, <2>2
    <3>2. PICK k \in 1 .. m - n : k = i - n
      BY <3>1
    <3>3. d[n + k] = b[k]
      <4>1. n + k \in 1 .. m /\ ~ (n + k <= n) /\ (n + k) - n = k
        BY <1>2
      <4>2. \A x \in 1 .. m : ~ (x <= n) => d[x] = b[x - n]
        BY <1>2, <1>3, <1>4, <1>5, SMTT(20)
      <4> QED  BY <4>1, <4>2
    <3> QED  BY <1>4, <3>1, <3>2, <3>3
  <2> QED  BY <2>1, <2>2
<1> QED  BY <1>1, <1>2, <1>5, <1>7, <1>8

(***************************************************************************)
(* Messages and requests without quotes keep each byte of a word.          *)
(***************************************************************************)
LEMMA SimpleCommands ==
    ASSUME NEW c \in Conns, Transport[c] # "tcp", NEW lines \in Seq({l \in Seq(Bytes) : Simple(l)})
    PROVE  FlattenSeq(FlattenSeq(Commands(c, lines))) = Visible(FlattenSeq(lines))
<1> DEFINE S == {l \in Seq(Bytes) : Simple(l)}
           P == {u \in Seq(S) : FlattenSeq(FlattenSeq(Commands(c, u))) = Visible(FlattenSeq(u))}
<1>1. <<>> \in P
  <2>1. FlattenSeq(<<>>) = <<>>
    BY FlattenAppend
  <2> QED  BY <2>1, CommandsAppend, VisibleAppend
<1>2. ASSUME NEW u \in Seq(S), NEW l \in S, u \in P PROVE Append(u, l) \in P
  <2>1. PICK lns \in Seq(Seq(Bytes)) : lns = u
    <3>1. \A x \in S : x \in Seq(Bytes)
      OBVIOUS
    <3> HIDE DEF S, P
    <3> QED  BY <3>1
  <2>2. PICK parts : parts = PartsOf(c, l)
    OBVIOUS
  <2>3. parts \in Seq(Seq(Bytes)) /\ FlattenSeq(parts) = Visible(l)
    <3>1. l \in Seq(Bytes \ {"quote"})
      <4>1. PICK s \in Seq(Bytes) : s = l /\ Simple(s)
        OBVIOUS
      <4>2. \A i \in 1 .. Len(s) : s[i] \in Bytes /\ s[i] # "quote"
        BY <4>1 DEF Simple, Contains
      <4>3. s \in Seq(Bytes \ {"quote"})
        <5>1. PICK B : B = Bytes \ {"quote"}
          OBVIOUS
        <5>2. \A i \in 1 .. Len(s) : s[i] \in B
          BY <4>2, <5>1
        <5>3. s \in Seq(B)
          BY <5>2, OtherSet
        <5> QED  BY <5>1, <5>3
      <4> QED  BY <4>1, <4>3
    <3>2. parts = ParseCommand(l)
      BY <2>2 DEF PartsOf
    <3> QED  BY <3>1, <3>2, ParseVisible, ParseType
  <2>4. PICK cs \in Seq(Seq(Seq(Bytes))) : cs = Commands(c, lns)
    BY <2>3, CommandsAppend
  <2>5. Commands(c, Append(lns, l)) = With(cs, parts) \/ Commands(c, Append(lns, l)) = Append(cs, parts)
    <3>1. Commands(c, Append(lns, l)) = IF Counts(c, l) THEN Append(cs, parts) ELSE cs
      BY <2>2, <2>4, CommandsAppend
    <3>2. ~ Counts(c, l) => parts = <<>>
      BY <2>2 DEF Counts
    <3> QED  BY <3>1, <3>2 DEF With
  <2>6. FlattenSeq(cs) \in Seq(Seq(Bytes)) /\ FlattenSeq(Append(cs, parts)) = FlattenSeq(cs) \o parts
    BY <2>3, FlattenAppend
  <2>7. /\ FlattenSeq(FlattenSeq(cs)) \in Seq(Bytes)
        /\ FlattenSeq(FlattenSeq(cs) \o parts) = FlattenSeq(FlattenSeq(cs)) \o FlattenSeq(parts)
    <3>1. <<>> \in Seq(Bytes)
      OBVIOUS
    <3>2. PICK x \in Seq(Seq(Bytes)), y \in Seq(Seq(Bytes)) : x = FlattenSeq(cs) /\ y = parts
      BY <2>3, <2>6
    <3>3. FlattenSeq(x) \in Seq(Bytes)
      BY <3>1, FlattenAppend
    <3>4. FlattenSeq(x \o y) = FlattenSeq(x) \o FlattenSeq(y)
      BY FlattenConcat
    <3> QED  BY <3>2, <3>3, <3>4
  <2>8. FlattenSeq(FlattenSeq(Append(cs, parts))) = FlattenSeq(FlattenSeq(cs)) \o Visible(l)
    BY <2>3, <2>6, <2>7
  <2>9. FlattenSeq(FlattenSeq(With(cs, parts))) = FlattenSeq(FlattenSeq(cs)) \o Visible(l)
    <3>1. CASE parts = <<>>
      <4>1. Visible(l) = <<>>
        BY <2>3, <3>1, FlattenAppend
      <4>2. FlattenSeq(FlattenSeq(cs)) \o <<>> = FlattenSeq(FlattenSeq(cs))
        BY <2>7
      <4> QED  BY <3>1, <4>1, <4>2 DEF With
    <3>2. CASE parts # <<>>
      BY <2>8, <3>2 DEF With
    <3> QED  BY <3>1, <3>2
  <2>10. FlattenSeq(Append(lns, l)) = FlattenSeq(lns) \o l /\ FlattenSeq(lns) \in Seq(Bytes)
    BY FlattenAppend
  <2>11. Visible(FlattenSeq(lns) \o l) = Visible(FlattenSeq(lns)) \o Visible(l)
    BY <2>10, VisibleConcat
  <2>12. FlattenSeq(FlattenSeq(cs)) = Visible(FlattenSeq(lns))
    BY <1>2, <2>1, <2>4
  <2>13. FlattenSeq(FlattenSeq(Commands(c, Append(lns, l)))) = Visible(FlattenSeq(Append(lns, l)))
    BY <2>5, <2>8, <2>9, <2>10, <2>11, <2>12
  <2>14. Append(u, l) \in Seq(S)
    <3> HIDE DEF S, P
    <3> QED  OBVIOUS
  <2> QED  BY <2>1, <2>13, <2>14
<1>3. \A u \in Seq(S) : u \in P
  <2> HIDE DEF P, S
  <2> QED  BY <1>1, <1>2, AllSequences
<1> QED  BY <1>3

(***************************************************************************)
(* One message more, and one less.                                         *)
(***************************************************************************)
LEMMA MeantOneByOne ==
    ASSUME NEW c \in Conns, NEW lines \in Seq(Seq(Bytes)), NEW line \in Seq(Bytes)
    PROVE  /\ Meant(c, lines) \in Seq(Seq(Seq(Bytes)))
           /\ Meant(c, <<>>) = <<>>
           /\ Meant(c, Append(lines, line)) = Append(Meant(c, lines), PartsOf(c, line))
           /\ lines # <<>> =>
                 Meant(c, lines) = <<PartsOf(c, Head(lines))>> \o Meant(c, Tail(lines))
<1>1. \A u \in Seq(Seq(Bytes)) : /\ Meant(c, u) \in Seq(Seq(Seq(Bytes)))
                                 /\ Meant(c, u) = [i \in 1 .. Len(u) |-> PartsOf(c, u[i])]
                                 /\ Len(Meant(c, u)) = Len(u)
  <2> TAKE u \in Seq(Seq(Bytes))
  <2>1. \A i \in 1 .. Len(u) : PartsOf(c, u[i]) \in Seq(Seq(Bytes))
    BY PartsType
  <2>2. Meant(c, u) = [i \in 1 .. Len(u) |-> PartsOf(c, u[i])]
    BY DEF Meant
  <2>3. Len(u) \in Nat
    OBVIOUS
  <2>4. Meant(c, u) \in Seq(Seq(Seq(Bytes)))
    BY <2>1, <2>2, <2>3
  <2>5. DOMAIN Meant(c, u) = 1 .. Len(u)
    BY <2>2
  <2> QED  BY <2>2, <2>3, <2>4, <2>5
<1>2. Meant(c, <<>>) = <<>>
  BY DEF Meant
<1>3. Meant(c, Append(lines, line)) = Append(Meant(c, lines), PartsOf(c, line))
  <2>1. PICK long \in Seq(Seq(Bytes)), a \in Seq(Seq(Seq(Bytes))), x \in Seq(Seq(Bytes)),
             n \in Nat :
            long = Append(lines, line) /\ a = Meant(c, lines) /\ x = PartsOf(c, line)
            /\ n = Len(lines)
    <3>1. /\ Append(lines, line) \in Seq(Seq(Bytes)) /\ Len(lines) \in Nat
          /\ Meant(c, lines) \in Seq(Seq(Seq(Bytes)))
      BY <1>1
    <3>2. PartsOf(c, line) \in Seq(Seq(Bytes))
      BY PartsType
    <3> QED  BY <3>1, <3>2
  <2>2. Len(long) = n + 1 /\ long[n + 1] = line /\ \A i \in 1 .. n : long[i] = lines[i]
    BY <2>1
  <2>3. Len(a) = n /\ \A i \in 1 .. n : a[i] = PartsOf(c, lines[i])
    BY <1>1, <2>1
  <2>9. Append(a, x) \in Seq(Seq(Seq(Bytes)))
    BY ONLY a \in Seq(Seq(Seq(Bytes))), x \in Seq(Seq(Bytes))
  <2>4. PICK b \in Seq(Seq(Seq(Bytes))) : b = Append(a, x)
    BY <2>9
  <2>5. Len(b) = n + 1 /\ b[n + 1] = x /\ \A i \in 1 .. n : b[i] = a[i]
    BY <2>3, <2>4
  <2>6. b = [i \in 1 .. n + 1 |-> b[i]]
    BY <2>5
  <2>7. \A i \in 1 .. n + 1 : b[i] = PartsOf(c, long[i])
    <3>1. \A i \in 1 .. n + 1 : i \in 1 .. n \/ i = n + 1
      OBVIOUS
    <3> QED  BY <2>1, <2>2, <2>3, <2>5, <3>1
  <2>8. Meant(c, long) = [i \in 1 .. n + 1 |-> PartsOf(c, long[i])]
    BY <1>1, <2>2
  <2> QED  BY <2>1, <2>4, <2>6, <2>7, <2>8
<1>4. ASSUME lines # <<>>
      PROVE  Meant(c, lines) = <<PartsOf(c, Head(lines))>> \o Meant(c, Tail(lines))
  <2>1. PICK t \in Seq(Seq(Bytes)), n \in Nat, x \in Seq(Seq(Bytes)) :
            t = Tail(lines) /\ n = Len(t) /\ x = PartsOf(c, lines[1])
    <3>1. Tail(lines) \in Seq(Seq(Bytes)) /\ Len(Tail(lines)) \in Nat /\ lines[1] \in Seq(Bytes)
      BY <1>4
    <3> QED  BY <3>1, PartsType
  <2>2. Len(lines) = n + 1 /\ Head(lines) = lines[1] /\ \A i \in 1 .. n : t[i] = lines[i + 1]
    BY <1>4, <2>1
  <2>3. PICK a \in Seq(Seq(Seq(Bytes))) : a = Meant(c, t)
    BY <1>1
  <2>4. Len(a) = n /\ \A i \in 1 .. n : a[i] = PartsOf(c, t[i])
    BY <1>1, <2>1, <2>3
  <2>10. <<x>> \o a \in Seq(Seq(Seq(Bytes)))
    BY ONLY a \in Seq(Seq(Seq(Bytes))), x \in Seq(Seq(Bytes))
  <2>5. PICK b \in Seq(Seq(Seq(Bytes))) : b = <<x>> \o a
    BY <2>10
  <2>6. Len(b) = n + 1 /\ b[1] = x /\ \A i \in 1 .. n : b[i + 1] = a[i]
    BY <2>4, <2>5
  <2>7. b = [i \in 1 .. n + 1 |-> b[i]]
    BY <2>6
  <2>8. \A i \in 1 .. n + 1 : b[i] = PartsOf(c, lines[i])
    <3> TAKE i \in 1 .. n + 1
    <3>1. CASE i = 1
      BY <2>1, <2>6, <3>1
    <3>2. CASE i # 1
      <4>1. i - 1 \in 1 .. n /\ (i - 1) + 1 = i
        BY <3>2
      <4>2. PICK k \in 1 .. n : k = i - 1
        BY <4>1
      <4>3. k + 1 = i /\ b[k + 1] = a[k] /\ a[k] = PartsOf(c, t[k]) /\ t[k] = lines[k + 1]
        BY <2>2, <2>4, <2>6, <4>1, <4>2
      <4> QED  BY <4>3
    <3> QED  BY <3>1, <3>2
  <2>9. Meant(c, lines) = [i \in 1 .. n + 1 |-> PartsOf(c, lines[i])]
    BY <1>1, <2>2
  <2> QED  BY <2>1, <2>2, <2>3, <2>5, <2>7, <2>8, <2>9
<1> QED  BY <1>1, <1>2, <1>3, <1>4


-----------------------------------------------------------------------------
(***************************************************************************)
(* The inductive invariant.  Of a connection, by its transport: what was   *)
(* executed, and what is on its way, make what the client typed.           *)
(***************************************************************************)
Live(c) == c \in registered /\ peer[c] # "reset"

Fresh(c) == /\ socket[c] = <<>> /\ input[c] = <<>>
            /\ typed[c] = <<>> /\ received[c] = <<>>

AllSimple(lines) == \A i \in DOMAIN lines : Simple(lines[i])

StreamFlow(c) ==
    /\ socket[c] \in Seq(Bytes) /\ typed[c] \in Seq(Lines)
    /\ peer[c] = "absent" => Fresh(c)
    /\ peer[c] = "reset" => socket[c] = <<>>
    /\ c \in patient => IsPrefix(received[c], Commands(c, typed[c]))
    /\ Live(c) /\ c \in patient => Waits(c, input[c] \o socket[c], typed[c], received[c])
    /\ Live(c) /\ AllSimple(typed[c]) => Keeps(input[c] \o socket[c], typed[c], received[c])

MessageFlow(c) ==
    /\ socket[c] \in Seq(Seq(Bytes)) /\ input[c] = <<>>
    /\ peer[c] = "absent" => Fresh(c)
    /\ peer[c] = "reset" => socket[c] = <<>>
    /\ IsPrefix(received[c], Commands(c, typed[c]))
    /\ Live(c) => received[c] \o Meant(c, socket[c]) = Commands(c, typed[c])

RequestFlow(c) ==
    /\ peer[c] = "absent" /\ socket[c] = <<>> /\ input[c] = <<>>
    /\ received[c] = Commands(c, typed[c])

Flow(c) == /\ Transport[c] = "tcp" => StreamFlow(c)
           /\ Transport[c] = "websocket" => MessageFlow(c)
           /\ Transport[c] = "http" => RequestFlow(c)

Shapes ==
    /\ peer \in [Conns -> {"absent", "up", "closed", "reset"}]
    /\ registered \subseteq {c \in Conns : Transport[c] # "http" /\ peer[c] # "absent"}
    /\ socket = [c \in Conns |-> socket[c]]
    /\ input \in [Conns -> Lines]
    /\ typed \in [Conns -> Seq(Seq(Bytes))]
    /\ received \in [Conns -> Seq(Seq(Seq(Bytes)))]
    /\ server \in Sound

IInv == Shapes /\ \A c \in Conns : Flow(c)

(***************************************************************************)
(* Of nothing typed, nothing is on its way.                                *)
(***************************************************************************)
LEMMA NothingYet ==
    ASSUME NEW c \in Conns
    PROVE  /\ Commands(c, <<>>) = <<>> /\ Meant(c, <<>>) = <<>>
           /\ Waits(c, <<>>, <<>>, <<>>) /\ Keeps(<<>>, <<>>, <<>>)
           /\ IsPrefix(<<>>, Commands(c, <<>>))
           /\ <<>> \in Lines /\ <<>> \in Seq(Bytes) /\ <<>> \in Seq(Lines)
           /\ <<>> \in Seq(Seq(Bytes)) /\ <<>> \in Seq(Seq(Seq(Bytes)))
           /\ <<>> \o <<>> = <<>>
<1>1. /\ <<>> \in Lines /\ <<>> \in Seq(Bytes) /\ <<>> \in Seq(Lines)
      /\ <<>> \in Seq(Seq(Bytes)) /\ <<>> \in Seq(Seq(Seq(Bytes)))
      /\ <<>> \in Seq(Bytes \ {"quote", "backspace"})
  BY DEF Lines
<1>2. Commands(c, <<>>) = <<>>
  BY CommandsAppend
<1>3. Meant(c, <<>>) = <<>>
  BY DEF Meant
<1>4. <<>> \o <<>> = <<>>
  OBVIOUS
<1>5. Keeps(<<>>, <<>>, <<>>)
  <2>1. FlattenSeq(<<>>) = <<>> /\ Visible(<<>>) = <<>>
    BY FlattenAppend, VisibleAppend
  <2> QED  BY <1>1, <1>4, <2>1 DEF Keeps
<1>6. IsPrefix(<<>>, <<>>)
  BY DEF IsPrefix
<1> QED  BY <1>1, <1>2, <1>3, <1>4, <1>5, <1>6 DEF Waits

(***************************************************************************)
(* A connection that no step touches.                                      *)
(***************************************************************************)
LEMMA Untouched ==
    ASSUME NEW c \in Conns, Flow(c),
           peer'[c] = peer[c], socket'[c] = socket[c], input'[c] = input[c],
           typed'[c] = typed[c], received'[c] = received[c],
           c \in registered' => c \in registered,
           c \in patient' => c \in patient
    PROVE  Flow(c)'
<1>1. Live(c)' => Live(c)
  BY DEF Live
<1>2. Fresh(c) => Fresh(c)'
  BY DEF Fresh
<1>3. StreamFlow(c) => StreamFlow(c)'
  BY <1>1, <1>2 DEF StreamFlow
<1>4. MessageFlow(c) => MessageFlow(c)'
  BY <1>1, <1>2 DEF MessageFlow
<1>5. RequestFlow(c) => RequestFlow(c)'
  BY DEF RequestFlow
<1> QED  BY <1>3, <1>4, <1>5 DEF Flow

(***************************************************************************)
(* What a client may type.                                                 *)
(***************************************************************************)
LEMMA LinesType ==
    ASSUME NEW c \in Conns, NEW line \in LinesOf[c]
    PROVE  line \in Seq(Bytes) /\ (Transport[c] = "tcp" => line \in Lines)
<1>1. line \in Seq(Bytes)
  BY ConnectionsAssumption
<1>2. ASSUME Transport[c] = "tcp" PROVE line \in Lines
  <2>1. ~ Contains(line, "newline")
    BY <1>2, ConnectionsAssumption
  <2>2. PICK l \in Seq(Bytes) : l = line
    BY <1>1
  <2>3. \A i \in 1 .. Len(l) : l[i] \in Bytes \ {"newline"}
    BY <2>1, <2>2 DEF Contains
  <2>4. l \in Seq(Bytes \ {"newline"})
    BY <2>3
  <2> QED  BY <2>2, <2>4 DEF Lines
<1> QED  BY <1>1, <1>2

(***************************************************************************)
(* A command handed over leaves a sound server.                            *)
(***************************************************************************)
LEMMA ReceiveSound ==
    ASSUME server \in Sound, NEW c \in Conns, NEW parts \in Seq(Seq(Bytes)), Receive(c, parts)
    PROVE  server' \in Sound
<1>1. IdOf[c] \in ClientIds
  BY ConnectionsAssumption
<1>2. PICK st \in Sound : st = server
  OBVIOUS
<1>3. ProcessCommand(st, IdOf[c], parts) \in Sound
  BY <1>1, ProcessIn
<1> QED  BY <1>2, <1>3 DEF Receive

(***************************************************************************)
(* The initial state, and a connection made.                               *)
(***************************************************************************)
LEMMA InitInv == Init => IInv
<1> SUFFICES ASSUME Init PROVE IInv
  OBVIOUS
<1>1. \A c \in Conns : Fresh(c) /\ c \notin registered /\ peer[c] = "absent"
  BY DEF Init, Fresh
<1>2. \A c \in Conns : Flow(c)
  <2> TAKE c \in Conns
  <2>1. Fresh(c) /\ c \notin registered /\ peer[c] = "absent"
    BY <1>1
  <2> QED  BY <2>1, NothingYet DEF Flow, StreamFlow, MessageFlow, RequestFlow, Live, Fresh
<1>3. server \in Sound
  <2>1. ServerInit \in ServerStates
    BY DEF ServerInit, ServerStates
  <2>2. \A i \in ClientIds : ServerInit.queue[i] = None /\ ServerInit.asked[i] = <<>>
    BY DEF ServerInit
  <2>3. \A i \in ClientIds : Right(ServerInit.queue[i], ServerInit.asked[i])
    BY <2>2 DEF Right
  <2>4. ServerInit \in Sound
    BY <2>1, <2>3, SoundMeans
  <2> QED  BY <2>4 DEF Init
<1>4. Shapes
  <2>1. <<>> \in Lines /\ <<>> \in Seq(Seq(Bytes)) /\ <<>> \in Seq(Seq(Seq(Bytes)))
    BY DEF Lines
  <2> QED  BY <1>3, <2>1 DEF Init, Shapes
<1> QED  BY <1>2, <1>4 DEF IInv

(***************************************************************************)
(* A connection that begins: nothing has been sent on it.                  *)
(***************************************************************************)
LEMMA ConnectKeeps ==
    ASSUME IInv, NEW c \in Conns, Connect(c)
    PROVE  IInv'
<1>1. /\ peer' = [peer EXCEPT ![c] = "up"] /\ registered' = registered \cup {c}
      /\ UNCHANGED <<socket, input, server, typed, patient, received>>
      /\ Transport[c] # "http" /\ peer[c] = "absent"
  BY DEF Connect
<1>2. Shapes'
  BY <1>1 DEF IInv, Shapes
<1>3. Flow(c)'
  <2>1. Fresh(c)
    <3>1. Flow(c) /\ Transport[c] \in {"tcp", "websocket", "http"}
      BY ConnectionsAssumption DEF IInv
    <3> QED  BY <1>1, <3>1 DEF Flow, StreamFlow, MessageFlow
  <2>2. Fresh(c)' /\ peer'[c] = "up"
    BY <1>1, <2>1 DEF Fresh, IInv, Shapes
  <2> QED  BY <1>1, <2>2, NothingYet DEF Flow, StreamFlow, MessageFlow, Fresh
<1>4. \A d \in Conns \ {c} : Flow(d)'
  <2> TAKE d \in Conns \ {c}
  <2>1. Flow(d) /\ peer'[d] = peer[d] /\ (d \in registered' => d \in registered)
    BY <1>1 DEF IInv, Shapes
  <2> QED  BY <1>1, <2>1, Untouched
<1> QED  BY <1>2, <1>3, <1>4 DEF IInv

(***************************************************************************)
(* A connection that ends, at either of its ends.                          *)
(***************************************************************************)
LEMMA HangUpKeeps ==
    ASSUME IInv, NEW c \in Conns, HangUp(c)
    PROVE  IInv'
<1>1. /\ peer[c] = "up"
      /\ UNCHANGED <<registered, input, server, typed, patient, received>>
  BY DEF HangUp
<1>2. \/ peer' = [peer EXCEPT ![c] = "closed"] /\ UNCHANGED socket
      \/ peer' = [peer EXCEPT ![c] = "reset"] /\ socket' = [socket EXCEPT ![c] = <<>>]
  BY DEF HangUp
<1>3. /\ peer \in [Conns -> {"absent", "up", "closed", "reset"}]
      /\ socket = [d \in Conns |-> socket[d]]
  BY DEF IInv, Shapes
<1>4. Shapes'
  <2>1. peer' \in [Conns -> {"absent", "up", "closed", "reset"}]
    BY <1>2, <1>3
  <2>2. socket' = [d \in Conns |-> socket'[d]]
    BY <1>2, <1>3
  <2>3. \A d \in Conns : peer'[d] = "absent" => peer[d] = "absent"
    BY <1>2, <1>3
  <2> QED  BY <1>1, <2>1, <2>2, <2>3 DEF IInv, Shapes
<1>5. Flow(c)'
  <2>1. Flow(c)
    BY DEF IInv
  <2>2. CASE peer'[c] = "closed" /\ UNCHANGED socket
    BY <1>1, <2>1, <2>2 DEF Flow, StreamFlow, MessageFlow, RequestFlow, Live
  <2>3. CASE peer'[c] = "reset" /\ socket'[c] = <<>>
    BY <1>1, <2>1, <2>3, NothingYet DEF Flow, StreamFlow, MessageFlow, RequestFlow, Live
  <2> QED  BY <1>2, <1>3, <2>2, <2>3
<1>6. \A d \in Conns \ {c} : Flow(d)'
  <2> TAKE d \in Conns \ {c}
  <2>1. Flow(d) /\ peer'[d] = peer[d] /\ socket'[d] = socket[d]
    BY <1>2, <1>3 DEF IInv
  <2> QED  BY <1>1, <2>1, Untouched
<1> QED  BY <1>4, <1>5, <1>6 DEF IInv

(***************************************************************************)
(* A loop that ends takes its connection from the map and changes nothing  *)
(* else.                                                                   *)
(***************************************************************************)
LEMMA LeaveKeeps ==
    ASSUME IInv, NEW c \in Conns, Leave(c),
           UNCHANGED <<peer, socket, input, server, typed, patient, received>>
    PROVE  IInv'
<1>1. registered' = registered \ {c}
  BY DEF Leave
<1>2. Shapes'
  BY <1>1 DEF IInv, Shapes
<1>3. \A d \in Conns : Flow(d)'
  <2> TAKE d \in Conns
  <2>1. Flow(d) /\ (d \in registered' => d \in registered)
    BY <1>1 DEF IInv
  <2> QED  BY <2>1, Untouched
<1> QED  BY <1>2, <1>3 DEF IInv

(***************************************************************************)
(* A line, or a message, sent.                                             *)
(***************************************************************************)
LEMMA SendKeeps ==
    ASSUME IInv, NEW c \in Conns, Send(c)
    PROVE  IInv'
<1>1. PICK line \in LinesOf[c] :
          /\ typed' = [typed EXCEPT ![c] = Append(@, line)]
          /\ socket' = [socket EXCEPT ![c] = IF Transport[c] = "tcp"
                                             THEN @ \o line \o <<"newline">>
                                             ELSE Append(@, line)]
  BY DEF Send
<1>2. /\ UNCHANGED <<peer, registered, input, server, received>> /\ peer[c] = "up"
      /\ patient' = IF Len(received[c]) = Len(typed[c]) THEN patient ELSE patient \ {c}
  BY DEF Send
<1>3. /\ socket = [d \in Conns |-> socket[d]] /\ typed \in [Conns -> Seq(Seq(Bytes))]
      /\ input \in [Conns -> Lines]
      /\ received \in [Conns -> Seq(Seq(Seq(Bytes)))]
  BY DEF IInv, Shapes
<1>4. PICK l \in Seq(Bytes) : l = line
  BY LinesType
<1>16. PICK s : s = socket[c]
  OBVIOUS
<1>5. PICK ty \in Seq(Seq(Bytes)), rec \in Seq(Seq(Seq(Bytes))), inp \in Lines :
          ty = typed[c] /\ rec = received[c] /\ inp = input[c] /\ s = socket[c]
  BY <1>3, <1>16
<1>6. /\ typed'[c] = Append(ty, l)
      /\ socket'[c] = IF Transport[c] = "tcp" THEN s \o l \o <<"newline">> ELSE Append(s, l)
      /\ \A d \in Conns \ {c} : typed'[d] = typed[d] /\ socket'[d] = socket[d]
      /\ received'[c] = rec /\ input'[c] = inp /\ peer'[c] = "up"
  BY <1>1, <1>2, <1>3, <1>4, <1>5
<1>7. Shapes'
  <2>1. typed' \in [Conns -> Seq(Seq(Bytes))]
    <3>1. Append(typed[c], line) \in Seq(Seq(Bytes))
      BY <1>3, <1>4
    <3> QED  BY <1>1, <1>3, <3>1
  <2>2. socket' = [d \in Conns |-> socket'[d]]
    BY <1>1, <1>3
  <2> QED  BY <1>2, <2>1, <2>2 DEF IInv, Shapes
<1>8. /\ Commands(c, ty) \in Seq(Seq(Seq(Bytes))) /\ PartsOf(c, l) \in Seq(Seq(Bytes))
      /\ Commands(c, Append(ty, l)) = IF Counts(c, l) THEN Append(Commands(c, ty), PartsOf(c, l))
                                      ELSE Commands(c, ty)
  BY CommandsAppend, PartsType
<1>9. IsPrefix(rec, Commands(c, ty)) => IsPrefix(rec, Commands(c, Append(ty, l)))
  <2>1. PICK u \in Seq(Seq(Seq(Bytes))), v \in Seq(Seq(Seq(Bytes))), x \in Seq(Seq(Bytes)) :
            u = rec /\ v = Commands(c, ty) /\ x = PartsOf(c, l)
    BY <1>8
  <2>2. IsPrefix(u, v) => IsPrefix(u, Append(v, x))
    BY PrefixFacts
  <2> QED  BY <1>8, <2>1, <2>2
<1>10. Flow(c)
  BY DEF IInv
<1>11. (c \in patient' => c \in patient /\ Len(rec) = Len(ty)) /\ (Live(c)' <=> Live(c))
  BY <1>2, <1>5 DEF Live
<1>12. ASSUME Transport[c] = "tcp" PROVE StreamFlow(c)'
  <2>1. StreamFlow(c)
    BY <1>10, <1>12 DEF Flow
  <2>2. /\ s \in Seq(Bytes) /\ ty \in Seq(Lines) /\ l \in Lines /\ inp \in Seq(Bytes)
        /\ "newline" \in Bytes
    BY <1>4, <1>5, <1>12, <2>1, LinesType, LinesAreBytes DEF StreamFlow
  <2>11. PICK buf \in Seq(Bytes), out \in Seq(Bytes) : buf = inp /\ out = s
    BY <2>2
  <2>12. buf \o out \in Seq(Bytes)
    OBVIOUS
  <2>3. PICK b \in Seq(Bytes) : b = inp \o s
    BY <2>11, <2>12
  <2>4. inp \o (s \o l \o <<"newline">>) = b \o (l \o <<"newline">>)
    <3>1. buf \o (out \o l \o <<"newline">>) = (buf \o out) \o (l \o <<"newline">>)
      <4>1. <<"newline">> \in Seq(Bytes)
        BY <2>2
      <4>2. PICK x \in Seq(Bytes) : x = <<"newline">>
        BY <4>1
      <4>3. Cat(buf, Cat(Cat(out, l), x)) = Cat(Cat(buf, out), Cat(l, x))
        BY Regroup
      <4>4. buf \o (out \o l \o x) = (buf \o out) \o (l \o x)
        BY ONLY <4>3 DEF Cat
      <4> QED  BY <2>3, <2>11, <4>2, <4>4
    <3> QED  BY <2>3, <2>11, <3>1
  <2>5. socket'[c] \in Seq(Bytes) /\ typed'[c] \in Seq(Lines)
    BY <1>6, <1>12, <2>2
  <2>6. c \in patient' => IsPrefix(rec, Commands(c, Append(ty, l)))
    BY <1>5, <1>9, <1>11, <2>1 DEF StreamFlow
  <2>7. Live(c)' /\ c \in patient' => Waits(c, b \o (l \o <<"newline">>), Append(ty, l), rec)
    <3> SUFFICES ASSUME Live(c)', c \in patient'
                 PROVE  Waits(c, b \o (l \o <<"newline">>), Append(ty, l), rec)
      OBVIOUS
    <3>1. PICK t \in Seq(Lines), k \in Lines : t = ty /\ k = l
      BY <2>2
    <3>2. Waits(c, b, t, rec) /\ Len(rec) = Len(t)
      BY <1>5, <1>11, <2>1, <2>3, <3>1 DEF StreamFlow
    <3> QED  BY <3>1, <3>2, WaitsSend
  <2>8. AllSimple(Append(ty, l)) => AllSimple(ty) /\ Simple(l)
    <3>1. PICK long : long = Append(ty, l)
      OBVIOUS
    <3>2. /\ DOMAIN long = 1 .. Len(ty) + 1 /\ DOMAIN ty = 1 .. Len(ty) /\ Len(ty) \in Nat
          /\ long[Len(ty) + 1] = l /\ \A i \in 1 .. Len(ty) : long[i] = ty[i]
      BY <3>1
    <3>3. Len(ty) + 1 \in DOMAIN long /\ \A i \in DOMAIN ty : i \in DOMAIN long
      BY <3>2
    <3>4. AllSimple(long) => AllSimple(ty) /\ Simple(l)
      BY <3>2, <3>3 DEF AllSimple
    <3> QED  BY <3>1, <3>4
  <2>9. Live(c)' /\ AllSimple(Append(ty, l))
            => Keeps(b \o (l \o <<"newline">>), Append(ty, l), rec)
    <3> SUFFICES ASSUME Live(c)', AllSimple(Append(ty, l))
                 PROVE  Keeps(b \o (l \o <<"newline">>), Append(ty, l), rec)
      OBVIOUS
    <3>1. Keeps(b, ty, rec)
      BY <1>5, <1>11, <2>1, <2>3, <2>8 DEF StreamFlow
    <3> QED  BY <2>8, <3>1, KeepsSend
  <2>10. input'[c] \o socket'[c] = b \o (l \o <<"newline">>)
    BY <1>6, <1>12, <2>4
  <2> QED  BY <1>6, <2>5, <2>6, <2>7, <2>9, <2>10 DEF StreamFlow
<1>13. ASSUME Transport[c] = "websocket" PROVE MessageFlow(c)'
  <2>1. MessageFlow(c)
    BY <1>10, <1>13 DEF Flow
  <2>2. s \in Seq(Seq(Bytes))
    BY <1>5, <2>1 DEF MessageFlow
  <2>3. rec \o Meant(c, Append(s, l)) = Append(rec \o Meant(c, s), PartsOf(c, l))
    <3>1. /\ Meant(c, s) \in Seq(Seq(Seq(Bytes)))
          /\ Meant(c, Append(s, l)) = Append(Meant(c, s), PartsOf(c, l))
      <4>1. PICK t \in Seq(Seq(Bytes)) : t = s
        BY <2>2
      <4> QED  BY <4>1, MeantOneByOne
    <3>2. PICK m \in Seq(Seq(Seq(Bytes))), x \in Seq(Seq(Bytes)) : m = Meant(c, s) /\ x = PartsOf(c, l)
      BY <1>8, <3>1
    <3>3. rec \o Append(m, x) = Append(rec \o m, x)
      <4>1. Cat(rec, Append(m, x)) = Append(Cat(rec, m), x)
        BY Regroup
      <4> QED  BY ONLY <4>1 DEF Cat
    <3> QED  BY <3>1, <3>2, <3>3
  <2>4. Commands(c, Append(ty, l)) = Append(Commands(c, ty), PartsOf(c, l))
    BY <1>8, <1>13 DEF Counts
  <2>5. Live(c) => rec \o Meant(c, s) = Commands(c, ty)
    BY <1>5, <2>1 DEF MessageFlow
  <2>6. IsPrefix(rec, Commands(c, Append(ty, l)))
    BY <1>5, <1>9, <2>1 DEF MessageFlow
  <2>7. socket'[c] = Append(s, l) /\ Append(s, l) \in Seq(Seq(Bytes))
    BY <1>6, <1>13, <2>2
  <2>8. inp = <<>>
    BY <1>5, <2>1 DEF MessageFlow
  <2> QED  BY <1>6, <1>11, <2>3, <2>4, <2>5, <2>6, <2>7, <2>8 DEF MessageFlow
<1>14. Transport[c] # "http"
  BY <1>2, <1>10 DEF Flow, RequestFlow
<1>15. \A d \in Conns \ {c} : Flow(d)'
  <2> TAKE d \in Conns \ {c}
  <2>1. Flow(d) /\ (d \in patient' => d \in patient)
    BY <1>2 DEF IInv
  <2> QED  BY <1>2, <1>6, <2>1, Untouched
<1> QED  BY <1>7, <1>12, <1>13, <1>14, <1>15 DEF IInv, Flow

(***************************************************************************)
(* What a step does to one connection leaves the others alone.             *)
(***************************************************************************)
LEMMA OneAtATime ==
    ASSUME IInv, NEW c \in Conns,
           UNCHANGED <<peer, patient>>, registered' \subseteq registered,
           socket' = [d \in Conns |-> socket'[d]], input' \in [Conns -> Lines],
           typed' \in [Conns -> Seq(Seq(Bytes))],
           received' \in [Conns -> Seq(Seq(Seq(Bytes)))], server' \in Sound,
           \A d \in Conns \ {c} : /\ socket'[d] = socket[d] /\ input'[d] = input[d]
                                  /\ typed'[d] = typed[d] /\ received'[d] = received[d],
           Flow(c)'
    PROVE  IInv'
<1>1. Shapes'
  BY DEF IInv, Shapes
<1>2. ASSUME NEW d \in Conns \ {c} PROVE Flow(d)'
  <2>1. Flow(d)
    BY DEF IInv
  <2> QED  BY <2>1, Untouched
<1> QED  BY <1>1, <1>2 DEF IInv

(***************************************************************************)
(* A chunk read: what was on its way is in the buffer, or executed.        *)
(***************************************************************************)
LEMMA ReadChunkKeeps ==
    ASSUME IInv, NEW c \in Conns, ReadChunk(c)
    PROVE  IInv'
<1>1. Transport[c] = "tcp" /\ c \in registered /\ UNCHANGED <<peer, typed, patient>>
  BY DEF ReadChunk
<1>2. Shapes /\ StreamFlow(c) /\ \A d \in Conns : Flow(d)
  BY <1>1 DEF IInv, Flow
<1>3. PICK s \in Seq(Bytes), inp \in Seq(Bytes), ty \in Seq(Lines), rec \in Seq(Seq(Seq(Bytes))) :
          s = socket[c] /\ inp = input[c] /\ ty = typed[c] /\ rec = received[c]
  BY <1>2, LinesAreBytes DEF StreamFlow, Shapes
<1>4. PICK n \in 1 .. Len(s) :
          /\ socket' = [socket EXCEPT ![c] = SubSeq(@, n + 1, Len(@))]
          /\ \E data \in {input[c] \o SubSeq(socket[c], 1, n)} :
             \E line \in {cleanBytes(data)} :
             \E parts \in {ParseCommand(line)} :
                 IF Contains(data, "newline")
                 THEN /\ input' = [input EXCEPT ![c] = <<>>]
                      /\ IF parts = <<>> THEN UNCHANGED <<server, received>>
                         ELSE Receive(c, parts)
                      /\ IF parts # <<>> /\ parts[1] = <<"QUIT">> THEN Leave(c)
                         ELSE UNCHANGED registered
                 ELSE /\ input' = [input EXCEPT ![c] = data]
                      /\ UNCHANGED <<registered, server, received>>
  BY <1>3 DEF ReadChunk
<1>5. SubSeq(s, 1, n) \in Seq(Bytes) /\ SubSeq(s, n + 1, Len(s)) \in Seq(Bytes)
  OBVIOUS
<1>6. PICK chunk \in Seq(Bytes), rest \in Seq(Bytes) :
          chunk = SubSeq(s, 1, n) /\ rest = SubSeq(s, n + 1, Len(s))
  BY <1>5
<1>7. inp \o chunk \in Seq(Bytes)
  OBVIOUS
<1>8. PICK data \in Seq(Bytes) : data = inp \o chunk
  BY <1>7
<1>9. PICK parts : parts = ParseCommand(cleanBytes(data))
  OBVIOUS
<1>10. parts \in Seq(Seq(Bytes))
  BY <1>9, AllAtOnce
<1>11. /\ socket' = [socket EXCEPT ![c] = rest]
       /\ Contains(data, "newline") =>
             /\ input' = [input EXCEPT ![c] = <<>>]
             /\ parts = <<>> => UNCHANGED <<server, received>>
             /\ parts # <<>> => Receive(c, parts)
             /\ Leave(c) \/ UNCHANGED registered
       /\ ~ Contains(data, "newline") =>
             /\ input' = [input EXCEPT ![c] = data]
             /\ UNCHANGED <<registered, server, received>>
  BY <1>3, <1>4, <1>6, <1>8, <1>9
<1>12. data \o rest = inp \o s
  <2>1. chunk \o rest = s
    BY <1>6, Cut
  <2>2. Cat(Cat(inp, chunk), rest) = Cat(inp, Cat(chunk, rest))
    BY Regroup
  <2> QED  BY <1>8, <2>1, <2>2 DEF Cat
<1>13. PICK new \in Seq(Seq(Seq(Bytes))), left \in Lines :
           /\ new = IF Contains(data, "newline") THEN With(rec, parts) ELSE rec
           /\ left = IF Contains(data, "newline") THEN <<>> ELSE data
  <2>1. With(rec, parts) \in Seq(Seq(Seq(Bytes)))
    BY <1>10 DEF With
  <2>2. <<>> \in Lines
    BY NothingYet
  <2>3. ~ Contains(data, "newline") => data \in Lines
    <3> SUFFICES ASSUME ~ Contains(data, "newline") PROVE data \in Lines
      OBVIOUS
    <3>1. PICK B : B = Bytes \ {"newline"}
      OBVIOUS
    <3>2. \A i \in 1 .. Len(data) : data[i] \in B
      BY <3>1 DEF Contains
    <3> QED  BY <3>1, <3>2, OtherSet DEF Lines
  <2> QED  BY <2>1, <2>2, <2>3
<1>14. server' \in Sound /\ received' = [received EXCEPT ![c] = new]
  <2>1. server \in Sound /\ received \in [Conns -> Seq(Seq(Seq(Bytes)))]
    BY <1>2 DEF Shapes
  <2>2. received = [received EXCEPT ![c] = rec]
    BY <1>3, <2>1
  <2>3. CASE Contains(data, "newline") /\ parts # <<>>
    <3>1. Receive(c, parts)
      BY <1>11, <2>3
    <3>2. server' \in Sound
      BY <1>10, <2>1, <3>1, ReceiveSound
    <3>3. received' = [received EXCEPT ![c] = Append(rec, parts)]
      BY <1>3, <3>1 DEF Receive
    <3> QED  BY <1>13, <2>3, <3>2, <3>3 DEF With
  <2>4. CASE ~ Contains(data, "newline") \/ parts = <<>>
    BY <1>11, <1>13, <2>1, <2>2, <2>4 DEF With
  <2> QED  BY <2>3, <2>4
<1>15. /\ registered' \subseteq registered
       /\ input' = [input EXCEPT ![c] = left] /\ typed' = [typed EXCEPT ![c] = ty]
  BY <1>1, <1>2, <1>3, <1>11, <1>13 DEF Leave, Shapes
<1>16. /\ socket' = [d \in Conns |-> socket'[d]] /\ input' \in [Conns -> Lines]
       /\ typed' \in [Conns -> Seq(Seq(Bytes))]
       /\ received' \in [Conns -> Seq(Seq(Seq(Bytes)))]
       /\ \A d \in Conns \ {c} : /\ socket'[d] = socket[d] /\ input'[d] = input[d]
                               /\ typed'[d] = typed[d] /\ received'[d] = received[d]
       /\ socket'[c] = rest /\ input'[c] = left /\ typed'[c] = ty /\ received'[c] = new
  BY <1>1, <1>2, <1>3, <1>11, <1>14, <1>15 DEF Shapes
<1>17. peer[c] # "reset" /\ peer[c] # "absent"
  <2>1. s # <<>>
    BY <1>4
  <2> QED  BY <1>2, <1>3, <2>1 DEF StreamFlow, Fresh
<1>18. /\ c \in patient => Waits(c, data \o rest, ty, rec)
       /\ c \in patient => IsPrefix(rec, Commands(c, ty))
       /\ AllSimple(ty) => Keeps(data \o rest, ty, rec)
  BY <1>1, <1>2, <1>3, <1>12, <1>17 DEF StreamFlow, Live
<1>19. /\ c \in patient => Waits(c, left \o rest, ty, new) /\ IsPrefix(new, Commands(c, ty))
       /\ AllSimple(ty) => Keeps(left \o rest, ty, new)
  <2>1. CASE ~ Contains(data, "newline")
    BY <1>13, <1>18, <2>1
  <2>2. CASE Contains(data, "newline")
    <3>1. left \o rest = rest /\ new = With(rec, parts)
      <4>1. <<>> \o rest = rest
        OBVIOUS
      <4> QED  BY <1>13, <2>2, <4>1
    <3>2. AllSimple(ty) => Keeps(rest, ty, With(rec, parts))
      BY <1>9, <1>18, KeepsChunk
    <3>3. c \in patient => rest = <<>> /\ With(rec, parts) = Commands(c, ty)
      BY <1>1, <1>9, <1>18, <2>2, WaitsChunk
    <3>4. new = Commands(c, ty) => IsPrefix(new, Commands(c, ty))
      <4>1. IsPrefix(new, new)
        BY PrefixFacts
      <4> QED  BY <4>1
    <3> QED  BY <3>1, <3>2, <3>3, <3>4 DEF Waits
  <2> QED  BY <2>1, <2>2
<1>20. Flow(c)'
  <2>1. StreamFlow(c)'
    BY <1>1, <1>16, <1>17, <1>19 DEF StreamFlow
  <2> QED  BY <1>1, <2>1 DEF Flow
<1> QED  BY <1>1, <1>14, <1>15, <1>16, <1>20, OneAtATime

(***************************************************************************)
(* A message read.                                                         *)
(***************************************************************************)
LEMMA ReadMessageKeeps ==
    ASSUME IInv, NEW c \in Conns, ReadMessage(c)
    PROVE  IInv'
<1>1. /\ Transport[c] = "websocket" /\ c \in registered /\ socket[c] # <<>>
      /\ UNCHANGED <<peer, input, typed, patient>> /\ registered' \subseteq registered
      /\ socket' = [socket EXCEPT ![c] = Tail(@)]
      /\ Receive(c, ParseCommand(Head(socket[c])))
  BY DEF ReadMessage, Leave
<1>2. Shapes /\ MessageFlow(c) /\ \A d \in Conns : Flow(d)
  BY <1>1 DEF IInv, Flow
<1>3. PICK s \in Seq(Seq(Bytes)), ty \in Seq(Seq(Bytes)), rec \in Seq(Seq(Seq(Bytes))) :
          s = socket[c] /\ ty = typed[c] /\ rec = received[c]
  BY <1>2 DEF MessageFlow, Shapes
<1>4. s # <<>> /\ Head(s) \in Seq(Bytes) /\ Tail(s) \in Seq(Seq(Bytes))
  BY <1>1, <1>3
<1>5. PICK parts \in Seq(Seq(Bytes)) : parts = PartsOf(c, Head(s))
  BY <1>4, PartsType
<1>6. Receive(c, parts)
  BY <1>1, <1>3, <1>5 DEF PartsOf
<1>7. PICK new \in Seq(Seq(Seq(Bytes))) : new = Append(rec, parts)
  <2>1. Append(rec, parts) \in Seq(Seq(Seq(Bytes)))
    OBVIOUS
  <2> QED  BY <2>1
<1>8. /\ socket' = [socket EXCEPT ![c] = Tail(s)] /\ input' = [input EXCEPT ![c] = <<>>]
      /\ typed' = [typed EXCEPT ![c] = ty] /\ received' = [received EXCEPT ![c] = new]
      /\ server' \in Sound
  <2>1. server' \in Sound
    BY <1>2, <1>6, ReceiveSound DEF Shapes
  <2> QED  BY <1>1, <1>2, <1>3, <1>6, <1>7, <2>1 DEF Receive, MessageFlow, Shapes
<1>9. /\ socket' = [d \in Conns |-> socket'[d]] /\ input' \in [Conns -> Lines]
      /\ typed' \in [Conns -> Seq(Seq(Bytes))]
      /\ received' \in [Conns -> Seq(Seq(Seq(Bytes)))]
      /\ \A d \in Conns \ {c} : /\ socket'[d] = socket[d] /\ input'[d] = input[d]
                              /\ typed'[d] = typed[d] /\ received'[d] = received[d]
      /\ socket'[c] = Tail(s) /\ input'[c] = <<>> /\ typed'[c] = ty /\ received'[c] = new
  BY <1>1, <1>2, <1>3, <1>8 DEF Shapes, MessageFlow
<1>10. peer[c] # "reset" /\ peer[c] # "absent"
  BY <1>2, <1>3, <1>4 DEF MessageFlow, Fresh
<1>11. rec \o Meant(c, s) = Commands(c, ty)
  BY <1>1, <1>2, <1>3, <1>10 DEF MessageFlow, Live
<1>12. new \o Meant(c, Tail(s)) = Commands(c, ty)
  <2>1. Meant(c, s) = <<parts>> \o Meant(c, Tail(s)) /\ Meant(c, Tail(s)) \in Seq(Seq(Seq(Bytes)))
    BY <1>4, <1>5, MeantOneByOne
  <2>2. PICK m \in Seq(Seq(Seq(Bytes))) : m = Meant(c, Tail(s))
    BY <2>1
  <2>3. <<parts>> \in Seq(Seq(Seq(Bytes)))
    OBVIOUS
  <2>4. PICK one \in Seq(Seq(Seq(Bytes))) : one = <<parts>>
    BY <2>3
  <2>5. Cat(Cat(rec, one), m) = Cat(rec, Cat(one, m))
    BY Regroup
  <2>6. rec \o <<parts>> = Append(rec, parts)
    OBVIOUS
  <2> QED  BY <1>7, <1>11, <2>1, <2>2, <2>4, <2>5, <2>6 DEF Cat
<1>13. IsPrefix(new, Commands(c, ty))
  <2>1. PICK m \in Seq(Seq(Seq(Bytes))) : m = Meant(c, Tail(s))
    BY <1>4, MeantOneByOne
  <2>2. IsPrefix(new, new \o m)
    BY PrefixFacts
  <2> QED  BY <1>12, <2>1, <2>2
<1>14. Flow(c)'
  <2>1. MessageFlow(c)'
    BY <1>1, <1>4, <1>9, <1>10, <1>12, <1>13 DEF MessageFlow
  <2> QED  BY <1>1, <2>1 DEF Flow
<1> QED  BY <1>1, <1>8, <1>9, <1>14, OneAtATime

(***************************************************************************)
(* A request.                                                              *)
(***************************************************************************)
LEMMA handleCommandKeeps ==
    ASSUME IInv, NEW c \in Conns, handleCommand(c)
    PROVE  IInv'
<1>1. Transport[c] = "http" /\ UNCHANGED <<peer, registered, socket, input, patient>>
  BY DEF handleCommand
<1>2. PICK body \in LinesOf[c] :
          /\ typed' = [typed EXCEPT ![c] = Append(@, body)]
          /\ IF ParseCommand(body) = <<>> THEN UNCHANGED <<server, received>>
             ELSE Receive(c, ParseCommand(body))
  BY DEF handleCommand
<1>3. Shapes /\ RequestFlow(c) /\ \A d \in Conns : Flow(d)
  BY <1>1 DEF IInv, Flow
<1>4. PICK line \in Seq(Bytes) : line = body
  BY LinesType
<1>5. PICK ty \in Seq(Seq(Bytes)), rec \in Seq(Seq(Seq(Bytes))) : ty = typed[c] /\ rec = received[c]
  BY <1>3 DEF Shapes
<1>6. PICK parts \in Seq(Seq(Bytes)) : parts = PartsOf(c, line)
  BY PartsType
<1>7. ParseCommand(body) = parts
  BY <1>1, <1>4, <1>6 DEF PartsOf
<1>8. PICK new \in Seq(Seq(Seq(Bytes))), long \in Seq(Seq(Bytes)) :
          new = With(rec, parts) /\ long = Append(ty, line)
  <2>1. With(rec, parts) \in Seq(Seq(Seq(Bytes))) /\ Append(ty, line) \in Seq(Seq(Bytes))
    BY DEF With
  <2> QED  BY <2>1
<1>9. /\ socket' = [socket EXCEPT ![c] = <<>>] /\ input' = [input EXCEPT ![c] = <<>>]
      /\ typed' = [typed EXCEPT ![c] = long]
  BY <1>1, <1>2, <1>3, <1>4, <1>5, <1>8 DEF RequestFlow, Shapes
<1>10. received' = [received EXCEPT ![c] = new] /\ server' \in Sound
  <2>1. CASE parts = <<>>
    BY <1>2, <1>3, <1>5, <1>7, <1>8, <2>1 DEF With, Shapes
  <2>2. CASE parts # <<>>
    <3>1. Receive(c, parts)
      BY <1>2, <1>7, <2>2
    <3>2. server' \in Sound
      BY <1>3, <3>1, ReceiveSound DEF Shapes
    <3> QED  BY <1>5, <1>8, <2>2, <3>1, <3>2 DEF With, Receive
  <2> QED  BY <2>1, <2>2
<1>11. /\ socket' = [d \in Conns |-> socket'[d]] /\ input' \in [Conns -> Lines]
       /\ typed' \in [Conns -> Seq(Seq(Bytes))]
       /\ received' \in [Conns -> Seq(Seq(Seq(Bytes)))]
       /\ \A d \in Conns \ {c} : /\ socket'[d] = socket[d] /\ input'[d] = input[d]
                               /\ typed'[d] = typed[d] /\ received'[d] = received[d]
       /\ socket'[c] = <<>> /\ input'[c] = <<>> /\ typed'[c] = long /\ received'[c] = new
  BY <1>1, <1>3, <1>8, <1>9, <1>10 DEF Shapes, RequestFlow
<1>12. new = Commands(c, long)
  <2>1. Commands(c, long) = IF Counts(c, line) THEN Append(Commands(c, ty), PartsOf(c, line))
                            ELSE Commands(c, ty)
    BY <1>8, CommandsAppend
  <2>2. Counts(c, line) <=> parts # <<>>
    BY <1>1, <1>6 DEF Counts
  <2>3. rec = Commands(c, ty)
    BY <1>3, <1>5 DEF RequestFlow
  <2> QED  BY <1>6, <1>8, <2>1, <2>2, <2>3 DEF With
<1>13. Flow(c)'
  <2>1. RequestFlow(c)'
    BY <1>1, <1>3, <1>11, <1>12 DEF RequestFlow
  <2> QED  BY <1>1, <2>1 DEF Flow
<1>14. UNCHANGED <<peer, patient>> /\ registered' \subseteq registered
  BY <1>1
<1> QED  BY <1>10, <1>11, <1>13, <1>14, OneAtATime

(***************************************************************************)
(* The invariant holds in every state: one case for each action.           *)
(***************************************************************************)
LEMMA Invariance == Spec => []IInv
<1>1. IInv /\ [Next]_vars => IInv'
  <2> SUFFICES ASSUME IInv, [Next]_vars PROVE IInv'
    OBVIOUS
  <2>1. ASSUME NEW c \in Conns, Connect(c) PROVE IInv'
    BY <2>1, ConnectKeeps
  <2>2. ASSUME NEW c \in Conns, Send(c) PROVE IInv'
    BY <2>2, SendKeeps
  <2>3. ASSUME NEW c \in Conns, HangUp(c) PROVE IInv'
    BY <2>3, HangUpKeeps
  <2>4. ASSUME NEW c \in Conns, ReadChunk(c) PROVE IInv'
    BY <2>4, ReadChunkKeeps
  <2>5. ASSUME NEW c \in Conns, ReadEnd(c) PROVE IInv'
    BY <2>5, LeaveKeeps DEF ReadEnd
  <2>6. ASSUME NEW c \in Conns, ReadMessage(c) PROVE IInv'
    BY <2>6, ReadMessageKeeps
  <2>7. ASSUME NEW c \in Conns, MessageError(c) PROVE IInv'
    BY <2>7, LeaveKeeps DEF MessageError
  <2>8. ASSUME NEW c \in Conns, handleCommand(c) PROVE IInv'
    BY <2>8, handleCommandKeeps
  <2>9. CASE UNCHANGED vars
    <3>1. \A c \in Conns : Flow(c) => Flow(c)'
      BY <2>9, Untouched DEF vars
    <3>2. Shapes'
      BY <2>9 DEF IInv, Shapes, vars
    <3> QED  BY <3>1, <3>2 DEF IInv
  <2> QED  BY <2>1, <2>2, <2>3, <2>4, <2>5, <2>6, <2>7, <2>8, <2>9 DEF Next, Read
<1> QED  BY <1>1, InitInv, PTL DEF Spec

(***************************************************************************)
(* The types, and: no complete line waits in a buffer of a connection      *)
(* (main.go:201).                                                          *)
(***************************************************************************)
THEOREM TypesAreKept == Spec => []TypeOK
<1>1. IInv => TypeOK
  <2> SUFFICES ASSUME IInv PROVE TypeOK
    OBVIOUS
  <2>1. \A c \in Conns : Transport[c] = "tcp" => socket[c] \in Seq(Bytes)
    BY DEF IInv, Flow, StreamFlow
  <2>2. \A c \in Conns : input[c] \in Seq(Bytes) /\ ~ Contains(input[c], "newline")
    <3> TAKE c \in Conns
    <3>1. PICK l \in Lines : l = input[c]
      BY DEF IInv, Shapes
    <3>2. l \in Seq(Bytes) /\ \A i \in 1 .. Len(l) : l[i] # "newline"
      BY LinesAreBytes
    <3> QED  BY <3>1, <3>2 DEF Contains
  <2>3. input \in [Conns -> Seq(Bytes)]
    <3>1. input \in [Conns -> Lines]
      BY DEF IInv, Shapes
    <3> QED  BY <2>2, <3>1
  <2>4. /\ server \in ServerStates
        /\ \A i \in ClientIds : \/ server.queue[i] = None
                                \/ server.queue[i] = [n \in DOMAIN server.asked[i] |->
                                                         Join(server.asked[i][n])]
    <3>1. PICK st : st = server
      OBVIOUS
    <3>2. st \in Sound
      BY <3>1 DEF IInv, Shapes
    <3>3. st \in ServerStates
      BY <3>2 DEF Sound
    <3>4. \A i \in ClientIds : Right(st.queue[i], st.asked[i])
      BY <3>2, <3>3, SoundMeans
    <3> QED  BY <3>1, <3>3, <3>4 DEF Right
  <2> QED  BY <2>1, <2>2, <2>3, <2>4 DEF TypeOK, IInv, Shapes
<1> QED  BY <1>1, Invariance, PTL

(***************************************************************************)
(* However the network cuts the bytes (main.go:175-225), what a waiting    *)
(* client typed is executed line by line, nothing of a word of the others  *)
(* is lost, and messages and requests are commands one for one.            *)
(***************************************************************************)
THEOREM NothingIsLost == Spec => []BytesBecomeCommands
<1>1. ASSUME IInv, NEW c \in Conns
      PROVE  LET meant == Commands(c, typed[c])
                 got == received[c] \o Pending(c)
             IN  /\ c \in patient => IsPrefix(received[c], meant)
                 /\ Connected(c) /\ (c \in patient \/ Transport[c] # "tcp") => got = meant
                 /\ Connected(c) /\ (\A i \in DOMAIN typed[c] : Simple(typed[c][i]))
                       => FlattenSeq(FlattenSeq(got)) = Visible(FlattenSeq(typed[c]))
  <2>1. Flow(c) /\ Shapes
    BY <1>1 DEF IInv
  <2>2. PICK ty \in Seq(Seq(Bytes)), rec \in Seq(Seq(Seq(Bytes))) :
            ty = typed[c] /\ rec = received[c]
    BY <2>1 DEF Shapes
  <2>3. PICK meant, pending : meant = Commands(c, ty) /\ pending = Pending(c)
    OBVIOUS
  <2>4. Transport[c] \in {"tcp", "websocket", "http"}
    BY ConnectionsAssumption
  <2>5. Transport[c] # "http" /\ Connected(c) => Live(c)
    BY <2>4 DEF Connected, Live
  <2>6. ASSUME Transport[c] # "tcp", rec \o pending = meant, AllSimple(ty)
        PROVE  FlattenSeq(FlattenSeq(rec \o pending)) = Visible(FlattenSeq(ty))
    <3>1. PICK S : S = {l \in Seq(Bytes) : Simple(l)}
      OBVIOUS
    <3>2. \A i \in 1 .. Len(ty) : ty[i] \in S
      BY <2>6, <3>1 DEF AllSimple
    <3>3. ty \in Seq(S)
      BY <3>2, OtherSet
    <3> QED  BY <2>3, <2>6, <3>1, <3>3, SimpleCommands
  <2>7. CASE Transport[c] = "tcp"
    <3>1. StreamFlow(c)
      BY <2>1, <2>7 DEF Flow
    <3>2. input[c] \in Seq(Bytes) /\ socket[c] \in Seq(Bytes)
      BY <2>1, <3>1, LinesAreBytes DEF Shapes, StreamFlow
    <3>3. input[c] \o socket[c] \in Seq(Bytes)
      <4>1. PICK i \in Seq(Bytes), s \in Seq(Bytes) : i = input[c] /\ s = socket[c]
        BY <3>2
      <4>2. i \o s \in Seq(Bytes)
        OBVIOUS
      <4> QED  BY <4>1, <4>2
    <3>4. PICK b \in Seq(Bytes) : b = input[c] \o socket[c]
      BY <3>3
    <3>5. rec \o pending = With(rec, ParseCommand(cleanBytes(b)))
      <4>1. PICK parts : parts = ParseCommand(cleanBytes(b))
        OBVIOUS
      <4>2. pending = IF parts = <<>> THEN <<>> ELSE <<parts>>
        BY <2>3, <2>7, <3>4, <4>1 DEF Pending
      <4>3. rec \o (IF parts = <<>> THEN <<>> ELSE <<parts>>) = With(rec, parts)
        BY <4>1, AllAtOnce
      <4> QED  BY <4>1, <4>2, <4>3
    <3>6. Live(c) /\ c \in patient => rec \o pending = meant
      <4>1. Live(c) /\ c \in patient => Waits(c, b, ty, rec)
        BY <2>2, <3>1, <3>4 DEF StreamFlow
      <4>2. ty \in Seq(Lines)
        BY <2>2, <3>1 DEF StreamFlow
      <4> QED  BY <2>3, <2>7, <3>5, <4>1, <4>2, AllAtOnce
    <3>7. Live(c) /\ AllSimple(ty)
             => FlattenSeq(FlattenSeq(rec \o pending)) = Visible(FlattenSeq(ty))
      <4>1. Live(c) /\ AllSimple(ty) => Keeps(b, ty, rec)
        BY <2>2, <3>1, <3>4 DEF StreamFlow
      <4>2. \A t : Keeps(b, t, rec) =>
                  FlattenSeq(FlattenSeq(With(rec, ParseCommand(cleanBytes(b)))))
                      = Visible(FlattenSeq(t))
        BY AllAtOnce
      <4> QED  BY <3>5, <4>1, <4>2
    <3>8. c \in patient => IsPrefix(rec, meant)
      BY <2>2, <2>3, <3>1 DEF StreamFlow
    <3> QED  BY <2>2, <2>3, <2>5, <2>7, <3>6, <3>7, <3>8 DEF AllSimple
  <2>8. CASE Transport[c] = "websocket"
    <3>1. MessageFlow(c)
      BY <2>1, <2>8 DEF Flow
    <3>2. pending = Meant(c, socket[c])
      BY <2>3, <2>8 DEF Pending
    <3>3. Live(c) => rec \o pending = meant
      BY <2>2, <2>3, <3>1, <3>2 DEF MessageFlow
    <3>4. IsPrefix(rec, meant)
      BY <2>2, <2>3, <3>1 DEF MessageFlow
    <3> QED  BY <2>2, <2>3, <2>5, <2>6, <2>8, <3>3, <3>4 DEF AllSimple
  <2>9. CASE Transport[c] = "http"
    <3>1. RequestFlow(c)
      BY <2>1, <2>9 DEF Flow
    <3>2. pending = <<>>
      <4>1. input[c] \o socket[c] = <<>>
        BY <3>1, NothingYet DEF RequestFlow
      <4>2. ParseCommand(cleanBytes(<<>>)) = <<>>
        BY NothingYet, AllAtOnce
      <4> QED  BY <2>3, <2>9, <4>1, <4>2 DEF Pending
    <3>3. rec \o pending = meant /\ rec = meant
      <4>1. rec \o <<>> = rec
        OBVIOUS
      <4> QED  BY <2>2, <2>3, <3>1, <3>2, <4>1 DEF RequestFlow
    <3>4. IsPrefix(rec, rec)
      BY PrefixFacts
    <3> QED  BY <2>2, <2>3, <2>6, <2>9, <3>3, <3>4 DEF AllSimple
  <2> QED  BY <2>4, <2>7, <2>8, <2>9
<1>2. IInv => BytesBecomeCommands
  BY <1>1 DEF BytesBecomeCommands
<1> QED  BY <1>2, Invariance, PTL

(***************************************************************************)
(* What EXEC runs is what was queued, as long as its parts have no blanks  *)
(* and are not empty, and none of the commands is a MULTI (handler.go:20,  *)
(* tealis.go:97).                                                          *)
(***************************************************************************)
THEOREM ExecRunsTheQueue == Spec => ExecRunsAsAsked
<1> DEFINE A(i) ==
        /\ ExecArrives(i) /\ server.queue[i] # None
        /\ \A j \in DOMAIN server.asked[i] : Plain(server.asked[i][j])
        => server'.log = server.log
              \o [j \in DOMAIN server.asked[i] |-> <<i, server.asked[i][j]>>]
<1>1. ASSUME IInv, Next, received' # received
      PROVE  \E d \in Conns, parts \in Seq(Seq(Bytes)) : Receive(d, parts)
  <2>1. PICK d \in Conns : Connect(d) \/ Send(d) \/ HangUp(d) \/ Read(d) \/ handleCommand(d)
    BY <1>1 DEF Next
  <2>2. ReadChunk(d) \/ ReadMessage(d) \/ handleCommand(d)
    BY <1>1, <2>1 DEF Connect, Send, HangUp, Read, ReadEnd, MessageError
  <2>3. CASE ReadChunk(d)
    <3>1. PICK n \in 1 .. Len(socket[d]) :
              /\ socket' = [socket EXCEPT ![d] = SubSeq(@, n + 1, Len(@))]
              /\ \E data \in {input[d] \o SubSeq(socket[d], 1, n)} :
                 \E line \in {cleanBytes(data)} :
                 \E parts \in {ParseCommand(line)} :
                     IF Contains(data, "newline")
                     THEN /\ input' = [input EXCEPT ![d] = <<>>]
                          /\ IF parts = <<>> THEN UNCHANGED <<server, received>>
                             ELSE Receive(d, parts)
                          /\ IF parts # <<>> /\ parts[1] = <<"QUIT">> THEN Leave(d)
                             ELSE UNCHANGED registered
                     ELSE /\ input' = [input EXCEPT ![d] = data]
                          /\ UNCHANGED <<registered, server, received>>
      BY <2>3 DEF ReadChunk
    <3>2. Receive(d, ParseCommand(cleanBytes(input[d] \o SubSeq(socket[d], 1, n))))
      BY <1>1, <3>1
    <3>3. input[d] \in Seq(Bytes) /\ socket[d] \in Seq(Bytes)
      <4>1. Transport[d] = "tcp"
        BY <2>3 DEF ReadChunk
      <4> QED  BY <1>1, <4>1, LinesAreBytes DEF IInv, Shapes, Flow, StreamFlow
    <3>4. PICK i \in Seq(Bytes), s \in Seq(Bytes) : i = input[d] /\ s = socket[d]
      BY <3>3
    <3>5. i \o SubSeq(s, 1, n) \in Seq(Bytes)
      <4>1. n \in 1 .. Len(s)
        BY <3>4
      <4>2. SubSeq(s, 1, n) \in Seq(Bytes)
        BY <4>1
      <4> QED  BY <4>2
    <3>6. PICK b \in Seq(Bytes) : b = input[d] \o SubSeq(socket[d], 1, n)
      BY <3>4, <3>5
    <3>7. ParseCommand(cleanBytes(b)) \in Seq(Seq(Bytes))
      <4>1. cleanBytes(b) \in Seq(Bytes)
        BY LinesAreBytes, CleanAppend
      <4> QED  BY <4>1, ParseType
    <3> QED  BY <3>2, <3>6, <3>7
  <2>4. CASE ReadMessage(d)
    <3>1. Receive(d, ParseCommand(Head(socket[d]))) /\ socket[d] # <<>> /\ Transport[d] = "websocket"
      BY <2>4 DEF ReadMessage
    <3>2. PICK s \in Seq(Seq(Bytes)) : s = socket[d]
      BY <1>1, <3>1 DEF IInv, Flow, MessageFlow
    <3>3. Head(s) \in Seq(Bytes)
      BY <3>1, <3>2
    <3>4. ParseCommand(Head(s)) \in Seq(Seq(Bytes))
      BY <3>3, ParseType
    <3> QED  BY <3>1, <3>2, <3>4
  <2>5. CASE handleCommand(d)
    <3>1. PICK body \in LinesOf[d] :
              IF ParseCommand(body) = <<>> THEN UNCHANGED <<server, received>>
              ELSE Receive(d, ParseCommand(body))
      BY <2>5 DEF handleCommand
    <3>2. ParseCommand(body) \in Seq(Seq(Bytes))
      BY LinesType, ParseType
    <3> QED  BY <1>1, <3>1, <3>2
  <2> QED  BY <2>2, <2>3, <2>4, <2>5
<1>2. ASSUME IInv, [Next]_vars, NEW i \in ClientIds PROVE A(i)
  <2> SUFFICES ASSUME ExecArrives(i), server.queue[i] # None,
                      \A j \in DOMAIN server.asked[i] : Plain(server.asked[i][j])
               PROVE  server'.log = server.log
                          \o [j \in DOMAIN server.asked[i] |-> <<i, server.asked[i][j]>>]
    OBVIOUS
  <2>1. PICK c \in Conns : /\ IdOf[c] = i /\ received'[c] # received[c]
                           /\ Last(received'[c]) # <<>>
                           /\ Last(received'[c])[1] = <<"EXEC">>
    BY DEF ExecArrives
  <2>2. Next
    BY <1>2, <2>1 DEF vars
  <2>3. PICK d \in Conns, parts \in Seq(Seq(Bytes)) : Receive(d, parts)
    BY <1>1, <1>2, <2>1, <2>2
  <2>4. received \in [Conns -> Seq(Seq(Seq(Bytes)))] /\ server \in Sound
    BY <1>2 DEF IInv, Shapes
  <2>5. received' = [received EXCEPT ![d] = Append(received[d], parts)]
    BY <2>3 DEF Receive
  <2>6. c = d /\ received'[c] = Append(received[c], parts)
    BY <2>1, <2>4, <2>5
  <2>7. Last(received'[c]) = parts
    <3>1. PICK r \in Seq(Seq(Seq(Bytes))) : r = received[c]
      BY <2>4
    <3>2. Last(Append(r, parts)) = parts
      BY DEF Last
    <3> QED  BY <2>6, <3>1, <3>2
  <2>8. PICK st \in Sound : st = server
    BY <2>4
  <2>9. server' = ProcessCommand(st, i, parts)
    BY <2>1, <2>3, <2>6, <2>8 DEF Receive
  <2>10. ProcessCommand(st, i, parts) = EXEC(st, i)
    <3>1. parts # <<>> /\ parts[1] = <<"EXEC">>
      BY <2>1, <2>7
    <3>2. <<"EXEC">> # <<"MULTI">>
      OBVIOUS
    <3> QED  BY <3>1, <3>2 DEF ProcessCommand, Dispatch
  <2>11. EXEC(st, i).log = st.log \o [j \in DOMAIN st.asked[i] |-> <<i, st.asked[i][j]>>]
    BY <2>8, ExecRunsQueue
  <2> QED  BY <2>8, <2>9, <2>10, <2>11
<1>3. IInv /\ [Next]_vars => \A i \in ClientIds : A(i)
  BY <1>2
<1> QED  BY <1>3, Invariance, PTL DEF Spec, ExecRunsAsAsked
=============================================================================
