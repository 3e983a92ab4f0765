----------------------------- MODULE ListsProofs -----------------------------
(***************************************************************************)
(* Proofs about Lists, for every set of clients, strings and pushes, every *)
(* memory and any number of commands.                                      *)
(***************************************************************************)
EXTENDS Lists, SequenceTheorems, TLAPS

Words == Elements \cup {Empty, Torn}

(***************************************************************************)
(* Slots and View read the memory of the current state.  Cells and Window  *)
(* are the same for any memory, so that lemmas can relate two of them.     *)
(***************************************************************************)
Cells(m, s) == IF s.array = NoArray THEN <<>> ELSE m[s.array]

Window(m, s) == SubSeq(Cells(m, s), s.from + 1, s.from + s.len)

Fits(m, s) == s \in Slices /\ s.from + s.len <= Len(Cells(m, s))

(* What a window holds.                                                    *)
LEMMA CellsAreWords ==
    ASSUME NEW m \in [Arrays -> Seq(Words)], NEW s \in Slices
    PROVE  Cells(m, s) \in Seq(Words)
BY DEF Cells, Slices

(***************************************************************************)
(* A part of a sequence, by its offset and its length.                     *)
(***************************************************************************)
LEMMA PartOfSequence ==
    ASSUME NEW S, NEW q \in Seq(S), NEW f \in Nat, NEW n \in Nat, f + n <= Len(q)
    PROVE  /\ SubSeq(q, f + 1, f + n) \in Seq(S)
           /\ Len(SubSeq(q, f + 1, f + n)) = n
           /\ \A i \in 1 .. n : SubSeq(q, f + 1, f + n)[i] = q[f + i]
<1>1. \A i \in f + 1 .. f + n : q[i] \in S
  OBVIOUS
<1>2. /\ SubSeq(q, f + 1, f + n) \in Seq(S)
      /\ Len(SubSeq(q, f + 1, f + n)) =
            IF f + 1 <= f + n THEN f + n - (f + 1) + 1 ELSE 0
      /\ \A i \in 1 .. f + n - (f + 1) + 1 :
            SubSeq(q, f + 1, f + n)[i] = q[f + 1 + i - 1]
  BY <1>1, SubSeqProperties
<1>3. f + n - (f + 1) + 1 = n /\ (f + 1 <= f + n <=> n # 0)
  OBVIOUS
<1>4. \A i \in 1 .. n : f + 1 + i - 1 = f + i
  OBVIOUS
<1> QED  BY <1>2, <1>3, <1>4

(***************************************************************************)
(* A window has the length of its slice and shows the cells behind its     *)
(* offset.                                                                 *)
(***************************************************************************)
LEMMA WindowProperties ==
    ASSUME NEW m \in [Arrays -> Seq(Words)], NEW s, Fits(m, s)
    PROVE  /\ Window(m, s) \in Seq(Words)
           /\ Len(Window(m, s)) = s.len
           /\ \A i \in 1 .. s.len : Window(m, s)[i] = Cells(m, s)[s.from + i]
<1>1. s.from \in Nat /\ s.len \in Nat /\ s.from + s.len <= Len(Cells(m, s))
  BY DEF Fits, Slices
<1>2. Cells(m, s) \in Seq(Words)
  BY CellsAreWords DEF Fits
<1> QED  BY <1>1, <1>2, PartOfSequence DEF Window

(* Two windows that agree slot by slot hold the same.                      *)
LEMMA WindowsEqual ==
    ASSUME NEW m \in [Arrays -> Seq(Words)], NEW n \in [Arrays -> Seq(Words)],
           NEW s, NEW t, Fits(m, s), Fits(n, t), s.len = t.len,
           \A i \in 1 .. s.len : Cells(m, s)[s.from + i] = Cells(n, t)[t.from + i]
    PROVE  Window(m, s) = Window(n, t)
<1>1. /\ Window(m, s) \in Seq(Words) /\ Window(n, t) \in Seq(Words)
      /\ Len(Window(m, s)) = s.len /\ Len(Window(n, t)) = t.len
      /\ \A i \in 1 .. s.len : Window(m, s)[i] = Cells(m, s)[s.from + i]
      /\ \A i \in 1 .. t.len : Window(n, t)[i] = Cells(n, t)[t.from + i]
  BY WindowProperties
<1>2. \A i \in 1 .. Len(Window(m, s)) : Window(m, s)[i] = Window(n, t)[i]
  BY <1>1
<1> QED  BY <1>1, <1>2, SeqEqual

(* A write behind the end of a window is not seen through it.              *)
Written(m, a, i, e) == [m EXCEPT ![a][i] = e]

(***************************************************************************)
(* A write behind a window does not show in it.                            *)
(***************************************************************************)
LEMMA WriteBehind ==
    ASSUME NEW m \in [Arrays -> Seq(Words)], NEW s, Fits(m, s),
           NEW a \in Arrays, NEW i \in 1 .. Len(m[a]), NEW e \in Words,
           s.array = a => i > s.from + s.len
    PROVE  /\ Written(m, a, i, e) \in [Arrays -> Seq(Words)]
           /\ Len(Written(m, a, i, e)[a]) = Len(m[a])
           /\ Fits(Written(m, a, i, e), s)
           /\ Window(Written(m, a, i, e), s) = Window(m, s)
<1> DEFINE cells == [m[a] EXCEPT ![i] = e]
           n == [m EXCEPT ![a] = cells]
<1>1. m[a] \in Seq(Words)
  OBVIOUS
<1>2. /\ cells \in Seq(Words) /\ Len(cells) = Len(m[a])
      /\ \A j \in 1 .. Len(m[a]) : cells[j] = IF j = i THEN e ELSE m[a][j]
  BY <1>1, ExceptSeq
<1>3. n = Written(m, a, i, e)
  BY DEF Written
<1> HIDE DEF cells
<1>4. n \in [Arrays -> Seq(Words)] /\ n[a] = cells
      /\ \A b \in Arrays \ {a} : n[b] = m[b]
  BY <1>2
<1> HIDE DEF n
<1>5. s \in Slices /\ s.from \in Nat /\ s.len \in Nat
      /\ s.from + s.len <= Len(Cells(m, s))
  BY DEF Fits, Slices
<1>6. Fits(n, s)
  BY <1>2, <1>4, <1>5 DEF Fits, Cells, Slices
<1>7. \A j \in 1 .. s.len : Cells(m, s)[s.from + j] = Cells(n, s)[s.from + j]
  <2>1. CASE s.array = a
    <3>1. Cells(m, s) = m[a] /\ Cells(n, s) = cells
      BY <2>1, <1>4, ListsAssumption DEF Cells
    <3> QED  BY <1>2, <1>5, <2>1, <3>1
  <2>2. CASE s.array # a
    BY <1>4, <1>5, <2>2 DEF Cells, Slices
  <2> QED  BY <2>1, <2>2
<1>8. Window(m, s) = Window(n, s)
  <2>1. \A j \in 1 .. s.len : Cells(m, s)[s.from + j] = Cells(n, s)[s.from + j]
    BY <1>7
  <2>2. Fits(m, s) /\ Fits(n, s) /\ n \in [Arrays -> Seq(Words)]
    BY <1>4, <1>6
  <2>3. s.len = s.len
    OBVIOUS
  <2> QED  BY <2>1, <2>2, <2>3, WindowsEqual, SMTT(30)
<1> QED  BY <1>2, <1>3, <1>4, <1>6, <1>8

(* A window of a window is a part of what it holds.                        *)
LEMMA PartOfWindow ==
    ASSUME NEW m \in [Arrays -> Seq(Words)], NEW s, Fits(m, s),
           NEW i \in Nat, NEW n \in Nat, i + n <= s.len
    PROVE  /\ Fits(m, Slice(s.array, s.from + i, n))
           /\ Window(m, Slice(s.array, s.from + i, n)) = SubSeq(Window(m, s), i + 1, i + n)
<1> DEFINE t == Slice(s.array, s.from + i, n)
<1>1. /\ s.array \in Arrays \cup {NoArray} /\ s.from \in Nat /\ s.len \in Nat
      /\ s.from + s.len <= Len(Cells(m, s)) /\ s \in Slices
  BY DEF Fits, Slices
<1>2. /\ t.array = s.array /\ t.from = s.from + i /\ t.len = n /\ t \in Slices
      /\ Cells(m, t) = Cells(m, s)
  BY <1>1 DEF Slice, Slices, Cells
<1> HIDE DEF t
<1>3. Len(Cells(m, s)) \in Nat
  BY <1>1, CellsAreWords
<1>4. Fits(m, t)
  BY <1>1, <1>2, <1>3 DEF Fits
<1>5. /\ Window(m, s) \in Seq(Words) /\ Len(Window(m, s)) = s.len
      /\ \A j \in 1 .. s.len : Window(m, s)[j] = Cells(m, s)[s.from + j]
  BY WindowProperties
<1>6. /\ Window(m, t) \in Seq(Words) /\ Len(Window(m, t)) = n
      /\ \A j \in 1 .. n : Window(m, t)[j] = Cells(m, s)[s.from + i + j]
  BY <1>2, <1>4, WindowProperties
<1>7. /\ SubSeq(Window(m, s), i + 1, i + n) \in Seq(Words)
      /\ Len(SubSeq(Window(m, s), i + 1, i + n)) = n
      /\ \A j \in 1 .. n : SubSeq(Window(m, s), i + 1, i + n)[j] = Window(m, s)[i + j]
  BY <1>5, PartOfSequence
<1>8. ASSUME NEW j \in 1 .. Len(Window(m, t))
      PROVE  Window(m, t)[j] = SubSeq(Window(m, s), i + 1, i + n)[j]
  <2>1. j \in 1 .. n /\ i + j \in 1 .. s.len /\ s.from + (i + j) = s.from + i + j
    BY <1>1, <1>6
  <2> QED  BY <1>5, <1>6, <1>7, <2>1
<1>9. Window(m, t) = SubSeq(Window(m, s), i + 1, i + n)
  BY <1>6, <1>7, <1>8, SeqEqual
<1> QED  BY <1>4, <1>9 DEF t

(***************************************************************************)
(* A slice that starts one later shows the tail.                           *)
(***************************************************************************)
LEMMA WindowWithoutFirst ==
    ASSUME NEW m \in [Arrays -> Seq(Words)], NEW s, Fits(m, s), s.len # 0
    PROVE  /\ Fits(m, Slice(s.array, s.from + 1, s.len - 1))
           /\ Window(m, Slice(s.array, s.from + 1, s.len - 1)) = Tail(Window(m, s))
<1>1. PICK i \in Nat : i = 1
  OBVIOUS
<1>2. s.len - 1 \in Nat /\ i + (s.len - 1) = s.len /\ i + (s.len - 1) <= s.len /\ i + 1 = 2
  BY <1>1 DEF Fits, Slices
<1>3. /\ Fits(m, Slice(s.array, s.from + i, s.len - 1))
      /\ Window(m, Slice(s.array, s.from + i, s.len - 1)) =
            SubSeq(Window(m, s), i + 1, i + (s.len - 1))
  BY <1>2, PartOfWindow
<1>4. Window(m, s) \in Seq(Words) /\ Len(Window(m, s)) = s.len /\ Window(m, s) # <<>>
  BY WindowProperties
<1> QED  BY <1>1, <1>2, <1>3, <1>4, TailIsSubSeq

(***************************************************************************)
(* A slice that ends one earlier shows all but the last element.           *)
(***************************************************************************)
LEMMA WindowWithoutLast ==
    ASSUME NEW m \in [Arrays -> Seq(Words)], NEW s, Fits(m, s), s.len # 0
    PROVE  /\ Fits(m, Slice(s.array, s.from, s.len - 1))
           /\ Window(m, Slice(s.array, s.from, s.len - 1)) =
                 SubSeq(Window(m, s), 1, Len(Window(m, s)) - 1)
<1>1. PICK i \in Nat : i = 0
  OBVIOUS
<1>2. /\ s.len - 1 \in Nat /\ i + (s.len - 1) = s.len - 1 /\ i + (s.len - 1) <= s.len
      /\ s.from + i = s.from /\ i + 1 = 1
  BY <1>1 DEF Fits, Slices
<1>3. /\ Fits(m, Slice(s.array, s.from + i, s.len - 1))
      /\ Window(m, Slice(s.array, s.from + i, s.len - 1)) =
            SubSeq(Window(m, s), i + 1, i + (s.len - 1))
  BY <1>2, PartOfWindow
<1>4. Len(Window(m, s)) = s.len
  BY WindowProperties
<1> QED  BY <1>2, <1>3, <1>4

(* A new array shows what was put in front of its empty slots.             *)
LEMMA EmptySlots ==
    ASSUME NEW room \in Nat
    PROVE  /\ [i \in 1..room |-> Empty] \in Seq(Words)
           /\ Len([i \in 1..room |-> Empty]) = room
BY DEF Words

Filled(m, a, q, rest) == [m EXCEPT ![a] = q \o rest]

(***************************************************************************)
(* A slice of a new array shows what was put there, and other arrays stay. *)
(***************************************************************************)
LEMMA NewArray ==
    ASSUME NEW m \in [Arrays -> Seq(Words)], NEW a \in Arrays, NEW q \in Seq(Elements),
           NEW rest \in Seq(Words)
    PROVE  /\ Filled(m, a, q, rest) \in [Arrays -> Seq(Words)]
           /\ Len(Filled(m, a, q, rest)[a]) = Len(q) + Len(rest)
           /\ Fits(Filled(m, a, q, rest), Slice(a, 0, Len(q)))
           /\ Window(Filled(m, a, q, rest), Slice(a, 0, Len(q))) = q
           /\ \A t : t.array # a => Cells(Filled(m, a, q, rest), t) = Cells(m, t)
<1> DEFINE cells == q \o rest
           room == Len(rest)
           n == Filled(m, a, q, rest)
           s == Slice(a, 0, Len(q))
<1>1. q \in Seq(Words) /\ Len(q) \in Nat
  BY DEF Words
<1>2. Len(rest) = room /\ room \in Nat
  OBVIOUS
<1> HIDE DEF room
<1>3. /\ cells \in Seq(Words) /\ Len(cells) = Len(q) + room
      /\ \A i \in 1 .. Len(q) + room :
            cells[i] = IF i <= Len(q) THEN q[i] ELSE rest[i - Len(q)]
  BY <1>1, <1>2, ConcatProperties
<1>4. n = [m EXCEPT ![a] = cells]
  BY DEF Filled
<1>5. s \in Slices /\ s.array = a /\ s.from = 0 /\ s.len = Len(q)
  BY <1>1 DEF Slice, Slices
<1> HIDE DEF cells, n, s
<1>6. n \in [Arrays -> Seq(Words)] /\ n[a] = cells
  BY <1>3, <1>4
<1>7. ASSUME NEW t, t.array # a PROVE Cells(n, t) = Cells(m, t)
  BY <1>4, <1>7 DEF Cells
<1>8. Cells(n, s) = cells
  BY <1>5, <1>6, ListsAssumption DEF Cells
<1>9. Fits(n, s)
  BY <1>1, <1>2, <1>3, <1>5, <1>8 DEF Fits
<1>10. /\ Window(n, s) \in Seq(Words) /\ Len(Window(n, s)) = s.len
       /\ \A i \in 1 .. s.len : Window(n, s)[i] = Cells(n, s)[s.from + i]
  BY <1>6, <1>9, WindowProperties
<1>11. ASSUME NEW i \in 1 .. Len(Window(n, s)) PROVE Window(n, s)[i] = q[i]
  <2>1. i \in 1 .. Len(q) /\ i \in 1 .. s.len
    BY <1>5, <1>10
  <2>2. s.from + i = i /\ i <= Len(q) /\ i \in 1 .. Len(q) + room
    BY <1>1, <1>2, <1>5, <2>1
  <2> QED  BY <1>3, <1>8, <1>10, <2>1, <2>2
<1>12. Window(n, s) = q
  BY <1>1, <1>5, <1>10, <1>11, SeqEqual
<1> QED  BY <1>2, <1>3, <1>6, <1>7, <1>9, <1>12 DEF n, s

(* An element is appended to a window and the slot behind it.              *)
Longer(s) == [s EXCEPT !.len = @ + 1]

(***************************************************************************)
(* A write to the slot behind a window, taken into the window, appends.    *)
(***************************************************************************)
LEMMA WriteNext ==
    ASSUME NEW m \in [Arrays -> Seq(Words)], NEW s, Fits(m, s), s.array \in Arrays,
           s.from + s.len + 1 <= Len(m[s.array]), NEW e \in Words
    PROVE  /\ Written(m, s.array, s.from + s.len + 1, e) \in [Arrays -> Seq(Words)]
           /\ Fits(Written(m, s.array, s.from + s.len + 1, e), Longer(s))
           /\ Window(Written(m, s.array, s.from + s.len + 1, e), Longer(s)) =
                 Append(Window(m, s), e)
<1> DEFINE old == m[s.array]
           n == Written(m, s.array, s.from + s.len + 1, e)
           t == Longer(s)
<1>1. s \in Slices /\ s.from \in Nat /\ s.len \in Nat /\ Cells(m, s) = old
  BY ListsAssumption DEF Fits, Slices, Cells
<1>2. PICK f \in Nat, k \in Nat : f = s.from /\ k = s.len
  BY <1>1
<1> DEFINE new == [old EXCEPT ![f + k + 1] = e]
<1>3. old \in Seq(Words) /\ f + k + 1 \in 1 .. Len(old) /\ Len(old) \in Nat
  BY <1>2
<1>4. n = [m EXCEPT ![s.array] = new]
  BY <1>2 DEF Written
<1>5. t \in Slices /\ t.array = s.array /\ t.from = s.from /\ t.len = s.len + 1
  BY <1>1 DEF Longer, Slices
<1> HIDE DEF old, n, t
<1>6. /\ new \in Seq(Words) /\ Len(new) = Len(old)
      /\ \A j \in 1 .. Len(old) : new[j] = IF j = f + k + 1 THEN e ELSE old[j]
  BY <1>3, ExceptSeq
<1> HIDE DEF new
<1>7. n \in [Arrays -> Seq(Words)] /\ n[s.array] = new
  BY <1>4, <1>6
<1>8. t \in Slices /\ t.array = s.array /\ t.from = f /\ t.len = k + 1
  BY <1>5, <1>2
<1>9. Cells(n, t) = new
  BY <1>7, <1>8, ListsAssumption DEF Cells
<1>10. Fits(n, t)
  BY <1>3, <1>6, <1>8, <1>9 DEF Fits
<1>11. /\ Window(m, s) \in Seq(Words) /\ Len(Window(m, s)) = k
       /\ \A i \in 1 .. k : Window(m, s)[i] = old[f + i]
  BY <1>1, <1>2, WindowProperties
<1>12. /\ Window(n, t) \in Seq(Words) /\ Len(Window(n, t)) = t.len
       /\ \A i \in 1 .. t.len : Window(n, t)[i] = Cells(n, t)[t.from + i]
  BY <1>7, <1>10, WindowProperties
<1>13. /\ Len(Window(n, t)) = k + 1
       /\ \A i \in 1 .. k + 1 : Window(n, t)[i] = new[f + i]
  BY <1>8, <1>9, <1>12
<1>14. /\ Append(Window(m, s), e) \in Seq(Words)
       /\ Len(Append(Window(m, s), e)) = k + 1
       /\ \A i \in 1 .. k : Append(Window(m, s), e)[i] = Window(m, s)[i]
       /\ Append(Window(m, s), e)[k + 1] = e
  BY <1>11, AppendProperties
<1>15. ASSUME NEW i \in 1 .. k + 1
       PROVE  Window(n, t)[i] = Append(Window(m, s), e)[i]
  <2>1. f + i \in 1 .. Len(old) /\ (f + i = f + k + 1 <=> i = k + 1)
    BY <1>3
  <2>2. new[f + i] = IF i = k + 1 THEN e ELSE old[f + i]
    BY <1>6, <2>1
  <2>3. CASE i = k + 1
    BY <1>13, <1>14, <2>2, <2>3
  <2>4. CASE i # k + 1
    <3>1. i \in 1 .. k
      BY <2>4
    <3> QED  BY <1>11, <1>13, <1>14, <2>2, <2>4, <3>1
  <2> QED  BY <2>3, <2>4
<1>16. Window(n, t) = Append(Window(m, s), e)
  BY <1>12, <1>13, <1>14, <1>15, SeqEqual
<1> QED  BY <1>7, <1>10, <1>16 DEF n, t

(***************************************************************************)
(* To append the head of what is left and to leave the tail changes        *)
(* nothing of the whole.                                                   *)
(***************************************************************************)
LEMMA MoveHead ==
    ASSUME NEW S, NEW q \in Seq(S), NEW vs \in Seq(S), vs # <<>>
    PROVE  Append(q, Head(vs)) \o Tail(vs) = q \o vs
<1>1. /\ Head(vs) \in S /\ Tail(vs) \in Seq(S) /\ Len(Tail(vs)) = Len(vs) - 1
      /\ \A i \in 1 .. Len(Tail(vs)) : Tail(vs)[i] = vs[i + 1]
      /\ Head(vs) = vs[1] /\ Len(vs) \in Nat \ {0} /\ Len(q) \in Nat
  BY HeadTailProperties
<1>2. <<Head(vs)>> \in Seq(S) /\ Len(<<Head(vs)>>) = 1 /\ <<Head(vs)>>[1] = Head(vs)
  BY <1>1
<1>3. <<Head(vs)>> \o Tail(vs) = vs
  <2>1. /\ <<Head(vs)>> \o Tail(vs) \in Seq(S)
        /\ Len(<<Head(vs)>> \o Tail(vs)) = Len(vs)
        /\ \A i \in 1 .. Len(vs) : (<<Head(vs)>> \o Tail(vs))[i] =
              IF i <= 1 THEN <<Head(vs)>>[i] ELSE Tail(vs)[i - 1]
    BY <1>1, <1>2, ConcatProperties
  <2>2. ASSUME NEW i \in 1 .. Len(vs) PROVE (<<Head(vs)>> \o Tail(vs))[i] = vs[i]
    <3>1. CASE i = 1
      BY <1>1, <1>2, <2>1, <3>1
    <3>2. CASE i # 1
      <4>1. i - 1 \in 1 .. Len(Tail(vs)) /\ ~(i <= 1) /\ (i - 1) + 1 = i
        BY <1>1, <3>2
      <4> QED  BY <1>1, <2>1, <4>1
    <3> QED  BY <3>1, <3>2
  <2> QED  BY <2>1, <2>2, SeqEqual
<1>4. Append(q, Head(vs)) = q \o <<Head(vs)>>
  BY <1>1, AppendIsConcat
<1>5. (q \o <<Head(vs)>>) \o Tail(vs) = q \o (<<Head(vs)>> \o Tail(vs))
  BY <1>1, <1>2, ConcatAssociative
<1> QED  BY <1>3, <1>4, <1>5

(* What is still referred to stays when the rest is freed.                 *)
LEMMA CollectedKeeps ==
    ASSUME NEW m \in [Arrays -> Seq(Words)], NEW referred
    PROVE  /\ Collected(m, referred) \in [Arrays -> Seq(Words)]
           /\ \A s \in Slices : s.array \in referred \cup {NoArray}
                  => Cells(Collected(m, referred), s) = Cells(m, s)
<1>1. <<>> \in Seq(Words)
  OBVIOUS
<1> QED  BY <1>1 DEF Collected, Cells, Slices

(***************************************************************************)
(* Fits and Window depend on the cells of the array alone.                 *)
(***************************************************************************)
LEMMA SameCells ==
    ASSUME NEW m, NEW n, NEW s, Cells(n, s) = Cells(m, s)
    PROVE  (Fits(n, s) <=> Fits(m, s)) /\ Window(n, s) = Window(m, s)
BY DEF Fits, Window
-----------------------------------------------------------------------------
(***************************************************************************)
(* The inductive invariant, said with windows: Control is about the lock   *)
(* and the program counters, Shape about the memory and the slices, and    *)
(* Appending about the client that appends.                                *)
(***************************************************************************)
USE ListsAssumption, NoProcAssumption

Control ==
    /\ pc \in [Clients -> Names \cup {"idle", "appending", "writing", "formatting"}]
    /\ values \in [Clients -> Seq(Elements)]
    /\ range \in [Clients -> Seq(Elements)]
    /\ reply \in [Clients -> Seq(Words)]
    /\ calls \in [Clients -> Nat]
    /\ MutexTypeOK

Shape(m, l, sl) ==
    /\ m \in [Arrays -> Seq(Words)]
    /\ sl \in [Clients -> Slices]
    /\ Fits(m, l) /\ \A c \in Clients : Fits(m, sl[c])
    /\ l.array # NoArray => m[l.array] # <<>>
    /\ \A c \in Clients : sl[c].array # NoArray => m[sl[c].array] # <<>>
    /\ Window(m, l) \in Seq(Elements)

Appending(m, l, s, vs) ==
    /\ s.array \in Arrays
    /\ s.from + s.len + Len(vs) <= Len(Cells(m, s))
    /\ s.array = l.array => s.from = l.from /\ l.len <= s.len
    /\ \E p \in Pushes : Window(m, s) \o vs = Window(m, l) \o p

Writers ==
    \A c \in Clients :
        /\ pc[c] \in {"RPUSH", "LPUSH"} => values[c] \in Pushes
        /\ pc[c] \in {"appending", "writing"} => Appending(memory, list, slice[c], values[c])
        /\ pc[c] = "writing" => values[c] # <<>>

WInv == Control /\ LockInv /\ Shape(memory, list, slice) /\ Writers

(***************************************************************************)
(* WInv says of windows what IInv says of Content, Slots and View.         *)
(***************************************************************************)
LEMMA SameInvariant ==
    WInv <=> IInv
<1>1. Referred <=> /\ list.array # NoArray => memory[list.array] # <<>>
                   /\ \A c \in Clients : slice[c].array # NoArray => memory[slice[c].array] # <<>>
  BY DEF Referred
<1>2. WholeContent <=> Window(memory, list) \in Seq(Elements)
  BY DEF WholeContent, Content, View, Slots, Window, Cells
<1>3. TypeOK <=> /\ Control /\ memory \in [Arrays -> Seq(Words)]
                 /\ slice \in [Clients -> Slices]
                 /\ Fits(memory, list) /\ \A c \in Clients : Fits(memory, slice[c])
  BY DEF TypeOK, Control, Words, SliceOK, Slots, Fits, Cells
<1>4. ASSUME NEW c \in Clients
      PROVE  Appends(c) <=> Appending(memory, list, slice[c], values[c])
  <2>1. Slots(slice[c]) = Cells(memory, slice[c])
        /\ View(slice[c]) = Window(memory, slice[c]) /\ View(list) = Window(memory, list)
    BY DEF View, Slots, Window, Cells
  <2> QED  BY <2>1 DEF Appends, Appending, HasRoom, Content
<1>5. Writers <=> AppendInv
  BY <1>4 DEF Writers, AppendInv
<1> QED  BY <1>1, <1>2, <1>3, <1>5 DEF WInv, IInv, Shape

(***************************************************************************)
(* Initially there is no list, no slice and no array in use.               *)
(***************************************************************************)
LEMMA InitWInv ==
    Init => WInv
<1> SUFFICES ASSUME Init PROVE WInv
  OBVIOUS
<1>1. <<>> \in Seq(Elements) /\ <<>> \in Seq(Words)
  OBVIOUS
<1>2. Fits(memory, NoList) /\ Window(memory, NoList) = <<>> /\ NoList.array = NoArray
      /\ NoList \in Slices
  <2>1. /\ NoList.array = NoArray /\ NoList.from = 0 /\ NoList.len = 0
        /\ NoList \in Slices /\ Cells(memory, NoList) = <<>>
    BY DEF NoList, Slice, Slices, Cells
  <2>2. SubSeq(<<>>, 1, 0) = <<>> /\ Len(<<>>) = 0
    BY SubSeqEmpty
  <2> QED  BY <2>1, <2>2 DEF Fits, Window
<1>3. Shape(memory, list, slice)
  BY <1>1, <1>2 DEF Init, Shape
<1>4. Control /\ LockInv /\ Writers
  BY <1>1 DEF Init, MutexInit, MutexTypeOK, Control, LockInv, Writers, WriteSteps, Reads
<1> QED  BY <1>3, <1>4 DEF WInv

(* Nobody appends but the writer, and nobody reads while it does.          *)
LEMMA OneWriter ==
    ASSUME LockInv, NEW c \in Clients, pc[c] \in WriteSteps
    PROVE  \A d \in Clients \ {c} : pc[d] \notin WriteSteps
BY DEF LockInv

(***************************************************************************)
(* The lock and the program counters agree.                                *)
(***************************************************************************)
LEMMA NextLockInv ==
    ASSUME Control, LockInv, [Next]_vars
    PROVE  LockInv'
<1> USE DEF Control, MutexTypeOK, LockInv, WriteSteps, Reads, Goto, dataVars
<1>1. ASSUME NEW c \in Clients, CallWrite(c) PROVE LockInv'
  <2>1. PICK name \in Commands \ Reads : pc' = [pc EXCEPT ![c] = name]
    BY <1>1 DEF CallWrite
  <2>2. name \in {"RPUSH", "LPUSH", "LPOP", "RPOP", "DEL"}
    BY DEF Names
  <2> QED  BY <1>1, <2>1, <2>2 DEF CallWrite, Announce
<1>2. ASSUME NEW c \in Clients, CallRead(c) PROVE LockInv'
  <2>1. PICK name \in Reads : pc' = [pc EXCEPT ![c] = name]
    BY <1>2 DEF CallRead
  <2> QED  BY <1>2, <2>1 DEF CallRead, RLock
<1>3. ASSUME NEW c \in Clients, Rpush(c) PROVE LockInv'
  BY <1>3 DEF Rpush, WriteReady, mutexVars
<1>4. ASSUME NEW c \in Clients, StartElement(c) \/ FinishElement(c) PROVE LockInv'
  BY <1>4 DEF StartElement, FinishElement, mutexVars
<1>5. ASSUME NEW c \in Clients, NEW s, NEW m, pc[c] \in WriteSteps, Install(c, s, m)
      PROVE  LockInv'
  BY <1>5 DEF Install, Unlock
<1>6. ASSUME NEW c \in Clients,
             RpushEnd(c) \/ Lpush(c) \/ Lpop(c) \/ Rpop(c) \/ Del(c)
      PROVE  LockInv'
  <2>1. pc[c] \in WriteSteps
    BY <1>6 DEF RpushEnd, Lpush, Lpop, Rpop, Del
  <2>2. \E s, m : Install(c, s, m)
    BY <1>6 DEF RpushEnd, Lpush, Lpop, Rpop, Del
  <2> QED  BY <1>5, <2>1, <2>2
<1>7. ASSUME NEW c \in Clients, Lrange(c) \/ Llen(c) PROVE LockInv'
  BY <1>7 DEF Lrange, Llen, RUnlock
<1>8. ASSUME NEW c \in Clients, Format(c) PROVE LockInv'
  BY <1>8 DEF Format, mutexVars
<1>9. ASSUME NEW c \in Clients, Respond(c) PROVE LockInv'
  BY <1>9 DEF Respond, mutexVars
<1>10. CASE UNCHANGED vars
  BY <1>10 DEF vars, clientVars, mutexVars
<1> QED  BY <1>1, <1>2, <1>3, <1>4, <1>6, <1>7, <1>8, <1>9, <1>10 DEF Next

(***************************************************************************)
(* What every step does to the memory, the slices and the list.  First the *)
(* steps that write nothing.                                               *)
(***************************************************************************)
LEMMA QuietSteps ==
    ASSUME WInv, NEW c \in Clients, CallWrite(c) \/ CallRead(c) \/ Llen(c) \/ Format(c)
    PROVE  /\ Shape(memory', list', slice') /\ Writers'
           /\ Window(memory', list') = Window(memory, list)
<1> USE DEF WInv, Control
<1>1. UNCHANGED <<memory, list, slice>>
  BY DEF CallWrite, CallRead, Llen, Format, dataVars
<1>2. ASSUME NEW d \in Clients
      PROVE  /\ pc'[d] \in {"RPUSH", "LPUSH"} => values'[d] \in Pushes
             /\ pc'[d] \in {"appending", "writing"} =>
                   pc'[d] = pc[d] /\ values'[d] = values[d]
  <2>1. CASE CallWrite(c)
    <3>1. PICK name \in Commands \ Reads :
             /\ pc' = [pc EXCEPT ![c] = name]
             /\ IF name \in {"RPUSH", "LPUSH"}
                THEN \E vs \in Pushes : values' = [values EXCEPT ![c] = vs]
                ELSE UNCHANGED values
      BY <2>1 DEF CallWrite, Goto
    <3>2. name \in Names
      OBVIOUS
    <3> QED  BY <3>1, <3>2 DEF Names, Reads, Writers
  <2>2. CASE CallRead(c) \/ Llen(c) \/ Format(c)
    BY <2>2 DEF CallRead, Llen, Format, Goto, Reads, Writers
  <2> QED  BY <2>1, <2>2
<1>3. Writers'
  <2> SUFFICES ASSUME NEW d \in Clients
               PROVE  /\ pc'[d] \in {"RPUSH", "LPUSH"} => values'[d] \in Pushes
                      /\ pc'[d] \in {"appending", "writing"} =>
                            Appending(memory', list', slice'[d], values'[d])
                      /\ pc'[d] = "writing" => values'[d] # <<>>
    BY DEF Writers, Appending
  <2> QED  BY <1>1, <1>2 DEF Writers
<1> QED  BY <1>1, <1>3

(* The end of a write command keeps the slices of the clients that read.   *)
LEMMA InstallStep ==
    ASSUME WInv, NEW c \in Clients, pc[c] \in WriteSteps,
           NEW s, NEW m \in [Arrays -> Seq(Words)], Install(c, s, m),
           Fits(m, s), s.array # NoArray => m[s.array] # <<>>, Window(m, s) \in Seq(Elements),
           \A d \in Clients \ {c} : Cells(m, slice[d]) = Cells(memory, slice[d]),
           \A d \in Clients \ {c} : values'[d] = values[d]
    PROVE  /\ Shape(memory', list', slice') /\ Writers'
           /\ Window(memory', list') = Window(m, s)
<1> USE DEF WInv, Control
<1>1. /\ memory' = Collected(m, Held(c) \cup {s.array}) /\ list' = s
      /\ slice' = [slice EXCEPT ![c] = NoList] /\ pc' = [pc EXCEPT ![c] = "idle"]
  BY DEF Install, Goto
<1>2. /\ memory' \in [Arrays -> Seq(Words)]
      /\ \A t \in Slices : t.array \in Held(c) \cup {s.array} \cup {NoArray}
                          => Cells(memory', t) = Cells(m, t)
  <2>1. PICK referred : referred = Held(c) \cup {s.array}
    OBVIOUS
  <2>2. /\ Collected(m, referred) \in [Arrays -> Seq(Words)]
        /\ \A t \in Slices : t.array \in referred \cup {NoArray}
               => Cells(Collected(m, referred), t) = Cells(m, t)
    BY CollectedKeeps
  <2>3. memory' = Collected(m, referred)
    BY <1>1, <2>1
  <2> QED  BY <2>1, <2>2, <2>3
<1>3. s \in Slices /\ slice \in [Clients -> Slices]
  BY DEF Fits, Shape
<1>4. Cells(memory', s) = Cells(m, s)
  BY <1>2, <1>3
<1>5. Fits(memory', s) /\ Window(memory', s) = Window(m, s)
  BY <1>4, SameCells
<1>6. s.array # NoArray => memory'[s.array] # <<>>
  BY <1>4 DEF Cells
<1>7. NoList \in Slices /\ NoList.array = NoArray /\ Fits(memory', NoList)
  BY DEF NoList, Slice, Slices, Fits, Cells
<1>8. ASSUME NEW d \in Clients
      PROVE  /\ Fits(memory', slice'[d])
             /\ slice'[d].array # NoArray => memory'[slice'[d].array] # <<>>
  <2>1. CASE d = c
    BY <1>1, <1>3, <1>7, <2>1
  <2>2. CASE d # c
    <3>1. slice'[d] = slice[d] /\ slice[d].array \in Held(c)
      BY <1>1, <1>3, <2>2 DEF Held
    <3>2. Cells(memory', slice[d]) = Cells(memory, slice[d])
      BY <1>2, <1>3, <2>2, <3>1
    <3>3. Fits(memory, slice[d]) /\ (slice[d].array # NoArray => memory[slice[d].array] # <<>>)
      BY DEF Shape
    <3>4. Fits(memory', slice[d])
      BY <3>2, <3>3, SameCells
    <3> QED  BY <3>1, <3>2, <3>3, <3>4 DEF Cells
  <2> QED  BY <2>1, <2>2
<1>9. slice' \in [Clients -> Slices]
  BY <1>1, <1>3, <1>7
<1>10. Shape(memory', list', slice')
  BY <1>1, <1>2, <1>5, <1>6, <1>8, <1>9 DEF Shape
<1>11. \A d \in Clients : pc'[d] \notin WriteSteps
  BY <1>1, OneWriter DEF WriteSteps
<1>12. Writers'
  BY <1>11 DEF Writers, WriteSteps
<1> QED  BY <1>1, <1>5, <1>10, <1>12

(* The four ways a command ends, and what each does to the list.           *)
LEMMA RpushEndStep ==
    ASSUME WInv, NEW c \in Clients, RpushEnd(c)
    PROVE  /\ Shape(memory', list', slice') /\ Writers'
           /\ \E p \in Pushes : Window(memory', list') = Window(memory, list) \o p
<1>1. pc[c] = "appending" /\ values[c] = <<>> /\ values' = values
      /\ Install(c, slice[c], memory) /\ pc[c] \in WriteSteps
  BY DEF RpushEnd, WriteSteps
<1>2. Appending(memory, list, slice[c], values[c]) /\ Shape(memory, list, slice)
  BY <1>1 DEF WInv, Writers
<1>3. PICK p \in Pushes : Window(memory, slice[c]) \o <<>> = Window(memory, list) \o p
  BY <1>1, <1>2 DEF Appending
<1>4. Fits(memory, slice[c]) /\ memory \in [Arrays -> Seq(Words)]
      /\ Window(memory, list) \in Seq(Elements)
      /\ (slice[c].array # NoArray => memory[slice[c].array] # <<>>)
  BY <1>2 DEF Shape
<1>5. Window(memory, slice[c]) = Window(memory, list) \o p
  BY <1>3, <1>4, WindowProperties, ConcatEmptySeq
<1>6. Window(memory, slice[c]) \in Seq(Elements)
  BY <1>4, <1>5, ConcatProperties
<1> QED  BY <1>1, <1>4, <1>5, <1>6, InstallStep

(***************************************************************************)
(* LPUSH puts its values, the last first, before the list.                 *)
(***************************************************************************)
LEMMA LpushStep ==
    ASSUME WInv, NEW c \in Clients, Lpush(c)
    PROVE  /\ Shape(memory', list', slice') /\ Writers'
           /\ \E p \in Pushes : Window(memory', list') = p \o Window(memory, list)
<1>1. Content = Window(memory, list)
  BY DEF Content, View, Slots, Window, Cells
<1>2. pc[c] = "LPUSH" /\ values' = [values EXCEPT ![c] = <<>>] /\ pc[c] \in WriteSteps
  BY DEF Lpush, WriteSteps
<1>3. values[c] \in Pushes /\ Shape(memory, list, slice) /\ values \in [Clients -> Seq(Elements)]
  BY <1>2 DEF WInv, Writers, Control
<1>4. values[c] \in Seq(Elements) /\ values[c] # <<>> /\ Content \in Seq(Elements)
  BY <1>1, <1>3 DEF Shape
<1>5. PICK q \in Seq(Elements) : q = values[c] \o Content /\ Len(q) \in Nat \ {0}
  <2>1. /\ values[c] \o Content \in Seq(Elements)
        /\ Len(values[c] \o Content) = Len(values[c]) + Len(Content)
    BY <1>4, ConcatProperties
  <2>2. Len(values[c]) \in Nat \ {0} /\ Len(Content) \in Nat
    BY <1>4
  <2>3. Len(values[c] \o Content) \in Nat \ {0}
    BY <2>1, <2>2
  <2> QED  BY <2>1, <2>3, Zenon
<1>6. PICK a \in Free, room \in 0..(MaxCapacity - Len(q)) :
         Install(c, Slice(a, 0, Len(q)), [memory EXCEPT ![a] = q \o [i \in 1..room |-> Empty]])
  BY <1>5 DEF Lpush
<1>7. PICK rest \in Seq(Words) :
         rest = [i \in 1..room |-> Empty] /\ Len(rest) \in Nat
  <2>1. room \in Nat
    OBVIOUS
  <2> QED  BY <2>1, EmptySlots
<1>8. a \in Arrays /\ memory[a] = <<>> /\ memory \in [Arrays -> Seq(Words)]
  BY <1>3 DEF Free, Shape
<1> DEFINE m == Filled(memory, a, q, rest)
           s == Slice(a, 0, Len(q))
<1>9. /\ m \in [Arrays -> Seq(Words)]
      /\ Len(m[a]) = Len(q) + Len(rest)
      /\ Fits(m, s) /\ Window(m, s) = q
      /\ \A t : t.array # a => Cells(m, t) = Cells(memory, t)
  <2>1. /\ memory \in [Arrays -> Seq(Words)] /\ a \in Arrays
        /\ q \in Seq(Elements) /\ rest \in Seq(Words)
    BY <1>8
  <2>2. m \in [Arrays -> Seq(Words)]
    BY ONLY <2>1, NewArray
  <2>3. Len(m[a]) = Len(q) + Len(rest)
    BY ONLY <2>1, NewArray
  <2>4. Fits(m, s) /\ Window(m, s) = q
    BY ONLY <2>1, NewArray
  <2>5. \A t : t.array # a => Cells(m, t) = Cells(memory, t)
    BY ONLY <2>1, NewArray
  <2> QED  BY <2>2, <2>3, <2>4, <2>5
<1>10. s.array = a
  BY DEF Slice
<1>11. Install(c, s, m)
  BY <1>6, <1>7 DEF Filled
<1> HIDE DEF m, s
<1>12. m[a] # <<>>
  BY <1>5, <1>7, <1>9
<1>13. \A d \in Clients : slice[d].array # a
  BY <1>3, <1>8 DEF Shape
<1>14. \A d \in Clients \ {c} : /\ Cells(m, slice[d]) = Cells(memory, slice[d])
                                /\ values'[d] = values[d]
  BY <1>2, <1>3, <1>9, <1>13
<1>15. /\ Shape(memory', list', slice') /\ Writers'
       /\ Window(memory', list') = Window(m, s)
  BY <1>2, <1>9, <1>10, <1>11, <1>12, <1>14, InstallStep
<1> QED  BY <1>1, <1>3, <1>5, <1>9, <1>15

(***************************************************************************)
(* LPOP takes the first, RPOP the last element; DEL takes all in one step. *)
(***************************************************************************)
LEMMA PopsAndDelStep ==
    ASSUME WInv, NEW c \in Clients, Lpop(c) \/ Rpop(c) \/ Del(c)
    PROVE  /\ Shape(memory', list', slice') /\ Writers'
           /\ \/ Window(memory', list') = Window(memory, list)
              \/ /\ Window(memory, list) # <<>>
                 /\ Window(memory', list') = Tail(Window(memory, list))
              \/ /\ Window(memory, list) # <<>>
                 /\ Window(memory', list') =
                       SubSeq(Window(memory, list), 1, Len(Window(memory, list)) - 1)
              \/ Window(memory', list') = <<>>
<1>1. /\ memory \in [Arrays -> Seq(Words)] /\ Fits(memory, list)
      /\ (list.array # NoArray => memory[list.array] # <<>>)
      /\ Window(memory, list) \in Seq(Elements)
  BY DEF WInv, Shape
<1>2. values' = values /\ pc[c] \in WriteSteps
  BY DEF Lpop, Rpop, Del, WriteSteps
<1>3. ASSUME NEW s, Install(c, s, memory), Fits(memory, s), s.array \in {list.array, NoArray},
             Window(memory, s) \in Seq(Elements)
      PROVE  /\ Shape(memory', list', slice') /\ Writers'
             /\ Window(memory', list') = Window(memory, s)
  BY <1>1, <1>2, <1>3, InstallStep
<1>4. CASE Del(c)
  <2>1. /\ NoList.array = NoArray /\ NoList.from = 0 /\ NoList.len = 0
        /\ NoList \in Slices /\ Cells(memory, NoList) = <<>>
    BY DEF NoList, Slice, Slices, Cells
  <2>2. Fits(memory, NoList) /\ Window(memory, NoList) = <<>>
    BY <2>1, SubSeqEmpty DEF Fits, Window
  <2>3. Window(memory, NoList) \in Seq(Elements)
    BY <2>2
  <2>4. Install(c, NoList, memory)
    BY <1>4 DEF Del
  <2> QED  BY <1>3, <2>1, <2>2, <2>3, <2>4
<1>5. CASE list.len = 0 /\ (Lpop(c) \/ Rpop(c))
  <2>1. Install(c, list, memory)
    BY <1>5 DEF Lpop, Rpop
  <2> QED  BY <1>1, <1>3, <2>1
<1>6. CASE list.len # 0 /\ Lpop(c)
  <2>1. PICK s : s = Slice(list.array, list.from + 1, list.len - 1)
    OBVIOUS
  <2>2. Install(c, s, memory) /\ s.array = list.array
    BY <1>6, <2>1 DEF Lpop, Slice
  <2>3. Fits(memory, s) /\ Window(memory, s) = Tail(Window(memory, list))
    BY <1>1, <1>6, <2>1, WindowWithoutFirst
  <2>4. Window(memory, list) # <<>>
    BY <1>1, <1>6, WindowProperties
  <2>5. Window(memory, s) \in Seq(Elements)
    BY <1>1, <2>3, <2>4, HeadTailProperties
  <2> QED  BY <1>3, <2>2, <2>3, <2>4, <2>5
<1>7. CASE list.len # 0 /\ Rpop(c)
  <2>1. PICK s : s = Slice(list.array, list.from, list.len - 1)
    OBVIOUS
  <2>2. Install(c, s, memory) /\ s.array = list.array
    BY <1>7, <2>1 DEF Rpop, Slice
  <2>3. /\ Fits(memory, s)
        /\ Window(memory, s) =
              SubSeq(Window(memory, list), 1, Len(Window(memory, list)) - 1)
    BY <1>1, <1>7, <2>1, WindowWithoutLast
  <2>4. Window(memory, list) # <<>>
    BY <1>1, <1>7, WindowProperties
  <2>5. Window(memory, s) \in Seq(Elements)
    BY <1>1, <2>3, SubSeqProperties
  <2> QED  BY <1>3, <2>2, <2>3, <2>4, <2>5
<1> QED  BY <1>4, <1>5, <1>6, <1>7

(***************************************************************************)
(* The steps of an append leave the list as it is.                         *)
(***************************************************************************)
LEMMA AppenderAlone ==
    ASSUME WInv, NEW c \in Clients, pc[c] \in WriteSteps,
           NEW label \in {"appending", "writing"}, pc' = [pc EXCEPT ![c] = label],
           \A d \in Clients \ {c} : values'[d] = values[d],
           Appending(memory', list', slice'[c], values'[c]),
           label = "writing" => values'[c] # <<>>
    PROVE  Writers'
<1> SUFFICES ASSUME NEW d \in Clients
             PROVE  /\ pc'[d] \in {"RPUSH", "LPUSH"} => values'[d] \in Pushes
                    /\ pc'[d] \in {"appending", "writing"} =>
                          Appending(memory', list', slice'[d], values'[d])
                    /\ pc'[d] = "writing" => values'[d] # <<>>
  BY DEF Writers, Appending
<1>1. CASE d = c
  BY <1>1 DEF WInv, Control
<1>2. CASE d # c
  <2>1. pc[d] \notin WriteSteps
    BY <1>2, OneWriter DEF WInv
  <2> QED  BY <1>2, <2>1 DEF WInv, Control, WriteSteps
<1> QED  BY <1>1, <1>2

(***************************************************************************)
(* RPUSH chooses an array; until it is stored the list is what it was.     *)
(***************************************************************************)
LEMMA RpushStep ==
    ASSUME WInv, NEW c \in Clients, Rpush(c)
    PROVE  /\ Shape(memory', list', slice') /\ Writers'
           /\ Window(memory', list') = Window(memory, list)
<1>1. /\ pc[c] = "RPUSH" /\ pc[c] \in WriteSteps /\ pc' = [pc EXCEPT ![c] = "appending"]
      /\ values' = values /\ list' = list
  BY DEF Rpush, Goto, WriteSteps
<1>2. values[c] \in Pushes /\ Shape(memory, list, slice)
  BY <1>1 DEF WInv, Writers
<1>3. values[c] \in Seq(Elements) /\ Len(values[c]) \in Nat \ {0}
  BY <1>2
<1>4. /\ memory \in [Arrays -> Seq(Words)] /\ slice \in [Clients -> Slices]
      /\ Fits(memory, list) /\ list \in Slices
      /\ list.array \in Arrays \cup {NoArray} /\ list.from \in Nat /\ list.len \in Nat
      /\ (list.array # NoArray => memory[list.array] # <<>>)
      /\ Window(memory, list) \in Seq(Elements)
  BY <1>2 DEF Shape, Fits, Slices
<1>5. CASE HasRoom(list, Len(values[c]))
  <2>1. slice' = [slice EXCEPT ![c] = list] /\ memory' = memory
    BY <1>5 DEF Rpush
  <2>2. Shape(memory', list', slice')
    BY <1>1, <1>2, <1>4, <2>1 DEF Shape
  <2>3. list.from + list.len + Len(values[c]) <= Len(Cells(memory, list))
    BY <1>5 DEF HasRoom, Slots, Cells
  <2>4. list.array \in Arrays
    BY <1>3, <1>4, <2>3 DEF Cells
  <2>5. Appending(memory', list', slice'[c], values'[c])
    <3>1. slice'[c] = list /\ values'[c] = values[c]
      BY <1>1, <1>4, <2>1
    <3>2. \E p \in Pushes : Window(memory, list) \o values[c] = Window(memory, list) \o p
      BY <1>2, Zenon
    <3>3. list.len <= list.len
      BY <1>4
    <3>4. Appending(memory, list, list, values[c])
      BY <2>3, <2>4, <3>2, <3>3, Zenon DEF Appending
    <3> QED  BY <1>1, <2>1, <3>1, <3>4
  <2> QED  BY <1>1, <2>1, <2>2, <2>5, AppenderAlone
<1>6. CASE ~HasRoom(list, Len(values[c]))
  <2>1. PICK a \in Free, room \in Len(values[c])..(MaxCapacity - list.len) :
           /\ memory' = [memory EXCEPT ![a] = Content \o [i \in 1..room |-> Empty]]
           /\ slice' = [slice EXCEPT ![c] = Slice(a, 0, list.len)]
    BY <1>6 DEF Rpush
  <2>2. PICK q \in Seq(Elements) : q = Content /\ q = Window(memory, list)
    BY <1>4 DEF Content, View, Slots, Window, Cells
  <2>3. Len(q) = list.len
    BY <1>4, <2>2, WindowProperties
  <2>4. room \in Nat /\ Len(values[c]) <= room
    BY <1>3, <2>1
  <2>5. PICK rest \in Seq(Words) : rest = [i \in 1..room |-> Empty] /\ Len(rest) = room
    BY <2>4, EmptySlots
  <2>6. a \in Arrays /\ memory[a] = <<>>
    BY DEF Free
  <2> DEFINE m == Filled(memory, a, q, rest)
             s == Slice(a, 0, Len(q))
  <2>7. /\ m \in [Arrays -> Seq(Words)]
        /\ Len(m[a]) = Len(q) + Len(rest)
        /\ Fits(m, s) /\ Window(m, s) = q
        /\ \A t : t.array # a => Cells(m, t) = Cells(memory, t)
    <3>1. memory \in [Arrays -> Seq(Words)]
      BY <1>4
    <3> QED  BY <2>6, <3>1, NewArray
  <2>8. /\ s.array = a /\ s.from = 0 /\ s.len = list.len
    BY <2>3 DEF Slice
  <2>9. memory' = m /\ slice' = [slice EXCEPT ![c] = s]
    BY <2>1, <2>2, <2>3, <2>5 DEF Filled
  <2> HIDE DEF m, s
  <2>10. Len(m[a]) = list.len + room /\ m[a] # <<>>
    BY <1>3, <1>4, <2>3, <2>4, <2>5, <2>7
  <2>11. list.array # a /\ \A d \in Clients : slice[d].array # a
    BY <1>2, <2>6, ListsAssumption DEF Shape
  <2>12. ASSUME NEW t, t.array # a PROVE Window(m, t) = Window(memory, t)
                                          /\ (Fits(m, t) <=> Fits(memory, t))
    BY <2>7, <2>12, SameCells
  <2>13. Fits(m, list) /\ Window(m, list) = Window(memory, list)
         /\ (list.array # NoArray => m[list.array] # <<>>)
    <3>1. Cells(m, list) = Cells(memory, list)
      BY <2>7, <2>11
    <3> QED  BY <1>4, <2>11, <2>12, <3>1 DEF Cells
  <2>14. ASSUME NEW d \in Clients
         PROVE  /\ Fits(m, slice'[d])
                /\ slice'[d].array # NoArray => m[slice'[d].array] # <<>>
    <3>1. CASE d = c
      <4>1. slice'[d] = s
        BY <1>4, <2>9, <3>1
      <4> QED  BY <2>7, <2>8, <2>10, <4>1
    <3>2. CASE d # c
      <4>1. slice'[d] = slice[d]
        BY <1>4, <2>9, <3>2
      <4>2. Cells(m, slice[d]) = Cells(memory, slice[d])
        BY <2>7, <2>11
      <4>3. Fits(m, slice[d])
        BY <1>2, <4>2, SameCells DEF Shape
      <4>4. slice[d].array # NoArray => memory[slice[d].array] # <<>>
        BY <1>2 DEF Shape
      <4> QED  BY <4>1, <4>2, <4>3, <4>4 DEF Cells
    <3> QED  BY <3>1, <3>2
  <2>15. slice' \in [Clients -> Slices]
    BY <1>4, <2>7, <2>9 DEF Fits
  <2>16. Shape(memory', list', slice')
    BY <1>1, <1>4, <2>7, <2>9, <2>13, <2>14, <2>15 DEF Shape
  <2>17. Appending(memory', list', slice'[c], values'[c])
    <3>1. slice'[c] = s /\ values'[c] = values[c]
      BY <1>1, <1>4, <2>9
    <3>2. Cells(m, s) = m[a]
      BY <2>6, <2>8, ListsAssumption DEF Cells
    <3>3. s.from + s.len + Len(values[c]) <= Len(Cells(m, s))
      BY <1>3, <1>4, <2>4, <2>8, <2>10, <3>2
    <3>4. Window(m, s) \o values[c] = Window(m, list) \o values[c]
      BY <2>2, <2>7, <2>13
    <3> QED  BY <1>1, <1>2, <2>6, <2>8, <2>9, <2>11, <3>1, <3>3, <3>4 DEF Appending
  <2> QED  BY <1>1, <2>9, <2>13, <2>16, <2>17, AppenderAlone
<1> QED  BY <1>5, <1>6

(* A slot behind the list and the slice is written, with half a string.    *)
LEMMA SlotWritten ==
    ASSUME Shape(memory, list, slice), NEW c \in Clients,
           Appending(memory, list, slice[c], values[c]), values[c] # <<>>,
           values[c] \in Seq(Elements), NEW e \in Words,
           NEW m, m = Written(memory, slice[c].array, Behind(slice[c]), e)
    PROVE  /\ m \in [Arrays -> Seq(Words)]
           /\ \A a \in Arrays : Len(m[a]) = Len(memory[a])
           /\ Fits(m, list) /\ Window(m, list) = Window(memory, list)
           /\ \A d \in Clients : Fits(m, slice[d])
           /\ Window(m, slice[c]) = Window(memory, slice[c])
           /\ (list.array # NoArray => m[list.array] # <<>>)
           /\ \A d \in Clients : slice[d].array # NoArray => m[slice[d].array] # <<>>
<1> DEFINE a == slice[c].array
           i == slice[c].from + slice[c].len + 1
<1>1. /\ memory \in [Arrays -> Seq(Words)] /\ slice \in [Clients -> Slices]
      /\ Fits(memory, list) /\ Fits(memory, slice[c])
  BY DEF Shape
<1>2. /\ a \in Arrays /\ slice[c].from \in Nat /\ slice[c].len \in Nat
      /\ slice[c].from + slice[c].len + Len(values[c]) <= Len(memory[a])
      /\ a = list.array => slice[c].from = list.from /\ list.len <= slice[c].len
  BY <1>1, ListsAssumption DEF Appending, Slices, Cells
<1>3. list.from \in Nat /\ list.len \in Nat
  BY <1>1 DEF Fits, Slices
<1>4. Len(values[c]) \in Nat \ {0} /\ Len(memory[a]) \in Nat
  BY <1>1, <1>2
<1>5. i \in 1 .. Len(memory[a]) /\ i > slice[c].from + slice[c].len
      /\ (list.array = a => i > list.from + list.len)
  <2>1. PICK f \in Nat, k \in Nat, n \in Nat \ {0}, l \in Nat :
           f = slice[c].from /\ k = slice[c].len /\ n = Len(values[c]) /\ l = Len(memory[a])
    BY <1>2, <1>4
  <2>2. i = f + k + 1 /\ f + k + n <= l
    BY <1>2, <2>1
  <2>3. f + k + 1 \in 1 .. l /\ f + k + 1 > f + k
    BY <2>2
  <2>4. ASSUME list.array = a PROVE f + k + 1 > list.from + list.len
    <3>1. list.from = f /\ list.len <= k
      BY <1>2, <2>1, <2>4
    <3> QED  BY <1>3, <3>1
  <2> QED  BY <2>1, <2>2, <2>3, <2>4
<1>6. m = Written(memory, a, i, e)
  BY DEF Behind
<1> HIDE DEF a, i
<1>7. /\ m \in [Arrays -> Seq(Words)] /\ Len(m[a]) = Len(memory[a])
      /\ Fits(m, list) /\ Window(m, list) = Window(memory, list)
  BY <1>1, <1>2, <1>5, <1>6, WriteBehind
<1>8. Window(m, slice[c]) = Window(memory, slice[c])
  BY <1>1, <1>2, <1>5, <1>6, WriteBehind
<1>9. \A b \in Arrays : Len(m[b]) = Len(memory[b])
  <2>1. \A b \in Arrays \ {a} : m[b] = memory[b]
    BY <1>1, <1>6 DEF Written
  <2> QED  BY <1>7, <2>1
<1>10. ASSUME NEW s \in Slices, Fits(memory, s), s.array # NoArray => memory[s.array] # <<>>
       PROVE  Fits(m, s) /\ (s.array # NoArray => m[s.array] # <<>>)
  <2>1. CASE s.array = NoArray
    BY <1>10, <2>1 DEF Fits, Cells
  <2>2. CASE s.array # NoArray
    <3>1. s.array \in Arrays /\ Len(m[s.array]) = Len(memory[s.array])
      BY <1>9, <2>2 DEF Slices
    <3>2. memory[s.array] \in Seq(Words) /\ m[s.array] \in Seq(Words)
      BY <1>1, <1>7, <3>1
    <3> QED  BY <1>10, <2>2, <3>1, <3>2 DEF Fits, Cells
  <2> QED  BY <2>1, <2>2
<1>11. \A d \in Clients : /\ slice[d] \in Slices /\ Fits(memory, slice[d])
                          /\ slice[d].array # NoArray => memory[slice[d].array] # <<>>
  BY DEF Shape
<1>12. list \in Slices /\ (list.array # NoArray => memory[list.array] # <<>>)
  BY DEF Shape, Fits
<1> QED  BY <1>1, <1>7, <1>8, <1>9, <1>10, <1>11, <1>12

(***************************************************************************)
(* The first half of a write in place is behind the list.                  *)
(***************************************************************************)
LEMMA StartElementStep ==
    ASSUME WInv, NEW c \in Clients, StartElement(c)
    PROVE  /\ Shape(memory', list', slice') /\ Writers'
           /\ Window(memory', list') = Window(memory, list)
<1>1. /\ pc[c] = "appending" /\ pc[c] \in WriteSteps /\ pc' = [pc EXCEPT ![c] = "writing"]
      /\ values[c] # <<>> /\ values' = values /\ list' = list /\ slice' = slice
      /\ memory' = Written(memory, slice[c].array, Behind(slice[c]), Torn)
  BY DEF StartElement, Goto, WriteSteps, Written
<1>2. /\ Shape(memory, list, slice) /\ Appending(memory, list, slice[c], values[c])
      /\ values[c] \in Seq(Elements) /\ Torn \in Words
  BY <1>1 DEF WInv, Writers, Control, Words
<1>3. /\ memory' \in [Arrays -> Seq(Words)]
      /\ \A a \in Arrays : Len(memory'[a]) = Len(memory[a])
      /\ Fits(memory', list) /\ Window(memory', list) = Window(memory, list)
      /\ \A d \in Clients : Fits(memory', slice[d])
      /\ Window(memory', slice[c]) = Window(memory, slice[c])
      /\ (list.array # NoArray => memory'[list.array] # <<>>)
      /\ \A d \in Clients : slice[d].array # NoArray => memory'[slice[d].array] # <<>>
  BY <1>1, <1>2, SlotWritten
<1>4. Shape(memory', list', slice')
  BY <1>1, <1>2, <1>3 DEF Shape
<1>5. Appending(memory', list', slice'[c], values'[c])
  <2>1. Len(Cells(memory', slice[c])) = Len(Cells(memory, slice[c]))
    BY <1>2, <1>3 DEF Cells, Appending
  <2> QED  BY <1>1, <1>2, <1>3, <2>1 DEF Appending
<1> QED  BY <1>1, <1>3, <1>4, <1>5, AppenderAlone

(***************************************************************************)
(* The second half brings the client's own slice, which is not the list    *)
(* yet, one further.                                                       *)
(***************************************************************************)
LEMMA FinishElementStep ==
    ASSUME WInv, NEW c \in Clients, FinishElement(c)
    PROVE  /\ Shape(memory', list', slice') /\ Writers'
           /\ Window(memory', list') = Window(memory, list)
<1> DEFINE e == Head(values[c])
           s == Longer(slice[c])
<1>1. /\ pc[c] = "writing" /\ pc[c] \in WriteSteps /\ pc' = [pc EXCEPT ![c] = "appending"]
      /\ values' = [values EXCEPT ![c] = Tail(@)] /\ list' = list
      /\ slice' = [slice EXCEPT ![c].len = @ + 1]
      /\ memory' = Written(memory, slice[c].array, Behind(slice[c]), e)
  BY DEF FinishElement, Goto, WriteSteps, Written
<1>2. /\ Shape(memory, list, slice) /\ Appending(memory, list, slice[c], values[c])
      /\ values \in [Clients -> Seq(Elements)] /\ values[c] # <<>>
  BY <1>1 DEF WInv, Writers, Control
<1>3. /\ values[c] \in Seq(Elements) /\ e \in Elements /\ e \in Words
      /\ Tail(values[c]) \in Seq(Elements) /\ Len(Tail(values[c])) = Len(values[c]) - 1
      /\ Len(values[c]) \in Nat \ {0}
  BY <1>2, HeadTailProperties DEF Words
<1> HIDE DEF e
<1>4. /\ memory' \in [Arrays -> Seq(Words)]
      /\ \A a \in Arrays : Len(memory'[a]) = Len(memory[a])
      /\ Fits(memory', list) /\ Window(memory', list) = Window(memory, list)
      /\ \A d \in Clients : Fits(memory', slice[d])
      /\ (list.array # NoArray => memory'[list.array] # <<>>)
      /\ \A d \in Clients : slice[d].array # NoArray => memory'[slice[d].array] # <<>>
  BY <1>1, <1>2, <1>3, SlotWritten
<1>5. /\ memory \in [Arrays -> Seq(Words)] /\ Fits(memory, slice[c])
      /\ slice \in [Clients -> Slices] /\ slice[c].array \in Arrays
      /\ slice[c].from \in Nat /\ slice[c].len \in Nat
      /\ slice[c].from + slice[c].len + Len(values[c]) <= Len(memory[slice[c].array])
  BY <1>2, ListsAssumption DEF Shape, Appending, Slices, Cells
<1>6. slice[c].from + slice[c].len + 1 <= Len(memory[slice[c].array])
  <2>1. PICK f \in Nat, k \in Nat, n \in Nat \ {0}, l \in Nat :
           /\ f = slice[c].from /\ k = slice[c].len
           /\ n = Len(values[c]) /\ l = Len(memory[slice[c].array])
    BY <1>3, <1>5
  <2>2. f + k + n <= l
    BY <1>5, <2>1
  <2>3. f + k + 1 <= l
    BY <2>2
  <2> QED  BY <2>1, <2>3
<1>7. Fits(memory', s) /\ Window(memory', s) = Append(Window(memory, slice[c]), e)
  <2>1. memory' = Written(memory, slice[c].array, slice[c].from + slice[c].len + 1, e)
    BY <1>1 DEF Behind
  <2>2. /\ memory \in [Arrays -> Seq(Words)] /\ Fits(memory, slice[c])
        /\ slice[c].array \in Arrays /\ e \in Words
    BY <1>3, <1>5
  <2>3. /\ Fits(Written(memory, slice[c].array, slice[c].from + slice[c].len + 1, e), s)
        /\ Window(Written(memory, slice[c].array, slice[c].from + slice[c].len + 1, e), s) =
              Append(Window(memory, slice[c]), e)
    BY <1>6, <2>2, WriteNext
  <2> QED  BY <2>1, <2>3
<1>8. /\ s \in Slices /\ s.array = slice[c].array /\ s.from = slice[c].from
      /\ s.len = slice[c].len + 1
  <2>1. slice[c] \in Slices
    BY <1>5
  <2> QED  BY <1>5, <2>1 DEF Longer, Slices
<1>9. slice' = [slice EXCEPT ![c] = s] /\ slice' \in [Clients -> Slices]
  BY <1>1, <1>5, <1>8 DEF Longer
<1> HIDE DEF s
<1>10. ASSUME NEW d \in Clients
       PROVE  /\ Fits(memory', slice'[d])
              /\ slice'[d].array # NoArray => memory'[slice'[d].array] # <<>>
  BY <1>4, <1>5, <1>7, <1>8, <1>9
<1>11. Shape(memory', list', slice')
  BY <1>1, <1>2, <1>4, <1>9, <1>10 DEF Shape
<1>12. Appending(memory', list, s, Tail(values[c]))
  <2>1. s.array \in Arrays /\ (s.array = list.array => s.from = list.from /\ list.len <= s.len)
    <3>1. list.len \in Nat
      BY <1>2 DEF Shape, Fits, Slices
    <3> QED  BY <1>2, <1>5, <1>8, <3>1 DEF Appending
  <2>2. Len(Cells(memory', s)) = Len(memory[slice[c].array])
    BY <1>4, <1>5, <1>8, ListsAssumption DEF Cells
  <2>3. s.from + s.len + Len(Tail(values[c])) <= Len(memory[slice[c].array])
    <3>1. PICK f \in Nat, k \in Nat, n \in Nat \ {0} :
             f = slice[c].from /\ k = slice[c].len /\ n = Len(values[c])
      BY <1>3, <1>5
    <3>2. f + (k + 1) + (n - 1) = f + k + n
      OBVIOUS
    <3> QED  BY <1>3, <1>5, <1>8, <3>1, <3>2
  <2>4. Window(memory', s) \o Tail(values[c]) = Window(memory, slice[c]) \o values[c]
    <3>1. Window(memory, slice[c]) \in Seq(Words) /\ values[c] \in Seq(Words)
      BY <1>3, <1>5, WindowProperties DEF Words
    <3> QED  BY <1>2, <1>7, <3>1, MoveHead DEF e
  <2>5. \E p \in Pushes : Window(memory', s) \o Tail(values[c]) = Window(memory', list) \o p
    BY <1>2, <1>4, <2>4 DEF Appending
  <2> QED  BY <2>1, <2>2, <2>3, <2>5 DEF Appending
<1>13. slice'[c] = s /\ values'[c] = Tail(values[c])
       /\ \A d \in Clients \ {c} : values'[d] = values[d]
  BY <1>1, <1>2, <1>5, <1>9
<1>14. Appending(memory', list', slice'[c], values'[c])
  BY <1>1, <1>12, <1>13
<1> QED  BY <1>1, <1>4, <1>11, <1>13, <1>14, AppenderAlone
-----------------------------------------------------------------------------
(***************************************************************************)
(* LRANGE returns no window or a part of the list's.                       *)
(***************************************************************************)
LEMMA RangeEnds ==
    ASSUME list.len \in Nat, NEW start \in Int, NEW stop \in Int
    PROVE  /\ FirstOf(start) \in Nat /\ LastOf(stop) \in Int /\ LastOf(stop) < list.len
           /\ \A i \in 1 .. list.len : /\ FromEnd(start) < i <=> FirstOf(start) + 1 <= i
                                       /\ i - 1 <= FromEnd(stop) <=> i <= LastOf(stop) + 1
<1>1. FromEnd(start) \in Int /\ FromEnd(stop) \in Int
  BY DEF FromEnd
<1> QED  BY <1>1 DEF FirstOf, LastOf

(***************************************************************************)
(* What LRANGE cuts out is a slice of the same array that shows a part of  *)
(* the list.                                                               *)
(***************************************************************************)
LEMMA RangeIsPart ==
    ASSUME memory \in [Arrays -> Seq(Words)], Fits(memory, list),
           NEW start \in Int, NEW stop \in Int
    PROVE  /\ Fits(memory, LRANGE(start, stop))
           /\ LRANGE(start, stop).array \in {list.array, NoArray}
           /\ Window(memory, LRANGE(start, stop)) =
                 IF FirstOf(start) > LastOf(stop) THEN <<>>
                 ELSE SubSeq(Window(memory, list), FirstOf(start) + 1, LastOf(stop) + 1)
<1>1. list \in Slices /\ list.from \in Nat /\ list.len \in Nat
  BY DEF Fits, Slices
<1>2. FirstOf(start) \in Nat /\ LastOf(stop) \in Int /\ LastOf(stop) < list.len
  BY <1>1, RangeEnds
<1>3. CASE FirstOf(start) > LastOf(stop)
  <2>1. /\ NoList.array = NoArray /\ NoList.from = 0 /\ NoList.len = 0
        /\ NoList \in Slices /\ Cells(memory, NoList) = <<>>
    BY DEF NoList, Slice, Slices, Cells
  <2>2. Fits(memory, NoList) /\ Window(memory, NoList) = <<>>
    BY <2>1, SubSeqEmpty DEF Fits, Window
  <2> QED  BY <1>3, <2>1, <2>2 DEF LRANGE
<1>4. CASE ~(FirstOf(start) > LastOf(stop))
  <2>1. PICK i \in Nat, n \in Nat : /\ i = FirstOf(start)
                                    /\ n = LastOf(stop) - FirstOf(start) + 1
    BY <1>2, <1>4
  <2>2. i + n <= list.len /\ i + n = LastOf(stop) + 1
    BY <1>1, <1>2, <2>1
  <2>3. LRANGE(start, stop) = Slice(list.array, list.from + i, n)
    BY <1>4, <2>1 DEF LRANGE
  <2>4. /\ Fits(memory, Slice(list.array, list.from + i, n))
        /\ Window(memory, Slice(list.array, list.from + i, n)) =
              SubSeq(Window(memory, list), i + 1, i + n)
    BY <2>2, PartOfWindow
  <2>5. Slice(list.array, list.from + i, n).array = list.array
    BY DEF Slice
  <2> QED  BY <1>4, <2>1, <2>2, <2>3, <2>4, <2>5
<1> QED  BY <1>3, <1>4

(***************************************************************************)
(* The window of an LRANGE holds elements only, none of them torn.         *)
(***************************************************************************)
LEMMA RangeInList ==
    ASSUME Shape(memory, list, slice), NEW start \in Bounds, NEW stop \in Bounds
    PROVE  /\ Fits(memory, LRANGE(start, stop)) /\ LRANGE(start, stop) \in Slices
           /\ LRANGE(start, stop).array \in {list.array, NoArray}
           /\ Window(memory, LRANGE(start, stop)) \in Seq(Elements)
<1>1. /\ memory \in [Arrays -> Seq(Words)] /\ Fits(memory, list)
      /\ Window(memory, list) \in Seq(Elements) /\ Len(Window(memory, list)) = list.len
  BY WindowProperties DEF Shape
<1>2. start \in Int /\ stop \in Int /\ list.len \in Nat
  BY <1>1 DEF Bounds, Fits, Slices
<1>3. /\ Fits(memory, LRANGE(start, stop))
      /\ LRANGE(start, stop).array \in {list.array, NoArray}
      /\ Window(memory, LRANGE(start, stop)) =
            IF FirstOf(start) > LastOf(stop) THEN <<>>
            ELSE SubSeq(Window(memory, list), FirstOf(start) + 1, LastOf(stop) + 1)
  BY <1>1, <1>2, RangeIsPart
<1>4. FirstOf(start) \in Nat /\ LastOf(stop) \in Int /\ LastOf(stop) < list.len
  BY <1>2, RangeEnds
<1>5. SubSeq(Window(memory, list), FirstOf(start) + 1, LastOf(stop) + 1) \in Seq(Elements)
  <2>1. PICK q \in Seq(Elements), f \in Nat, l \in Int :
           /\ q = Window(memory, list) /\ f = FirstOf(start) /\ l = LastOf(stop)
           /\ l < Len(q)
    BY <1>1, <1>4
  <2>2. \A i \in f + 1 .. l + 1 : q[i] \in Elements
    BY <2>1
  <2>3. SubSeq(q, f + 1, l + 1) \in Seq(Elements)
    BY <2>2, SubSeqProperties
  <2> QED  BY <2>1, <2>3
<1>6. <<>> \in Seq(Elements)
  OBVIOUS
<1> QED  BY <1>3, <1>5, <1>6 DEF Fits

(***************************************************************************)
(* LRANGE leaves the list alone and answers with elements.                 *)
(***************************************************************************)
LEMMA LrangeStep ==
    ASSUME WInv, NEW c \in Clients, Lrange(c)
    PROVE  /\ Shape(memory', list', slice') /\ Writers'
           /\ Window(memory', list') = Window(memory, list)
           /\ range' \in [Clients -> Seq(Elements)]
<1>1. PICK start \in Bounds, stop \in Bounds :
         /\ slice' = [slice EXCEPT ![c] = LRANGE(start, stop)]
         /\ range' = [range EXCEPT ![c] = View(LRANGE(start, stop))]
  BY DEF Lrange
<1>2. /\ memory' = memory /\ list' = list /\ values' = values
      /\ pc' = [pc EXCEPT ![c] = "formatting"] /\ c \in active
  BY DEF Lrange, Goto, dataVars
<1>3. Shape(memory, list, slice) /\ Control /\ LockInv /\ Writers
  BY DEF WInv
<1>4. View(LRANGE(start, stop)) = Window(memory, LRANGE(start, stop))
  BY DEF View, Slots, Window, Cells
<1>5. PICK s \in Slices : /\ s = LRANGE(start, stop)
                          /\ Fits(memory, s) /\ s.array \in {list.array, NoArray}
                         /\ View(s) \in Seq(Elements)
  BY <1>3, <1>4, RangeInList
<1>6. slice' = [slice EXCEPT ![c] = s] /\ range' = [range EXCEPT ![c] = View(s)]
  BY <1>1, <1>5
<1>7. range' \in [Clients -> Seq(Elements)]
  BY <1>3, <1>5, <1>6 DEF Control
<1>8. ASSUME NEW d \in Clients
      PROVE  /\ Fits(memory, slice'[d])
             /\ slice'[d].array # NoArray => memory[slice'[d].array] # <<>>
  BY <1>3, <1>5, <1>6 DEF Shape
<1>9. slice' \in [Clients -> Slices]
  BY <1>3, <1>6 DEF Shape
<1>10. Shape(memory', list', slice')
  BY <1>2, <1>3, <1>8, <1>9 DEF Shape
<1>11. \A d \in Clients : pc'[d] \notin {"appending", "writing"}
  BY <1>2, <1>3 DEF Control, LockInv
<1>12. \A d \in Clients : pc'[d] \in {"RPUSH", "LPUSH"} => values'[d] \in Pushes
  BY <1>2, <1>3 DEF Control, Writers
<1>13. Writers'
  BY <1>11, <1>12 DEF Writers
<1> QED  BY <1>2, <1>7, <1>10, <1>13

(***************************************************************************)
(* An answer that is sent lets go of its array; the list keeps its own.    *)
(***************************************************************************)
LEMMA RespondStep ==
    ASSUME WInv, NEW c \in Clients, Respond(c)
    PROVE  /\ Shape(memory', list', slice') /\ Writers'
           /\ Window(memory', list') = Window(memory, list)
<1>1. /\ slice' = [slice EXCEPT ![c] = NoList] /\ pc' = [pc EXCEPT ![c] = "idle"]
      /\ memory' = Collected(memory, Held(c) \cup {list.array})
      /\ list' = list /\ values' = values /\ pc[c] = "formatting"
  BY DEF Respond, Goto
<1>2. Shape(memory, list, slice) /\ Control /\ LockInv /\ Writers
  BY DEF WInv
<1>3. /\ memory \in [Arrays -> Seq(Words)] /\ slice \in [Clients -> Slices]
      /\ Fits(memory, list) /\ list \in Slices
  BY <1>2 DEF Shape, Fits
<1>4. /\ memory' \in [Arrays -> Seq(Words)]
      /\ \A t \in Slices : t.array \in Held(c) \cup {list.array} \cup {NoArray}
                          => Cells(memory', t) = Cells(memory, t)
  <2>1. PICK referred : referred = Held(c) \cup {list.array}
    OBVIOUS
  <2>2. /\ Collected(memory, referred) \in [Arrays -> Seq(Words)]
        /\ \A t \in Slices : t.array \in referred \cup {NoArray}
               => Cells(Collected(memory, referred), t) = Cells(memory, t)
    BY <1>3, CollectedKeeps
  <2>3. memory' = Collected(memory, referred)
    BY <1>1, <2>1
  <2> QED  BY <2>1, <2>2, <2>3
<1>5. Cells(memory', list) = Cells(memory, list)
  BY <1>3, <1>4
<1>6. Fits(memory', list) /\ Window(memory', list) = Window(memory, list)
  BY <1>3, <1>5, SameCells
<1>7. NoList \in Slices /\ NoList.array = NoArray /\ Fits(memory', NoList)
  BY DEF NoList, Slice, Slices, Fits, Cells
<1>8. ASSUME NEW d \in Clients \ {c}
      PROVE  slice'[d] = slice[d] /\ Cells(memory', slice[d]) = Cells(memory, slice[d])
  <2>1. slice'[d] = slice[d] /\ slice[d].array \in Held(c) /\ slice[d] \in Slices
    BY <1>1, <1>3 DEF Held
  <2> QED  BY <1>4, <2>1
<1>9. ASSUME NEW d \in Clients
      PROVE  /\ Fits(memory', slice'[d])
             /\ slice'[d].array # NoArray => memory'[slice'[d].array] # <<>>
  <2>1. CASE d = c
    BY <1>1, <1>3, <1>7, <2>1
  <2>2. CASE d # c
    <3>1. slice'[d] = slice[d] /\ Cells(memory', slice[d]) = Cells(memory, slice[d])
      BY <1>8, <2>2
    <3>2. Fits(memory, slice[d]) /\ (slice[d].array # NoArray => memory[slice[d].array] # <<>>)
      BY <1>2 DEF Shape
    <3>3. Fits(memory', slice[d])
      BY <3>1, <3>2, SameCells
    <3> QED  BY <3>1, <3>2, <3>3 DEF Cells
  <2> QED  BY <2>1, <2>2
<1>10. slice' \in [Clients -> Slices]
  BY <1>1, <1>3, <1>7
<1>11. list.array # NoArray => memory'[list.array] # <<>>
  BY <1>2, <1>5 DEF Shape, Cells
<1>12. Shape(memory', list', slice')
  BY <1>1, <1>2, <1>4, <1>6, <1>9, <1>10, <1>11 DEF Shape
<1>13. ASSUME NEW d \in Clients, pc'[d] \in {"appending", "writing"}
       PROVE  Appending(memory', list', slice'[d], values'[d])
  <2>1. d # c /\ pc[d] = pc'[d]
    BY <1>1, <1>2, <1>13 DEF Control
  <2>2. Appending(memory, list, slice[d], values[d])
    BY <1>2, <1>13, <2>1 DEF Writers
  <2>3. slice'[d] = slice[d] /\ Cells(memory', slice[d]) = Cells(memory, slice[d])
    BY <1>8, <2>1
  <2>4. Window(memory', slice[d]) = Window(memory, slice[d])
    BY <2>3, SameCells
  <2> QED  BY <1>1, <1>6, <2>2, <2>3, <2>4 DEF Appending
<1>14. \A d \in Clients : /\ pc'[d] \in {"RPUSH", "LPUSH"} => values'[d] \in Pushes
                          /\ pc'[d] = "writing" => values'[d] # <<>>
  BY <1>1, <1>2 DEF Control, Writers
<1>15. Writers'
  BY <1>13, <1>14 DEF Writers
<1> QED  BY <1>1, <1>6, <1>12, <1>15
-----------------------------------------------------------------------------
(***************************************************************************)
(* Every step keeps the types, the lock and the program counters.          *)
(***************************************************************************)
LEMMA NextControl ==
    ASSUME WInv, [Next]_vars
    PROVE  Control'
<1> USE DEF Control, MutexTypeOK, Goto, dataVars
<1>1. Control
  BY DEF WInv
<1>2. ASSUME NEW c \in Clients, CallWrite(c) PROVE Control'
  <2>1. PICK name \in Commands \ Reads :
           /\ pc' = [pc EXCEPT ![c] = name]
           /\ IF name \in {"RPUSH", "LPUSH"}
              THEN \E vs \in Pushes : values' = [values EXCEPT ![c] = vs]
              ELSE UNCHANGED values
    BY <1>2 DEF CallWrite
  <2>2. values' \in [Clients -> Seq(Elements)]
    BY <1>1, <2>1
  <2>3. pc' \in [Clients -> Names \cup {"idle", "appending", "writing", "formatting"}]
    BY <1>1, <2>1
  <2> QED  BY <1>1, <1>2, <2>2, <2>3 DEF CallWrite, Announce
<1>3. ASSUME NEW c \in Clients, CallRead(c) PROVE Control'
  <2>1. PICK name \in Names : pc' = [pc EXCEPT ![c] = name]
    BY <1>3 DEF CallRead, Names, Reads
  <2> QED  BY <1>1, <1>3, <2>1 DEF CallRead, RLock
<1>4. ASSUME NEW c \in Clients, Rpush(c) \/ StartElement(c) PROVE Control'
  BY <1>1, <1>4 DEF Rpush, StartElement, mutexVars
<1>5. ASSUME NEW c \in Clients, FinishElement(c) PROVE Control'
  <2>1. values[c] # <<>>
    BY <1>5 DEF FinishElement, WInv, Writers
  <2>2. Tail(values[c]) \in Seq(Elements)
    BY <1>1, <2>1
  <2>3. values' \in [Clients -> Seq(Elements)]
    BY <1>1, <1>5, <2>2 DEF FinishElement
  <2> QED  BY <1>1, <1>5, <2>3 DEF FinishElement, mutexVars
<1>6. ASSUME NEW c \in Clients, NEW s, NEW m, Install(c, s, m),
             values' = values \/ values' = [values EXCEPT ![c] = <<>>]
      PROVE  Control'
  <2>1. values' \in [Clients -> Seq(Elements)]
    <3>1. <<>> \in Seq(Elements)
      OBVIOUS
    <3> QED  BY <1>1, <1>6, <3>1
  <2> QED  BY <1>1, <1>6, <2>1 DEF Install, Unlock
<1>7. ASSUME NEW c \in Clients,
             RpushEnd(c) \/ Lpush(c) \/ Lpop(c) \/ Rpop(c) \/ Del(c)
      PROVE  Control'
  <2>1. \E s, m : Install(c, s, m)
    BY <1>7 DEF RpushEnd, Lpush, Lpop, Rpop, Del
  <2>2. values' = values \/ values' = [values EXCEPT ![c] = <<>>]
    BY <1>7 DEF RpushEnd, Lpush, Lpop, Rpop, Del
  <2> QED  BY <1>6, <2>1, <2>2
<1>8. ASSUME NEW c \in Clients, Lrange(c) PROVE Control'
  <2>1. range' \in [Clients -> Seq(Elements)]
    BY <1>8, LrangeStep
  <2> QED  BY <1>1, <1>8, <2>1 DEF Lrange, RUnlock
<1>9. ASSUME NEW c \in Clients, Format(c) PROVE Control'
  <2>1. Fits(memory, slice[c]) /\ memory \in [Arrays -> Seq(Words)] /\ slice[c] \in Slices
    BY DEF WInv, Shape
  <2>2. /\ Window(memory, slice[c]) \in Seq(Words)
        /\ Len(Window(memory, slice[c])) = slice[c].len
    BY <2>1, WindowProperties
  <2>3. View(slice[c]) = Window(memory, slice[c])
    BY DEF View, Slots, Window, Cells
  <2>4. Len(reply[c]) + 1 \in 1 .. slice[c].len
    BY <1>1, <1>9, <2>1 DEF Format, Slices
  <2>5. View(slice[c])[Len(reply[c]) + 1] \in Words
    BY <2>2, <2>3, <2>4
  <2>6. reply' \in [Clients -> Seq(Words)]
    BY <1>1, <1>9, <2>5 DEF Format
  <2> QED  BY <1>1, <1>9, <2>6 DEF Format, mutexVars
<1>10. ASSUME NEW c \in Clients, Respond(c) PROVE Control'
  <2>1. <<>> \in Seq(Elements) /\ <<>> \in Seq(Words)
    OBVIOUS
  <2> QED  BY <1>1, <1>10, <2>1 DEF Respond, mutexVars
<1>11. ASSUME NEW c \in Clients, Llen(c) PROVE Control'
  BY <1>1, <1>11 DEF Llen, RUnlock
<1>12. CASE UNCHANGED vars
  BY <1>1, <1>12 DEF vars, clientVars, mutexVars
<1> QED  BY <1>2, <1>3, <1>4, <1>5, <1>7, <1>8, <1>9, <1>10, <1>11, <1>12 DEF Next

(***************************************************************************)
(* Every step keeps the invariant, and is a step of a deque or none.       *)
(***************************************************************************)
DequeStep(old, new) ==
    \/ new = old
    \/ \E p \in Pushes : new = old \o p
    \/ \E p \in Pushes : new = p \o old
    \/ old # <<>> /\ new = Tail(old)
    \/ old # <<>> /\ new = SubSeq(old, 1, Len(old) - 1)
    \/ new = <<>>

(***************************************************************************)
(* Every step keeps the memory in shape and is, seen through the window of *)
(* the list, a step of a deque.                                            *)
(***************************************************************************)
LEMMA EveryStep ==
    ASSUME WInv, [Next]_vars
    PROVE  /\ Shape(memory', list', slice') /\ Writers'
           /\ DequeStep(Window(memory, list), Window(memory', list'))
<1> DEFINE Goal == /\ Shape(memory', list', slice') /\ Writers'
                   /\ DequeStep(Window(memory, list), Window(memory', list'))
<1>1. ASSUME NEW c \in Clients, CallWrite(c) \/ CallRead(c) \/ Llen(c) \/ Format(c) PROVE Goal
  BY <1>1, QuietSteps DEF DequeStep
<1>2. ASSUME NEW c \in Clients, Rpush(c) PROVE Goal
  BY <1>2, RpushStep DEF DequeStep
<1>3. ASSUME NEW c \in Clients, StartElement(c) PROVE Goal
  BY <1>3, StartElementStep DEF DequeStep
<1>4. ASSUME NEW c \in Clients, FinishElement(c) PROVE Goal
  BY <1>4, FinishElementStep DEF DequeStep
<1>5. ASSUME NEW c \in Clients, RpushEnd(c) PROVE Goal
  BY <1>5, RpushEndStep DEF DequeStep
<1>6. ASSUME NEW c \in Clients, Lpush(c) PROVE Goal
  BY <1>6, LpushStep DEF DequeStep
<1>7. ASSUME NEW c \in Clients, Lpop(c) \/ Rpop(c) \/ Del(c) PROVE Goal
  BY <1>7, PopsAndDelStep DEF DequeStep
<1>8. ASSUME NEW c \in Clients, Lrange(c) PROVE Goal
  BY <1>8, LrangeStep DEF DequeStep
<1>9. ASSUME NEW c \in Clients, Respond(c) PROVE Goal
  BY <1>9, RespondStep DEF DequeStep
<1>10. CASE UNCHANGED vars
  <2>1. /\ memory' = memory /\ list' = list /\ slice' = slice /\ pc' = pc
        /\ values' = values
    BY <1>10 DEF vars, dataVars, clientVars
  <2>2. Writers'
    BY <2>1 DEF WInv, Writers, Appending
  <2> QED  BY <2>1, <2>2 DEF WInv, DequeStep
<1> QED  BY <1>1, <1>2, <1>3, <1>4, <1>5, <1>6, <1>7, <1>8, <1>9, <1>10 DEF Next

(***************************************************************************)
(* The invariant holds after every step.                                   *)
(***************************************************************************)
LEMMA NextWInv ==
    WInv /\ [Next]_vars => WInv'
<1> SUFFICES ASSUME WInv, [Next]_vars PROVE WInv'
  OBVIOUS
<1>1. Control' /\ Shape(memory', list', slice') /\ Writers'
  BY NextControl, EveryStep
<1>2. LockInv'
  BY NextLockInv DEF WInv
<1> QED  BY <1>1, <1>2 DEF WInv, Shape

(***************************************************************************)
(* The invariant said with windows holds in every state.                   *)
(***************************************************************************)
LEMMA AlwaysWInv ==
    Spec => []WInv
BY InitWInv, NextWInv, PTL DEF Spec

(***************************************************************************)
(* The invariant of the run holds in every state of every instance.        *)
(***************************************************************************)
THEOREM Invariance == Spec => []IInv
BY AlwaysWInv, SameInvariant, PTL

(* Slices stay inside their arrays, and values have their types.           *)
THEOREM TypeCorrect == Spec => []TypeOK
<1>1. IInv => TypeOK
  BY DEF IInv
<1> QED  BY <1>1, Invariance, PTL

(***************************************************************************)
(* LRANGE computes the window its positions ask for, and that window fits  *)
(* into its array: the slice expression of list.go:101 does not panic.     *)
(***************************************************************************)
LEMMA RangeIsExact ==
    WInv => RangeExact
<1> SUFFICES ASSUME WInv, NEW start \in Bounds, NEW stop \in Bounds
             PROVE  LET inside == {i \in 1..list.len : /\ FromEnd(start) < i
                                                       /\ i - 1 <= FromEnd(stop)}
                    IN /\ SliceOK(LRANGE(start, stop))
                       /\ View(LRANGE(start, stop)) =
                             IF inside = {} THEN <<>>
                             ELSE SubSeq(Content, Min(inside), Max(inside))
  BY DEF RangeExact
<1> DEFINE inside == {i \in 1..list.len : FromEnd(start) < i /\ i - 1 <= FromEnd(stop)}
           first == FirstOf(start) + 1
           last == LastOf(stop) + 1
<1>1. Shape(memory, list, slice) /\ memory \in [Arrays -> Seq(Words)] /\ Fits(memory, list)
  BY DEF WInv, Shape
<1>2. list.len \in Nat /\ start \in Int /\ stop \in Int
  BY <1>1 DEF Bounds, Fits, Slices
<1>3. /\ FirstOf(start) \in Nat /\ LastOf(stop) \in Int /\ LastOf(stop) < list.len
      /\ \A i \in 1 .. list.len : /\ FromEnd(start) < i <=> first <= i
                                  /\ i - 1 <= FromEnd(stop) <=> i <= last
  BY <1>2, RangeEnds
<1>4. inside = first .. last
  <2>1. PICK f \in Nat \ {0}, l \in Int, n \in Nat :
           f = first /\ l = last /\ n = list.len /\ l <= n
    BY <1>2, <1>3
  <2>2. \A i : i \in f .. l <=> i \in 1 .. n /\ f <= i /\ i <= l
    BY <2>1
  <2>3. \A i : i \in inside <=> i \in 1 .. n /\ f <= i /\ i <= l
    <3>1. \A i \in 1 .. n : /\ FromEnd(start) < i <=> f <= i
                            /\ i - 1 <= FromEnd(stop) <=> i <= l
      BY <1>3, <2>1
    <3>2. inside = {i \in 1 .. n : FromEnd(start) < i /\ i - 1 <= FromEnd(stop)}
      BY <2>1
    <3> HIDE DEF inside
    <3>3. ASSUME NEW i \in 1 .. n PROVE i \in inside <=> f <= i /\ i <= l
      <4>1. (FromEnd(start) < i <=> f <= i) /\ (i - 1 <= FromEnd(stop) <=> i <= l)
        BY <3>1
      <4>2. i \in inside <=> FromEnd(start) < i /\ i - 1 <= FromEnd(stop)
        BY <3>2
      <4> QED  BY <4>1, <4>2
    <3>4. \A i \in inside : i \in 1 .. n
      BY <3>2, Zenon
    <3> QED  BY <3>3, <3>4, Zenon
  <2> HIDE DEF inside
  <2> QED  BY <2>1, <2>2, <2>3
<1>5. FirstOf(start) > LastOf(stop) <=> inside = {}
  BY <1>3, <1>4
<1>6. inside # {} => Min(inside) = first /\ Max(inside) = last
  <2> SUFFICES ASSUME inside # {} PROVE Min(inside) = first /\ Max(inside) = last
    OBVIOUS
  <2>1. first \in inside /\ last \in inside
        /\ \A i \in inside : i \in Int /\ first <= i /\ i <= last
    BY <1>3, <1>4
  <2>2. first \in Int /\ last \in Int
    BY <1>3
  <2> HIDE DEF inside, first, last
  <2>3. \A x \in inside : (\A y \in inside : x <= y) <=> x = first
    BY <2>1, <2>2
  <2>4. \A x \in inside : (\A y \in inside : x >= y) <=> x = last
    BY <2>1, <2>2
  <2>5. Min(inside) = CHOOSE x \in inside : \A y \in inside : x <= y
    BY DEF Min
  <2>6. Max(inside) = CHOOSE x \in inside : \A y \in inside : x >= y
    BY DEF Max
  <2> QED  BY <2>1, <2>3, <2>4, <2>5, <2>6
<1>7. /\ Fits(memory, LRANGE(start, stop))
      /\ Window(memory, LRANGE(start, stop)) =
            IF FirstOf(start) > LastOf(stop) THEN <<>> ELSE SubSeq(Window(memory, list), first, last)
  BY <1>1, <1>2, RangeIsPart
<1>8. /\ SliceOK(LRANGE(start, stop))
      /\ View(LRANGE(start, stop)) = Window(memory, LRANGE(start, stop))
      /\ Content = Window(memory, list)
  BY <1>7 DEF SliceOK, Fits, View, Slots, Window, Cells, Content
<1> HIDE DEF first, last
<1> QED  BY <1>5, <1>6, <1>7, <1>8

(***************************************************************************)
(* LRANGE answers the elements its two positions ask for, counted from     *)
(* either end and cut to the list (list.go:72-102).                        *)
(***************************************************************************)
THEOREM RangeCorrect == Spec => []RangeExact
BY AlwaysWInv, RangeIsExact, PTL

(***************************************************************************)
(* The list is a deque: every behaviour of Lists, seen through Content, is *)
(* a behaviour of Deque.                                                   *)
(***************************************************************************)
THEOREM ImplementsDeque == Spec => IsDeque
<1>1. Init => Promise!Init
  <2> SUFFICES ASSUME Init PROVE Content = <<>>
    BY DEF Promise!Init
  <2>1. list.array = NoArray /\ list.from = 0 /\ list.len = 0
    BY DEF Init, NoList, Slice
  <2> QED  BY <2>1, SubSeqEmpty DEF Content, View, Slots
<1>2. WInv /\ [Next]_vars => [Promise!Next]_Content
  <2> SUFFICES ASSUME WInv, [Next]_vars PROVE [Promise!Next]_Content
    OBVIOUS
  <2>1. DequeStep(Window(memory, list), Window(memory', list'))
    BY EveryStep
  <2>2. Content = Window(memory, list) /\ Content' = Window(memory', list')
    BY DEF Content, View, Slots, Window, Cells
  <2>3. DequeStep(Content, Content')
    BY <2>1, <2>2
  <2> QED  BY <2>3 DEF DequeStep, Promise!Next, Promise!PushRight, Promise!PushLeft,
                       Promise!PopLeft, Promise!PopRight, Promise!Clear
<1> QED  BY <1>1, <1>2, AlwaysWInv, PTL DEF Spec, IsDeque, Promise!Spec
=============================================================================
