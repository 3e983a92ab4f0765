------------------------------ MODULE TypedKeys ------------------------------
(***************************************************************************)
(* The commands on values other than lists and sorted sets over one Store: *)
(* a command meets what any other has left under its key.  Each group of   *)
(* commands has its own idea of a value of another type: some replace it,  *)
(* some refuse, some find nothing, some panic.  The handler calls the      *)
(* storage once, or once for each argument, each time under the lock.      *)
(***************************************************************************)
EXTENDS Documents, Streams, Measures, ByteArrays

CONSTANTS
    Letters,        \* the characters of strings
    Space,          \* the one that SETRANGE pads with
    Strings,        \* the strings that clients send
    MaxText,        \* bound of the model: length of a string
    Patterns        \* patterns of KEYS, as the sets of the keys they match

(* The strings that JSON.DEL leaves are not spelled out in this model.     *)
ASSUME TypedKeysAssumption ==
    /\ KeysOf("text") \cap KeysOf("map") = {}
    /\ Strings \subseteq Seq(Letters) /\ MaxText \in Nat
    /\ Patterns \subseteq SUBSET Keys

(* A value of another type counts as no string, but StrLen panics on it.   *)
TextOf(k) == IF Is(k, "string") THEN store[k].text ELSE <<>>

STRLEN(k) == IF Is(k, "string") \/ store[k] = NoValue
             THEN Read("STRLEN", k, <<>>, Number(Len(TextOf(k))))
             ELSE Panic("STRLEN", k, <<>>)

(* Negative positions count from the end.                                  *)
GETRANGE(k, start, end) ==
    LET text == TextOf(k)
        from(i) == IF i < 0 THEN Len(text) + i ELSE i
        first == IF from(start) < 0 THEN 0 ELSE from(start)
        last == IF from(end) >= Len(text) THEN Len(text) - 1 ELSE from(end)
    IN  Read("GETRANGE", k, <<start, end>>,
             Value(IF first >= Len(text) \/ first > last THEN <<>>
                   ELSE SubSeq(text, first + 1, last + 1)))

(* The text ends with what was set; a negative offset is not checked.      *)
SETRANGE(k, offset, s) ==
    LET padded == TextOf(k) \o [i \in 1 .. offset - Len(TextOf(k)) |-> Space]
        new == SubSeq(padded, 1, offset) \o s
    IN  \/ /\ offset >= 0 /\ Len(new) <= MaxText
           /\ Put(k, Text(new))
           /\ Answer("SETRANGE", k, <<offset, s>>, Number(Len(new)))
        \/ offset < 0 /\ Panic("SETRANGE", k, <<offset, s>>)

(* KEYS does not look at the expiries.                                     *)
KEYS(k, pattern) ==
    Read("KEYS", k, pattern, Value({j \in pattern : store[j] # NoValue}))

Positions == -(MaxText + 1) .. MaxText

TextCommands ==
    \E k \in KeysOf("text") :
        \/ \E s \in Strings : SET(k, s)
        \/ STRLEN(k)
        \/ \E start, end \in Positions : GETRANGE(k, start, end)
        \/ \E offset \in -1 .. MaxText, s \in Strings : SETRANGE(k, offset, s)
        \/ \E pattern \in Patterns : KEYS(k, pattern)
        \/ Read("GETRANGE", k, <<>>, Error)     \* a position that is no number

Init == /\ store = Empty /\ memory = <<>> /\ joined = {}
        /\ answer = [op |-> "start", key |-> NoValue, arg |-> <<>>, reply |-> Ok]

Next == \/ TextCommands \/ SetCommands \/ SetAlgebra \/ HashCommands \/ DocumentCommands
        \/ StreamCommands \/ SeriesCommands \/ SketchCommands \/ GeoCommands
        \/ VectorCommands \/ ByteCommands
        \/ \E k \in Keys : DEL(k)

Spec == Init /\ [][Next]_vars
-----------------------------------------------------------------------------
(* What Store holds is one of the values these commands make.              *)
Texts == [type : {"string"}, text : Seq(Letters \cup {Space})]

ValueOK(v) ==
    \/ v = NoValue
    \/ v.type = "string" /\ v \in Texts
    \/ v.type = "set" /\ v \in [type : {"set"}, members : SUBSET Members]
    \/ v.type = "map" /\ v = Map(v.fields) /\ IsDocument(v.fields)
    \/ v.type = "stream" /\ StreamOK(v)
    \/ v.type = "json text" /\ v.of.json \in {"object", "array"}
    \/ v = NilMap
    \/ v.type \in {"series", "sketch", "nil sketch", "geo", "vector"} /\ MeasureOK(v)
    \/ v.type = "bytes" /\ SliceOK(v)

TypeOK == DOMAIN store = Keys /\ \A k \in Keys : ValueOK(store[k])

(* What holds of all values, of their histories and of the arrays.         *)
IInv == /\ TypeOK /\ ArraysInv
        /\ StreamFollowed /\ AcksMatchDeliveries /\ KeepsWhatWasAdded

(* GETRANGE: the characters at the positions from start to end, with those *)
(* below 0 counted from the end.                                           *)
RangeIsExact(k, start, end, reply) ==
    LET n == Len(TextOf(k))
        from(i) == IF i < 0 THEN n + i ELSE i
        chosen == SelectSeq([i \in 1 .. n |-> i],
                            LAMBDA i : from(start) < i /\ i <= from(end) + 1)
    IN  reply = Value([i \in DOMAIN chosen |-> TextOf(k)[chosen[i]]])

(***************************************************************************)
(* DownSample: one point for each interval that has any in the range, in   *)
(* their order, with the aggregate of the points in it and no others.  The *)
(* points of the interval of the zero time count for the next one that has *)
(* any (timeSeries.go:138).                                                *)
(***************************************************************************)
DownSampleIsExact(k, start, end, method, points) ==
    LET inRange == Between(store[k].points, start, end)
        later == {Truncate(p.time) : p \in ToSet(inRange)} \ {0}
        slotOf(p) == IF Truncate(p.time) = 0 /\ later # {} THEN Min(later) ELSE Truncate(p.time)
        slots == {slotOf(p) : p \in ToSet(inRange)}
        inSlot(slot) == SelectSeq(inRange, LAMBDA p : slotOf(p) = slot)
        samples(slot) == [i \in DOMAIN inSlot(slot) |-> inSlot(slot)[i].value]
    IN  points = [i \in 1 .. Cardinality(slots) |->
                     LET slot == CHOOSE t \in slots : Cardinality({u \in slots : u < t}) = i - 1
                     IN  Bucket(slot, samples(slot), method)]

(* VECTOR.SEARCH: as many keys as were asked for, if there are, and no     *)
(* vector that is left out is nearer than one that is answered.            *)
SearchIsExact(query, n, keys) ==
    LET vectors == {k \in Keys : Is(k, "vector")}
    IN  /\ Len(keys) = Cardinality(ToSet(keys)) /\ ToSet(keys) \subseteq vectors
        /\ Len(keys) = n \/ ToSet(keys) = vectors
        /\ \A k \in ToSet(keys), j \in vectors \ ToSet(keys) :
               DistanceTo(query, k) <= DistanceTo(query, j)

(***************************************************************************)
(* The computed answers agree with their definitions, on every value that  *)
(* commands can leave in the store: string.go:111-143, set.go:79-190,      *)
(* timeSeries.go:117-160, vector.go:34-63.                                 *)
(***************************************************************************)
AnswersExact ==
    [][LET a == answer'
           result == a.reply[2]
           done == a.reply[1] = "value"
       IN  /\ a.op = "GETRANGE" /\ done => RangeIsExact(a.key, a.arg[1], a.arg[2], a.reply)
           /\ a.op = "SUNION" => \A m \in Members :
                  m \in result <=> \E k \in ToSet(a.arg) : m \in MembersOf(k)
           /\ a.op = "SINTER" => \A m \in Members :
                  m \in result <=> \A k \in ToSet(a.arg) : m \in MembersOf(k)
           /\ a.op = "SDIFF" => \A m \in Members :
                  m \in result <=> /\ m \in MembersOf(a.arg[1])
                                   /\ \A i \in 2 .. Len(a.arg) : m \notin MembersOf(a.arg[i])
           /\ a.op = "DownSample" /\ done =>
                  DownSampleIsExact(a.key, a.arg[1], a.arg[2], a.arg[3], result)
           /\ a.op = "VECTOR.SEARCH" /\ done => SearchIsExact(a.arg[1], a.arg[2], result)
      ]_vars
=============================================================================
