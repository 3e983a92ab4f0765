------------------------------ MODULE ByteArrays ------------------------------
(***************************************************************************)
(* Bitmaps (bitmap.go) and bit fields (bitfield.go).  Both are []byte, a   *)
(* slice of an array that may be longer and that other keys may share.  An *)
(* array is the set of the places of its ones; a place is a byte's number  *)
(* times ByteBits plus a bit's, the lowest first.  SETBIT counts bits in   *)
(* this order, BITFIELD has the highest bit of a byte first.  Offsets of   *)
(* bit fields are not negative in the model.                               *)
(***************************************************************************)
EXTENDS Values

CONSTANTS
    ByteBits,       \* bits of a byte: 8 in the program, and its types follow
    MaxBytes,       \* bound of the model: bytes of an array
    Offsets,        \* offsets of bits that clients use
    BitFields,      \* types and offsets of bit fields that they use
    Numbers         \* what clients set bit fields to and add to them

ASSUME ByteArraysAssumption ==
    /\ ByteBits \in Nat \ {0} /\ MaxBytes \in Nat /\ Offsets \subseteq Nat /\ Numbers \subseteq Int
    /\ BitFields \subseteq {"i8", "u16", "u8"} \X Nat

(* One of the array's names that is not in use.                            *)
Fresh == CHOOSE a \in 0 .. Cardinality(Keys) : a \notin DOMAIN memory

Slice(array, len) == [type |-> "bytes", array |-> array, len |-> len]

(* The slice of a key; of a key with another type or none, an empty one.   *)
SliceOf(k) == IF Is(k, "bytes") THEN store[k] ELSE Slice(Fresh, 0)
MemoryFor(k) == IF Is(k, "bytes") THEN memory
                ELSE With(memory, Fresh, [capacity |-> 0, ones |-> {}])

PlacesIn(len) == 0 .. len * ByteBits - 1
OnesIn(mem, slice) == mem[slice.array].ones \cap PlacesIn(slice.len)
Ones(k) == OnesIn(MemoryFor(k), SliceOf(k))

(* The key has this slice of the arrays from now on.                       *)
Write(k, slice, mem) ==
    LET st == [store EXCEPT ![k] = slice]
    IN  /\ store' = st
        /\ memory' = Restrict(mem, {st[j].array : j \in BytesIn(st)})
        /\ UNCHANGED joined

(* It allocates exactly what it needs, and forgets a value of another type.*)
SETBIT(k, offset, bit) ==
    LET byte == offset \div ByteBits
        ones == IF bit = 1 THEN Ones(k) \cup {offset} ELSE Ones(k) \ {offset}
        array == SliceOf(k).array
        spare == MemoryFor(k)[array].ones \ PlacesIn(SliceOf(k).len)
    IN  /\ byte < MaxBytes
        /\ IF SliceOf(k).len <= byte
           THEN Write(k, Slice(Fresh, byte + 1),
                      With(memory, Fresh, [capacity |-> byte + 1, ones |-> ones]))
           ELSE Write(k, store[k], [memory EXCEPT ![array].ones = ones \cup spare])
        /\ Answer("SETBIT", k, <<offset, bit>>, Number(IF offset \in Ones(k) THEN 1 ELSE 0))

GETBIT(k, offset) ==
    Read("GETBIT", k, offset, Number(IF offset \in Ones(k) THEN 1 ELSE 0))

BITCOUNT(k) == Read("BITCOUNT", k, <<>>, Number(Cardinality(Ones(k))))

Combined(op, ones, others, len) ==
    CASE op = "AND" -> ones \cap others
      [] op = "OR" -> ones \cup others
      [] op = "XOR" -> (ones \ others) \cup (others \ ones)
      [] op = "NOT" -> PlacesIn(len) \ others

(* Mutant: a longer source is resliced instead of copied.                  *)
BitopStepReslices(op, state, k) ==
    LET len == IF state.len < store[k].len THEN store[k].len ELSE state.len
        array == IF state.len < store[k].len THEN store[k].array ELSE state.array
        ones == Combined(op, state.ones, OnesIn(state.memory, store[k]), len)
        mem == IF array = Fresh THEN state.memory
               ELSE [state.memory EXCEPT ![array].ones = (@ \ PlacesIn(len)) \cup ones]
    IN  IF state.failed \/ ~ Is(k, "bytes") THEN [state EXCEPT !.failed = TRUE]
        ELSE [state EXCEPT !.ones = ones, !.len = len, !.array = array, !.memory = mem]

(***************************************************************************)
(* One turn of the loop of BITOP.  The result is the slice of the first    *)
(* source itself until a longer source makes it a copy, so the operation   *)
(* works on the store; the first turn combines that source with itself.    *)
(***************************************************************************)
BitopStep(op, state, k) ==
    LET len == IF state.len < store[k].len THEN store[k].len ELSE state.len
        array == IF state.len < store[k].len THEN Fresh ELSE state.array
        ones == Combined(op, state.ones, OnesIn(state.memory, store[k]), len)
        mem == IF array = Fresh THEN state.memory
               ELSE [state.memory EXCEPT ![array].ones = (@ \ PlacesIn(len)) \cup ones]
    IN  IF state.failed \/ ~ Is(k, "bytes") THEN [state EXCEPT !.failed = TRUE]
        ELSE [state EXCEPT !.ones = ones, !.len = len, !.array = array, !.memory = mem]

BitopTurns(op, start, sources) ==
    LET state[n \in 0 .. Len(sources)] ==
            IF n = 0 THEN start ELSE BitopStep(op, state[n - 1], sources[n])
    IN  state[Len(sources)]

(* What BITOP joins: the destination and all that share with the source.   *)
Joins(dest, first) ==
    {{dest, k} : k \in {first} \cup {j \in Keys : {j, first} \in joined}} \ {{dest}}

(***************************************************************************)
(* A source that is no []byte is a panic, after the turns of those before  *)
(* it.  The handler reads the length of the result without the lock.       *)
(***************************************************************************)
BITOP(op, dest, sources) ==
    LET first == sources[1]
        start == [ones |-> Ones(first), len |-> SliceOf(first).len,
                  array |-> SliceOf(first).array, memory |-> MemoryFor(first), failed |-> FALSE]
        end == BitopTurns(op, start, sources)
        result == Slice(end.array, end.len)
        st == [store EXCEPT ![dest] = result]
        apart == {pair \in joined : dest \notin pair}
        arg == <<op, sources>>
    IN  \/ /\ ~ end.failed
           /\ store' = st
           /\ memory' = Restrict(With(end.memory, Fresh,
                                      [capacity |-> end.len, ones |-> end.ones]),
                                 {st[k].array : k \in BytesIn(st)})
           /\ joined' = IF dest = first THEN joined
                        ELSE IF \A k \in ToSet(sources) : store[k].len <= store[first].len
                        THEN apart \cup Joins(dest, first) ELSE apart
           /\ Answer("BITOP", dest, arg, Number(end.len))
        \/ /\ end.failed
           /\ Answer("BITOP", dest, arg, Panicked)
           /\ \/ Become(Empty)
              \/ /\ memory' = Restrict(end.memory, DOMAIN memory)
                 /\ UNCHANGED <<store, joined>>
-----------------------------------------------------------------------------
SizeOf(type) == CASE type = "i8" -> ByteBits [] type = "u16" -> 2 * ByteBits [] OTHER -> 0

InRange(type, n) ==
    CASE type = "i8" -> -(2 ^ (ByteBits - 1)) <= n /\ n < 2 ^ (ByteBits - 1)
      [] type = "u16" -> 0 <= n /\ n < 2 ^ (2 * ByteBits)
      [] OTHER -> FALSE

(* The place of the bit that BITFIELD calls number i.                      *)
PlaceOf(i) == (i \div ByteBits) * ByteBits + (ByteBits - 1 - (i % ByteBits))

Span(offset, size) == {PlaceOf(offset + i) : i \in 0 .. size - 1}

(* Mutant: the number goes in with its lowest bit first.                   *)
OnesOfReversed(offset, size, n) ==
    {PlaceOf(offset + i) : i \in {j \in 0 .. size - 1 : (n \div 2 ^ j) % 2 = 1}}

(* The places of the ones of a number, which may be negative.              *)
OnesOf(offset, size, n) ==
    {PlaceOf(offset + i) : i \in {j \in 0 .. size - 1 : (n \div 2 ^ (size - 1 - j)) % 2 = 1}}

(* Only the size of a byte is signed.                                      *)
FieldIn(ones, offset, size) ==
    LET weight(i) == IF PlaceOf(offset + i) \in ones THEN 2 ^ (size - 1 - i) ELSE 0
        n == FoldLeft(LAMBDA sum, i : sum + weight(i - 1), 0, [i \in 1 .. size |-> i])
    IN  IF size = ByteBits /\ weight(0) > 0 THEN n - 2 ^ size ELSE n

(* append: in place when the array has room, which it fills with zeros;    *)
(* else in a new array, of any sufficient capacity.                        *)
Extended(slice, mem, bytes) ==
    LET old == OnesIn(mem, slice)
        there == mem[slice.array]
    IN  IF bytes <= slice.len THEN {[slice |-> slice, memory |-> mem]}
        ELSE IF bytes <= there.capacity
        THEN {[slice |-> Slice(slice.array, bytes),
               memory |-> [mem EXCEPT ![slice.array].ones =
                              (@ \ PlacesIn(bytes)) \cup old]]}
        ELSE {[slice |-> Slice(Fresh, bytes),
               memory |-> With(mem, Fresh, [capacity |-> c, ones |-> old])] :
                  c \in bytes .. MaxBytes}

SetField(k, offset, size, n) ==
    \E room \in Extended(SliceOf(k), MemoryFor(k), (offset + size + ByteBits - 1) \div ByteBits) :
        Write(k, room.slice,
              [room.memory EXCEPT ![room.slice.array].ones =
                  (@ \ Span(offset, size)) \cup OnesOf(offset, size, n)])

(* A missing key is there afterwards, even if the number is refused.       *)
BITFIELDSET(k, type, offset, n) ==
    LET size == SizeOf(type)
        arg == <<type, offset, n>>
    IN  /\ offset + size <= MaxBytes * ByteBits
        /\ CASE store[k] # NoValue /\ ~ Is(k, "bytes") -> Panic("BITFIELD SET", k, arg)
             [] (store[k] = NoValue \/ Is(k, "bytes")) /\ ~ InRange(type, n) ->
                    /\ Write(k, SliceOf(k), MemoryFor(k))
                    /\ Answer("BITFIELD SET", k, arg, Error)
             [] OTHER -> /\ SetField(k, offset, size, n)
                         /\ Answer("BITFIELD SET", k, arg, Ok)

(* What a read of the field meets first: a missing key, another type, an   *)
(* unknown type of field or the end of the bytes.                          *)
Readable(k, type, offset) ==
    /\ Is(k, "bytes") /\ SizeOf(type) > 0
    /\ (offset + SizeOf(type) - 1) \div ByteBits < store[k].len

BITFIELDGET(k, type, offset) ==
    LET arg == <<type, offset>>
    IN  CASE store[k] # NoValue /\ ~ Is(k, "bytes") -> Panic("BITFIELD GET", k, arg)
          [] Readable(k, type, offset) ->
                 Read("BITFIELD GET", k, arg, Number(FieldIn(Ones(k), offset, SizeOf(type))))
          [] OTHER -> Read("BITFIELD GET", k, arg, Error)

BITFIELDINCRBY(k, type, offset, n) ==
    LET sum == FieldIn(Ones(k), offset, SizeOf(type)) + n
        arg == <<type, offset, n>>
    IN  CASE store[k] # NoValue /\ ~ Is(k, "bytes") -> Panic("BITFIELD INCRBY", k, arg)
          [] Readable(k, type, offset) /\ InRange(type, sum) ->
                 /\ SetField(k, offset, SizeOf(type), sum)
                 /\ Answer("BITFIELD INCRBY", k, arg, Number(sum))
          [] OTHER -> Read("BITFIELD INCRBY", k, arg, Error)

ByteCommands ==
    \E k \in KeysOf("bytes") :
        \/ \E offset \in Offsets, bit \in {0, 1} : SETBIT(k, offset, bit)
        \/ Read("SETBIT", k, <<-1, 1>>, Number(0))      \* a negative offset
        \/ Read("BITOP", k, <<>>, Error)
        \/ \E offset \in Offsets : GETBIT(k, offset)
        \/ BITCOUNT(k)
        \/ \E i, j \in KeysOf("bytes"), op \in {"AND", "OR", "XOR"} : BITOP(op, k, <<i, j>>)
        \/ \E j \in KeysOf("bytes") : BITOP("NOT", k, <<j>>)
        \/ \E f \in BitFields :
               \/ BITFIELDGET(k, f[1], f[2])
               \/ \E n \in Numbers : \/ BITFIELDSET(k, f[1], f[2], n)
                                     \/ BITFIELDINCRBY(k, f[1], f[2], n)
        \/ Panic("BITFIELD GET", k, <<>>)               \* without the sixth word
-----------------------------------------------------------------------------
SliceOK(v) ==
    /\ v = Slice(v.array, v.len) /\ v.len \in Nat /\ v.array \in DOMAIN memory
    /\ v.len <= memory[v.array].capacity

ArrayOK(array) ==
    array \in [capacity : 0 .. MaxBytes, ones : SUBSET PlacesIn(array.capacity)]

(* The arrays in use are those of the keys, and keys that share one have   *)
(* been joined.                                                            *)
ArraysInv ==
    /\ DOMAIN memory = {store[k].array : k \in BytesIn(store)}
    /\ \A a \in DOMAIN memory : ArrayOK(memory[a])
    /\ \A j, k \in BytesIn(store) :
          store[j].array = store[k].array => j = k \/ {j, k} \in joined

(***************************************************************************)
(* BITOP combines the bits of its sources, if none is the first one again  *)
(* under another name.  Of XOR this is said only where the first source    *)
(* has no one: everywhere else the first turn has combined a one with      *)
(* itself, and the result is the opposite of what XOR means.               *)
(***************************************************************************)
BitopIsExact(op, dest, sources) ==
    LET n == Len(sources)
        once == \A i \in 2 .. n : /\ sources[i] # sources[1]
                                  /\ {sources[1], sources[i]} \notin joined
        odd(p) == Cardinality({i \in 1 .. n : p \in Ones(sources[i])}) % 2 = 1
    IN  once => \A p \in PlacesIn(SliceOf(dest)'.len) :
            \/ op = "XOR" /\ p \in Ones(sources[1])
            \/ p \in Ones(dest)' <=>
                   CASE op = "AND" -> \A i \in 1 .. n : p \in Ones(sources[i])
                     [] op = "OR" -> \E i \in 1 .. n : p \in Ones(sources[i])
                     [] op = "XOR" -> odd(p)
                     [] op = "NOT" -> p \notin Ones(sources[1])

(***************************************************************************)
(* A command that writes bits leaves its key with exactly these: SETBIT and*)
(* BITFIELD change the bits they name and no other, a number that was set  *)
(* is the one that is read, and new bytes are zero, also when append finds *)
(* them in an array that was used before (bitmap.go:21-40, 93-132;         *)
(* bitfield.go:96-109, 159-178).                                           *)
(***************************************************************************)
WritesExact ==
    [][\A k \in BytesIn(store') : k = answer'.key =>
          LET a == answer'
              done == a.reply \notin {Error, Panicked}
              same(p) == p \in Ones(k)' <=> p \in Ones(k)
              places == PlacesIn(SliceOf(k)'.len)
              field(n) ==
                  LET size == SizeOf(a.arg[1])
                  IN  /\ FieldIn(Ones(k)', a.arg[2], size) = n
                      /\ \A p \in places \ Span(a.arg[2], size) : same(p)
          IN  /\ a.op = "SETBIT" /\ a.arg[1] >= 0 =>
                     /\ a.arg[1] \in Ones(k)' <=> a.arg[2] = 1
                     /\ \A p \in places \ {a.arg[1]} : same(p)
              /\ a.op = "BITFIELD SET" /\ done => field(a.arg[3])
              /\ a.op = "BITFIELD INCRBY" /\ done =>
                     field(FieldIn(Ones(k), a.arg[2], SizeOf(a.arg[1])) + a.arg[3])
              /\ a.op = "BITOP" /\ done => BitopIsExact(a.arg[1], k, a.arg[2])]_vars

(***************************************************************************)
(* A command changes the bits of another key only where BITOP works on its *)
(* first source, or has given the two keys one array before (bitmap.go:88, *)
(* 132): copies that grow a slice, and the spare capacity append leaves,   *)
(* join no others (bitmap.go:22-26, 101-109; bitfield.go:161).             *)
(***************************************************************************)
KeysApart ==
    [][LET a == answer'
           written == {a.key} \cup (IF a.op = "BITOP" /\ a.arg # <<>>
                                    THEN {a.arg[2][1]} ELSE {})
       IN  \A k \in BytesIn(store) \cap BytesIn(store') :
               Ones(k)' # Ones(k) => \E w \in written : k = w \/ {k, w} \in joined]_vars
=============================================================================
