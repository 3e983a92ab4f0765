-------------------------------- MODULE Values --------------------------------
(***************************************************************************)
(* Tealis.Store as a map from keys to values of several Go types, and what *)
(* the commands on such values have in common.  Each of these commands is  *)
(* one section under Tealis.Mu and so one step here.  A value is a record  *)
(* with its Go type in the field "type"; a field whose name begins with    *)
(* aux is not in the program, the properties need it.                      *)
(***************************************************************************)
EXTENDS Integers, SequencesExt, FiniteSetsExt, Functions, TLC

CONSTANTS
    Keys,           \* the keys
    NoValue,        \* the value of a key that is not in Store
    KindsOf         \* bound of the model: the kinds of commands sent for a key

VARIABLES
    store,          \* Tealis.Store
    memory,         \* the arrays behind the []byte values
    joined,         \* history: pairs of keys to which a BITOP gave one array
    answer          \* the last command: op, key, arg and reply

vars == <<store, memory, joined, answer>>

Kinds == {"text", "set", "map", "stream", "series", "sketch", "geo", "vector", "bytes"}

ASSUME KeysAssumption == IsFiniteSet(Keys)
ASSUME KindsOfAssumption == KindsOf \in [Keys -> SUBSET Kinds]

Empty == [k \in Keys |-> NoValue]

Is(k, type) == store[k] # NoValue /\ store[k].type = type

KeysOf(kind) == {k \in Keys : kind \in KindsOf[k]}

(* Go maps, and the assignment of an entry and of several of them.         *)
IsMap(f, S, T) == DOMAIN f \subseteq S /\ IsFiniteSet(DOMAIN f) /\ f \in [DOMAIN f -> T]

With(f, x, v) == [y \in DOMAIN f \cup {x} |-> IF y = x THEN v ELSE f[y]]

Over(f, g) == [y \in DOMAIN f \cup DOMAIN g |-> IF y \in DOMAIN f THEN f[y] ELSE g[y]]

(* The replies that the properties tell apart.                             *)
Ok == <<"ok">>
Error == <<"error">>
Panicked == <<"panic">>
Nil == <<"nil">>
Number(n) == <<"int", n>>
Value(v) == <<"value", v>>

Answer(op, k, arg, reply) ==
    answer' = [op |-> op, key |-> k, arg |-> arg, reply |-> reply]

BytesIn(st) == {k \in Keys : st[k] # NoValue /\ st[k].type = "bytes"}

(* A new store; arrays that no key has any more are garbage.               *)
Become(st) == /\ store' = st
              /\ memory' = Restrict(memory, {st[k].array : k \in BytesIn(st)})
              /\ joined' = {pair \in joined : pair \subseteq BytesIn(st)}

Put(k, v) == Become([store EXCEPT ![k] = v])

(* A command that reads, and one that is refused: nothing changes.         *)
Read(op, k, arg, reply) == Answer(op, k, arg, reply) /\ UNCHANGED <<store, memory, joined>>

(***************************************************************************)
(* A panic.  The deferred Unlock runs.  net/http recovers the panic of an  *)
(* HTTP or WebSocket client; in the goroutine of a TCP client nobody does, *)
(* the process ends, and the one started next has an empty store.          *)
(***************************************************************************)
Panic(op, k, arg) == /\ Answer(op, k, arg, Panicked)
                     /\ \E st \in {store, Empty} : Become(st)

(* The commands that know no types: DEL, and SET of a string.              *)
Text(s) == [type |-> "string", text |-> s]

SET(k, s) == Put(k, Text(s)) /\ Answer("SET", k, s, Ok)

DEL(k) == /\ Put(k, NoValue)
          /\ Answer("DEL", k, <<>>, Number(IF store[k] = NoValue THEN 0 ELSE 1))
=============================================================================
