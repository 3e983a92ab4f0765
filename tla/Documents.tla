------------------------------ MODULE Documents ------------------------------
(***************************************************************************)
(* JSON documents (json.go).  JSON.SET stores the decoded object; JSON.DEL *)
(* and JSON.ARRAPPEND change it in place and then replace it by a string,  *)
(* the encoding of the object or array that holds the element they         *)
(* changed; what is outside of that is gone, and no path leads into a      *)
(* string.  A path is the sequence of its parts, the empty one is ".".     *)
(* JSON.GET and JSON.DEL do not take the lock; the model has them run      *)
(* alone.                                                                  *)
(***************************************************************************)
EXTENDS SetsAndHashes

CONSTANTS
    Index,          \* the parts that Sscanf reads as a number from 0 on, with it
    Json,           \* the values that a document may hold, at any depth
    Docs,           \* the objects that clients store
    Paths           \* the paths that clients use

(* The fields of an object that a key may hold.                            *)
IsDocument(f) == DOMAIN f \subseteq Names /\ \A n \in DOMAIN f : f[n] \in Json

ASSUME DocsAssumption ==
    /\ \A v \in Json : /\ v.json = "object" => \A n \in DOMAIN v.fields : v.fields[n] \in Json
                       /\ v.json = "array" => v.items \in Seq(Json)
    /\ \A v \in Leaves : Leaf(v) \in Json
    /\ \A doc \in Docs : IsDocument(doc)
    /\ Index \in [DOMAIN Index -> Nat]
    /\ Paths \subseteq Seq(Names \cup DOMAIN Index)

Null == [json |-> "null"]
Object(f) == [json |-> "object", fields |-> f]
Array(s) == [json |-> "array", items |-> s]
Missing == [json |-> "missing"]

(* The string that encodes a document.                                     *)
Encoded(v) == [type |-> "json text", of |-> v]

(* What the stored value is to the code that follows a path.               *)
Root(k) == CASE store[k] = NoValue -> Missing
             [] Is(k, "map") -> Object(store[k].fields)
             [] Is(k, "nil map") -> Object(<<>>)
             [] OTHER -> Leaf(store[k])

InArray(v, part) == v.json = "array" /\ part \in DOMAIN Index /\ Index[part] < Len(v.items)

Child(v, part) ==
    CASE v.json = "object" -> IF part \in DOMAIN v.fields /\ v.fields[part] # Null
                              THEN v.fields[part] ELSE Missing
      [] InArray(v, part) -> v.items[Index[part] + 1]
      [] OTHER -> Missing

GetAtPath(v, path) ==
    LET at[n \in 0 .. Len(path)] == IF n = 0 THEN v ELSE Child(at[n - 1], path[n])
    IN  at[Len(path)]

(* It takes a path and a value, and stores the value without the path.     *)
JSONSET(k, v) == Put(k, Map(v)) /\ Answer("JSON.SET", k, <<>>, Ok)

(* Text that is no JSON object is logged and answered with OK all the same.*)
JSONSETInvalid(k) == Put(k, NilMap) /\ Answer("JSON.SET", k, <<>>, Ok)

JSONGET(k, path) ==
    LET v == GetAtPath(Root(k), path)
    IN  Read("JSON.GET", k, path, IF v = Missing THEN Error ELSE Value(v))

(* Mutant: an element of an array is cut out, its successors move up.      *)
WithoutShift(v, part) ==
    IF v.json = "object" THEN Object(Restrict(v.fields, DOMAIN v.fields \ {part}))
    ELSE Array(RemoveAt(v.items, Index[part] + 1))

(* The removal of a field, and of an element, in whose place stays a null. *)
Without(v, part) ==
    IF v.json = "object" THEN Object(Restrict(v.fields, DOMAIN v.fields \ {part}))
    ELSE Array([v.items EXCEPT ![Index[part] + 1] = Null])

JSONDEL(k, path) ==
    LET holder == GetAtPath(Root(k), Front(path))
        reply(r) == Answer("JSON.DEL", k, path, r)
    IN  \/ path = <<>> /\ store[k] # NoValue /\ Put(k, NoValue) /\ reply(Number(1))
        \/ /\ path # <<>>
           /\ holder.json = "object" \/ InArray(holder, Last(path))
           /\ Put(k, Encoded(Without(holder, Last(path))))
           /\ reply(Number(1))
        \/ /\ IF path = <<>> THEN store[k] = NoValue
              ELSE ~ (holder.json = "object" \/ InArray(holder, Last(path)))
           /\ Read("JSON.DEL", k, path, Error)

(* The way to the array leads through objects only.                        *)
ThroughObjects(v, path) ==
    \A i \in 0 .. Len(path) - 1 : GetAtPath(v, SubSeq(path, 1, i)).json = "object"

JSONARRAPPEND(k, path, items) ==
    LET holder == GetAtPath(Root(k), Front(path))
        old == GetAtPath(Root(k), path)
        can == path # <<>> /\ ThroughObjects(Root(k), path) /\ old.json = "array"
        new == With(holder.fields, Last(path), Array(old.items \o items))
    IN  \/ /\ can
           /\ Put(k, Encoded(Object(new)))
           /\ Answer("JSON.ARRAPPEND", k, <<path, items>>, Number(1))
        \/ ~ can /\ Read("JSON.ARRAPPEND", k, <<path, items>>, Error)

DocumentCommands ==
    \E k \in KeysOf("map") :
        \/ \E v \in Docs : JSONSET(k, v)
        \/ JSONSETInvalid(k)
        \/ \E path \in Paths : \/ JSONGET(k, path) \/ JSONDEL(k, path)
                               \/ \E v \in Leaves : JSONARRAPPEND(k, path, <<Leaf(v)>>)
        \/ Read("JSON.GET", k, <<>>, Error)
-----------------------------------------------------------------------------
(***************************************************************************)
(* JSON.DEL leaves of the object or array that held the element everything *)
(* else where it was, and of the element nothing; JSON.ARRAPPEND adds      *)
(* behind what was there (json.go:88-121, 245-254).  In both, what the     *)
(* answer reports as done is done, and a refusal changes nothing.  Two     *)
(* parts may name one element of an array, since Sscanf reads the number.  *)
(***************************************************************************)
EditsExact ==
    [][answer'.op \in {"JSON.DEL", "JSON.ARRAPPEND"} =>
          LET k == answer'.key
              path == IF answer'.op = "JSON.DEL" THEN answer'.arg ELSE answer'.arg[1]
              before(p) == GetAtPath(Root(k), Front(path) \o p)
              after(p) == GetAtPath(store'[k].of, p)
              last == <<Last(path)>>
              parts == DOMAIN Index \cup Names
              named == IF before(<<>>).json # "array" THEN {Last(path)}
                       ELSE {p \in DOMAIN Index : Index[p] = Index[Last(path)]}
          IN  IF answer'.reply # Number(1) THEN UNCHANGED store
              ELSE path # <<>> =>
                   /\ \A p \in parts \ named : after(<<p>>) = before(<<p>>)
                   /\ IF answer'.op = "JSON.DEL"
                      THEN after(last) \in {Missing, Null}
                      ELSE after(last) = Array(before(last).items \o answer'.arg[2])]_vars
=============================================================================
