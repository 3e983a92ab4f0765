----------------------------- MODULE MCTypedKeys -----------------------------
(***************************************************************************)
(* Two keys: k1 takes the values with much state, k2 those that commands   *)
(* on several keys combine.  What is below are values of constants.        *)
(***************************************************************************)
EXTENDS TypedKeys

CONSTANTS k1, k2, la, lb, x, y, c1, c2

MCKindsOf == (k1 :> {"set", "map", "stream", "series", "geo", "sketch", "vector",
                     "bytes"})
             @@ (k2 :> {"text", "set", "sketch", "vector", "bytes"})

(* Two spellings of the number 1.                                          *)
MCIndex == "0" :> 0 @@ "1" :> 1 @@ "01" :> 1

Inner(v) == Object("m" :> Leaf(v))

(* An object in an object, and an array with an object in it.              *)
MCDocs == {"n" :> Inner(x) @@ "m" :> Leaf(y), "n" :> Array(<<Leaf(x), Inner(y)>>)}

MCJson == UNION {{Leaf(v), Inner(v), Array(<<Leaf(x), Inner(v)>>)} : v \in {x, y}}

MCPaths == {<<>>, <<"n">>, <<"n", "m">>, <<"n", "0">>, <<"n", "01">>, <<"n", "1", "m">>}

MCWindows == {<<-1, 6>>, <<0, 5>>, <<2, 6>>}

MCHashOf == x :> [index |-> 0, rank |-> 1] @@ y :> [index |-> 0, rank |-> 2]

MCKilometres == [s \in {x, y} \X {x, y} |-> IF s[1] = s[2] THEN 0 ELSE 2]

MCCosine == [v \in {x, y} \X {x, y} |-> IF v[1] = v[2] THEN 0 ELSE 1]

MCBitFields == {<<"i8", 0>>, <<"i8", 1>>, <<"u16", 0>>, <<"u8", 0>>}

MCNumbers == {-2, 1, 9}

MCStrings == {<<la>>, <<la, lb>>}

MCPatterns == {{k1, k2}, {k1}, {}}

(* No definition tells the two consumers apart.                            *)
Symmetry == Permutations({c1, c2})

(* The names of the arrays do not matter, only which keys share one.       *)
View == <<[k \in Keys |-> IF Is(k, "bytes") THEN store[k].len ELSE store[k]],
          [k \in BytesIn(store) |-> memory[store[k].array]],
          {pair \in BytesIn(store) \X BytesIn(store) :
              store[pair[1]].array = store[pair[2]].array},
          joined>>

(* Bound of the model: while one key has a value with much state, the other*)
(* has none, unless both are bytes.                                        *)
OneAtATime ==
    LET types == {store[k].type : k \in {j \in Keys : store[j] # NoValue}}
    IN  \/ \E k \in Keys : store[k] = NoValue
        \/ types = {"bytes"}
        \/ /\ "bytes" \notin types
           /\ store[k1].type \in {"set", "sketch", "nil sketch", "vector"}
=============================================================================
