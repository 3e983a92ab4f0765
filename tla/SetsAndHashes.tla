---------------------------- MODULE SetsAndHashes ----------------------------
(***************************************************************************)
(* Sets (set.go) and hashes (hset.go).  A hash is a map[string]interface{},*)
(* and so is a JSON object: the commands of the one work on the other.  A  *)
(* map may be nil, which JSON.SET leaves behind; it reads as empty, and a  *)
(* write to it panics.                                                     *)
(***************************************************************************)
EXTENDS Values

CONSTANTS
    Members,        \* the members of sets
    Names,          \* the fields of hashes and of JSON objects
    Leaves          \* the strings and numbers in them

SetValue(s) == [type |-> "set", members |-> s]
MembersOf(k) == IF Is(k, "set") THEN store[k].members ELSE {}

(* It answers the size of the set, and panics on another type.             *)
SADD(k, ms) ==
    LET s == MembersOf(k) \cup ms
    IN  \/ /\ store[k] = NoValue \/ Is(k, "set")
           /\ Put(k, SetValue(s))
           /\ Answer("SADD", k, ms, Number(Cardinality(s)))
        \/ /\ store[k] # NoValue /\ ~ Is(k, "set")
           /\ Panic("SADD", k, ms)

(* The last member goes and the empty set stays.                           *)
SREM(k, ms) ==
    /\ Become(IF Is(k, "set") THEN [store EXCEPT ![k].members = @ \ ms] ELSE store)
    /\ Answer("SREM", k, ms, Number(Cardinality(MembersOf(k) \cap ms)))

SISMEMBER(k, m) == Read("SISMEMBER", k, m, Number(IF m \in MembersOf(k) THEN 1 ELSE 0))

SMEMBERS(k) == Read("SMEMBERS", k, <<>>, Value(MembersOf(k)))

(* The three below are methods of Tealis that no command calls.            *)
SUNION(ks) == Read("SUNION", ks[1], ks,
                   Value(FoldLeft(LAMBDA s, k : s \cup MembersOf(k), {}, ks)))

SINTER(ks) ==
    LET others == Tail(ks)
        common == FoldLeft(LAMBDA s, k : s \cap MembersOf(k), MembersOf(ks[1]), others)
    IN  Read("SINTER", ks[1], ks,
             Value(IF \A i \in DOMAIN ks : Is(ks[i], "set") THEN common ELSE {}))

SDIFF(ks) == Read("SDIFF", ks[1], ks,
                  Value(FoldLeft(LAMBDA s, k : s \ MembersOf(k), MembersOf(ks[1]), Tail(ks))))

(* The command with its arguments; too few are refused.                    *)
SetCommands ==
    \E k \in KeysOf("set") :
        \/ \E ms \in SUBSET Members \ {{}} : SADD(k, ms) \/ SREM(k, ms)
        \/ \E m \in Members : SISMEMBER(k, m)
        \/ SMEMBERS(k)
        \/ Read("SADD", k, {}, Error)

SetAlgebra == \E ks \in {<<j, k>> : j, k \in KeysOf("set")} :
                 SUNION(ks) \/ SINTER(ks) \/ SDIFF(ks)
-----------------------------------------------------------------------------
Leaf(v) == [json |-> "leaf", value |-> v]
Map(f) == [type |-> "map", fields |-> f]
NilMap == [type |-> "nil map"]
Fields(k) == IF Is(k, "map") THEN store[k].fields ELSE <<>>

(* A value of another type is replaced by a new hash.                      *)
SetFields(op, k, f, reply) ==
    \/ ~ Is(k, "nil map") /\ Put(k, Map(Over(f, Fields(k)))) /\ Answer(op, k, f, reply)
    \/ Is(k, "nil map") /\ Panic(op, k, f)

HSET(k, n, v) ==
    SetFields("HSET", k, [m \in {n} |-> Leaf(v)],
              Number(IF n \in DOMAIN Fields(k) THEN 0 ELSE 1))

HMSET(k, f) == SetFields("HMSET", k, f, Ok)

HGET(k, n) == Read("HGET", k, n,
                   IF n \in DOMAIN Fields(k) THEN Value(Fields(k)[n]) ELSE Nil)

HGETALL(k) == Read("HGETALL", k, <<>>,
                   IF Is(k, "map") \/ Is(k, "nil map") THEN Value(Fields(k)) ELSE Nil)

HEXISTS(k, n) == Read("HEXISTS", k, n, Number(IF n \in DOMAIN Fields(k) THEN 1 ELSE 0))

HDEL(k, n) ==
    /\ Answer("HDEL", k, n, Number(IF n \in DOMAIN Fields(k) THEN 1 ELSE 0))
    /\ Become(IF Is(k, "map")
              THEN [store EXCEPT ![k].fields = Restrict(@, DOMAIN @ \ {n})]
              ELSE store)

(* HMSET counts its arguments without the key: a field without a value is  *)
(* refused.                                                                *)
HashCommands ==
    \E k \in KeysOf("map") :
        \/ \E n \in Names : \/ \E v \in Leaves : HSET(k, n, v)
                            \/ HGET(k, n) \/ HEXISTS(k, n) \/ HDEL(k, n)
        \/ \E v \in Leaves : HMSET(k, [n \in Names |-> Leaf(v)])
        \/ HGETALL(k)
        \/ Read("HMSET", k, <<>>, Error)
=============================================================================
