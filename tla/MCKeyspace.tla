----------------------------- MODULE MCKeyspace -----------------------------
(***************************************************************************)
(* Small instances of Keyspace.                                            *)
(***************************************************************************)
EXTENDS Keyspace, TLC

CONSTANTS k1, k2, c1, c2, w1, w2

AllProcs == Clients \cup Cleaners

Command(op, k, v, t) == [op |-> op, key |-> k, val |-> v, ttl |-> t]

(* Every operation on one key, with counters of one bit; the other key     *)
(* only expires, so that a round of the cleaner may find two keys.         *)
RoundCommands == {Command("SET", k1, 0, 0), Command("SET", k1, Text, 1),
                  Command("GET", k1, Text, 0), Command("DEL", k1, Text, 0),
                  Command("EXISTS", k1, Text, 0), Command("EX", k1, Text, 1),
                  Command("TTL", k1, Text, 0), Command("PERSIST", k1, Text, 0),
                  Command("APPEND", k1, Text, 0), Command("INCRBY", k1, -1, 0),
                  Command("DECRBY", k1, -1, 0), Command("SET", k2, Text, 1)}

(* For liveness: what sets a deadline, what reads it, and what writes.     *)
FewCommands == {Command("SET", k1, 1, 0), Command("SET", k1, Text, 1),
                Command("GET", k1, Text, 0), Command("INCRBY", k1, 1, 0)}

ClientSymmetry == Permutations(Clients)
=============================================================================
