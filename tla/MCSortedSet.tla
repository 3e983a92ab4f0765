----------------------------- MODULE MCSortedSet -----------------------------
(***************************************************************************)
(* Small instances of SortedSet: numbers for the members and the scores.   *)
(***************************************************************************)
EXTENDS SortedSet

Two == 1..2
Three == 1..3

(* Addresses are arbitrary: states are told apart by the nodes that each   *)
(* level lists.                                                            *)
Shape == <<held, level, length,
           [i \in Levels |-> [j \in DOMAIN Chain(i) |->
              LET n == nodes[Chain(i)[j]]
              IN <<n.key, n.score, Len(n.forward)>>]]>>
=============================================================================
