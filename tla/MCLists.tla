------------------------------- MODULE MCLists -------------------------------
(***************************************************************************)
(* Small instances of Lists: single elements and pairs are pushed.         *)
(***************************************************************************)
EXTENDS Lists, TLC

CONSTANTS a, b, m1, m2, m3, x, y

OneAndPair == {<<x>>, <<y, x>>}

MemorySymmetry == Permutations(Arrays)
=============================================================================
