---------------------------- MODULE MCPersistence ----------------------------
(***************************************************************************)
(* Small instances of Persistence.                                         *)
(***************************************************************************)
EXTENDS Persistence, TLC

CONSTANTS a, b, bg, k1, k2, f1, f2, f3

ClientsAndSavers == Clients \cup Savers

(***************************************************************************)
(* Two writes, restores or rewrites of one client, and two commands of the *)
(* other one, the second of which is a rewrite: two rewrites of two keys   *)
(* can meet.  A client that deletes or saves does it first; the scheduler  *)
(* saves at any time.                                                      *)
(***************************************************************************)
TwoAndTwo ==
    [c \in Clients |-> [op \in Operations |->
        CASE \/ op = "REWRITE"
             \/ c = a /\ op \in {"WRITE", "RESTORE"} -> 2
          [] \/ c = a /\ op \in {"DEL", "SAVE"}
             \/ c = b /\ op = "WRITE" -> 1
          [] OTHER -> 0]]

(***************************************************************************)
(* A bound of this instance: in no behaviour are there a list, which SAVE  *)
(* changes, and a NaN, which it refuses.  A rewrite refuses either.        *)
(***************************************************************************)
ListsOrNaNs ==
    LET written == {m.entry.kind : m \in {l \in UNION {Range(files[i]) : i \in Inodes} :
                                              l # Hole /\ l.op = "WRITE"}}
    IN  ~ {"list", "nan"} \subseteq written

Symmetry == {f @@ g : f \in Permutations(Inodes), g \in Permutations(Keys)}
=============================================================================
