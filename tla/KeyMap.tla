------------------------------- MODULE KeyMap -------------------------------
(***************************************************************************)
(* What a hash table of brokm promises its users: a partial function from  *)
(* keys to values.                                                         *)
(***************************************************************************)
CONSTANTS Key, Value

VARIABLE map

Init == map = [k \in {} |-> k]

Set(k, v) ==
    map' = [j \in DOMAIN map \cup {k} |-> IF j = k THEN v ELSE map[j]]

(* One key is deleted, or the collector drops several.                     *)
Remove(K) == map' = [j \in DOMAIN map \ K |-> map[j]]

Next ==
    \/ \E k \in Key, v \in Value : Set(k, v)
    \/ \E K \in SUBSET Key : Remove(K)

Spec == Init /\ [][Next]_map
=============================================================================
