---------------------------- MODULE Collections ----------------------------
(***************************************************************************)
(* The maps of near_sdk::collections (LookupMap, UnorderedMap) as the      *)
(* contract uses them, and the HashMaps of the peer lists: partial         *)
(* functions that are extended by insert and shrunk by remove.             *)
(***************************************************************************)
EXTENDS Integers, Functions

EmptyMap == [x \in {} |-> x]

\* insert adds the key or replaces its value.
insert(map, key, value) ==
    [k \in DOMAIN map \cup {key} |-> IF k = key THEN value ELSE map[k]]

\* remove of an absent key leaves the map as it is.
remove(map, key) == Restrict(map, DOMAIN map \ {key})

\* A map with keys in K and values in V.
IsMap(map, K, V) == DOMAIN map \subseteq K /\ map \in [DOMAIN map -> V]
=============================================================================
