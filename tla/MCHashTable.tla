---------------------------- MODULE MCHashTable ----------------------------
(* Small instances of HashTable: four keys, so that a table grows through    *)
(* 1, 2 and 4 slots and through capacities that are no power of two, under   *)
(* hash functions that make keys collide, wrap around, or share a slot only  *)
(* in the smaller of two tables.                                             *)
EXTENDS HashTable

CONSTANTS k0, k1, k2, k3, v0, v1

MCHashFuncs == {
  [k \in Keys |-> IF k \in {k0, k1} THEN 3 ELSE 2],            \* wrap-around
  [k \in Keys |-> IF k = k0 THEN 7 ELSE IF k = k1 THEN 3 ELSE IF k = k2 THEN 1 ELSE 0] }

=============================================================================
