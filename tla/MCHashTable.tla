---------------------------- MODULE MCHashTable ----------------------------
(***************************************************************************)
(* Two values with the same key, one with another key in the same line, one*)
(* in another line, so that two threads can be inside at once; the table is*)
(* full with one value.                                                    *)
(***************************************************************************)
EXTENDS HashTable, TLC

CONSTANTS v1, v2, v3, v4, k1, k2, k3

MCKeyOf   == (v1 :> k1) @@ (v2 :> k1) @@ (v3 :> k2) @@ (v4 :> k3)
MCLineOf  == (k1 :> 1) @@ (k2 :> 1) @@ (k3 :> 2)
MCFilters == {{v1, v2, v4}, {v3}}

Symmetry == Permutations(Entries) \cup Permutations(Threads) \cup Permutations({v1, v2})
=============================================================================
