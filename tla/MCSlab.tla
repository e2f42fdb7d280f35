------------------------------- MODULE MCSlab -------------------------------
(***************************************************************************)
(* Pages, slots, larger blocks and threads are interchangeable.            *)
(*                                                                         *)
(* The constraint bounds the run: one thread reallocates at a time, with   *)
(* no more than a page and an item in use, while the others do what they   *)
(* like; and at most one block of exactly an item's size is out.           *)
(***************************************************************************)
EXTENDS Fslab, TLC

Symmetry ==
  Permutations(Pages) \cup Permutations(Slots) \cup Permutations(Chunks)
    \cup Permutations(Threads)

Reallocating == {t \in Threads : old[t] # NoItem}

OneAtATime ==
  /\ Cardinality(Reallocating) <= 1
  /\ Reallocating # {} => Cardinality(Hands) <= PerPage + 1
  /\ Cardinality({b \in Blocks : size[b] = ItemSize}) <= 1
=============================================================================
