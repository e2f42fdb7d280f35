------------------------------- MODULE MCLink -------------------------------
(***************************************************************************)
(* One event, two names for its functions and those of the works, so that  *)
(* registrations conflict; of the file init functions two are found by the *)
(* JIT, of every other pair of names one.  At most two of the five slots   *)
(* are used, which is what it takes for one function to stand in the way   *)
(* of another.                                                             *)
(***************************************************************************)
EXTENDS Link

TwoHooks == Cardinality({s \in Slots : hook[s] # NoCode}) <= 2
=============================================================================
