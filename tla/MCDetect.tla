------------------------------ MODULE MCDetect ------------------------------
(***************************************************************************)
(* A data base of four alternatives over two events.  The first has three  *)
(* items, two of them on the same event, so that one occurrence can carry  *)
(* it two items forward; two end on event "e2" after it, so that they      *)
(* compete to complete; patterns, Conditions and Actions are spread over   *)
(* first, middle and last items.                                           *)
(***************************************************************************)
EXTENDS Detect

MCAltOf   == <<1, 1, 1, 2, 2, 3, 4>>
MCEventOf == <<"e1", "e1", "e2", "e1", "e2", "e1", "e2">>
=============================================================================
