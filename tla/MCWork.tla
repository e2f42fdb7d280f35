------------------------------- MODULE MCWork -------------------------------
(***************************************************************************)
(* Two works and the four buffers they need.  The last two items loaded    *)
(* form one alternative, so that there is an item to remember, and the     *)
(* last one has a pattern; the items before them only count.               *)
(***************************************************************************)
EXTENDS Work

MCAltOf   == [i \in Items |-> IF i = RhsCount THEN RhsCount - 1 ELSE i]
MCEventOf == [i \in Items |-> "e"]

\* Buffers whose memory holds no bit at first: a bit that a new work finds set
\* was then set by a work that had the buffer before it.
ClearInit == Init /\ mem = [b \in Buffers |-> {}]
ClearSpec == ClearInit /\ [][Next]_vars
=============================================================================
