------------------------------ MODULE Progress ------------------------------
(***************************************************************************)
(* What the detection of one work promises to the author of a signature,   *)
(* without bitmaps and without the loop.  Every alternative remembers how  *)
(* far it has come.  A call of the detector lets alternatives advance, one *)
(* item at a time and in order, and completes at most one alternative,     *)
(* which ends the call; the completed alternative starts again from        *)
(* nothing, and so do the patterns it needs.                               *)
(***************************************************************************)
EXTENDS Rules

VARIABLES
  reached,  \* [Alts -> the last item matched since the alternative began, or 0]
  shown,    \* the items whose pattern has occurred in the data
  matched   \* the item that completed an alternative in the current call, or 0

pvars == <<reached, shown, matched>>

PInit ==
  /\ reached = [a \in Alts |-> 0]
  /\ shown \in SUBSET Uncleared
  /\ matched = 0

Show(S) == shown' = shown \cup S /\ UNCHANGED <<reached, matched>>

Begin == matched' = 0 /\ UNCHANGED <<reached, shown>>

\* Item i is the next one its alternative waits for, and its pattern is there.
Due(i) ==
  /\ matched = 0
  /\ reached[AltOf[i]] = Prefix(i)
  /\ (i \in Clustered) <=> (i \in shown)

Advance(i) ==
  /\ Due(i)
  /\ Postfix(i) # 0
  /\ reached' = [reached EXCEPT ![AltOf[i]] = i]
  /\ UNCHANGED <<shown, matched>>

Finish(i) ==
  /\ Due(i)
  /\ Postfix(i) = 0
  /\ reached' = [reached EXCEPT ![AltOf[i]] = 0]
  /\ shown' = shown \ Chain(i)
  /\ matched' = i

PNext ==
  \/ \E S \in SUBSET Clustered : Show(S)
  \/ Begin
  \/ \E i \in Items : Advance(i) \/ Finish(i)

PSpec == PInit /\ [][PNext]_pvars
=============================================================================
