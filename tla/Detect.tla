------------------------------- MODULE Detect -------------------------------
(***************************************************************************)
(* Event detection in one work (libengine/ey_runtime.c): the state bitmap  *)
(* that remembers which rhs items have matched so far, the preprocessor    *)
(* bitmap that remembers which patterns the raw data has shown, and the    *)
(* loop of do_bottom_half_detect over the items of an event.               *)
(*                                                                         *)
(* A work is driven by one thread, so the loop runs from beginning to end  *)
(* without another call on the same work; each iteration is a step here.   *)
(* Conditions and actions are code of the signature files: they may return *)
(* anything, and a preprocessor or an action may set the verdict to DROP.  *)
(***************************************************************************)
EXTENDS Rules

VARIABLES
  state,    \* state_bitmap: the set of item numbers whose bit is set
  pp,       \* preprocessor_bitmap, likewise
  phase,    \* "idle" between calls, "scan" inside do_bottom_half_detect
  event,    \* the event under detection
  cursor,   \* the last item of event->item_list the loop has looked at
  found,    \* the item that ended the loop at find_something, 0 if none
  action,   \* work_event->action->action
  ret       \* what ey_runtime_detect_event last returned

vars == <<state, pp, phase, event, cursor, found, action, ret>>

(***************************************************************************)
(* The bitmaps as ey_runtime_create leaves them.                           *)
(***************************************************************************)
Init ==
  /\ state \in SUBSET Uncleared
  /\ pp \in SUBSET Uncleared
  /\ phase = "idle"
  /\ event \in Events
  /\ cursor = 0
  /\ found = 0
  /\ action = "pass"
  /\ ret = 0

(***************************************************************************)
(* ey_engine_work_detect_data: the pattern search over raw data sets the   *)
(* bit of every item whose pattern occurs.  Decoders feed the data before  *)
(* they parse it, hence before the events of that data.                    *)
(***************************************************************************)
Search(S) ==
  /\ phase = "idle"
  /\ S # {}
  /\ pp' = pp \cup S
  /\ UNCHANGED <<state, phase, event, cursor, found, action, ret>>

\* ey_runtime_detect_event up to the loop; the preprocessors returned zero.
DetectEvent(e, a) ==
  /\ phase = "idle"
  /\ phase' = "scan"
  /\ event' = e
  /\ cursor' = 0
  /\ found' = 0
  /\ action' = a
  /\ UNCHANGED <<state, pp, ret>>

\* A preprocessor returned non-zero: no item is looked at, the call returns 0.
PreprocessorFails(e, a) ==
  /\ phase = "idle"
  /\ event' = e
  /\ cursor' = 0
  /\ found' = 0
  /\ action' = a
  /\ ret' = 0
  /\ UNCHANGED <<state, pp, phase>>

-----------------------------------------------------------------------------
(* One iteration of the loop, for item i.                                  *)

\* Mutant: the list of the event is not walked from its head.
CurrentAnywhere(i) == phase = "scan" /\ found = 0 /\ i \in After(event, cursor)
Current(i) == phase = "scan" /\ found = 0 /\ IsNext(event, cursor, i)

\* Mutant: "continue" in a loop that does not advance.
SkipInPlace(i) == UNCHANGED <<cursor, state, pp, phase, event, found, ret>>
Skip(i) == cursor' = i /\ UNCHANGED <<state, pp, phase, event, found, ret>>

PreConditionHolds(i) == (i \in Clustered) <=> (i \in pp)

\* Mutant: an item does not wait for the one before it.
PrefixUnchecked(i) == i \in Items
PrefixHolds(i) == Prefix(i) = 0 \/ Prefix(i) \in state

SkipPreCondition(i) ==
  /\ Current(i)
  /\ ~PreConditionHolds(i)
  /\ Skip(i)
  /\ UNCHANGED action

SkipPrefix(i) ==
  /\ Current(i)
  /\ PreConditionHolds(i)
  /\ ~PrefixHolds(i)
  /\ Skip(i)
  /\ UNCHANGED action

SkipCondition(i) ==
  /\ Current(i)
  /\ PreConditionHolds(i) /\ PrefixHolds(i)
  /\ i \in Conditional
  /\ Skip(i)
  /\ UNCHANGED action

\* The verdict after the action callback of i, if it has one.
ActionRuns(i) ==
  IF i \in Acting THEN action' \in {action, "drop"} ELSE action' = action

SkipAction(i) ==
  /\ Current(i)
  /\ PreConditionHolds(i) /\ PrefixHolds(i)
  /\ i \in Acting
  /\ ActionRuns(i)
  /\ Skip(i)

\* The item matches and its alternative goes on: remember it, look further.
Remember(i) ==
  /\ Current(i)
  /\ PreConditionHolds(i) /\ PrefixHolds(i)
  /\ Postfix(i) # 0
  /\ ActionRuns(i)
  /\ state' = state \cup {i}
  /\ cursor' = i
  /\ UNCHANGED <<pp, phase, event, found, ret>>

\* Mutants: the pattern bits of the whole alternative are cleared, its state
\* bits are not; and the loop goes on after a complete match.
CompleteKeepsState(i) ==
  /\ Current(i)
  /\ PreConditionHolds(i) /\ PrefixHolds(i)
  /\ Postfix(i) = 0
  /\ ActionRuns(i)
  /\ state' = state
  /\ pp' = pp \ Chain(i)
  /\ cursor' = i
  /\ found' = i
  /\ UNCHANGED <<phase, event, ret>>

CompleteGoesOn(i) ==
  /\ Current(i)
  /\ PreConditionHolds(i) /\ PrefixHolds(i)
  /\ Postfix(i) = 0
  /\ ActionRuns(i)
  /\ state' = (state \cup {i}) \ Chain(i)
  /\ pp' = pp \ Chain(i)
  /\ cursor' = i
  /\ UNCHANGED <<phase, event, found, ret>>

\* The last item of an alternative matches: forget the alternative and stop.
Complete(i) ==
  /\ Current(i)
  /\ PreConditionHolds(i) /\ PrefixHolds(i)
  /\ Postfix(i) = 0
  /\ ActionRuns(i)
  /\ state' = (state \cup {i}) \ Chain(i)
  /\ pp' = pp \ Chain(i)
  /\ cursor' = i
  /\ found' = i
  /\ UNCHANGED <<phase, event, ret>>

\* The loop is over: do_bottom_half_detect and ey_runtime_detect_event return.
Return ==
  /\ phase = "scan"
  /\ found # 0 \/ After(event, cursor) = {}
  /\ phase' = "idle"
  /\ ret' = IF action = "pass" THEN 0 ELSE -1
  /\ UNCHANGED <<state, pp, event, cursor, found, action>>

Iterate ==
  \E i \in Items :
    \/ SkipPreCondition(i) \/ SkipPrefix(i) \/ SkipCondition(i)
    \/ SkipAction(i) \/ Remember(i) \/ Complete(i)

Call ==
  \/ \E S \in SUBSET Clustered : Search(S)
  \/ \E e \in Events, a \in {"pass", "drop"} :
       DetectEvent(e, a) \/ PreprocessorFails(e, a)

Next == Call \/ Iterate \/ Return

(***************************************************************************)
(* Once called, the loop runs until it returns; nothing obliges a decoder  *)
(* to call.                                                                *)
(***************************************************************************)
Spec == Init /\ [][Next]_vars /\ WF_vars(Iterate \/ Return)

-----------------------------------------------------------------------------
(* Every variable has its type: ey_runtime.c keeps a bit per rhs item.     *)
TypeOK ==
  /\ state \subseteq Items
  /\ pp \subseteq Items
  /\ phase \in {"idle", "scan"}
  /\ event \in Events
  /\ cursor \in Items \cup {0}
  /\ found \in Items \cup {0}
  /\ action \in {"pass", "drop"}
  /\ ret \in {0, -1}

(***************************************************************************)
(* An alternative is remembered from its beginning: a set bit of an item   *)
(* that is not the last one has the bits of all items before it set, and   *)
(* the bit of a last item is never left behind (do_bottom_half_detect sets *)
(* it and clears it again), except as ey_bitmap_create may have left it.   *)
(***************************************************************************)
RememberedInOrder ==
  /\ \A i \in state \ Final : Chain(i) \subseteq state
  /\ state \cap Final \subseteq Uncleared

(***************************************************************************)
(* The two bitmaps agree: a remembered item with a Pre-Condition keeps the *)
(* bit of its pattern, and a remembered item without one has none, until   *)
(* the alternative completes; so an item that matched once can match again.*)
(***************************************************************************)
BitmapsAgree ==
  \A i \in state \ Final : (i \in Clustered) <=> (i \in pp)

(***************************************************************************)
(* The alternative loaded first wins: when the loop stops at item i, no    *)
(* last item of the same event that stands earlier and asks neither a      *)
(* Condition nor an Action could have matched in this call.                *)
(***************************************************************************)
FirstMatchWins ==
  [][\A i \in Final : (found = 0 /\ found' = i) =>
       \A j \in Final \ (Conditional \cup Acting) :
         (j < i /\ EventOf[j] = event) =>
            ~(PreConditionHolds(j) /\ PrefixHolds(j))]_vars

(***************************************************************************)
(* The bitmaps implement the progress of alternatives: the last item that  *)
(* an alternative remembers is how far it has come.                        *)
(***************************************************************************)
Remembered(a) == {i \in state \ Final : AltOf[i] = a}
Highest(S) == IF S = {} THEN 0 ELSE CHOOSE i \in S : \A j \in S : j <= i
Reached(a) == Highest(Remembered(a))

P == INSTANCE Progress WITH
       reached <- [a \in Alts |-> Reached(a)],
       shown   <- pp,
       matched <- found

\* The detector keeps the promise of module Progress.
Implements == P!PSpec

\* A call of the detector comes to its end (do_bottom_half_detect).
DetectReturns == (phase = "scan") ~> (phase = "idle")
=============================================================================
