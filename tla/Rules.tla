------------------------------- MODULE Rules -------------------------------
(***************************************************************************)
(* The signature data base as the run time sees it, after every signature  *)
(* file has been loaded and ey_load_post_action has built its tables       *)
(* (libengine/ey_signature.c, libengine/ey_engine.c, libengine/ey_bitmap.c)*)
(*                                                                         *)
(* A signature is a list of alternatives ("sub-signatures" joined by "|"), *)
(* an alternative is a list of rhs items.  Every rhs item has a number,    *)
(* rhs_id, given out by a counter in parsing order, so the items of one    *)
(* alternative have consecutive numbers.                                   *)
(***************************************************************************)
EXTENDS Integers

CONSTANTS
  RhsCount,     \* eng->rhs_id: the number of rhs items loaded
  Events,       \* the events of the engine
  AltOf,        \* the alternative an item belongs to, numbered in parsing order
  EventOf,      \* the event an item waits for
  Clustered,    \* items with a Pre-Condition, i.e. a preprocessor pattern
  Conditional,  \* items with a Condition callback
  Acting,       \* items with an Action callback
  ByteBits      \* bits in a byte of a bitmap (8 in the code)

Items == 1..RhsCount
Alts  == {AltOf[i] : i \in Items}

ASSUME RulesAssumption ==
  /\ RhsCount \in Nat \ {0}
  /\ ByteBits \in Nat \ {0}
  /\ AltOf \in [Items -> Nat \ {0}]
  /\ EventOf \in [Items -> Events]
  /\ Clustered \subseteq Items
  /\ Conditional \subseteq Items
  /\ Acting \subseteq Items

\* Parsing order: the alternatives do not interleave.
ASSUME ParsingOrder ==
  \A i, j \in Items : i <= j => AltOf[i] <= AltOf[j]

(***************************************************************************)
(* do_prefix_postfix: the item before and the item after i in its          *)
(* alternative, 0 where there is none.                                     *)
(***************************************************************************)
SameAlt(i, j) == i \in Items /\ j \in Items /\ AltOf[i] = AltOf[j]

Prefix(i)  == IF SameAlt(i - 1, i) THEN i - 1 ELSE 0
Postfix(i) == IF SameAlt(i, i + 1) THEN i + 1 ELSE 0

\* The item and its predecessors, as TAILQ_PREV walks them.
Chain(i) == {j \in Items : j <= i /\ AltOf[j] = AltOf[i]}

Final == {i \in Items : Postfix(i) = 0}

(***************************************************************************)
(* event->item_list holds the items of the event in parsing order, which   *)
(* is the order of their numbers.                                          *)
(***************************************************************************)
After(e, c)   == {j \in Items : EventOf[j] = e /\ j > c}
IsNext(e, c, i) == i \in After(e, c) /\ \A j \in After(e, c) : i <= j

(***************************************************************************)
(* ey_bitmap_create(eng, rhs_id) clears ceil(count / 8) bytes; the bits in *)
(* use are 1..count.  The bits it leaves as the buffer had them:           *)
(***************************************************************************)
NBytes(count) == (count + ByteBits - 1) \div ByteBits
ByteIndex(n)  == n \div ByteBits
Uncleared     == {n \in Items : ByteIndex(n) >= NBytes(RhsCount)}
=============================================================================
