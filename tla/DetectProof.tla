---------------------------- MODULE DetectProof ----------------------------
(***************************************************************************)
(* Proofs about modules Rules and Detect, for every data base of           *)
(* signatures: facts about its tables, the inductive invariant, and that   *)
(* the bitmaps implement module Progress; and about modules Acsm and       *)
(* Preprocessor, for every set of patterns: what the compiled search is,   *)
(* that it follows the data, and that its detector is that of Detect.      *)
(***************************************************************************)
EXTENDS Preprocessor, SequenceTheorems, FiniteSetTheorems, WellFoundedInduction, TLAPS

-----------------------------------------------------------------------------
(***************************************************************************)
(* Facts about the tables of module Rules, for every data base.            *)
(***************************************************************************)

\* Integer division rounds down.
LEMMA DivBounds ==
  ASSUME NEW a \in Nat, NEW b \in Nat \ {0}
  PROVE  /\ a \div b \in Nat
         /\ (a \div b) * b <= a
         /\ a < (a \div b) * b + b
  BY SMT

LEMMA MulMono ==
  ASSUME NEW x \in Nat, NEW y \in Nat, NEW b \in Nat \ {0}, x >= y
  PROVE  x * b >= y * b
  BY SMT

\* ey_bitmap_create clears the bits of all items but, at most, the last one.
LEMMA UnclearedIsLast == Uncleared \subseteq {RhsCount}
<1> SUFFICES ASSUME NEW n \in Items, ByteIndex(n) >= NBytes(RhsCount)
             PROVE  n = RhsCount
  BY DEF Uncleared
<1> DEFINE q == n \div ByteBits
           m == RhsCount + ByteBits - 1
           c == m \div ByteBits
<1>1. n \in Nat /\ n <= RhsCount /\ ByteBits \in Nat \ {0} /\ m \in Nat /\ RhsCount \in Nat
  BY RulesAssumption DEF Items
<1>2. q \in Nat /\ q * ByteBits <= n
  BY <1>1, DivBounds
<1>3. c \in Nat /\ m < c * ByteBits + ByteBits
  BY <1>1, DivBounds
<1>4. q >= c
  BY DEF ByteIndex, NBytes
<1>5. q * ByteBits >= c * ByteBits
  <2> HIDE DEF q, c, m
  <2> QED BY <1>1, <1>2, <1>3, <1>4, MulMono
<1>6. q * ByteBits \in Nat /\ c * ByteBits \in Nat
  <2> HIDE DEF q, c, m
  <2> QED BY <1>1, <1>2, <1>3
<1>7. RhsCount <= c * ByteBits
  <2> HIDE DEF q, c
  <2> QED BY <1>1, <1>3, <1>6
<1> QED
  <2> HIDE DEF q, c, m
  <2> QED BY <1>1, <1>2, <1>5, <1>6, <1>7

\* An item before i in the alternative of i is the start of a chain of i.
LEMMA ChainOfPrefix ==
  ASSUME NEW i \in Items, Prefix(i) # 0
  PROVE  /\ Prefix(i) \in Items /\ Prefix(i) = i - 1
         /\ AltOf[Prefix(i)] = AltOf[i]
         /\ Prefix(i) \notin Final
         /\ Chain(i) = Chain(Prefix(i)) \cup {i}
<1>1. Prefix(i) = i - 1 /\ i - 1 \in Items /\ AltOf[i - 1] = AltOf[i]
  BY DEF Prefix, SameAlt
<1>2. i \in Nat /\ i # 0
  BY DEF Items
<1>3. Postfix(i - 1) = i
  BY <1>1, <1>2 DEF Postfix, SameAlt
<1>4. Chain(i) = Chain(i - 1) \cup {i}
  BY <1>1, <1>2, RulesAssumption DEF Chain, Items
<1> QED BY <1>1, <1>2, <1>3, <1>4 DEF Final

\* The first item of an alternative is a chain by itself.
LEMMA ChainOfFirst ==
  ASSUME NEW i \in Items, Prefix(i) = 0
  PROVE  Chain(i) = {i}
<1>1. i \in Nat /\ i # 0
  BY DEF Items
<1>2. \A j \in Items : j < i => AltOf[j] # AltOf[i]
  <2> SUFFICES ASSUME NEW j \in Items, j < i, AltOf[j] = AltOf[i]
               PROVE  FALSE
    OBVIOUS
  <2>1. i - 1 \in Items /\ i - 1 # 0 /\ j <= i - 1 /\ i - 1 <= i
    BY RulesAssumption DEF Items
  <2>2. AltOf[i - 1] = AltOf[i]
    BY <2>1, ParsingOrder, RulesAssumption DEF Items
  <2> QED BY <1>1, <2>1, <2>2 DEF Prefix, SameAlt
<1> QED BY <1>1, <1>2 DEF Chain, Items

\* An item that is not the last has a later one next to it.
LEMMA FinalIsTop ==
  ASSUME NEW i \in Final, NEW j \in Items, AltOf[j] = AltOf[i]
  PROVE  j <= i
<1>1. i \in Items /\ i \in Nat /\ j \in Nat /\ Postfix(i) = 0
  BY RulesAssumption DEF Final, Items
<1> SUFFICES ASSUME j > i PROVE FALSE
  BY <1>1
<1>2. i + 1 \in Items /\ i <= i + 1 /\ i + 1 <= j
  BY <1>1, RulesAssumption DEF Items
<1>3. AltOf[i + 1] = AltOf[i]
  BY <1>1, <1>2, ParsingOrder, RulesAssumption DEF Items
<1> QED BY <1>1, <1>2, <1>3 DEF Postfix, SameAlt

\* The last item loaded ends its alternative.
LEMMA LastIsFinal == RhsCount \in Final
  BY RulesAssumption DEF Final, Postfix, SameAlt, Items
-----------------------------------------------------------------------------
(***************************************************************************)
(* Proofs about module Detect, for every data base of signatures.          *)
(*                                                                         *)
(* Inv is inductive: the bits of remembered items are closed downwards in  *)
(* their alternative, so a match at the next item keeps them closed, and   *)
(* completion clears a whole alternative because its last item is above    *)
(* every other.                                                            *)
(***************************************************************************)

Inv == TypeOK /\ RememberedInOrder /\ BitmapsAgree

LEMMA UnclearedFinal == Uncleared \subseteq Final /\ Uncleared \subseteq Items
  BY UnclearedIsLast, LastIsFinal DEF Final

LEMMA InitInv == Init => Inv
<1> SUFFICES ASSUME Init PROVE Inv
  OBVIOUS
<1>1. state \subseteq Final /\ pp \subseteq Items /\ state \subseteq Items
  BY UnclearedFinal DEF Init
<1>2. TypeOK
  BY <1>1 DEF Init, TypeOK
<1>3. RememberedInOrder /\ BitmapsAgree
  BY <1>1 DEF Init, RememberedInOrder, BitmapsAgree
<1> QED BY <1>2, <1>3 DEF Inv

\* A step of the loop that passes over an item changes neither bitmap.
LEMMA SkipInv ==
  ASSUME Inv, NEW i \in Items,
         SkipPreCondition(i) \/ SkipPrefix(i) \/ SkipCondition(i) \/ SkipAction(i)
  PROVE  Inv'
<1>1. /\ UNCHANGED <<state, pp, phase, event, found, ret>>
      /\ cursor' = i
      /\ action' \in {action, "drop"}
  BY DEF SkipPreCondition, SkipPrefix, SkipCondition, SkipAction, ActionRuns, Skip
<1>2. TypeOK'
  BY <1>1 DEF Inv, TypeOK
<1>3. RememberedInOrder' /\ BitmapsAgree'
  BY <1>1 DEF Inv, RememberedInOrder, BitmapsAgree
<1> QED BY <1>2, <1>3 DEF Inv

LEMMA RememberInv ==
  ASSUME Inv, NEW i \in Items, Remember(i)
  PROVE  Inv'
<1>1. /\ state' = state \cup {i} /\ cursor' = i
      /\ action' \in {action, "drop"}
      /\ UNCHANGED <<pp, phase, event, found, ret>>
      /\ i \notin Final
      /\ PreConditionHolds(i) /\ PrefixHolds(i)
  BY DEF Remember, ActionRuns, Final
<1>2. TypeOK'
  BY <1>1 DEF Inv, TypeOK
<1>3. Chain(i) \subseteq state'
  <2>1. CASE Prefix(i) = 0
    BY <1>1, <2>1, ChainOfFirst
  <2>2. CASE Prefix(i) # 0
    <3>1. Prefix(i) \in state \ Final
      BY <1>1, <2>2, ChainOfPrefix DEF PrefixHolds
    <3>2. Chain(Prefix(i)) \subseteq state
      BY <3>1 DEF Inv, RememberedInOrder
    <3> QED BY <1>1, <2>2, <3>2, ChainOfPrefix
  <2> QED BY <2>1, <2>2
<1>4. RememberedInOrder'
  BY <1>1, <1>3 DEF Inv, RememberedInOrder
<1>5. BitmapsAgree'
  BY <1>1 DEF Inv, BitmapsAgree, PreConditionHolds
<1> QED BY <1>2, <1>4, <1>5 DEF Inv

LEMMA CompleteInv ==
  ASSUME Inv, NEW i \in Items, Complete(i)
  PROVE  Inv'
<1>1. /\ state' = (state \cup {i}) \ Chain(i) /\ pp' = pp \ Chain(i)
      /\ cursor' = i /\ found' = i
      /\ action' \in {action, "drop"}
      /\ UNCHANGED <<phase, event, ret>>
      /\ i \in Final
  BY DEF Complete, ActionRuns, Final
<1>2. TypeOK'
  BY <1>1 DEF Inv, TypeOK
<1>3. i \in Chain(i)
  BY DEF Chain, Items
<1>4. \A j \in Items : j \notin Chain(i) => AltOf[j] # AltOf[i]
  BY <1>1, FinalIsTop DEF Chain
<1>5. \A j \in Items : j \notin Chain(i) => Chain(j) \cap Chain(i) = {}
  BY <1>4 DEF Chain
<1>6. RememberedInOrder'
  BY <1>1, <1>3, <1>5 DEF Inv, TypeOK, RememberedInOrder
<1>7. BitmapsAgree'
  BY <1>1, <1>3 DEF Inv, BitmapsAgree
<1> QED BY <1>2, <1>6, <1>7 DEF Inv

\* A pattern found in the data may concern a remembered item: its bit was set.
LEMMA SearchInv ==
  ASSUME Inv, NEW S \in SUBSET Clustered, Search(S)
  PROVE  Inv'
<1>1. pp' = pp \cup S /\ UNCHANGED <<state, phase, event, cursor, found, action, ret>>
  BY DEF Search
<1>2. TypeOK'
  BY <1>1, RulesAssumption DEF Inv, TypeOK
<1>3. RememberedInOrder' /\ BitmapsAgree'
  BY <1>1 DEF Inv, RememberedInOrder, BitmapsAgree
<1> QED BY <1>2, <1>3 DEF Inv

LEMMA CallInv ==
  ASSUME Inv, NEW e \in Events, NEW a \in {"pass", "drop"},
         DetectEvent(e, a) \/ PreprocessorFails(e, a)
  PROVE  Inv'
<1>1. UNCHANGED <<state, pp>> /\ cursor' = 0 /\ found' = 0 /\ event' = e /\ action' = a
      /\ phase' \in {"idle", "scan"} /\ ret' \in {ret, 0}
  BY DEF DetectEvent, PreprocessorFails, Inv, TypeOK
<1>2. TypeOK'
  BY <1>1 DEF Inv, TypeOK
<1>3. RememberedInOrder' /\ BitmapsAgree'
  BY <1>1 DEF Inv, RememberedInOrder, BitmapsAgree
<1> QED BY <1>2, <1>3 DEF Inv

LEMMA ReturnInv == Inv /\ Return => Inv'
  BY DEF Return, Inv, TypeOK, RememberedInOrder, BitmapsAgree

LEMMA NextInv == Inv /\ [Next]_vars => Inv'
<1> SUFFICES ASSUME Inv, [Next]_vars PROVE Inv'
  OBVIOUS
<1>1. CASE Call
  BY <1>1, SearchInv, CallInv DEF Call
<1>2. CASE Iterate
  BY <1>2, SkipInv, RememberInv, CompleteInv DEF Iterate
<1>3. CASE Return
  BY <1>3, ReturnInv
<1>4. CASE UNCHANGED vars
  BY <1>4 DEF vars, Inv, TypeOK, RememberedInOrder, BitmapsAgree
<1> QED BY <1>1, <1>2, <1>3, <1>4 DEF Next

\* Detection without fairness: what is proved here follows from it.
Steps == Init /\ [][Next]_vars

LEMMA Invariance == Steps => []Inv
  BY InitInv, NextInv, PTL DEF Steps

LEMMA SpecSteps == Spec => Steps
  BY PTL DEF Spec, Steps

(***************************************************************************)
(* Every variable of the detector keeps its type.                          *)
(***************************************************************************)
THEOREM TypeCorrect == Spec => []TypeOK
<1>1. Inv => TypeOK
  BY DEF Inv
<1> QED BY <1>1, Invariance, SpecSteps, PTL

(***************************************************************************)
(* For every data base, a work remembers its alternatives from their       *)
(* beginning, and never a last item: what do_bottom_half_detect relies on  *)
(* when it checks only the item just before.                               *)
(***************************************************************************)
THEOREM AlwaysInOrder == Spec => []RememberedInOrder
<1>1. Inv => RememberedInOrder
  BY DEF Inv
<1> QED BY <1>1, Invariance, SpecSteps, PTL

(***************************************************************************)
(* For every data base, the state bitmap and the preprocessor bitmap agree *)
(* about every remembered item.                                            *)
(***************************************************************************)
THEOREM AlwaysAgree == Spec => []BitmapsAgree
<1>1. Inv => BitmapsAgree
  BY DEF Inv
<1> QED BY <1>1, Invariance, SpecSteps, PTL

-----------------------------------------------------------------------------
(* The order of the loop.                                                  *)

\* Could match whatever the callbacks of the signature files return.
Ready(j) == PreConditionHolds(j) /\ PrefixHolds(j)

\* The last items without callbacks that the running loop has passed over
\* could not have matched; this is what FirstMatchWins needs to remember.
PassedOver ==
  (phase = "scan" /\ found = 0) =>
     \A j \in Final \ (Conditional \cup Acting) :
        (EventOf[j] = event /\ j <= cursor) => ~Ready(j)

LEMMA PassedOneMore ==
  ASSUME TypeOK, NEW i \in Items, Current(i), NEW j \in Items,
         EventOf[j] = event, j <= i
  PROVE  j <= cursor \/ j = i
  BY DEF TypeOK, Current, IsNext, After, Items

LEMMA PassedInv == Inv /\ PassedOver /\ [Next]_vars => PassedOver'
<1> SUFFICES ASSUME Inv, PassedOver, [Next]_vars PROVE PassedOver'
  OBVIOUS
<1>1. CASE Call
  <2>1. ASSUME NEW S \in SUBSET Clustered, Search(S) PROVE PassedOver'
    BY <2>1 DEF Search, PassedOver
  <2>2. ASSUME NEW e \in Events, NEW a \in {"pass", "drop"},
               DetectEvent(e, a) \/ PreprocessorFails(e, a)
        PROVE  PassedOver'
    <3>1. cursor' = 0
      BY <2>2 DEF DetectEvent, PreprocessorFails
    <3>2. \A j \in Final : ~(j <= 0)
      BY DEF Final, Items
    <3> QED BY <3>1, <3>2 DEF PassedOver
  <2> QED BY <1>1, <2>1, <2>2 DEF Call
<1>2. ASSUME NEW i \in Items,
             SkipPreCondition(i) \/ SkipPrefix(i) \/ SkipCondition(i) \/ SkipAction(i)
      PROVE  PassedOver'
  <2>1. /\ UNCHANGED <<state, pp, phase, event, found>> /\ cursor' = i
        /\ Current(i)
    BY <1>2 DEF SkipPreCondition, SkipPrefix, SkipCondition, SkipAction, Skip
  <2>2. i \in Conditional \cup Acting \/ ~Ready(i)
    BY <1>2 DEF SkipPreCondition, SkipPrefix, SkipCondition, SkipAction, Ready
  <2> SUFFICES ASSUME NEW j \in Final \ (Conditional \cup Acting),
                      EventOf[j] = event, j <= i
               PROVE  ~Ready(j)
    BY <2>1 DEF PassedOver, Ready, PreConditionHolds, PrefixHolds
  <2>3. j <= cursor \/ j = i
    BY <2>1, PassedOneMore DEF Inv, Final
  <2> QED BY <2>1, <2>2, <2>3 DEF PassedOver, Current
<1>3. ASSUME NEW i \in Items, Remember(i) PROVE PassedOver'
  <2>1. /\ state' = state \cup {i} /\ cursor' = i
        /\ UNCHANGED <<pp, phase, event, found>>
        /\ Current(i) /\ i \notin Final
    BY <1>3 DEF Remember, Final
  <2> SUFFICES ASSUME NEW j \in Final \ (Conditional \cup Acting),
                      EventOf[j] = event, j <= i
               PROVE  ~Ready(j)'
    BY <2>1 DEF PassedOver
  <2>2. j \in Items /\ j < i /\ j <= cursor
    BY <2>1, PassedOneMore DEF Inv, Final, Items
  <2>3. ~Ready(j)
    BY <2>1, <2>2 DEF PassedOver, Current
  <2>4. Prefix(j) # i
    BY <2>2 DEF Prefix, Items
  <2> QED BY <2>1, <2>3, <2>4 DEF Ready, PreConditionHolds, PrefixHolds
<1>4. ASSUME NEW i \in Items, Complete(i) PROVE PassedOver'
  <2>1. found' # 0
    BY <1>4 DEF Complete, Items
  <2> QED BY <2>1 DEF PassedOver
<1>5. CASE Return
  BY <1>5 DEF Return, PassedOver
<1>6. CASE UNCHANGED vars
  BY <1>6 DEF vars, PassedOver, Ready, PreConditionHolds, PrefixHolds
<1> QED BY <1>1, <1>2, <1>3, <1>4, <1>5, <1>6 DEF Next, Iterate

LEMMA StepsWin == Steps => FirstMatchWins
<1> DEFINE Wins(i) ==
      (found = 0 /\ found' = i) =>
         \A j \in Final \ (Conditional \cup Acting) :
            (j < i /\ EventOf[j] = event) => ~(PreConditionHolds(j) /\ PrefixHolds(j))
<1>1. Init => PassedOver
  BY DEF Init, PassedOver
<1>2. Inv /\ PassedOver /\ [Next]_vars => [\A i \in Final : Wins(i)]_vars
  <2> SUFFICES ASSUME Inv, PassedOver, Next, NEW i \in Final, found = 0, found' = i,
                      NEW j \in Final \ (Conditional \cup Acting), j < i, EventOf[j] = event
               PROVE  ~Ready(j)
    BY DEF Ready
  <2>1. i \in Items /\ i # 0
    BY DEF Final, Items
  <2>2. Complete(i)
    <3>1. \A k \in Items : Complete(k) => found' = k
      BY DEF Complete
    <3> QED BY <2>1, <3>1 DEF Next, Call, Iterate, Search, DetectEvent, PreprocessorFails,
               SkipPreCondition, SkipPrefix, SkipCondition, SkipAction, Skip, Remember, Return
  <2>3. Current(i)
    BY <2>2 DEF Complete
  <2>4. j <= cursor \/ j = i
    BY <2>1, <2>3, PassedOneMore DEF Inv, Final, Items
  <2>5. j # i
    BY DEF Final, Items
  <2> QED BY <2>3, <2>4, <2>5 DEF PassedOver, Current
<1>3. [](Inv /\ PassedOver) /\ [][Next]_vars => [][\A i \in Final : Wins(i)]_vars
  BY <1>2, PTL
<1>4. Steps => [](Inv /\ PassedOver)
  BY <1>1, InitInv, NextInv, PassedInv, PTL DEF Steps
<1> QED BY <1>3, <1>4, PTL DEF Steps, FirstMatchWins

(***************************************************************************)
(* For every data base, the alternative loaded first wins the event.       *)
(***************************************************************************)
THEOREM EarliestWins == Spec => FirstMatchWins
  BY StepsWin, SpecSteps, PTL

-----------------------------------------------------------------------------
(***************************************************************************)
(* The two bitmaps of a work implement module Progress, for every data     *)
(* base: the last remembered item of an alternative is how far it has come.*)
(* The loop advances an alternative only when an item not yet remembered   *)
(* matches; a second match of a remembered item is a stuttering step.      *)
(***************************************************************************)

LEMMA AltsOfItems == \A i \in Items : AltOf[i] \in Alts
  BY DEF Alts

\* The greatest remembered item is unique, so Reached returns it.
LEMMA ReachedIs ==
  ASSUME TypeOK, NEW a, NEW m \in Remembered(a), \A j \in Remembered(a) : j <= m
  PROVE  Reached(a) = m
<1>1. Remembered(a) \subseteq Nat
  <2>1. Items \subseteq Nat
    BY RulesAssumption DEF Items
  <2> QED BY <2>1 DEF Remembered, TypeOK
<1>2. \A k \in Remembered(a) : (\A j \in Remembered(a) : j <= k) => k = m
  BY <1>1
<1> QED BY <1>2 DEF Reached, Highest

LEMMA ReachedNone ==
  ASSUME NEW a, Remembered(a) = {}
  PROVE  Reached(a) = 0
  BY DEF Reached, Highest

\* An item that may match, and has not, is the one its alternative waits for.
LEMMA WaitsFor ==
  ASSUME Inv, NEW i \in Items, PrefixHolds(i), i \notin state \ Final
  PROVE  /\ Reached(AltOf[i]) = Prefix(i)
         /\ \A j \in Remembered(AltOf[i]) : j < i
<1> DEFINE a == AltOf[i]
<1>1. \A j \in Remembered(a) : j < i
  <2> SUFFICES ASSUME NEW j \in Remembered(a), ~(j < i) PROVE FALSE
    OBVIOUS
  <2>1. j \in state \ Final /\ j \in Items /\ AltOf[j] = a
    BY DEF Remembered, Inv, TypeOK
  <2>2. j # i /\ i < j
    BY <2>1 DEF Items
  <2>3. i \in Chain(j)
    BY <2>1, <2>2 DEF Chain, Items
  <2>4. i \in state
    BY <2>1, <2>3 DEF Inv, RememberedInOrder
  <2>5. i \notin Final
    <3> SUFFICES ASSUME i \in Final PROVE FALSE
      OBVIOUS
    <3>1. j <= i
      BY <2>1, FinalIsTop
    <3> QED BY <2>1, <2>2, <3>1, RulesAssumption DEF Items
  <2> QED BY <2>4, <2>5
<1>2. CASE Prefix(i) = 0
  <2>1. Remembered(a) = {}
    <3> SUFFICES ASSUME NEW j \in Remembered(a) PROVE FALSE
      OBVIOUS
    <3>1. j \in Items /\ AltOf[j] = a /\ j < i
      BY <1>1 DEF Remembered, Inv, TypeOK
    <3>2. j \in Chain(i) /\ j # i
      BY <3>1 DEF Chain, Items
    <3> QED BY <1>2, <3>2, ChainOfFirst
  <2> QED BY <1>1, <1>2, <2>1, ReachedNone
<1>3. CASE Prefix(i) # 0
  <2>1. Prefix(i) \in Remembered(a)
    BY <1>3, ChainOfPrefix DEF PrefixHolds, Remembered
  <2>2. \A j \in Remembered(a) : j <= Prefix(i)
    <3>1. Prefix(i) = i - 1
      BY <1>3, ChainOfPrefix
    <3>2. Remembered(a) \subseteq Items
      BY DEF Remembered, Inv, TypeOK
    <3> QED BY <1>1, <3>1, <3>2 DEF Items
  <2>3. Reached(a) = Prefix(i)
    BY <2>1, <2>2, ReachedIs DEF Inv
  <2> QED BY <1>1, <2>3
<1> QED BY <1>2, <1>3

LEMMA InitRefines == Init => P!PInit
<1> SUFFICES ASSUME Init PROVE P!PInit
  OBVIOUS
<1>1. state \ Final = {}
  BY UnclearedFinal DEF Init
<1>2. \A a \in Alts : Reached(a) = 0
  BY <1>1, ReachedNone DEF Remembered
<1> QED BY <1>2 DEF Init, P!PInit, P!Alts, Alts, P!Items, Items,
           P!Uncleared, Uncleared, P!ByteIndex, ByteIndex, P!NBytes, NBytes

\* The progress of the alternatives, as module Progress sees it.
View == [a \in Alts |-> Reached(a)]

\* Steps that leave the remembered items alone leave the progress alone.
LEMMA SameView ==
  ASSUME UNCHANGED state
  PROVE  UNCHANGED View
<1>1. \A a : Remembered(a)' = Remembered(a)
  BY DEF Remembered
<1>2. \A a : Reached(a)' = Reached(a)
  BY <1>1 DEF Reached
<1> QED BY <1>2 DEF View

\* If only one alternative changes, the others have come as far as before.
LEMMA OtherView ==
  ASSUME NEW i \in Items, NEW v, Reached(AltOf[i])' = v,
         \A b : b # AltOf[i] => Remembered(b)' = Remembered(b)
  PROVE  View' = [View EXCEPT ![AltOf[i]] = v]
<1>1. \A b : b # AltOf[i] => Reached(b)' = Reached(b)
  BY DEF Reached
<1> QED BY <1>1, AltsOfItems DEF View

\* The definitions of the tables are the same on both sides.
LEMMA Tables ==
  \A i \in Items : /\ P!Prefix(i) = Prefix(i) /\ P!Postfix(i) = Postfix(i)
                   /\ P!Chain(i) = Chain(i)
  BY DEF P!Prefix, P!Postfix, P!Chain, P!SameAlt, P!Items,
         Prefix, Postfix, Chain, SameAlt, Items

LEMMA RememberRefines ==
  ASSUME Inv, Inv', NEW i \in Items, Remember(i)
  PROVE  P!Advance(i) \/ UNCHANGED <<View, pp, found>>
<1>1. /\ state' = state \cup {i} /\ UNCHANGED <<pp, found>> /\ found = 0
      /\ i \notin Final /\ Postfix(i) # 0
      /\ PreConditionHolds(i) /\ PrefixHolds(i)
  BY DEF Remember, Current, Final
<1>2. CASE i \in state
  BY <1>1, <1>2, SameView
<1>3. CASE i \notin state
  <2> DEFINE a == AltOf[i]
  <2>1. Reached(a) = Prefix(i) /\ \A j \in Remembered(a) : j < i
    BY <1>1, <1>3, WaitsFor
  <2>2. Remembered(a)' = Remembered(a) \cup {i}
    BY <1>1 DEF Remembered
  <2>3. Reached(a)' = i
    <3>1. \A j \in Remembered(a)' : j <= i
      BY <2>1, <2>2, RulesAssumption DEF Remembered, Items, Inv, TypeOK
    <3>2. \A k \in Remembered(a)' : (\A j \in Remembered(a)' : j <= k) => k = i
      BY <2>1, <2>2, <3>1, RulesAssumption DEF Remembered, Items, Inv, TypeOK
    <3> HIDE DEF a
    <3> QED BY <2>2, <3>1, <3>2 DEF Reached, Highest
  <2>4. \A b : b # a => Remembered(b)' = Remembered(b)
    BY <1>1 DEF Remembered
  <2>5. View' = [View EXCEPT ![a] = i]
    BY <2>3, <2>4, OtherView
  <2>6. View[a] = Prefix(i)
    BY <2>1, AltsOfItems DEF View
  <2> QED BY <1>1, <2>5, <2>6, Tables
          DEF P!Advance, P!Due, P!Alts, Alts, P!Items, Items, View, PreConditionHolds
<1> QED BY <1>2, <1>3

LEMMA CompleteRefines ==
  ASSUME Inv, Inv', NEW i \in Items, Complete(i)
  PROVE  P!Finish(i)
<1> DEFINE a == AltOf[i]
<1>1. /\ state' = (state \cup {i}) \ Chain(i) /\ pp' = pp \ Chain(i)
      /\ found = 0 /\ found' = i
      /\ i \in Final /\ Postfix(i) = 0
      /\ PreConditionHolds(i) /\ PrefixHolds(i)
  BY DEF Complete, Current, Final
<1>2. Reached(a) = Prefix(i)
  BY <1>1, WaitsFor
<1>3. \A j \in Items : j \in Chain(i) <=> AltOf[j] = a
  BY <1>1, FinalIsTop DEF Chain
<1>4. Remembered(a)' = {}
  BY <1>1, <1>3 DEF Remembered, Inv, TypeOK
<1>5. Reached(a)' = 0
  <2> HIDE DEF a
  <2> QED BY <1>4 DEF Reached, Highest
<1>6. \A b : b # a => Remembered(b)' = Remembered(b)
  BY <1>1, <1>3 DEF Remembered, Chain
<1>7. View' = [View EXCEPT ![a] = 0]
  BY <1>5, <1>6, OtherView
<1>8. View[a] = Prefix(i)
  BY <1>2, AltsOfItems DEF View
<1> QED BY <1>1, <1>7, <1>8, Tables
        DEF P!Finish, P!Due, P!Alts, Alts, P!Items, Items, View, PreConditionHolds

LEMMA StepRefines ==
  ASSUME Inv, Inv', [Next]_vars
  PROVE  [P!PNext]_(P!pvars)
<1> SUFFICES P!PNext \/ UNCHANGED <<View, pp, found>>
  BY DEF P!pvars, View, P!Alts, Alts, P!Items, Items
<1>1. CASE Call
  <2>1. ASSUME NEW S \in SUBSET Clustered, Search(S) PROVE P!PNext
    <3>1. pp' = pp \cup S /\ UNCHANGED <<View, found>>
      BY <2>1, SameView DEF Search
    <3>2. P!Show(S)
      BY <3>1 DEF P!Show, View, P!Alts, Alts, P!Items, Items
    <3> QED BY <3>2 DEF P!PNext
  <2>2. ASSUME NEW e \in Events, NEW a \in {"pass", "drop"},
               DetectEvent(e, a) \/ PreprocessorFails(e, a)
        PROVE  P!PNext
    <3>1. found' = 0 /\ UNCHANGED <<View, pp>>
      BY <2>2, SameView DEF DetectEvent, PreprocessorFails
    <3>2. P!Begin
      BY <3>1 DEF P!Begin, View, P!Alts, Alts, P!Items, Items
    <3> QED BY <3>2 DEF P!PNext
  <2> QED BY <1>1, <2>1, <2>2 DEF Call
<1>2. CASE Iterate
  <2>1. ASSUME NEW i \in Items,
               SkipPreCondition(i) \/ SkipPrefix(i) \/ SkipCondition(i) \/ SkipAction(i)
        PROVE  UNCHANGED <<View, pp, found>>
    BY <2>1, SameView DEF SkipPreCondition, SkipPrefix, SkipCondition, SkipAction, Skip
  <2>2. ASSUME NEW i \in Items, Remember(i)
        PROVE  P!PNext \/ UNCHANGED <<View, pp, found>>
    BY <2>2, RememberRefines DEF P!PNext, P!Items, Items
  <2>3. ASSUME NEW i \in Items, Complete(i) PROVE P!PNext
    BY <2>3, CompleteRefines DEF P!PNext, P!Items, Items
  <2> QED BY <1>2, <2>1, <2>2, <2>3 DEF Iterate
<1>3. CASE Return
  BY <1>3, SameView DEF Return
<1>4. CASE UNCHANGED vars
  BY <1>4, SameView DEF vars
<1> QED BY <1>1, <1>2, <1>3, <1>4 DEF Next

LEMMA StepsImplement == Steps => Implements
<1>1. Inv /\ Inv' /\ [Next]_vars => [P!PNext]_(P!pvars)
  BY StepRefines
<1> QED BY <1>1, InitRefines, Invariance, PTL DEF Steps, Implements, P!PSpec

(***************************************************************************)
(* For every data base, detection in a work implements module Progress.    *)
(***************************************************************************)
THEOREM DetectImplementsProgress == Spec => Implements
  BY StepsImplement, SpecSteps, PTL

-----------------------------------------------------------------------------
(* Recursive functions.                                                    *)

\* What holds of 0 and passes from n to n + 1 holds of every number.
LEMMA SetInduction ==
  ASSUME NEW T \in SUBSET Nat, 0 \in T, \A n \in T : n + 1 \in T
  PROVE  T = Nat
<1> SUFFICES ASSUME Nat \ T # {} PROVE FALSE
  OBVIOUS
<1>1. IsWellFoundedOn(OpToRel(<, Nat), Nat)
  BY NatLessThanWellFounded
<1>2. PICK x \in Nat \ T : \A y \in Nat \ T : ~(<<y, x>> \in OpToRel(<, Nat))
  <2>1. Nat \ T \subseteq Nat OBVIOUS
  <2> QED BY <1>1, <2>1, WFMin, Zenon
<1>3. x # 0 /\ x - 1 \in Nat
  OBVIOUS
<1>4. x - 1 \in Nat \ T
  BY <1>3
<1>5. <<x - 1, x>> \in OpToRel(<, Nat)
  <2>1. x - 1 < x BY <1>3
  <2> QED BY <2>1, <1>3, Zenon DEF OpToRel
<1> QED BY <1>2, <1>4, <1>5

\* What holds of m and passes from each number to the next up to n holds of all of them.
LEMMA Upwards ==
  ASSUME NEW m \in Int, NEW n \in Int, NEW T, m \in T,
         \A k \in m + 1 .. n : k - 1 \in T => k \in T
  PROVE  \A k \in m..n : k \in T
<1>. DEFINE U == {i \in Nat : m + i <= n => m + i \in T}
<1>1. 0 \in U
  OBVIOUS
<1>2. ASSUME NEW i \in U PROVE i + 1 \in U
  <2>. SUFFICES ASSUME m + (i + 1) <= n PROVE m + (i + 1) \in T
    OBVIOUS
  <2>1. m + (i + 1) \in m + 1 .. n /\ m + (i + 1) - 1 = m + i /\ m + i <= n
    OBVIOUS
  <2>. QED  BY <2>1
<1>3. U \in SUBSET Nat
  OBVIOUS
<1>. HIDE DEF U
<1>4. U = Nat
  BY <1>1, <1>2, <1>3, SetInduction
<1>. SUFFICES ASSUME NEW k \in m..n PROVE k \in T
  OBVIOUS
<1>5. k - m \in U
  BY <1>4
<1>. QED  BY <1>5 DEF U

LEMMA Counting ==
  ASSUME NEW n \in Nat, NEW T, 0 \in T, \A k \in 1..n : k - 1 \in T => k \in T
  PROVE  \A k \in 0..n : k \in T
<1>1. \A k \in 0 + 1 .. n : k - 1 \in T => k \in T
  OBVIOUS
<1>. QED  BY <1>1, Upwards

\* f has the value b at m, and from there on what g makes of the value before.
Recursive(f, b, g, m, n) == f[m] = b /\ \A i \in m + 1 .. n : f[i] = g[<<i, f[i - 1]>>]

LEMMA RecursionExists ==
  ASSUME NEW S, NEW b \in S, NEW m \in Int, NEW n \in Int, m <= n,
         NEW g \in [(m + 1 .. n) \X S -> S]
  PROVE  \E f \in [m..n -> S] : Recursive(f, b, g, m, n)
<1>. DEFINE T == {k \in m..n : \E f \in [m..k -> S] : Recursive(f, b, g, m, k)}
<1>1. m \in T
  <2>. DEFINE f == [i \in m..m |-> b]
  <2>1. f \in [m..m -> S] /\ Recursive(f, b, g, m, m) /\ m \in m..n
    BY DEF Recursive
  <2>. HIDE DEF f
  <2>. QED  BY <2>1, Zenon
<1>2. ASSUME NEW k \in m + 1 .. n, k - 1 \in T PROVE k \in T
  <2>1. PICK f \in [m..k - 1 -> S] : Recursive(f, b, g, m, k - 1)
    BY <1>2
  <2>. DEFINE h == [i \in m..k |-> IF i < k THEN f[i] ELSE g[<<i, f[i - 1]>>]]
  <2>2. h \in [m..k -> S]
    <3>. SUFFICES ASSUME NEW i \in m..k
                  PROVE  (IF i < k THEN f[i] ELSE g[<<i, f[i - 1]>>]) \in S
      OBVIOUS
    <3>1. CASE i < k
      BY <3>1
    <3>2. CASE i = k
      <4>1. i - 1 \in m..k - 1
        BY <3>2
      <4>2. f[i - 1] \in S
        BY <4>1
      <4>. QED  BY <3>2, <4>2
    <3>. QED  BY <3>1, <3>2
  <2>3. Recursive(h, b, g, m, k)
    <3>1. h[m] = b
      BY <2>1 DEF Recursive
    <3>2. ASSUME NEW i \in m + 1 .. k PROVE h[i] = g[<<i, h[i - 1]>>]
      <4>1. i - 1 \in m..k /\ i - 1 < k
        OBVIOUS
      <4>2. h[i - 1] = f[i - 1]
        BY <4>1
      <4>3. CASE i < k
        <5>1. i \in m + 1 .. k - 1 /\ h[i] = f[i]
          BY <4>3
        <5>. QED  BY <4>2, <5>1, <2>1 DEF Recursive
      <4>4. CASE i = k
        <5>1. h[i] = g[<<i, f[i - 1]>>]
          BY <4>4
        <5>. QED  BY <5>1, <4>2
      <4>. QED  BY <4>3, <4>4
    <3>. QED  BY <3>1, <3>2 DEF Recursive
  <2>. HIDE DEF h
  <2>4. k \in m..n
    OBVIOUS
  <2>. QED  BY <2>2, <2>3, <2>4, Zenon
<1>. HIDE DEF T
<1>3. n \in T
  BY <1>1, <1>2, Upwards
<1>. QED  BY <1>3 DEF T

-----------------------------------------------------------------------------
(* Ends of words.                                                          *)

\* The word t ends with the word w.
EndsIn(t, w) ==
  Len(w) <= Len(t) /\ \A i \in 1..Len(w) : w[i] = t[Len(t) - Len(w) + i]

LEMMA EndsItself ==
  ASSUME NEW t \in Seq(Letters)
  PROVE  EndsIn(t, t) /\ EndsIn(t, <<>>)
<1>1. Len(t) \in Nat
  BY LenProperties
<1>. QED  BY <1>1 DEF EndsIn

LEMMA EndsTransitive ==
  ASSUME NEW t \in Seq(Letters), NEW u \in Seq(Letters), NEW w \in Seq(Letters),
         EndsIn(t, u), EndsIn(u, w)
  PROVE  EndsIn(t, w)
<1>1. Len(t) \in Nat /\ Len(u) \in Nat /\ Len(w) \in Nat
  BY LenProperties
<1>2. Len(w) <= Len(t)
  BY <1>1 DEF EndsIn
<1>3. ASSUME NEW i \in 1..Len(w)
      PROVE  w[i] = t[Len(t) - Len(w) + i]
  <2>1. w[i] = u[Len(u) - Len(w) + i] /\ Len(u) - Len(w) + i \in 1..Len(u)
    BY <1>1 DEF EndsIn
  <2>2. u[Len(u) - Len(w) + i] = t[Len(t) - Len(u) + (Len(u) - Len(w) + i)]
    BY <2>1 DEF EndsIn
  <2>3. Len(t) - Len(u) + (Len(u) - Len(w) + i) = Len(t) - Len(w) + i
    BY <1>1
  <2>. QED  BY <2>1, <2>2, <2>3
<1>. QED  BY <1>2, <1>3 DEF EndsIn

\* Of two ends of a word the longer ends with the shorter.
LEMMA EndsNested ==
  ASSUME NEW t \in Seq(Letters), NEW u \in Seq(Letters), NEW w \in Seq(Letters),
         EndsIn(t, u), EndsIn(t, w), Len(w) <= Len(u)
  PROVE  EndsIn(u, w)
<1>1. Len(t) \in Nat /\ Len(u) \in Nat /\ Len(w) \in Nat
  BY LenProperties
<1>2. ASSUME NEW i \in 1..Len(w)
      PROVE  w[i] = u[Len(u) - Len(w) + i]
  <2>1. w[i] = t[Len(t) - Len(w) + i]
    BY DEF EndsIn
  <2>2. Len(u) - Len(w) + i \in 1..Len(u)
    BY <1>1
  <2>3. u[Len(u) - Len(w) + i] = t[Len(t) - Len(u) + (Len(u) - Len(w) + i)]
    BY <2>2 DEF EndsIn
  <2>4. Len(t) - Len(u) + (Len(u) - Len(w) + i) = Len(t) - Len(w) + i
    BY <1>1
  <2>. QED  BY <2>1, <2>3, <2>4
<1>. QED  BY <1>2 DEF EndsIn

LEMMA EndsEqual ==
  ASSUME NEW t \in Seq(Letters), NEW w \in Seq(Letters), EndsIn(t, w), Len(w) = Len(t)
  PROVE  w = t
<1>1. Len(t) \in Nat
  BY LenProperties
<1>2. \A i \in 1..Len(t) : w[i] = t[i]
  <2>1. \A i \in 1..Len(t) : Len(t) - Len(t) + i = i
    BY <1>1
  <2>. QED  BY <2>1 DEF EndsIn
<1>. QED  BY <1>2, SeqEqual

\* One letter more on both sides.
LEMMA EndsAppend ==
  ASSUME NEW t \in Seq(Letters), NEW w \in Seq(Letters), NEW c \in Letters, NEW d \in Letters
  PROVE  EndsIn(Append(t, c), Append(w, d)) <=> c = d /\ EndsIn(t, w)
<1>. DEFINE tt == Append(t, c)
            ww == Append(w, d)
<1>1. /\ Len(t) \in Nat /\ Len(w) \in Nat /\ Len(tt) = Len(t) + 1 /\ Len(ww) = Len(w) + 1
      /\ tt[Len(t) + 1] = c /\ ww[Len(w) + 1] = d
      /\ \A i \in 1..Len(t) : tt[i] = t[i]
      /\ \A i \in 1..Len(w) : ww[i] = w[i]
  BY LenProperties, AppendProperties
<1>. HIDE DEF tt, ww
<1>2. ASSUME EndsIn(tt, ww) PROVE c = d /\ EndsIn(t, w)
  <2>0. Len(w) + 1 <= Len(t) + 1
    BY <1>1, <1>2 DEF EndsIn
  <2>1. Len(w) <= Len(t)
    BY <1>1, <2>0
  <2>2. \A i \in 1..Len(w) + 1 : ww[i] = tt[Len(t) + 1 - (Len(w) + 1) + i]
    BY <1>1, <1>2 DEF EndsIn
  <2>3. d = tt[Len(t) + 1 - (Len(w) + 1) + (Len(w) + 1)]
    <3>1. Len(w) + 1 \in 1..Len(w) + 1
      BY <1>1
    <3>. QED  BY <1>1, <2>2, <3>1
  <2>4. Len(t) + 1 - (Len(w) + 1) + (Len(w) + 1) = Len(t) + 1
    BY <1>1
  <2>5. ASSUME NEW i \in 1..Len(w) PROVE w[i] = t[Len(t) - Len(w) + i]
    <3>1. i \in 1..Len(w) + 1 /\ Len(t) - Len(w) + i \in 1..Len(t)
          /\ Len(t) + 1 - (Len(w) + 1) + i = Len(t) - Len(w) + i
      BY <1>1, <2>1
    <3>2. ww[i] = tt[Len(t) - Len(w) + i]
      BY <2>2, <3>1
    <3>. QED  BY <1>1, <3>1, <3>2
  <2>. QED  BY <1>1, <2>1, <2>3, <2>4, <2>5 DEF EndsIn
<1>3. ASSUME c = d, EndsIn(t, w) PROVE EndsIn(tt, ww)
  <2>1. Len(w) <= Len(t)
    BY <1>3 DEF EndsIn
  <2>2. ASSUME NEW i \in 1..Len(w) + 1 PROVE ww[i] = tt[Len(t) + 1 - (Len(w) + 1) + i]
    <3>0. Len(t) + 1 - (Len(w) + 1) + i = Len(t) - Len(w) + i
      BY <1>1
    <3>1. CASE i \in 1..Len(w)
      <4>1. Len(t) - Len(w) + i \in 1..Len(t)
        BY <1>1, <2>1, <3>1
      <4>2. w[i] = t[Len(t) - Len(w) + i]
        BY <1>3, <3>1 DEF EndsIn
      <4>. QED  BY <1>1, <3>0, <3>1, <4>1, <4>2
    <3>2. CASE i = Len(w) + 1
      <4>1. Len(t) - Len(w) + i = Len(t) + 1
        BY <1>1, <3>2
      <4>. QED  BY <1>1, <1>3, <3>0, <3>2, <4>1
    <3>. QED  BY <1>1, <3>1, <3>2
  <2>3. Len(ww) <= Len(tt)
    BY <1>1, <2>1
  <2>. QED  BY <1>1, <2>2, <2>3 DEF EndsIn
<1>. QED  BY <1>2, <1>3 DEF tt, ww

LEMMA AppendSplits ==
  ASSUME NEW t \in Seq(Letters), NEW w \in Seq(Letters), NEW c \in Letters, NEW d \in Letters,
         Append(t, c) = Append(w, d)
  PROVE  t = w /\ c = d
BY AppendInjective

LEMMA SubSeqAppends ==
  ASSUME NEW S, NEW t \in Seq(S), NEW k \in 1..Len(t)
  PROVE  SubSeq(t, 1, k) = Append(SubSeq(t, 1, k - 1), t[k])
<1>1. Len(t) \in Nat
  BY LenProperties
<1>. DEFINE u == SubSeq(t, 1, k)
            v == SubSeq(t, 1, k - 1)
<1>2. /\ u \in Seq(S) /\ Len(u) = k /\ \A i \in 1..k : u[i] = t[i]
      /\ v \in Seq(S) /\ Len(v) = k - 1 /\ \A i \in 1..k - 1 : v[i] = t[i]
  BY <1>1, SubSeqProperties
<1>3. t[k] \in S
  BY ElementOfSeq
<1>. HIDE DEF u, v
<1>4. /\ Append(v, t[k]) \in Seq(S) /\ Len(Append(v, t[k])) = k
      /\ \A i \in 1..k - 1 : Append(v, t[k])[i] = v[i]
      /\ Append(v, t[k])[k] = t[k]
  BY <1>1, <1>2, <1>3, AppendProperties
<1>5. \A i \in 1..k : Append(v, t[k])[i] = u[i]
  BY <1>2, <1>4
<1>6. Append(v, t[k]) = u
  BY <1>2, <1>4, <1>5, SeqEqual
<1>. QED  BY <1>6 DEF u, v

-----------------------------------------------------------------------------
(* Sets of values of a sequence.                                           *)

LEMMA ToSetIs ==
  ASSUME NEW S, NEW q \in Seq(S)
  PROVE  \A x : x \in ToSet(q) <=> \E k \in 1..Len(q) : q[k] = x
<1>1. DOMAIN q = 1..Len(q)
  BY LenProperties
<1>. QED  BY <1>1 DEF ToSet

LEMMA ToSetConcat ==
  ASSUME NEW S, NEW q \in Seq(S), NEW r \in Seq(S)
  PROVE  q \o r \in Seq(S) /\ ToSet(q \o r) = ToSet(q) \cup ToSet(r)
<1>1. /\ q \o r \in Seq(S) /\ Len(q \o r) = Len(q) + Len(r)
      /\ Len(q) \in Nat /\ Len(r) \in Nat
      /\ \A i \in 1..Len(q) + Len(r) :
           (q \o r)[i] = IF i <= Len(q) THEN q[i] ELSE r[i - Len(q)]
  BY LenProperties, ConcatProperties
<1>. DEFINE qr == q \o r
<1>2. \A x : x \in ToSet(qr) <=> \E k \in 1..Len(qr) : qr[k] = x
  BY <1>1, ToSetIs
<1>3. \A x : x \in ToSet(q) <=> \E k \in 1..Len(q) : q[k] = x
  BY ToSetIs
<1>4. \A x : x \in ToSet(r) <=> \E k \in 1..Len(r) : r[k] = x
  BY ToSetIs
<1>5. /\ qr \in Seq(S) /\ Len(qr) = Len(q) + Len(r)
      /\ \A i \in 1..Len(q) : qr[i] = q[i]
      /\ \A i \in 1..Len(r) : qr[i + Len(q)] = r[i]
  BY <1>1
<1>. HIDE DEF qr
<1>6. ASSUME NEW x \in ToSet(qr) PROVE x \in ToSet(q) \cup ToSet(r)
  <2>1. PICK k \in 1..Len(q) + Len(r) : qr[k] = x
    BY <1>2, <1>5
  <2>2. CASE k \in 1..Len(q)
    BY <1>3, <1>5, <2>1, <2>2
  <2>3. CASE k \notin 1..Len(q)
    <3>1. k - Len(q) \in 1..Len(r) /\ k = (k - Len(q)) + Len(q)
      BY <1>1, <2>3
    <3>2. r[k - Len(q)] = x
      BY <1>5, <2>1, <3>1
    <3>. QED  BY <1>4, <3>1, <3>2
  <2>. QED  BY <2>2, <2>3
<1>7. ASSUME NEW x \in ToSet(q) PROVE x \in ToSet(qr)
  <2>1. PICK k \in 1..Len(q) : q[k] = x
    BY <1>3
  <2>2. k \in 1..Len(qr) /\ qr[k] = x
    BY <1>1, <1>5, <2>1
  <2>. QED  BY <1>2, <2>2
<1>8. ASSUME NEW x \in ToSet(r) PROVE x \in ToSet(qr)
  <2>1. PICK k \in 1..Len(r) : r[k] = x
    BY <1>4
  <2>2. k + Len(q) \in 1..Len(qr) /\ qr[k + Len(q)] = x
    BY <1>1, <1>5, <2>1
  <2>. QED  BY <1>2, <2>2
<1>9. ToSet(qr) = ToSet(q) \cup ToSet(r)
  BY <1>6, <1>7, <1>8
<1>. QED  BY <1>5, <1>9 DEF qr

LEMMA ReverseIs ==
  ASSUME NEW S, NEW q \in Seq(S)
  PROVE  /\ Reverse(q) \in Seq(S) /\ Len(Reverse(q)) = Len(q)
         /\ \A i \in 1..Len(q) : Reverse(q)[i] = q[Len(q) - i + 1]
<1>. DEFINE r == Reverse(q)
<1>0. Len(q) \in Nat /\ q \in [1..Len(q) -> S]
  BY LenProperties
<1>1. r = [i \in 1..Len(q) |-> q[Len(q) - i + 1]]
  BY DEF Reverse
<1>2. \A i \in 1..Len(q) : Len(q) - i + 1 \in 1..Len(q)
  BY <1>0
<1>3. r \in [1..Len(q) -> S]
  BY <1>0, <1>1, <1>2
<1>4. r \in Seq(S) /\ Len(r) = Len(q)
  BY <1>0, <1>3, IsASeq, LenProperties
<1>. QED  BY <1>1, <1>4

LEMMA ToSetReverse ==
  ASSUME NEW S, NEW q \in Seq(S)
  PROVE  Reverse(q) \in Seq(S) /\ ToSet(Reverse(q)) = ToSet(q)
<1>. DEFINE r == Reverse(q)
<1>0. Len(q) \in Nat /\ q \in [1..Len(q) -> S]
  BY LenProperties
<1>2. \A i \in 1..Len(q) : Len(q) - i + 1 \in 1..Len(q) /\ Len(q) - (Len(q) - i + 1) + 1 = i
  BY <1>0
<1>4. r \in Seq(S) /\ Len(r) = Len(q)
  BY ReverseIs
<1>5. \A i \in 1..Len(q) : r[i] = q[Len(q) - i + 1]
  BY ReverseIs
<1>. HIDE DEF r
<1>6. \A x : x \in ToSet(q) <=> \E k \in 1..Len(q) : q[k] = x
  BY ToSetIs
<1>7. \A x : x \in ToSet(r) <=> \E k \in 1..Len(q) : r[k] = x
  BY <1>4, ToSetIs
<1>8. ASSUME NEW x \in ToSet(q) PROVE x \in ToSet(r)
  <2>1. PICK k \in 1..Len(q) : q[k] = x
    BY <1>6
  <2>2. Len(q) - k + 1 \in 1..Len(q) /\ r[Len(q) - k + 1] = x
    BY <1>2, <1>5, <2>1
  <2>. QED  BY <1>7, <2>2
<1>9. ASSUME NEW x \in ToSet(r) PROVE x \in ToSet(q)
  <2>1. PICK k \in 1..Len(q) : r[k] = x
    BY <1>7
  <2>2. Len(q) - k + 1 \in 1..Len(q) /\ q[Len(q) - k + 1] = x
    BY <1>2, <1>5, <2>1
  <2>. QED  BY <1>6, <2>2
<1>. QED  BY <1>4, <1>8, <1>9 DEF r

LEMMA ToSetSingle ==
  ASSUME NEW S, NEW x \in S
  PROVE  <<x>> \in Seq(S) /\ ToSet(<<x>>) = {x}
<1>1. <<x>> \in Seq(S) /\ Len(<<x>>) = 1 /\ <<x>>[1] = x
  OBVIOUS
<1>2. \A y : y \in ToSet(<<x>>) <=> \E k \in 1..1 : <<x>>[k] = y
  BY <1>1, ToSetIs
<1>3. \A y : y \in ToSet(<<x>>) <=> y = x
  BY <1>1, <1>2
<1>. QED  BY <1>1, <1>3

LEMMA ToSetEmpty == ToSet(<<>>) = {}
BY DEF ToSet

-----------------------------------------------------------------------------
(* The tree of states.                                                     *)

Pattern == [id : Nat, word : Seq(Letters)]

Arrays(S) == UNION {[0..n -> S] : n \in Nat}
Records ==
  [states : Nat, next : Arrays([Letters -> Int]), match : Arrays(Seq(Nat)),
   words : Arrays(Seq(Letters))]

\* A state is known by its word; a transition puts its letter behind the word;
\* every state but the first has one before it from which it was added.
Grown(a) ==
  /\ a.next \in [0..a.states -> [Letters -> 1..a.states \cup {NoState}]]
  /\ a.match \in [0..a.states -> Seq(Nat)]
  /\ a.words \in [0..a.states -> Seq(Letters)]
  /\ a.words[0] = <<>>
  /\ \A s \in 0..a.states, c \in Letters :
       a.next[s][c] # NoState => a.words[a.next[s][c]] = Append(a.words[s], c)
  /\ \A s, t \in 0..a.states : a.words[s] = a.words[t] => s = t
  /\ \A n \in 1..a.states : \E s \in 0..a.states, c \in Letters : s < n /\ a.next[s][c] = n

Trees == {a \in Records : Grown(a)}

LEMMA TreeTypes ==
  ASSUME NEW a \in Trees
  PROVE  /\ a.states \in Nat /\ 0 \in 0..a.states
         /\ a.next \in [0..a.states -> [Letters -> 1..a.states \cup {NoState}]]
         /\ a.match \in [0..a.states -> Seq(Nat)]
         /\ a.words \in [0..a.states -> Seq(Letters)]
         /\ Grown(a)
<1>1. a.states \in Nat
  BY DEF Trees, Records
<1>. QED  BY <1>1 DEF Trees, Grown

LEMMA TreeRows ==
  ASSUME NEW a \in Trees, NEW s \in 0..a.states
  PROVE  /\ a.next[s] \in [Letters -> 1..a.states \cup {NoState}]
         /\ \A c \in Letters : a.next[s][c] \in 1..a.states \cup {NoState}
<1>1. a.next[s] \in [Letters -> 1..a.states \cup {NoState}]
  BY TreeTypes, Zenon
<1>2. \A c \in Letters : a.next[s][c] \in 1..a.states \cup {NoState}
  BY <1>1, Zenon
<1>. QED  BY <1>1, <1>2

LEMMA NothingIsTree == Nothing \in Trees /\ ToSet(Nothing.match[0]) = {}
<1>1. 0..0 = {0}
  OBVIOUS
<1>2. NoRow \in [Letters -> Int] /\ NoRow \in [Letters -> {NoState}]
  BY DEF NoRow, NoState
<1>3. <<>> \in Seq(Nat) /\ <<>> \in Seq(Letters)
  OBVIOUS
<1>4. [s \in {0} |-> NoRow] \in [0..0 -> [Letters -> Int]]
  BY <1>1, <1>2
<1>5. /\ [s \in {0} |-> <<>>] \in [0..0 -> Seq(Nat)]
      /\ [s \in {0} |-> <<>>] \in [0..0 -> Seq(Letters)]
  BY <1>1, <1>3
<1>6. Nothing \in Records
  BY <1>4, <1>5 DEF Records, Arrays, Nothing
<1>7. /\ Nothing.states = 0
      /\ Nothing.next \in [0..0 -> [Letters -> {NoState}]]
      /\ Nothing.match \in [0..0 -> Seq(Nat)]
      /\ Nothing.words \in [0..0 -> Seq(Letters)] /\ Nothing.words[0] = <<>>
      /\ Nothing.match[0] = <<>>
  BY <1>1, <1>2, <1>5 DEF Nothing
<1>8. Grown(Nothing)
  <2>1. 1..0 = {} /\ \A s, t \in 0..0 : s = t
    OBVIOUS
  <2>2. \A s \in 0..0, c \in Letters : Nothing.next[s][c] = NoState
    BY <1>7
  <2>. QED  BY <1>7, <2>1, <2>2 DEF Grown
<1>. QED  BY <1>6, <1>7, <1>8, ToSetEmpty DEF Trees

\* What b adds to a is states without patterns.
Extends(a, b) ==
  /\ a.states <= b.states
  /\ \A s \in 0..a.states : b.words[s] = a.words[s] /\ b.match[s] = a.match[s]
  /\ \A s \in a.states + 1 .. b.states : b.match[s] = <<>>

\* A new state does not disturb the tree.
LEMMA AddStateGrows ==
  ASSUME NEW a \in Trees, NEW s \in 0..a.states, NEW c \in Letters, a.next[s][c] = NoState
  PROVE  LET b == AddState(a, s, c) IN
         /\ b \in Trees /\ Extends(a, b) /\ b.states = a.states + 1
         /\ b.words[a.states + 1] = Append(a.words[s], c)
<1>. DEFINE n == a.states + 1
            b == AddState(a, s, c)
            x == Append(a.words[s], c)
            put == PutNextState(a.next, s, c, n)
<1>0. /\ a.states \in Nat /\ n \in Nat /\ s \in 0..n /\ n # s /\ 0..a.states \subseteq 0..n
      /\ \A t \in 0..n : t = n \/ t \in 0..a.states
      /\ n \notin 0..a.states /\ 0 \in 0..a.states
  BY TreeTypes
<1>1. /\ a.next \in [0..a.states -> [Letters -> 1..a.states \cup {NoState}]]
      /\ a.match \in [0..a.states -> Seq(Nat)]
      /\ a.words \in [0..a.states -> Seq(Letters)]
      /\ Grown(a)
  BY TreeTypes
<1>2. put \in [0..a.states -> [Letters -> 1..n \cup {NoState}]]
  <2>1. 1..a.states \subseteq 1..n /\ n \in 1..n
    BY <1>0
  <2>2. \A t \in 0..a.states : a.next[t] \in [Letters -> 1..n \cup {NoState}]
    <3>1. 1..a.states \cup {NoState} \subseteq 1..n \cup {NoState}
      BY <2>1
    <3>. QED  BY <3>1, TreeRows, Zenon
  <2>. QED  BY <1>1, <2>1, <2>2 DEF PutNextState
<1>3. /\ put[s][c] = n
      /\ \A t \in 0..a.states, d \in Letters : <<t, d>> # <<s, c>> => put[t][d] = a.next[t][d]
  <2>1. a.next[s] \in [Letters -> 1..a.states \cup {NoState}] /\ s \in 0..a.states
    BY <1>1
  <2>2. put = [a.next EXCEPT ![s] = [a.next[s] EXCEPT ![c] = n]]
    BY DEF PutNextState
  <2>3. put[s] = [a.next[s] EXCEPT ![c] = n]
    BY <1>1, <2>2
  <2>4. put[s][c] = n /\ \A d \in Letters : d # c => put[s][d] = a.next[s][d]
    BY <2>1, <2>3
  <2>5. \A t \in 0..a.states : t # s => put[t] = a.next[t]
    BY <1>1, <2>2
  <2>6. ASSUME NEW t \in 0..a.states, NEW d \in Letters, <<t, d>> # <<s, c>>
        PROVE  put[t][d] = a.next[t][d]
    <3>1. CASE t = s
      <4>1. d # c
        BY <2>6, <3>1
      <4>. QED  BY <2>4, <3>1, <4>1
    <3>. QED  BY <2>5, <3>1
  <2>. QED  BY <2>4, <2>6
<1>4. /\ b.states = n
      /\ b.next = [t \in 0..n |-> IF t = n THEN NoRow ELSE put[t]]
      /\ b.match = [t \in 0..n |-> IF t = n THEN <<>> ELSE a.match[t]]
      /\ b.words = [t \in 0..n |-> IF t = n THEN x ELSE a.words[t]]
      /\ b = [states |-> b.states, next |-> b.next, match |-> b.match, words |-> b.words]
  BY DEF AddState
<1>5. x \in Seq(Letters) /\ x # <<>>
  <2>1. a.words[s] \in Seq(Letters)
    BY <1>1
  <2>. QED  BY <2>1, AppendProperties
<1>6. NoRow \in [Letters -> 1..n \cup {NoState}] /\ \A d \in Letters : NoRow[d] = NoState
  BY DEF NoRow
<1>. HIDE DEF b, put, x, n
<1>7. /\ b.next \in [0..n -> [Letters -> 1..n \cup {NoState}]]
      /\ b.match \in [0..n -> Seq(Nat)]
      /\ b.words \in [0..n -> Seq(Letters)]
  <2>1. \A t \in 0..n : t # n => put[t] \in [Letters -> 1..n \cup {NoState}]
    BY <1>0, <1>2
  <2>2. \A t \in 0..n : t # n => a.match[t] \in Seq(Nat) /\ a.words[t] \in Seq(Letters)
    BY <1>0, <1>1
  <2>3. b.next \in [0..n -> [Letters -> 1..n \cup {NoState}]]
    BY <1>4, <1>6, <2>1
  <2>4. b.match \in [0..n -> Seq(Nat)]
    BY <1>4, <2>2
  <2>5. b.words \in [0..n -> Seq(Letters)]
    BY <1>4, <1>5, <2>2
  <2>. QED  BY <2>3, <2>4, <2>5
<1>8. /\ b.words[n] = x /\ b.match[n] = <<>> /\ b.next[n] = NoRow
      /\ \A t \in 0..a.states :
           b.words[t] = a.words[t] /\ b.match[t] = a.match[t] /\ b.next[t] = put[t]
  BY <1>0, <1>4
<1>9. b \in Records
  <2>1. [Letters -> 1..n \cup {NoState}] \subseteq [Letters -> Int]
    BY <1>0 DEF NoState
  <2>2. b.next \in [0..n -> [Letters -> Int]]
    BY <1>7, <2>1
  <2>3. b.next \in Arrays([Letters -> Int])
    BY <1>0, <2>2 DEF Arrays
  <2>4. b.match \in Arrays(Seq(Nat))
    BY <1>0, <1>7 DEF Arrays
  <2>5. b.words \in Arrays(Seq(Letters))
    BY <1>0, <1>7 DEF Arrays
  <2>6. b.states \in Nat
    BY <1>0, <1>4
  <2>. QED  BY <1>4, <2>3, <2>4, <2>5, <2>6 DEF Records
<1>10. \A t \in 0..a.states : a.words[t] # x
  <2>. SUFFICES ASSUME NEW t \in 0..a.states, a.words[t] = x PROVE FALSE
    OBVIOUS
  <2>1. t \in 1..a.states
    BY <1>0, <1>1, <1>5 DEF Grown
  <2>2. PICK p \in 0..a.states, d \in Letters : a.next[p][d] = t
    BY <1>1, <2>1 DEF Grown
  <2>3. t # NoState
    BY <2>1 DEF NoState
  <2>4. a.words[t] = Append(a.words[p], d)
    BY <1>1, <2>2, <2>3 DEF Grown
  <2>5. a.words[p] \in Seq(Letters) /\ a.words[s] \in Seq(Letters)
    BY <1>1
  <2>6. Append(a.words[p], d) = Append(a.words[s], c)
    BY <2>4 DEF x
  <2>7. a.words[p] = a.words[s] /\ d = c
    <3>1. \A v, w \in Seq(Letters) : Append(v, d) = Append(w, c) => v = w /\ d = c
      BY AppendSplits
    <3>. HIDE DEF x
    <3>. QED  BY <2>5, <2>6, <3>1, Zenon
  <2>8. p = s
    BY <1>1, <2>7 DEF Grown
  <2>. QED  BY <2>2, <2>3, <2>7, <2>8
<1>11. ASSUME NEW t \in 0..n, NEW d \in Letters, b.next[t][d] # NoState
       PROVE  b.words[b.next[t][d]] = Append(b.words[t], d)
  <2>1. t \in 0..a.states
    BY <1>0, <1>6, <1>8, <1>11
  <2>2. CASE <<t, d>> = <<s, c>>
    BY <1>3, <1>8, <2>1, <2>2 DEF x
  <2>3. CASE <<t, d>> # <<s, c>>
    <3>1. b.next[t][d] = a.next[t][d]
      BY <1>3, <1>8, <2>1, <2>3
    <3>2. a.next[t][d] \in 1..a.states
      <4>1. a.next[t][d] \in 1..a.states \cup {NoState}
        BY <2>1, TreeRows
      <4>. QED  BY <1>11, <3>1, <4>1
    <3>3. a.words[a.next[t][d]] = Append(a.words[t], d)
      BY <1>1, <1>11, <2>1, <3>1 DEF Grown
    <3>4. a.next[t][d] \in 0..a.states
      BY <1>0, <3>2
    <3>. QED  BY <1>8, <2>1, <3>1, <3>3, <3>4
  <2>. QED  BY <2>2, <2>3
<1>12. ASSUME NEW t \in 0..n, NEW u \in 0..n, b.words[t] = b.words[u]
       PROVE  t = u
  <2>1. CASE t = n /\ u = n
    BY <2>1
  <2>2. CASE t = n /\ u # n
    BY <1>0, <1>8, <1>10, <1>12, <2>2
  <2>3. CASE t # n /\ u = n
    BY <1>0, <1>8, <1>10, <1>12, <2>3
  <2>4. CASE t # n /\ u # n
    BY <1>0, <1>1, <1>8, <1>12, <2>4 DEF Grown
  <2>. QED  BY <2>1, <2>2, <2>3, <2>4
<1>13. ASSUME NEW m \in 1..n
       PROVE  \E t \in 0..n, d \in Letters : t < m /\ b.next[t][d] = m
  <2>1. CASE m = n
    <3>1. s < n /\ b.next[s][c] = n
      BY <1>0, <1>3, <1>8
    <3>. QED  BY <1>0, <2>1, <3>1
  <2>2. CASE m # n
    <3>1. m \in 1..a.states
      BY <1>0, <2>2
    <3>2. PICK t \in 0..a.states, d \in Letters : t < m /\ a.next[t][d] = m
      BY <1>1, <3>1 DEF Grown
    <3>3. m # NoState
      BY <3>1 DEF NoState
    <3>4. <<t, d>> # <<s, c>>
      BY <3>2, <3>3
    <3>5. b.next[t][d] = m
      BY <1>3, <1>8, <3>2, <3>4
    <3>6. t \in 0..n
      BY <1>0
    <3>. QED  BY <3>2, <3>5, <3>6
  <2>. QED  BY <2>1, <2>2
<1>14. b.words[0] = <<>>
  BY <1>0, <1>1, <1>8 DEF Grown
<1>15. Grown(b)
  BY <1>4, <1>7, <1>11, <1>12, <1>13, <1>14 DEF Grown
<1>16. Extends(a, b)
  <2>1. \A t \in a.states + 1 .. n : t = n
    BY <1>0 DEF n
  <2>2. a.states <= n
    BY <1>0 DEF n
  <2>. QED  BY <1>4, <1>8, <2>1, <2>2 DEF Extends
<1>17. b \in Trees
  BY <1>9, <1>15 DEF Trees
<1>. QED  BY <1>4, <1>8, <1>16, <1>17 DEF b, n, x

LEMMA ExtendsItself ==
  ASSUME NEW a \in Trees
  PROVE  Extends(a, a)
<1>1. a.states \in Nat
  BY TreeTypes
<1>2. a.states + 1 .. a.states = {}
  BY <1>1
<1>. QED  BY <1>1, <1>2 DEF Extends

LEMMA ExtendsTransitive ==
  ASSUME NEW a \in Trees, NEW b \in Trees, NEW d \in Trees, Extends(a, b), Extends(b, d)
  PROVE  Extends(a, d)
<1>1. a.states \in Nat /\ b.states \in Nat /\ d.states \in Nat
  BY TreeTypes
<1>2. a.states <= b.states /\ b.states <= d.states
  BY DEF Extends
<1>3. ASSUME NEW s \in 0..a.states PROVE d.words[s] = a.words[s] /\ d.match[s] = a.match[s]
  <2>1. s \in 0..b.states
    BY <1>1, <1>2
  <2>2. b.words[s] = a.words[s] /\ b.match[s] = a.match[s]
    BY DEF Extends
  <2>3. d.words[s] = b.words[s] /\ d.match[s] = b.match[s]
    BY <2>1 DEF Extends
  <2>. QED  BY <2>2, <2>3
<1>4. ASSUME NEW s \in a.states + 1 .. d.states PROVE d.match[s] = <<>>
  <2>1. CASE s \in 0..b.states
    <3>1. s \in a.states + 1 .. b.states
      BY <1>1, <2>1
    <3>2. b.match[s] = <<>>
      BY <3>1 DEF Extends
    <3>3. d.match[s] = b.match[s]
      BY <2>1 DEF Extends
    <3>. QED  BY <3>2, <3>3
  <2>2. CASE s \notin 0..b.states
    <3>1. s \in b.states + 1 .. d.states
      BY <1>1, <2>2
    <3>. QED  BY <3>1 DEF Extends
  <2>. QED  BY <2>1, <2>2
<1>5. a.states <= d.states
  BY <1>1, <1>2
<1>. QED  BY <1>3, <1>4, <1>5 DEF Extends

\* A tree and one of its states.
Located == {x \in [a : Trees, at : Nat] : x.at \in 0..x.a.states}

\* A letter moves to the state of the word with the letter behind it.
LEMMA AddLetterMoves ==
  ASSUME NEW x \in Located, NEW c \in Letters
  PROVE  LET y == AddLetter(x, c) IN
         /\ y \in Located
         /\ Extends(x.a, y.a)
         /\ y.a.words[y.at] = Append(x.a.words[x.at], c)
<1>. DEFINE n == GetNextState(x.a.next, x.at, c)
            y == AddLetter(x, c)
<1>1. x.a \in Trees /\ x.at \in 0..x.a.states
  BY DEF Located
<1>2. x.a.next[x.at][c] \in 1..x.a.states \cup {NoState} /\ x.a.states \in Nat
  BY <1>1, TreeRows, TreeTypes
<1>3. CASE n \notin {NoState, 0}
  <2>1. n = x.a.next[x.at][c] /\ n \in 1..x.a.states
    BY <1>2, <1>3 DEF GetNextState
  <2>2. y = [a |-> x.a, at |-> n]
    BY <1>3 DEF AddLetter
  <2>3. n \in Nat /\ n \in 0..x.a.states
    BY <1>2, <2>1
  <2>4. y \in [a : Trees, at : Nat] /\ y.a = x.a /\ y.at = n
    BY <1>1, <2>2, <2>3
  <2>5. y \in Located
    BY <2>3, <2>4 DEF Located
  <2>6. x.a.words[n] = Append(x.a.words[x.at], c)
    <3>1. Grown(x.a) /\ x.a.next[x.at][c] # NoState
      BY <1>1, <1>3, <2>1, TreeTypes
    <3>2. x.a.words[x.a.next[x.at][c]] = Append(x.a.words[x.at], c)
      BY <1>1, <3>1 DEF Grown
    <3>. QED  BY <2>1, <3>2
  <2>. QED  BY <1>1, <2>4, <2>5, <2>6, ExtendsItself
<1>4. CASE n \in {NoState, 0}
  <2>1. x.a.next[x.at][c] = NoState
    BY <1>2, <1>4 DEF GetNextState, NoState
  <2>. DEFINE b == AddState(x.a, x.at, c)
  <2>2. /\ b \in Trees /\ Extends(x.a, b) /\ b.states = x.a.states + 1
        /\ b.words[x.a.states + 1] = Append(x.a.words[x.at], c)
    BY <1>1, <2>1, AddStateGrows
  <2>3. y = [a |-> b, at |-> x.a.states + 1]
    BY <1>4 DEF AddLetter
  <2>. HIDE DEF b, y
  <2>4. y \in [a : Trees, at : Nat] /\ y.a = b /\ y.at = x.a.states + 1
    BY <1>2, <2>2, <2>3
  <2>5. y.at \in 0..y.a.states
    BY <1>2, <2>2, <2>4
  <2>6. y \in Located
    BY <2>4, <2>5 DEF Located
  <2>. QED  BY <2>2, <2>4, <2>6 DEF y
<1>. QED  BY <1>3, <1>4

\* The path of a word, by recursion.
LEMMA PathStep ==
  ASSUME NEW a \in Trees, NEW word \in Seq(Letters)
  PROVE  /\ Path(a, word, 0) = [a |-> a, at |-> 0]
         /\ \A k \in 1..Len(word) : Path(a, word, k) = AddLetter(Path(a, word, k - 1), word[k])
         /\ \A k \in 0..Len(word) : Path(a, word, k) \in Located
<1>. DEFINE Eq(w) == w = [k \in 0..Len(word) |-> IF k = 0 THEN [a |-> a, at |-> 0] ELSE AddLetter(w[k - 1], word[k])]
            all == CHOOSE w : Eq(w)
            g == [x \in (1..Len(word)) \X Located |-> AddLetter(x[2], word[x[1]])]
<1>1. 0 \in Int /\ Len(word) \in Int /\ 0 <= Len(word) /\ [a |-> a, at |-> 0] \in Located /\ 0 + 1 = 1
  <2>1. Len(word) \in Nat
    BY LenProperties
  <2>2. [a |-> a, at |-> 0] \in [a : Trees, at : Nat]
    OBVIOUS
  <2>. QED  BY <2>1, <2>2, TreeTypes DEF Located
<1>2. ASSUME NEW k \in 1..Len(word), NEW x \in Located PROVE AddLetter(x, word[k]) \in Located
  <2>1. word[k] \in Letters
    BY ElementOfSeq
  <2>. QED  BY <2>1, AddLetterMoves
<1>3. g \in [(1..Len(word)) \X Located -> Located]
  BY <1>2
<1>4. \A k \in 1..Len(word), x \in Located : g[<<k, x>>] = AddLetter(x, word[k])
  OBVIOUS
<1>. HIDE DEF g
<1>5. PICK f \in [0..Len(word) -> Located] : Recursive(f, [a |-> a, at |-> 0], g, 0, Len(word))
  BY <1>1, <1>3, RecursionExists
<1>6. Eq(f)
  <2>1. ASSUME NEW k \in 0..Len(word)
        PROVE  f[k] = IF k = 0 THEN [a |-> a, at |-> 0] ELSE AddLetter(f[k - 1], word[k])
    <3>1. CASE k = 0
      BY <1>5, <3>1 DEF Recursive
    <3>2. CASE k # 0
      <4>1. k \in 1..Len(word) /\ k - 1 \in 0..Len(word)
        BY <1>1, <3>2
      <4>2. f[k - 1] \in Located /\ f[k] = g[<<k, f[k - 1]>>]
        BY <1>1, <1>5, <4>1 DEF Recursive
      <4>3. g[<<k, f[k - 1]>>] = AddLetter(f[k - 1], word[k])
        BY <1>4, <4>1, <4>2
      <4>. QED  BY <3>2, <4>2, <4>3
    <3>. QED  BY <3>1, <3>2
  <2>. QED  BY <2>1
<1>7. Eq(all)
  <2>. HIDE DEF Eq
  <2>. QED  BY <1>6, Zenon
<1>8. \A k : Path(a, word, k) = all[k]
  BY Zenon DEF Path
<1>. HIDE DEF all
<1>9. \A k \in 0..Len(word) : all[k] = IF k = 0 THEN [a |-> a, at |-> 0] ELSE AddLetter(all[k - 1], word[k])
  BY <1>7
<1>10. Path(a, word, 0) = [a |-> a, at |-> 0]
  <2>1. 0 \in 0..Len(word)
    BY <1>1
  <2>2. all[0] = [a |-> a, at |-> 0]
    BY <1>9, <2>1
  <2>. QED  BY <1>8, <2>2
<1>11. ASSUME NEW k \in 1..Len(word) PROVE Path(a, word, k) = AddLetter(Path(a, word, k - 1), word[k])
  <2>1. k \in 0..Len(word) /\ k # 0
    BY <1>1
  <2>2. all[k] = AddLetter(all[k - 1], word[k])
    BY <1>9, <2>1
  <2>3. Path(a, word, k) = all[k] /\ Path(a, word, k - 1) = all[k - 1]
    BY <1>8
  <2>. QED  BY <2>2, <2>3
<1>. DEFINE T == {k \in 0..Len(word) : Path(a, word, k) \in Located}
<1>12. 0 \in T
  <2>1. 0 \in 0..Len(word)
    BY <1>1
  <2>2. Path(a, word, 0) \in Located
    BY <1>1, <1>10, Zenon
  <2>. QED  BY <2>1, <2>2
<1>13. ASSUME NEW k \in 1..Len(word), k - 1 \in T PROVE k \in T
  <2>1. k \in 0..Len(word) /\ Path(a, word, k - 1) \in Located
    BY <1>1, <1>13
  <2>2. AddLetter(Path(a, word, k - 1), word[k]) \in Located
    BY <1>2, <2>1
  <2>. QED  BY <1>11, <2>1, <2>2
<1>. HIDE DEF T
<1>14. \A k \in 0..Len(word) : k \in T
  <2>1. \A k \in 0 + 1 .. Len(word) : k - 1 \in T => k \in T
    BY <1>1, <1>13
  <2>. QED  BY <1>1, <1>12, <2>1, Upwards
<1>15. \A k \in 0..Len(word) : Path(a, word, k) \in Located
  BY <1>14 DEF T
<1>. QED  BY <1>10, <1>11, <1>15

\* A path ends in the state of its word.
LEMMA PathFollows ==
  ASSUME NEW a \in Trees, NEW word \in Seq(Letters)
  PROVE  LET end == Path(a, word, Len(word)) IN
         /\ end \in Located /\ Extends(a, end.a) /\ end.a.words[end.at] = word
<1>. DEFINE Ps(k) == Path(a, word, k)
            T == {k \in 0..Len(word) :
                    /\ Ps(k) \in Located /\ Extends(a, Ps(k).a)
                    /\ Ps(k).a.words[Ps(k).at] = SubSeq(word, 1, k)}
<1>1. Len(word) \in Nat
  BY LenProperties
<1>2. /\ Ps(0) = [a |-> a, at |-> 0]
      /\ \A k \in 1..Len(word) : Ps(k) = AddLetter(Ps(k - 1), word[k])
      /\ \A k \in 0..Len(word) : Ps(k) \in Located
  BY PathStep
<1>. HIDE DEF Ps
<1>3. 0 \in T
  <2>1. Ps(0).a = a /\ Ps(0).at = 0
    BY <1>2
  <2>2. a.words[0] = <<>>
    BY TreeTypes DEF Grown
  <2>3. SubSeq(word, 1, 0) = <<>>
    BY SubSeqEmpty
  <2>4. Ps(0) \in Located /\ 0 \in 0..Len(word)
    BY <1>1, <1>2
  <2>. QED  BY <2>1, <2>2, <2>3, <2>4, ExtendsItself
<1>4. ASSUME NEW k \in 1..Len(word), k - 1 \in T PROVE k \in T
  <2>. DEFINE x == Ps(k - 1)
              y == Ps(k)
  <2>1. /\ x \in Located /\ Extends(a, x.a) /\ x.a.words[x.at] = SubSeq(word, 1, k - 1)
        /\ k - 1 \in 0..Len(word)
    BY <1>4
  <2>2. y = AddLetter(x, word[k]) /\ word[k] \in Letters
    BY <1>2, ElementOfSeq
  <2>. HIDE DEF x, y
  <2>3. /\ y \in Located /\ Extends(x.a, y.a)
        /\ y.a.words[y.at] = Append(x.a.words[x.at], word[k])
    BY <2>1, <2>2, AddLetterMoves
  <2>4. Extends(a, y.a)
    <3>1. x.a \in Trees /\ y.a \in Trees
      BY <2>1, <2>3 DEF Located
    <3>. QED  BY <2>1, <2>3, <3>1, ExtendsTransitive
  <2>5. SubSeq(word, 1, k) = Append(SubSeq(word, 1, k - 1), word[k])
    BY <1>1, SubSeqAppends
  <2>6. k \in 0..Len(word)
    BY <1>1
  <2>. QED  BY <2>1, <2>3, <2>4, <2>5, <2>6 DEF y
<1>5. \A k \in 0..Len(word) : k \in T
  <2>. HIDE DEF T
  <2>. QED  BY <1>1, <1>3, <1>4, Counting
<1>6. Len(word) \in T
  BY <1>1, <1>5
<1>7. SubSeq(word, 1, Len(word)) = word
  BY SubSeqFull
<1>. QED  BY <1>6, <1>7 DEF Ps

-----------------------------------------------------------------------------
(* The patterns in the tree.                                               *)

\* The patterns that end in a state by themselves, and a state for each.
Own(a, Ps, s) == {x \in Nat : \E p \in Ps : p.id = x /\ p.word = a.words[s]}

Carries(a, Ps) ==
  /\ \A s \in 0..a.states : ToSet(a.match[s]) = Own(a, Ps, s)
  /\ \A p \in Ps : \E s \in 0..a.states : a.words[s] = p.word

LEMMA NothingCarries == Carries(Nothing, {})
<1>1. Nothing.states = 0 /\ 0..0 = {0}
  BY DEF Nothing
<1>. QED  BY <1>1, NothingIsTree DEF Carries, Own

\* A pattern is put in front of those that end where it ends.
LEMMA AddPatternAdds ==
  ASSUME NEW a \in Trees, NEW p \in Pattern
  PROVE  LET end == Path(a, p.word, Len(p.word))
             b   == AddPatternStates(a, p)
         IN /\ b \in Trees /\ b.states = end.a.states /\ b.words = end.a.words
            /\ end \in Located /\ Extends(a, end.a) /\ end.a.words[end.at] = p.word
            /\ b.match[end.at] = <<p.id>> \o end.a.match[end.at]
            /\ \A s \in 0..b.states : s # end.at => b.match[s] = end.a.match[s]
<1>. DEFINE end == Path(a, p.word, Len(p.word))
            b == AddPatternStates(a, p)
            new == <<p.id>> \o end.a.match[end.at]
<1>1. p.word \in Seq(Letters) /\ p.id \in Nat
  BY DEF Pattern
<1>2. end \in Located /\ Extends(a, end.a) /\ end.a.words[end.at] = p.word
  BY <1>1, PathFollows
<1>3. b = [end.a EXCEPT !.match = [end.a.match EXCEPT ![end.at] = new]]
  BY DEF AddPatternStates
<1>. HIDE DEF end, b
<1>4. end.a \in Trees /\ end.at \in 0..end.a.states
  BY <1>2 DEF Located
<1>. DEFINE t == end.a
<1>5. /\ t.match \in [0..t.states -> Seq(Nat)] /\ t \in Records /\ Grown(t)
      /\ t.states \in Nat
  BY <1>4, TreeTypes DEF Trees
<1>6. new \in Seq(Nat)
  <2>1. t.match[end.at] \in Seq(Nat)
    BY <1>4, <1>5
  <2>2. <<p.id>> \in Seq(Nat)
    BY <1>1
  <2>. QED  BY <2>1, <2>2, ConcatProperties
<1>. HIDE DEF new
<1>. DEFINE m == [t.match EXCEPT ![end.at] = new]
<1>7. /\ m \in [0..t.states -> Seq(Nat)] /\ m[end.at] = new
      /\ \A s \in 0..t.states : s # end.at => m[s] = t.match[s]
  BY <1>4, <1>5, <1>6
<1>8. b = [t EXCEPT !.match = m]
  BY <1>3
<1>. HIDE DEF m, t
<1>9. /\ b.states = t.states /\ b.words = t.words /\ b.next = t.next /\ b.match = m
      /\ b \in Records
  <2>1. m \in Arrays(Seq(Nat))
    BY <1>5, <1>7 DEF Arrays
  <2>. QED  BY <1>5, <1>8, <2>1 DEF Records
<1>10. Grown(b)
  BY <1>5, <1>7, <1>9 DEF Grown
<1>11. b \in Trees
  BY <1>9, <1>10 DEF Trees
<1>12. /\ b \in Trees /\ b.states = t.states /\ b.words = t.words
       /\ b.match[end.at] = new
       /\ \A s \in 0..b.states : s # end.at => b.match[s] = t.match[s]
  BY <1>7, <1>9, <1>11
<1>. QED  BY <1>2, <1>12 DEF end, b, new, t

LEMMA AddPatternIsTree ==
  ASSUME NEW a \in Trees, NEW p \in Pattern
  PROVE  AddPatternStates(a, p) \in Trees
BY AddPatternAdds

LEMMA AddPatternCarries ==
  ASSUME NEW a \in Trees, NEW Ps \in SUBSET Pattern, NEW p \in Pattern, Carries(a, Ps)
  PROVE  Carries(AddPatternStates(a, p), Ps \cup {p})
<1>. DEFINE end == Path(a, p.word, Len(p.word))
            b == AddPatternStates(a, p)
<1>1. /\ b \in Trees /\ b.states = end.a.states /\ b.words = end.a.words
      /\ end \in Located /\ Extends(a, end.a) /\ end.a.words[end.at] = p.word
      /\ b.match[end.at] = <<p.id>> \o end.a.match[end.at]
      /\ \A s \in 0..b.states : s # end.at => b.match[s] = end.a.match[s]
  BY AddPatternAdds
<1>. HIDE DEF end, b
<1>2. /\ end.a \in Trees /\ end.at \in 0..b.states
      /\ a.states \in Nat /\ b.states \in Nat /\ a.states <= b.states
      /\ 0..a.states \subseteq 0..b.states
  <2>1. end.a \in Trees /\ end.at \in 0..b.states
    BY <1>1 DEF Located
  <2>2. a.states \in Nat /\ b.states \in Nat
    BY <1>1, TreeTypes
  <2>. QED  BY <1>1, <2>1, <2>2 DEF Extends
<1>3. p.id \in Nat /\ p.word \in Seq(Letters)
  BY DEF Pattern
\* What ended in a state ends there still, and nothing ends in the new ones.
<1>4. ASSUME NEW s \in 0..b.states PROVE ToSet(end.a.match[s]) = Own(b, Ps, s)
  <2>1. CASE s \in 0..a.states
    <3>1. b.words[s] = a.words[s] /\ end.a.match[s] = a.match[s]
      BY <1>1, <2>1 DEF Extends
    <3>2. ToSet(a.match[s]) = Own(a, Ps, s)
      BY <2>1 DEF Carries
    <3>. QED  BY <3>1, <3>2 DEF Own
  <2>2. CASE s \notin 0..a.states
    <3>1. s \in a.states + 1 .. end.a.states
      BY <1>1, <1>2, <2>2
    <3>2. end.a.match[s] = <<>>
      BY <1>1, <3>1 DEF Extends
    <3>3. ASSUME NEW q \in Ps, q.word = b.words[s] PROVE FALSE
      <4>1. PICK u \in 0..a.states : a.words[u] = q.word
        BY DEF Carries
      <4>2. b.words[u] = b.words[s] /\ u \in 0..b.states
        BY <1>1, <1>2, <3>3, <4>1 DEF Extends
      <4>3. u = s
        BY <1>1, <4>2, TreeTypes DEF Grown
      <4>. QED  BY <2>2, <4>3
    <3>4. Own(b, Ps, s) = {}
      BY <3>3 DEF Own
    <3>. QED  BY <3>2, <3>4, ToSetEmpty
  <2>. QED  BY <2>1, <2>2
<1>5. ASSUME NEW s \in 0..b.states PROVE ToSet(b.match[s]) = Own(b, Ps \cup {p}, s)
  <2>1. CASE s = end.at
    <3>1. end.a.match[s] \in Seq(Nat)
      BY <1>1, <1>2, TreeTypes
    <3>2. ToSet(b.match[s]) = {p.id} \cup ToSet(end.a.match[s])
      <4>1. <<p.id>> \in Seq(Nat) /\ ToSet(<<p.id>>) = {p.id}
        BY <1>3, ToSetSingle
      <4>2. ToSet(<<p.id>> \o end.a.match[s]) = ToSet(<<p.id>>) \cup ToSet(end.a.match[s])
        <5>1. \A q, r \in Seq(Nat) : ToSet(q \o r) = ToSet(q) \cup ToSet(r)
          BY ToSetConcat
        <5>. QED  BY <3>1, <4>1, <5>1, Zenon
      <4>. QED  BY <1>1, <2>1, <4>1, <4>2
    <3>3. Own(b, Ps \cup {p}, s) = {p.id} \cup Own(b, Ps, s)
      BY <1>1, <1>3, <2>1 DEF Own
    <3>. QED  BY <1>4, <3>2, <3>3
  <2>2. CASE s # end.at
    <3>1. b.words[s] # p.word
      <4>1. \A u, v \in 0..b.states : b.words[u] = b.words[v] => u = v
        BY <1>1, TreeTypes DEF Grown
      <4>2. b.words[end.at] = p.word
        BY <1>1
      <4>. QED  BY <1>2, <2>2, <4>1, <4>2
    <3>2. Own(b, Ps \cup {p}, s) = Own(b, Ps, s)
      BY <3>1 DEF Own
    <3>3. b.match[s] = end.a.match[s]
      BY <1>1, <2>2
    <3>. QED  BY <1>4, <3>2, <3>3
  <2>. QED  BY <2>1, <2>2
<1>6. ASSUME NEW q \in Ps \cup {p} PROVE \E s \in 0..b.states : b.words[s] = q.word
  <2>1. CASE q = p
    BY <1>1, <1>2, <2>1
  <2>2. CASE q \in Ps
    <3>1. PICK u \in 0..a.states : a.words[u] = q.word
      BY <2>2 DEF Carries
    <3>2. b.words[u] = q.word /\ u \in 0..b.states
      BY <1>1, <1>2, <3>1 DEF Extends
    <3>. QED  BY <3>2
  <2>. QED  BY <2>1, <2>2
<1>7. Carries(b, Ps \cup {p})
  BY <1>5, <1>6 DEF Carries
<1>. QED  BY <1>7 DEF b

\* The tree of some patterns, by recursion.
LEMMA TreeStep ==
  ASSUME NEW patterns \in Seq(Pattern)
  PROVE  /\ Tree(patterns, 0) = Nothing
         /\ \A k \in 1..Len(patterns) : Tree(patterns, k) = AddPatternStates(Tree(patterns, k - 1), patterns[Len(patterns) + 1 - k])
         /\ \A k \in 0..Len(patterns) : Tree(patterns, k) \in Trees
<1>. DEFINE Eq(w) == w = [k \in 0..Len(patterns) |-> IF k = 0 THEN Nothing ELSE AddPatternStates(w[k - 1], patterns[Len(patterns) + 1 - k])]
            all == CHOOSE w : Eq(w)
            g == [x \in (1..Len(patterns)) \X Trees |-> AddPatternStates(x[2], patterns[Len(patterns) + 1 - x[1]])]
<1>1. 0 \in Int /\ Len(patterns) \in Int /\ 0 <= Len(patterns) /\ Nothing \in Trees /\ 0 + 1 = 1
  <2>1. Len(patterns) \in Nat
    BY LenProperties
  <2>. QED  BY <2>1, NothingIsTree
<1>2. ASSUME NEW k \in 1..Len(patterns), NEW x \in Trees PROVE AddPatternStates(x, patterns[Len(patterns) + 1 - k]) \in Trees
  <2>1. patterns[Len(patterns) + 1 - k] \in Pattern
    <3>1. Len(patterns) + 1 - k \in 1..Len(patterns)
      BY LenProperties
    <3>. QED  BY <3>1, ElementOfSeq
  <2>. QED  BY <2>1, AddPatternIsTree
<1>3. g \in [(1..Len(patterns)) \X Trees -> Trees]
  BY <1>2
<1>4. \A k \in 1..Len(patterns), x \in Trees : g[<<k, x>>] = AddPatternStates(x, patterns[Len(patterns) + 1 - k])
  OBVIOUS
<1>. HIDE DEF g
<1>5. PICK f \in [0..Len(patterns) -> Trees] : Recursive(f, Nothing, g, 0, Len(patterns))
  BY <1>1, <1>3, RecursionExists
<1>6. Eq(f)
  <2>1. ASSUME NEW k \in 0..Len(patterns)
        PROVE  f[k] = IF k = 0 THEN Nothing ELSE AddPatternStates(f[k - 1], patterns[Len(patterns) + 1 - k])
    <3>1. CASE k = 0
      BY <1>5, <3>1 DEF Recursive
    <3>2. CASE k # 0
      <4>1. k \in 1..Len(patterns) /\ k - 1 \in 0..Len(patterns)
        BY <1>1, <3>2
      <4>2. f[k - 1] \in Trees /\ f[k] = g[<<k, f[k - 1]>>]
        BY <1>1, <1>5, <4>1 DEF Recursive
      <4>3. g[<<k, f[k - 1]>>] = AddPatternStates(f[k - 1], patterns[Len(patterns) + 1 - k])
        BY <1>4, <4>1, <4>2
      <4>. QED  BY <3>2, <4>2, <4>3
    <3>. QED  BY <3>1, <3>2
  <2>. QED  BY <2>1
<1>7. Eq(all)
  <2>. HIDE DEF Eq
  <2>. QED  BY <1>6, Zenon
<1>8. \A k : Tree(patterns, k) = all[k]
  BY Zenon DEF Tree
<1>. HIDE DEF all
<1>9. \A k \in 0..Len(patterns) : all[k] = IF k = 0 THEN Nothing ELSE AddPatternStates(all[k - 1], patterns[Len(patterns) + 1 - k])
  BY <1>7
<1>10. Tree(patterns, 0) = Nothing
  <2>1. 0 \in 0..Len(patterns)
    BY <1>1
  <2>2. all[0] = Nothing
    BY <1>9, <2>1
  <2>. QED  BY <1>8, <2>2
<1>11. ASSUME NEW k \in 1..Len(patterns) PROVE Tree(patterns, k) = AddPatternStates(Tree(patterns, k - 1), patterns[Len(patterns) + 1 - k])
  <2>1. k \in 0..Len(patterns) /\ k # 0
    BY <1>1
  <2>2. all[k] = AddPatternStates(all[k - 1], patterns[Len(patterns) + 1 - k])
    BY <1>9, <2>1
  <2>3. Tree(patterns, k) = all[k] /\ Tree(patterns, k - 1) = all[k - 1]
    BY <1>8
  <2>. QED  BY <2>2, <2>3
<1>. DEFINE T == {k \in 0..Len(patterns) : Tree(patterns, k) \in Trees}
<1>12. 0 \in T
  <2>1. 0 \in 0..Len(patterns)
    BY <1>1
  <2>2. Tree(patterns, 0) \in Trees
    BY <1>1, <1>10, Zenon
  <2>. QED  BY <2>1, <2>2
<1>13. ASSUME NEW k \in 1..Len(patterns), k - 1 \in T PROVE k \in T
  <2>1. k \in 0..Len(patterns) /\ Tree(patterns, k - 1) \in Trees
    BY <1>1, <1>13
  <2>2. AddPatternStates(Tree(patterns, k - 1), patterns[Len(patterns) + 1 - k]) \in Trees
    BY <1>2, <2>1
  <2>. QED  BY <1>11, <2>1, <2>2
<1>. HIDE DEF T
<1>14. \A k \in 0..Len(patterns) : k \in T
  <2>1. \A k \in 0 + 1 .. Len(patterns) : k - 1 \in T => k \in T
    BY <1>1, <1>13
  <2>. QED  BY <1>1, <1>12, <2>1, Upwards
<1>15. \A k \in 0..Len(patterns) : Tree(patterns, k) \in Trees
  BY <1>14 DEF T
<1>. QED  BY <1>10, <1>11, <1>15

\* The tree has every pattern, in the state of its word, and no other.
LEMMA TreeCarries ==
  ASSUME NEW patterns \in Seq(Pattern)
  PROVE  LET a == Tree(patterns, Len(patterns)) IN a \in Trees /\ Carries(a, ToSet(patterns))
<1>. DEFINE N == Len(patterns)
            A(k) == Tree(patterns, k)
            Ps(k) == {patterns[i] : i \in N + 1 - k .. N}
            T == {k \in 0..N : Carries(A(k), Ps(k))}
<1>1. N \in Nat
  BY LenProperties
<1>2. /\ A(0) = Nothing
      /\ \A k \in 1..N : A(k) = AddPatternStates(A(k - 1), patterns[N + 1 - k])
      /\ \A k \in 0..N : A(k) \in Trees
  BY TreeStep
<1>. HIDE DEF A
<1>3. 0 \in T
  <2>1. Ps(0) = {} /\ 0 \in 0..N
    BY <1>1
  <2>. QED  BY <1>2, <2>1, NothingCarries
<1>4. ASSUME NEW k \in 1..N, k - 1 \in T PROVE k \in T
  <2>. DEFINE p == patterns[N + 1 - k]
  <2>1. N + 1 - k \in 1..N
    BY <1>1
  <2>2. p \in Pattern
    BY <2>1, ElementOfSeq
  <2>3. Ps(k - 1) \in SUBSET Pattern
    <3>1. \A i \in N + 1 - (k - 1) .. N : i \in 1..N
      BY <1>1
    <3>. QED  BY <3>1, ElementOfSeq
  <2>4. Ps(k) = Ps(k - 1) \cup {p}
    <3>1. \A i \in N + 1 - k .. N : i = N + 1 - k \/ i \in N + 1 - (k - 1) .. N
      BY <1>1
    <3>2. N + 1 - k \in N + 1 - k .. N /\ N + 1 - (k - 1) .. N \subseteq N + 1 - k .. N
      BY <1>1
    <3>. QED  BY <3>1, <3>2
  <2>5. Carries(A(k - 1), Ps(k - 1)) /\ A(k - 1) \in Trees /\ A(k) = AddPatternStates(A(k - 1), p)
    BY <1>2, <1>4
  <2>. HIDE DEF Ps, p
  <2>6. Carries(A(k), Ps(k - 1) \cup {p})
    BY <2>2, <2>3, <2>5, AddPatternCarries
  <2>7. k \in 0..N /\ Carries(A(k), Ps(k))
    BY <1>1, <2>4, <2>6
  <2>. QED  BY <2>7
<1>5. N \in T
  <2>. HIDE DEF T, N
  <2>2. \A k \in 0..N : k \in T
    BY <1>1, <1>3, <1>4, Counting
  <2>. QED  BY <1>1, <2>2
<1>6. Ps(N) = ToSet(patterns)
  <2>1. \A x : x \in ToSet(patterns) <=> \E k \in 1..Len(patterns) : patterns[k] = x
    BY ToSetIs
  <2>2. N + 1 - N .. N = 1..N
    BY <1>1
  <2>. QED  BY <2>1, <2>2
<1>. QED  BY <1>1, <1>2, <1>5, <1>6 DEF A

-----------------------------------------------------------------------------
(* The children of a state.                                                *)

\* All states but the first.
Others(a) == 1..a.states

Kids(a, s) == {t \in 1..a.states : \E c \in Letters : a.next[s][c] = t}

Depth(a, s) == Len(a.words[s])

\* A transition as its word.
LEMMA KidWord ==
  ASSUME NEW a \in Trees, NEW s \in 0..a.states, NEW c \in Letters, a.next[s][c] # NoState
  PROVE  /\ a.next[s][c] \in 1..a.states
         /\ a.words[a.next[s][c]] = Append(a.words[s], c)
<1>1. a.next[s][c] \in 1..a.states \cup {NoState}
  BY TreeRows
<1>2. Grown(a)
  BY TreeTypes
<1>. QED  BY <1>1, <1>2 DEF Grown

LEMMA WordsUnique ==
  ASSUME NEW a \in Trees, NEW s \in 0..a.states, NEW t \in 0..a.states, a.words[s] = a.words[t]
  PROVE  s = t
BY TreeTypes DEF Grown

LEMMA WordTypes ==
  ASSUME NEW a \in Trees, NEW s \in 0..a.states
  PROVE  a.words[s] \in Seq(Letters) /\ Depth(a, s) \in Nat
<1>1. a.words[s] \in Seq(Letters)
  BY TreeTypes
<1>. QED  BY <1>1, LenProperties DEF Depth

\* Of two transitions only the same lead to the same state.
LEMMA KidOnce ==
  ASSUME NEW a \in Trees, NEW s \in 0..a.states, NEW t \in 0..a.states,
         NEW c \in Letters, NEW d \in Letters,
         a.next[s][c] # NoState, a.next[s][c] = a.next[t][d]
  PROVE  s = t /\ c = d
<1>1. /\ a.words[a.next[s][c]] = Append(a.words[s], c)
      /\ a.words[a.next[t][d]] = Append(a.words[t], d)
  BY KidWord
<1>2. a.words[s] \in Seq(Letters) /\ a.words[t] \in Seq(Letters)
  BY WordTypes
<1>3. Append(a.words[s], c) = Append(a.words[t], d)
  BY <1>1
<1>4. \A v, w \in Seq(Letters) : Append(v, c) = Append(w, d) => v = w /\ c = d
  BY AppendSplits
<1>5. a.words[s] = a.words[t] /\ c = d
  BY <1>2, <1>3, <1>4, Zenon
<1>. QED  BY <1>5, WordsUnique

LEMMA KidsOnce ==
  ASSUME NEW a \in Trees, NEW s \in 0..a.states, NEW t \in 0..a.states,
         NEW u \in Kids(a, s), u \in Kids(a, t)
  PROVE  s = t
<1>1. PICK c \in Letters : a.next[s][c] = u
  BY DEF Kids
<1>2. PICK d \in Letters : a.next[t][d] = u
  BY DEF Kids
<1>3. u # NoState
  <2>1. u \in 1..a.states
    BY DEF Kids
  <2>. QED  BY <2>1 DEF NoState
<1>. QED  BY <1>1, <1>2, <1>3, KidOnce

LEMMA KidsDepth ==
  ASSUME NEW a \in Trees, NEW s \in 0..a.states, NEW t \in Kids(a, s)
  PROVE  t \in 1..a.states /\ Depth(a, t) = Depth(a, s) + 1
<1>1. PICK c \in Letters : a.next[s][c] = t
  BY DEF Kids
<1>2. t # NoState /\ t \in 1..a.states
  <2>1. t \in 1..a.states
    BY DEF Kids
  <2>. QED  BY <2>1 DEF NoState
<1>3. a.words[t] = Append(a.words[s], c)
  BY <1>1, <1>2, KidWord
<1>4. a.words[s] \in Seq(Letters)
  BY WordTypes
<1>5. Len(Append(a.words[s], c)) = Len(a.words[s]) + 1
  BY <1>4, AppendProperties
<1>. QED  BY <1>2, <1>3, <1>5 DEF Depth

\* Every state but the first is the child of one.
LEMMA KidOf ==
  ASSUME NEW a \in Trees, NEW t \in 1..a.states
  PROVE  \E s \in 0..a.states : s < t /\ t \in Kids(a, s)
<1>1. PICK s \in 0..a.states, c \in Letters : s < t /\ a.next[s][c] = t
  BY TreeTypes DEF Grown
<1>. QED  BY <1>1 DEF Kids

LEMMA RootDepth ==
  ASSUME NEW a \in Trees
  PROVE  Depth(a, 0) = 0 /\ \A t \in 1..a.states : Depth(a, t) \in Nat \ {0}
<1>1. a.words[0] = <<>>
  BY TreeTypes DEF Grown
<1>2. ASSUME NEW t \in 1..a.states PROVE Depth(a, t) \in Nat \ {0}
  <2>1. PICK s \in 0..a.states : t \in Kids(a, s)
    BY KidOf
  <2>2. Depth(a, t) = Depth(a, s) + 1 /\ Depth(a, s) \in Nat
    BY <2>1, KidsDepth, WordTypes
  <2>. QED  BY <2>2
<1>. QED  BY <1>1, <1>2 DEF Depth

\* No state is deeper than its number.
LEMMA DepthBound ==
  ASSUME NEW a \in Trees
  PROVE  \A s \in 0..a.states : Depth(a, s) <= s
<1>. DEFINE T == {k \in 0..a.states : \A s \in 0..k : Depth(a, s) <= s}
<1>1. a.states \in Nat
  BY TreeTypes
<1>2. 0 \in T
  BY <1>1, RootDepth
<1>3. ASSUME NEW k \in 1..a.states, k - 1 \in T PROVE k \in T
  <2>1. PICK s \in 0..a.states : s < k /\ k \in Kids(a, s)
    BY KidOf
  <2>2. Depth(a, k) = Depth(a, s) + 1 /\ Depth(a, s) \in Nat
    BY <2>1, KidsDepth, WordTypes
  <2>3. s \in 0..k - 1
    BY <2>1
  <2>4. Depth(a, s) <= s
    BY <1>3, <2>3
  <2>5. Depth(a, k) <= k
    BY <2>1, <2>2, <2>4
  <2>6. ASSUME NEW t \in 0..k PROVE Depth(a, t) <= t
    <3>1. CASE t = k
      BY <2>5, <3>1
    <3>2. CASE t # k
      <4>1. t \in 0..k - 1
        BY <3>2
      <4>. QED  BY <1>3, <4>1
    <3>. QED  BY <3>1, <3>2
  <2>7. k \in 0..a.states
    BY <1>1
  <2>. QED  BY <2>6, <2>7
<1>4. \A k \in 0..a.states : k \in T
  <2>. HIDE DEF T
  <2>. QED  BY <1>1, <1>2, <1>3, Counting
<1>. QED  BY <1>4

-----------------------------------------------------------------------------
(* Sequences without repetition.                                           *)

Distinct(q) == \A i, j \in 1..Len(q) : q[i] = q[j] => i = j

LEMMA AppendDistinct ==
  ASSUME NEW S, NEW q \in Seq(S), NEW x \in S
  PROVE  /\ Append(q, x) \in Seq(S)
         /\ ToSet(Append(q, x)) = ToSet(q) \cup {x}
         /\ Distinct(q) /\ x \notin ToSet(q) => Distinct(Append(q, x))
<1>. DEFINE r == Append(q, x)
<1>1. /\ r \in Seq(S) /\ Len(r) = Len(q) + 1 /\ Len(q) \in Nat /\ r[Len(q) + 1] = x
      /\ \A i \in 1..Len(q) : r[i] = q[i]
  BY LenProperties, AppendProperties
<1>. HIDE DEF r
<1>2. \A y : y \in ToSet(q) <=> \E k \in 1..Len(q) : q[k] = y
  BY ToSetIs
<1>3. \A y : y \in ToSet(r) <=> \E k \in 1..Len(r) : r[k] = y
  BY <1>1, ToSetIs
<1>4. \A i \in 1..Len(r) : i \in 1..Len(q) \/ i = Len(q) + 1
  BY <1>1
<1>5. 1..Len(q) \subseteq 1..Len(r) /\ Len(q) + 1 \in 1..Len(r)
  BY <1>1
<1>6. ToSet(r) = ToSet(q) \cup {x}
  <2>1. ASSUME NEW y \in ToSet(r) PROVE y \in ToSet(q) \cup {x}
    BY <1>1, <1>2, <1>3, <1>4
  <2>2. ASSUME NEW y \in ToSet(q) \cup {x} PROVE y \in ToSet(r)
    BY <1>1, <1>2, <1>3, <1>5
  <2>. QED  BY <2>1, <2>2
<1>7. ASSUME Distinct(q), x \notin ToSet(q), NEW i \in 1..Len(r), NEW j \in 1..Len(r), r[i] = r[j]
      PROVE  i = j
  <2>1. \A k \in 1..Len(q) : q[k] # x
    BY <1>2, <1>7
  <2>2. CASE i \in 1..Len(q) /\ j \in 1..Len(q)
    BY <1>1, <1>7, <2>2 DEF Distinct
  <2>. QED  BY <1>1, <1>4, <1>7, <2>1, <2>2
<1>8. Distinct(q) /\ x \notin ToSet(q) => Distinct(r)
  BY <1>7 DEF Distinct
<1>. QED  BY <1>1, <1>6, <1>8 DEF r

LEMMA ConcatDistinct ==
  ASSUME NEW S, NEW q \in Seq(S), NEW r \in Seq(S), Distinct(q), Distinct(r),
         ToSet(q) \cap ToSet(r) = {}
  PROVE  Distinct(q \o r)
<1>. DEFINE u == q \o r
<1>1. /\ Len(u) = Len(q) + Len(r) /\ Len(q) \in Nat /\ Len(r) \in Nat
      /\ \A i \in 1..Len(q) : u[i] = q[i]
      /\ \A i \in 1..Len(u) : i > Len(q) => i - Len(q) \in 1..Len(r) /\ u[i] = r[i - Len(q)]
  BY LenProperties, ConcatProperties
<1>. HIDE DEF u
<1>2. \A i \in 1..Len(q), j \in 1..Len(r) : q[i] # r[j]
  <2>1. \A y : y \in ToSet(q) <=> \E k \in 1..Len(q) : q[k] = y
    BY ToSetIs
  <2>2. \A y : y \in ToSet(r) <=> \E k \in 1..Len(r) : r[k] = y
    BY ToSetIs
  <2>. QED  BY <2>1, <2>2
<1>3. ASSUME NEW i \in 1..Len(u), NEW j \in 1..Len(u), u[i] = u[j] PROVE i = j
  <2>1. CASE i <= Len(q) /\ j <= Len(q)
    <3>1. i \in 1..Len(q) /\ j \in 1..Len(q)
      BY <1>1, <2>1
    <3>. QED  BY <1>1, <1>3, <3>1 DEF Distinct
  <2>2. CASE i > Len(q) /\ j > Len(q)
    <3>1. /\ i - Len(q) \in 1..Len(r) /\ j - Len(q) \in 1..Len(r)
          /\ r[i - Len(q)] = r[j - Len(q)]
      BY <1>1, <1>3, <2>2
    <3>2. i - Len(q) = j - Len(q)
      BY <3>1 DEF Distinct
    <3>. QED  BY <1>1, <3>2
  <2>3. CASE i <= Len(q) /\ j > Len(q)
    <3>1. i \in 1..Len(q)
      BY <1>1, <2>3
    <3>. QED  BY <1>1, <1>2, <1>3, <2>3, <3>1
  <2>4. CASE i > Len(q) /\ j <= Len(q)
    <3>1. j \in 1..Len(q)
      BY <1>1, <2>4
    <3>. QED  BY <1>1, <1>2, <1>3, <2>4, <3>1
  <2>. QED  BY <1>1, <2>1, <2>2, <2>3, <2>4
<1>4. Distinct(u)
  BY <1>3 DEF Distinct
<1>. QED  BY <1>4 DEF u

\* The children of a state, by recursion.
LEMMA ChildrenStep ==
  ASSUME NEW a \in Trees, NEW s \in 0..a.states
  PROVE  /\ Children(a, s, 0) = <<>>
         /\ \A k \in 1..Alphabet : Children(a, s, k) = (IF GetNextState(a.next, s, k) \in {NoState, 0} THEN Children(a, s, k - 1) ELSE Append(Children(a, s, k - 1), GetNextState(a.next, s, k)))
         /\ \A k \in 0..Alphabet : Children(a, s, k) \in Seq(Others(a))
<1>. DEFINE Eq(w) == w = [k \in 0..Alphabet |-> IF k = 0 THEN <<>> ELSE (IF GetNextState(a.next, s, k) \in {NoState, 0} THEN w[k - 1] ELSE Append(w[k - 1], GetNextState(a.next, s, k)))]
            all == CHOOSE w : Eq(w)
            g == [x \in (1..Alphabet) \X Seq(Others(a)) |-> (IF GetNextState(a.next, s, x[1]) \in {NoState, 0} THEN x[2] ELSE Append(x[2], GetNextState(a.next, s, x[1])))]
<1>1. 0 \in Int /\ Alphabet \in Int /\ 0 <= Alphabet /\ <<>> \in Seq(Others(a)) /\ 0 + 1 = 1
  BY AlphabetAssumption
<1>2. ASSUME NEW k \in 1..Alphabet, NEW x \in Seq(Others(a)) PROVE (IF GetNextState(a.next, s, k) \in {NoState, 0} THEN x ELSE Append(x, GetNextState(a.next, s, k))) \in Seq(Others(a))
  <2>1. k \in Letters /\ a.states \in Nat
    BY TreeTypes DEF Letters
  <2>2. a.next[s][k] \in 1..a.states \cup {NoState}
    BY <2>1, TreeRows
  <2>. DEFINE n == GetNextState(a.next, s, k)
  <2>3. n \notin {NoState, 0} => n \in Others(a)
    BY <2>2 DEF GetNextState, Others
  <2>. HIDE DEF n
  <2>4. n \in Others(a) => Append(x, n) \in Seq(Others(a))
    BY AppendProperties
  <2>5. (IF n \in {NoState, 0} THEN x ELSE Append(x, n)) \in Seq(Others(a))
    BY <2>3, <2>4
  <2>. QED  BY <2>5 DEF n
<1>3. g \in [(1..Alphabet) \X Seq(Others(a)) -> Seq(Others(a))]
  BY <1>2
<1>4. \A k \in 1..Alphabet, x \in Seq(Others(a)) : g[<<k, x>>] = (IF GetNextState(a.next, s, k) \in {NoState, 0} THEN x ELSE Append(x, GetNextState(a.next, s, k)))
  OBVIOUS
<1>. HIDE DEF g
<1>5. PICK f \in [0..Alphabet -> Seq(Others(a))] : Recursive(f, <<>>, g, 0, Alphabet)
  BY <1>1, <1>3, RecursionExists
<1>6. Eq(f)
  <2>1. ASSUME NEW k \in 0..Alphabet
        PROVE  f[k] = IF k = 0 THEN <<>> ELSE (IF GetNextState(a.next, s, k) \in {NoState, 0} THEN f[k - 1] ELSE Append(f[k - 1], GetNextState(a.next, s, k)))
    <3>1. CASE k = 0
      BY <1>5, <3>1 DEF Recursive
    <3>2. CASE k # 0
      <4>1. k \in 1..Alphabet /\ k - 1 \in 0..Alphabet
        BY <1>1, <3>2
      <4>2. f[k - 1] \in Seq(Others(a)) /\ f[k] = g[<<k, f[k - 1]>>]
        BY <1>1, <1>5, <4>1 DEF Recursive
      <4>3. g[<<k, f[k - 1]>>] = (IF GetNextState(a.next, s, k) \in {NoState, 0} THEN f[k - 1] ELSE Append(f[k - 1], GetNextState(a.next, s, k)))
        BY <1>4, <4>1, <4>2
      <4>. QED  BY <3>2, <4>2, <4>3
    <3>. QED  BY <3>1, <3>2
  <2>. QED  BY <2>1
<1>7. Eq(all)
  <2>. HIDE DEF Eq
  <2>. QED  BY <1>6, Zenon
<1>8. \A k : Children(a, s, k) = all[k]
  BY Zenon DEF Children
<1>. HIDE DEF all
<1>9. \A k \in 0..Alphabet : all[k] = IF k = 0 THEN <<>> ELSE (IF GetNextState(a.next, s, k) \in {NoState, 0} THEN all[k - 1] ELSE Append(all[k - 1], GetNextState(a.next, s, k)))
  BY <1>7
<1>10. Children(a, s, 0) = <<>>
  <2>1. 0 \in 0..Alphabet
    BY <1>1
  <2>2. all[0] = <<>>
    BY <1>9, <2>1
  <2>. QED  BY <1>8, <2>2
<1>11. ASSUME NEW k \in 1..Alphabet PROVE Children(a, s, k) = (IF GetNextState(a.next, s, k) \in {NoState, 0} THEN Children(a, s, k - 1) ELSE Append(Children(a, s, k - 1), GetNextState(a.next, s, k)))
  <2>1. k \in 0..Alphabet /\ k # 0
    BY <1>1
  <2>2. all[k] = (IF GetNextState(a.next, s, k) \in {NoState, 0} THEN all[k - 1] ELSE Append(all[k - 1], GetNextState(a.next, s, k)))
    BY <1>9, <2>1
  <2>3. Children(a, s, k) = all[k] /\ Children(a, s, k - 1) = all[k - 1]
    BY <1>8
  <2>. QED  BY <2>2, <2>3
<1>. DEFINE T == {k \in 0..Alphabet : Children(a, s, k) \in Seq(Others(a))}
<1>12. 0 \in T
  <2>1. 0 \in 0..Alphabet
    BY <1>1
  <2>2. Children(a, s, 0) \in Seq(Others(a))
    BY <1>1, <1>10, Zenon
  <2>. QED  BY <2>1, <2>2
<1>13. ASSUME NEW k \in 1..Alphabet, k - 1 \in T PROVE k \in T
  <2>1. k \in 0..Alphabet /\ Children(a, s, k - 1) \in Seq(Others(a))
    BY <1>1, <1>13
  <2>2. (IF GetNextState(a.next, s, k) \in {NoState, 0} THEN Children(a, s, k - 1) ELSE Append(Children(a, s, k - 1), GetNextState(a.next, s, k))) \in Seq(Others(a))
    BY <1>2, <2>1
  <2>. QED  BY <1>11, <2>1, <2>2
<1>. HIDE DEF T
<1>14. \A k \in 0..Alphabet : k \in T
  <2>1. \A k \in 0 + 1 .. Alphabet : k - 1 \in T => k \in T
    BY <1>1, <1>13
  <2>. QED  BY <1>1, <1>12, <2>1, Upwards
<1>15. \A k \in 0..Alphabet : Children(a, s, k) \in Seq(Others(a))
  BY <1>14 DEF T
<1>. QED  BY <1>10, <1>11, <1>15

LEMMA ChildrenTypes ==
  ASSUME NEW a \in Trees, NEW s \in 0..a.states
  PROVE  Children(a, s, Alphabet) \in Seq(Others(a))
<1>1. Alphabet \in 0..Alphabet
  BY AlphabetAssumption
<1>. QED  BY <1>1, ChildrenStep

LEMMA ChildrenAre ==
  ASSUME NEW a \in Trees, NEW s \in 0..a.states
  PROVE  LET q == Children(a, s, Alphabet) IN
         q \in Seq(Others(a)) /\ Distinct(q) /\ ToSet(q) = Kids(a, s)
<1>. DEFINE q(k) == Children(a, s, k)
            upto(k) == {t \in 1..a.states : \E c \in 1..k : a.next[s][c] = t}
            T == {k \in 0..Alphabet : Distinct(q(k)) /\ ToSet(q(k)) = upto(k)}
<1>1. Alphabet \in Nat
  BY AlphabetAssumption
<1>2. /\ q(0) = <<>>
      /\ \A k \in 1..Alphabet :
           q(k) = IF GetNextState(a.next, s, k) \in {NoState, 0} THEN q(k - 1)
                  ELSE Append(q(k - 1), GetNextState(a.next, s, k))
      /\ \A k \in 0..Alphabet : q(k) \in Seq(Others(a))
  BY ChildrenStep
<1>. HIDE DEF q
<1>3. 0 \in T
  <2>1. Distinct(<<>>)
    BY DEF Distinct
  <2>2. upto(0) = {}
    OBVIOUS
  <2>. QED  BY <1>1, <1>2, <2>1, <2>2, ToSetEmpty
<1>4. ASSUME NEW k \in 1..Alphabet, k - 1 \in T PROVE k \in T
  <2>1. /\ k \in Letters /\ k \in 0..Alphabet /\ k - 1 \in 0..Alphabet /\ 1..k - 1 \subseteq Letters
        /\ \A c \in 1..k : c = k \/ c \in 1..k - 1
        /\ k \in 1..k /\ 1..k - 1 \subseteq 1..k
    BY <1>1 DEF Letters
  <2>2. Distinct(q(k - 1)) /\ ToSet(q(k - 1)) = upto(k - 1) /\ q(k - 1) \in Seq(Others(a))
    BY <1>2, <1>4, <2>1
  <2>3. a.next[s][k] \in 1..a.states \cup {NoState} /\ a.states \in Nat
    BY <2>1, TreeRows, TreeTypes
  <2>4. CASE a.next[s][k] = NoState
    <3>1. GetNextState(a.next, s, k) \in {NoState, 0}
      BY <2>4 DEF GetNextState
    <3>2. q(k) = q(k - 1)
      BY <1>2, <3>1
    <3>3. NoState \notin 1..a.states
      BY DEF NoState
    <3>4. upto(k) = upto(k - 1)
      BY <2>1, <2>4, <3>3
    <3>. QED  BY <2>1, <2>2, <3>2, <3>4
  <2>5. CASE a.next[s][k] \in 1..a.states
    <3>. DEFINE n == a.next[s][k]
    <3>1. GetNextState(a.next, s, k) = n /\ n \notin {NoState, 0} /\ n \in Others(a)
      BY <2>5 DEF GetNextState, NoState, Others
    <3>2. q(k) = Append(q(k - 1), n)
      BY <1>2, <3>1
    <3>3. n \notin upto(k - 1)
      <4>. SUFFICES ASSUME NEW c \in 1..k - 1, a.next[s][c] = n PROVE FALSE
        OBVIOUS
      <4>1. c \in Letters /\ c # k
        BY <2>1
      <4>. QED  BY <2>1, <3>1, <4>1, KidOnce
    <3>4. upto(k) = upto(k - 1) \cup {n}
      BY <2>1, <2>5
    <3>. HIDE DEF n, upto
    <3>5. Distinct(q(k)) /\ ToSet(q(k)) = upto(k - 1) \cup {n}
      <4>1. /\ ToSet(Append(q(k - 1), n)) = ToSet(q(k - 1)) \cup {n}
            /\ Distinct(q(k - 1)) /\ n \notin ToSet(q(k - 1)) => Distinct(Append(q(k - 1), n))
        BY <2>2, <3>1, AppendDistinct
      <4>. QED  BY <2>2, <3>2, <3>3, <4>1
    <3>6. Distinct(q(k)) /\ ToSet(q(k)) = upto(k)
      BY <3>4, <3>5
    <3>. QED  BY <2>1, <3>6
  <2>. QED  BY <2>3, <2>4, <2>5
<1>5. \A k \in 0..Alphabet : k \in T
  <2>. HIDE DEF T
  <2>. QED  BY <1>1, <1>3, <1>4, Counting
<1>6. Alphabet \in 0..Alphabet /\ upto(Alphabet) = Kids(a, s)
  BY <1>1 DEF Kids, Letters
<1>. QED  BY <1>2, <1>5, <1>6 DEF q

-----------------------------------------------------------------------------
(* The order in which states leave the queue.                              *)

\* The queue, by recursion.
LEMMA QueuedStep ==
  ASSUME NEW a \in Trees
  PROVE  /\ Queued(a, 0) = Children(a, 0, Alphabet)
         /\ \A k \in 1..a.states : Queued(a, k) = (IF k > Len(Queued(a, k - 1)) THEN Queued(a, k - 1) ELSE Queued(a, k - 1) \o Children(a, Queued(a, k - 1)[k], Alphabet))
         /\ \A k \in 0..a.states : Queued(a, k) \in Seq(Others(a))
<1>. DEFINE Eq(w) == w = [k \in 0..a.states |-> IF k = 0 THEN Children(a, 0, Alphabet) ELSE (IF k > Len(w[k - 1]) THEN w[k - 1] ELSE w[k - 1] \o Children(a, w[k - 1][k], Alphabet))]
            all == CHOOSE w : Eq(w)
            g == [x \in (1..a.states) \X Seq(Others(a)) |-> (IF x[1] > Len(x[2]) THEN x[2] ELSE x[2] \o Children(a, x[2][x[1]], Alphabet))]
<1>1. 0 \in Int /\ a.states \in Int /\ 0 <= a.states /\ Children(a, 0, Alphabet) \in Seq(Others(a)) /\ 0 + 1 = 1
  BY TreeTypes, ChildrenTypes
<1>2. ASSUME NEW k \in 1..a.states, NEW x \in Seq(Others(a)) PROVE (IF k > Len(x) THEN x ELSE x \o Children(a, x[k], Alphabet)) \in Seq(Others(a))
  <2>1. CASE k > Len(x)
    BY <2>1
  <2>2. CASE k <= Len(x)
    <3>1. k \in 1..Len(x) /\ Len(x) \in Nat
      BY <2>2, LenProperties
    <3>2. x[k] \in 0..a.states
      <4>1. x[k] \in Others(a)
        BY <3>1, ElementOfSeq
      <4>. QED  BY <4>1 DEF Others
    <3>3. Children(a, x[k], Alphabet) \in Seq(Others(a))
      BY <3>2, ChildrenTypes
    <3>. QED  BY <2>2, <3>1, <3>3, ConcatProperties
  <2>3. Len(x) \in Nat
    BY LenProperties
  <2>. QED  BY <2>1, <2>2, <2>3
<1>3. g \in [(1..a.states) \X Seq(Others(a)) -> Seq(Others(a))]
  BY <1>2
<1>4. \A k \in 1..a.states, x \in Seq(Others(a)) : g[<<k, x>>] = (IF k > Len(x) THEN x ELSE x \o Children(a, x[k], Alphabet))
  OBVIOUS
<1>. HIDE DEF g
<1>5. PICK f \in [0..a.states -> Seq(Others(a))] : Recursive(f, Children(a, 0, Alphabet), g, 0, a.states)
  BY <1>1, <1>3, RecursionExists
<1>6. Eq(f)
  <2>1. ASSUME NEW k \in 0..a.states
        PROVE  f[k] = IF k = 0 THEN Children(a, 0, Alphabet) ELSE (IF k > Len(f[k - 1]) THEN f[k - 1] ELSE f[k - 1] \o Children(a, f[k - 1][k], Alphabet))
    <3>1. CASE k = 0
      BY <1>5, <3>1 DEF Recursive
    <3>2. CASE k # 0
      <4>1. k \in 1..a.states /\ k - 1 \in 0..a.states
        BY <1>1, <3>2
      <4>2. f[k - 1] \in Seq(Others(a)) /\ f[k] = g[<<k, f[k - 1]>>]
        BY <1>1, <1>5, <4>1 DEF Recursive
      <4>3. g[<<k, f[k - 1]>>] = (IF k > Len(f[k - 1]) THEN f[k - 1] ELSE f[k - 1] \o Children(a, f[k - 1][k], Alphabet))
        BY <1>4, <4>1, <4>2
      <4>. QED  BY <3>2, <4>2, <4>3
    <3>. QED  BY <3>1, <3>2
  <2>. QED  BY <2>1
<1>7. Eq(all)
  <2>. HIDE DEF Eq
  <2>. QED  BY <1>6, Zenon
<1>8. \A k : Queued(a, k) = all[k]
  BY Zenon DEF Queued
<1>. HIDE DEF all
<1>9. \A k \in 0..a.states : all[k] = IF k = 0 THEN Children(a, 0, Alphabet) ELSE (IF k > Len(all[k - 1]) THEN all[k - 1] ELSE all[k - 1] \o Children(a, all[k - 1][k], Alphabet))
  BY <1>7
<1>10. Queued(a, 0) = Children(a, 0, Alphabet)
  <2>1. 0 \in 0..a.states
    BY <1>1
  <2>2. all[0] = Children(a, 0, Alphabet)
    BY <1>9, <2>1
  <2>. QED  BY <1>8, <2>2
<1>11. ASSUME NEW k \in 1..a.states PROVE Queued(a, k) = (IF k > Len(Queued(a, k - 1)) THEN Queued(a, k - 1) ELSE Queued(a, k - 1) \o Children(a, Queued(a, k - 1)[k], Alphabet))
  <2>1. k \in 0..a.states /\ k # 0
    BY <1>1
  <2>2. all[k] = (IF k > Len(all[k - 1]) THEN all[k - 1] ELSE all[k - 1] \o Children(a, all[k - 1][k], Alphabet))
    BY <1>9, <2>1
  <2>3. Queued(a, k) = all[k] /\ Queued(a, k - 1) = all[k - 1]
    BY <1>8
  <2>. QED  BY <2>2, <2>3
<1>. DEFINE T == {k \in 0..a.states : Queued(a, k) \in Seq(Others(a))}
<1>12. 0 \in T
  <2>1. 0 \in 0..a.states
    BY <1>1
  <2>2. Queued(a, 0) \in Seq(Others(a))
    BY <1>1, <1>10, Zenon
  <2>. QED  BY <2>1, <2>2
<1>13. ASSUME NEW k \in 1..a.states, k - 1 \in T PROVE k \in T
  <2>1. k \in 0..a.states /\ Queued(a, k - 1) \in Seq(Others(a))
    BY <1>1, <1>13
  <2>2. (IF k > Len(Queued(a, k - 1)) THEN Queued(a, k - 1) ELSE Queued(a, k - 1) \o Children(a, Queued(a, k - 1)[k], Alphabet)) \in Seq(Others(a))
    BY <1>2, <2>1
  <2>. QED  BY <1>11, <2>1, <2>2
<1>. HIDE DEF T
<1>14. \A k \in 0..a.states : k \in T
  <2>1. \A k \in 0 + 1 .. a.states : k - 1 \in T => k \in T
    BY <1>1, <1>13
  <2>. QED  BY <1>1, <1>12, <2>1, Upwards
<1>15. \A k \in 0..a.states : Queued(a, k) \in Seq(Others(a))
  BY <1>14 DEF T
<1>. QED  BY <1>10, <1>11, <1>15

\* What has left the queue, besides the first state.
Removed(q, k) == {0} \cup {q[i] : i \in 1..k}

\* After k states have left: none comes twice, they are the children of what has left,
\* deeper ones stand behind, and nothing is two deeper than what is still to leave.
QueueIs(a, q, k) ==
  /\ q \in Seq(Others(a)) /\ Distinct(q) /\ k <= Len(q)
  /\ \A t : t \in ToSet(q) <=> \E s \in Removed(q, k) : t \in Kids(a, s)
  /\ \A i, j \in 1..Len(q) : i <= j => Depth(a, q[i]) <= Depth(a, q[j])
  /\ \A i \in k + 1 .. Len(q), j \in 1..Len(q) : Depth(a, q[j]) <= Depth(a, q[i]) + 1

\* Sequences and numbers: what covers the first n has n or more values, what has none
\* twice has no more.
LEMMA IntervalSize ==
  ASSUME NEW n \in Nat
  PROVE  IsFiniteSet(1..n) /\ Cardinality(1..n) = n
<1>1. 1 \in Int /\ n \in Int
  OBVIOUS
<1>2. IsFiniteSet(1..n) /\ Cardinality(1..n) = IF 1 > n THEN 0 ELSE n - 1 + 1
  BY <1>1, FS_Interval, Zenon
<1>3. (IF 1 > n THEN 0 ELSE n - 1 + 1) = n
  OBVIOUS
<1>. QED  BY <1>2, <1>3

LEMMA CoverSize ==
  ASSUME NEW m \in Nat, NEW n \in Nat, NEW f \in Surjection(1..m, 1..n)
  PROVE  n <= m
<1>1. Cardinality(1..n) <= Cardinality(1..m)
  BY IntervalSize, FS_Surjection, Zenon
<1>. QED  BY <1>1, IntervalSize

LEMMA OnceSize ==
  ASSUME NEW m \in Nat, NEW n \in Nat, NEW f \in Injection(1..m, 1..n)
  PROVE  m <= n
<1>1. Cardinality(1..m) <= Cardinality(1..n)
  BY IntervalSize, FS_Injection, Zenon
<1>. QED  BY <1>1, IntervalSize

\* An empty queue means that all have left.
LEMMA EmptyQueue ==
  ASSUME NEW a \in Trees, NEW q, NEW k \in Nat, QueueIs(a, q, k), Len(q) = k
  PROVE  a.states <= k /\ \A t \in 1..a.states : \E i \in 1..k : q[i] = t
<1>. DEFINE T == {n \in 0..a.states : \A s \in 0..n : s \in Removed(q, k)}
<1>1. a.states \in Nat
  BY TreeTypes
<1>2. \A t : t \in ToSet(q) <=> \E i \in 1..k : q[i] = t
  BY ToSetIs DEF QueueIs
<1>3. 0 \in T
  BY <1>1 DEF Removed
<1>4. ASSUME NEW n \in 1..a.states, n - 1 \in T PROVE n \in T
  <2>1. PICK s \in 0..a.states : s < n /\ n \in Kids(a, s)
    BY KidOf
  <2>2. s \in 0..n - 1
    BY <2>1
  <2>3. s \in Removed(q, k)
    BY <1>4, <2>2
  <2>4. n \in ToSet(q)
    BY <2>1, <2>3 DEF QueueIs
  <2>5. n \in Removed(q, k)
    BY <1>2, <2>4 DEF Removed
  <2>6. \A u \in 0..n : u = n \/ u \in 0..n - 1
    OBVIOUS
  <2>7. n \in 0..a.states
    BY <1>1
  <2>. QED  BY <1>4, <2>5, <2>6, <2>7
<1>5. \A n \in 0..a.states : n \in T
  <2>. HIDE DEF T
  <2>. QED  BY <1>1, <1>3, <1>4, Counting
<1>6. ASSUME NEW t \in 1..a.states PROVE \E i \in 1..k : q[i] = t
  <2>1. t \in Removed(q, k)
    BY <1>5
  <2>. QED  BY <2>1 DEF Removed
<1>7. \A i \in 1..k : q[i] \in 1..a.states
  BY ElementOfSeq DEF QueueIs, Others
<1>. DEFINE f == [i \in 1..k |-> q[i]]
<1>8. f \in Surjection(1..k, 1..a.states)
  <2>1. f \in [1..k -> 1..a.states]
    BY <1>7
  <2>2. \A t \in 1..a.states : \E i \in 1..k : f[i] = t
    BY <1>6
  <2>. QED  BY <2>1, <2>2 DEF Surjection
<1>9. a.states <= k
  BY <1>1, <1>8, CoverSize
<1>. QED  BY <1>6, <1>9

\* No more than all states are ever in the queue.
LEMMA QueueBound ==
  ASSUME NEW a \in Trees, NEW q \in Seq(Others(a)), Distinct(q)
  PROVE  Len(q) <= a.states
<1>1. a.states \in Nat /\ Len(q) \in Nat
  BY TreeTypes, LenProperties
<1>. DEFINE f == [i \in 1..Len(q) |-> q[i]]
<1>2. f \in [1..Len(q) -> 1..a.states]
  <2>1. \A i \in 1..Len(q) : q[i] \in Others(a)
    BY ElementOfSeq
  <2>. QED  BY <2>1 DEF Others
<1>3. IsInjective(f)
  <2>1. DOMAIN f = 1..Len(q)
    OBVIOUS
  <2>2. \A i, j \in 1..Len(q) : f[i] = f[j] => i = j
    BY DEF Distinct
  <2>. QED  BY <2>1, <2>2 DEF IsInjective
<1>4. f \in Injection(1..Len(q), 1..a.states)
  BY <1>2, <1>3 DEF Injection
<1>. QED  BY <1>1, <1>4, OnceSize

LEMMA QueueStarts ==
  ASSUME NEW a \in Trees
  PROVE  QueueIs(a, Children(a, 0, Alphabet), 0)
<1>. DEFINE q == Children(a, 0, Alphabet)
<1>1. a.states \in Nat /\ 0 \in 0..a.states
  BY TreeTypes
<1>2. q \in Seq(Others(a)) /\ Distinct(q) /\ ToSet(q) = Kids(a, 0)
  BY <1>1, ChildrenAre
<1>. HIDE DEF q
<1>3. Len(q) \in Nat /\ Removed(q, 0) = {0}
  BY <1>2, LenProperties DEF Removed
<1>4. ASSUME NEW i \in 1..Len(q) PROVE Depth(a, q[i]) = 1
  <2>1. q[i] \in ToSet(q)
    BY <1>2, ToSetIs
  <2>2. Depth(a, q[i]) = Depth(a, 0) + 1
    BY <1>1, <1>2, <2>1, KidsDepth
  <2>. QED  BY <2>2, RootDepth
<1>5. \A i, j \in 1..Len(q) : i <= j => Depth(a, q[i]) <= Depth(a, q[j])
  BY <1>4
<1>6. \A i \in 0 + 1 .. Len(q), j \in 1..Len(q) : Depth(a, q[j]) <= Depth(a, q[i]) + 1
  <2>1. ASSUME NEW i \in 0 + 1 .. Len(q), NEW j \in 1..Len(q)
        PROVE  Depth(a, q[j]) <= Depth(a, q[i]) + 1
    <3>1. i \in 1..Len(q)
      OBVIOUS
    <3>2. Depth(a, q[i]) = 1 /\ Depth(a, q[j]) = 1
      BY <1>4, <3>1
    <3>. QED  BY <3>2
  <2>. QED  BY <2>1
<1>7. \A t : t \in ToSet(q) <=> \E s \in Removed(q, 0) : t \in Kids(a, s)
  BY <1>2, <1>3
<1>8. 0 <= Len(q)
  BY <1>3
<1>9. QueueIs(a, q, 0)
  BY <1>2, <1>5, <1>6, <1>7, <1>8 DEF QueueIs
<1>. QED  BY <1>9 DEF q

LEMMA QueueGoesOn ==
  ASSUME NEW a \in Trees, NEW q, NEW k \in 1..a.states, QueueIs(a, q, k - 1)
  PROVE  k <= Len(q) /\ QueueIs(a, q \o Children(a, q[k], Alphabet), k)
<1>1. a.states \in Nat /\ q \in Seq(Others(a)) /\ Len(q) \in Nat /\ k - 1 <= Len(q) /\ Distinct(q)
  BY TreeTypes, LenProperties DEF QueueIs
<1>2. k <= Len(q)
  <2>. SUFFICES ASSUME Len(q) = k - 1 PROVE FALSE
    BY <1>1
  <2>1. k - 1 \in Nat
    OBVIOUS
  <2>2. a.states <= k - 1
    BY <2>1, EmptyQueue
  <2>. QED  BY <1>1, <2>2
<1>. DEFINE r == q[k]
            z == Children(a, r, Alphabet)
            u == q \o z
<1>3. r \in 1..a.states /\ r \in 0..a.states /\ k \in 1..Len(q)
  <2>1. k \in 1..Len(q)
    BY <1>1, <1>2
  <2>2. r \in Others(a)
    BY <1>1, <2>1, ElementOfSeq
  <2>. QED  BY <2>1, <2>2 DEF Others
<1>4. z \in Seq(Others(a)) /\ Distinct(z) /\ ToSet(z) = Kids(a, r) /\ Len(z) \in Nat
  BY <1>3, ChildrenAre, LenProperties
<1>. HIDE DEF r, z
<1>5. /\ u \in Seq(Others(a)) /\ ToSet(u) = ToSet(q) \cup ToSet(z)
      /\ Len(u) = Len(q) + Len(z)
      /\ \A i \in 1..Len(q) : u[i] = q[i]
      /\ \A i \in 1..Len(u) : i > Len(q) => i - Len(q) \in 1..Len(z) /\ u[i] = z[i - Len(q)]
  <2>1. u \in Seq(Others(a)) /\ ToSet(u) = ToSet(q) \cup ToSet(z)
    BY <1>1, <1>4, ToSetConcat
  <2>2. /\ Len(u) = Len(q) + Len(z)
        /\ \A i \in 1..Len(q) + Len(z) : u[i] = IF i <= Len(q) THEN q[i] ELSE z[i - Len(q)]
    BY <1>1, <1>4, ConcatProperties
  <2>. HIDE DEF u
  <2>. QED  BY <1>1, <1>4, <2>1, <2>2
<1>6. \A t : t \in ToSet(q) <=> \E i \in 1..Len(q) : q[i] = t
  BY <1>1, ToSetIs
<1>7. \A i \in 1..Len(z) : z[i] \in Kids(a, r)
  BY <1>4, ToSetIs
\* The children of r are new: it has not left before.
<1>8. ToSet(q) \cap ToSet(z) = {}
  <2>. SUFFICES ASSUME NEW t \in ToSet(q), t \in Kids(a, r) PROVE FALSE
    BY <1>4
  <2>1. PICK s \in Removed(q, k - 1) : t \in Kids(a, s)
    BY DEF QueueIs
  <2>2. CASE s = 0
    <3>1. 0 \in 0..a.states
      BY <1>1
    <3>2. r = 0
      BY <1>3, <2>1, <2>2, <3>1, KidsOnce
    <3>. QED  BY <1>3, <3>2
  <2>3. CASE s # 0
    <3>1. PICK i \in 1..k - 1 : s = q[i]
      BY <2>1, <2>3 DEF Removed
    <3>2. i \in 1..Len(q) /\ i # k
      BY <1>1
    <3>3. s \in Others(a)
      BY <1>1, <3>1, <3>2, ElementOfSeq
    <3>4. s \in 0..a.states
      BY <3>3 DEF Others
    <3>5. s = r
      BY <1>3, <2>1, <3>4, KidsOnce
    <3>6. q[i] = q[k]
      BY <3>1, <3>5 DEF r
    <3>. QED  BY <1>1, <1>3, <3>2, <3>6 DEF Distinct
  <2>. QED  BY <2>2, <2>3
<1>9. Distinct(u)
  BY <1>1, <1>4, <1>8, ConcatDistinct
<1>. HIDE DEF u
<1>10. Removed(u, k) = Removed(q, k - 1) \cup {r}
  <2>1. \A i \in 1..k : u[i] = q[i]
    BY <1>1, <1>2, <1>5
  <2>2. \A i \in 1..k : i = k \/ i \in 1..k - 1
    OBVIOUS
  <2>3. k \in 1..k /\ 1..k - 1 \subseteq 1..k
    OBVIOUS
  <2>. QED  BY <2>1, <2>2, <2>3 DEF Removed, r
<1>11. \A t : t \in ToSet(u) <=> \E s \in Removed(u, k) : t \in Kids(a, s)
  <2>1. \A t : t \in ToSet(q) <=> \E s \in Removed(q, k - 1) : t \in Kids(a, s)
    BY DEF QueueIs
  <2>. QED  BY <1>4, <1>5, <1>10, <2>1
<1>. DEFINE D(i) == Depth(a, u[i])
            d == Depth(a, r)
<1>12. \A i \in 1..Len(u) : D(i) \in Nat
  <2>1. \A i \in 1..Len(u) : u[i] \in Others(a)
    BY <1>5, ElementOfSeq
  <2>. QED  BY <2>1, WordTypes DEF Others
<1>13. d \in Nat
  BY <1>3, WordTypes
<1>14. ASSUME NEW i \in 1..Len(u), i > Len(q) PROVE D(i) = d + 1
  <2>1. u[i] \in Kids(a, r)
    BY <1>5, <1>7, <1>14
  <2>. QED  BY <1>3, <2>1, KidsDepth
<1>15. ASSUME NEW j \in 1..Len(u), j <= Len(q) PROVE D(j) <= d + 1
  <2>1. j \in 1..Len(q) /\ k \in (k - 1) + 1 .. Len(q) /\ u[j] = q[j]
    BY <1>1, <1>2, <1>5, <1>15
  <2>. QED  BY <2>1 DEF QueueIs, r
<1>16. ASSUME NEW i \in 1..Len(u), i >= k PROVE d <= D(i)
  <2>1. CASE i <= Len(q)
    <3>1. i \in 1..Len(q) /\ u[i] = q[i]
      BY <1>1, <1>5, <2>1
    <3>. QED  BY <1>3, <1>16, <3>1 DEF QueueIs, r
  <2>2. CASE i > Len(q)
    BY <1>13, <1>14, <2>2
  <2>. QED  BY <1>1, <2>1, <2>2
<1>17. ASSUME NEW j \in 1..Len(u) PROVE D(j) <= d + 1
  <2>1. CASE j <= Len(q)
    BY <1>15, <2>1
  <2>2. CASE j > Len(q)
    BY <1>13, <1>14, <2>2
  <2>. QED  BY <1>1, <2>1, <2>2
<1>18. ASSUME NEW i \in 1..Len(u), NEW j \in 1..Len(u), i <= j PROVE D(i) <= D(j)
  <2>1. CASE j <= Len(q)
    <3>1. i \in 1..Len(q) /\ j \in 1..Len(q) /\ u[i] = q[i] /\ u[j] = q[j]
      BY <1>1, <1>5, <1>18, <2>1
    <3>. QED  BY <1>18, <3>1 DEF QueueIs
  <2>2. CASE j > Len(q)
    <3>1. D(j) = d + 1
      BY <1>14, <2>2
    <3>. QED  BY <1>17, <3>1
  <2>. QED  BY <1>1, <2>1, <2>2
<1>19. ASSUME NEW i \in k + 1 .. Len(u), NEW j \in 1..Len(u) PROVE D(j) <= D(i) + 1
  <2>1. i \in 1..Len(u) /\ i >= k
    OBVIOUS
  <2>. HIDE DEF D, d
  <2>2. d <= D(i) /\ D(j) <= d + 1 /\ D(i) \in Nat /\ D(j) \in Nat
    BY <1>12, <1>16, <1>17, <2>1
  <2>. QED  BY <1>13, <2>2
<1>20. k <= Len(u)
  BY <1>1, <1>2, <1>4, <1>5
<1>21. QueueIs(a, u, k)
  BY <1>5, <1>9, <1>11, <1>18, <1>19, <1>20 DEF QueueIs
<1>. QED  BY <1>2, <1>21 DEF u, z, r

\* Every state but the first leaves the queue once, and none before a less deep one.
LEMMA OrderIs ==
  ASSUME NEW a \in Trees
  PROVE  LET o == QueueOrder(a) IN
         /\ \A i \in 1..a.states : o[i] \in 1..a.states
         /\ \A i, j \in 1..a.states : o[i] = o[j] => i = j
         /\ \A t \in 1..a.states : \E i \in 1..a.states : o[i] = t
         /\ \A i, j \in 1..a.states : i <= j => Depth(a, o[i]) <= Depth(a, o[j])
<1>. DEFINE Q(k) == Queued(a, k)
            N == a.states
            T == {k \in 0..N : QueueIs(a, Q(k), k)}
<1>1. N \in Nat
  BY TreeTypes
<1>2. /\ Q(0) = Children(a, 0, Alphabet)
      /\ \A k \in 1..N :
           Q(k) = IF k > Len(Q(k - 1)) THEN Q(k - 1) ELSE Q(k - 1) \o Children(a, Q(k - 1)[k], Alphabet)
  BY QueuedStep
<1>3. QueueOrder(a) = Q(N)
  BY DEF QueueOrder
<1>. HIDE DEF Q, N
<1>4. 0 \in T
  BY <1>1, <1>2, QueueStarts
<1>5. ASSUME NEW k \in 1..N, k - 1 \in T PROVE k \in T
  <2>1. k \in 0..N /\ QueueIs(a, Q(k - 1), k - 1)
    BY <1>1, <1>5
  <2>. DEFINE q == Q(k - 1)
  <2>2. k <= Len(q) /\ QueueIs(a, q \o Children(a, q[k], Alphabet), k) /\ Len(q) \in Nat
    <3>1. q \in Seq(Others(a))
      BY <2>1 DEF QueueIs
    <3>. QED  BY <2>1, <3>1, QueueGoesOn, LenProperties DEF N
  <2>3. Q(k) = q \o Children(a, q[k], Alphabet)
    BY <1>2, <2>2
  <2>. QED  BY <2>1, <2>2, <2>3
<1>6. N \in T
  <2>. HIDE DEF T
  <2>1. \A k \in 0..N : k \in T
    BY <1>1, <1>4, <1>5, Counting
  <2>. QED  BY <1>1, <2>1
<1>. DEFINE o == Q(N)
<1>7. QueueIs(a, o, N)
  BY <1>6
<1>. HIDE DEF o
<1>8. o \in Seq(Others(a)) /\ Distinct(o) /\ N <= Len(o) /\ Len(o) \in Nat
  BY <1>7, LenProperties DEF QueueIs
<1>9. Len(o) = N
  <2>1. Len(o) <= N
    BY <1>8, QueueBound DEF N
  <2>. QED  BY <1>1, <1>8, <2>1
<1>10. \A i \in 1..N : o[i] \in 1..N
  <2>1. \A i \in 1..N : o[i] \in Others(a)
    BY <1>8, <1>9, ElementOfSeq
  <2>. QED  BY <2>1 DEF Others, N
<1>11. \A t \in 1..N : \E i \in 1..N : o[i] = t
  BY <1>1, <1>7, <1>9, EmptyQueue DEF N
<1>12. \A i, j \in 1..N : o[i] = o[j] => i = j
  BY <1>8, <1>9 DEF Distinct
<1>13. \A i, j \in 1..N : i <= j => Depth(a, o[i]) <= Depth(a, o[j])
  BY <1>7, <1>9 DEF QueueIs
<1>. QED  BY <1>3, <1>10, <1>11, <1>12, <1>13 DEF o, N

-----------------------------------------------------------------------------
(* Fallbacks.                                                              *)

States(a) == 0..a.states

\* The state of the longest end of a word, and of the longest end of a state's word that
\* is not the whole.
Longest(a, w, t) ==
  /\ t \in States(a) /\ EndsIn(w, a.words[t])
  /\ \A u \in States(a) : EndsIn(w, a.words[u]) => Depth(a, u) <= Depth(a, t)

LongestProper(a, s, t) ==
  /\ t \in States(a) /\ t # s /\ EndsIn(a.words[s], a.words[t])
  /\ \A u \in States(a) : u # s /\ EndsIn(a.words[s], a.words[u]) => Depth(a, u) <= Depth(a, t)

LEMMA StateTypes ==
  ASSUME NEW a \in Trees
  PROVE  /\ a.states \in Nat /\ 0 \in States(a) /\ 1..a.states \subseteq States(a)
         /\ \A s \in States(a) : s = 0 \/ s \in 1..a.states
         /\ \A s \in States(a) : a.words[s] \in Seq(Letters) /\ Depth(a, s) \in Nat
BY TreeTypes, WordTypes DEF States

LEMMA ProperShorter ==
  ASSUME NEW a \in Trees, NEW s \in States(a), NEW t \in States(a), s # t,
         EndsIn(a.words[s], a.words[t])
  PROVE  Depth(a, t) < Depth(a, s)
<1>1. a.words[s] \in Seq(Letters) /\ a.words[t] \in Seq(Letters)
      /\ Depth(a, s) \in Nat /\ Depth(a, t) \in Nat
  BY StateTypes
<1>2. Depth(a, t) <= Depth(a, s)
  BY DEF EndsIn, Depth
<1>3. Depth(a, t) # Depth(a, s)
  <2>. SUFFICES ASSUME Len(a.words[t]) = Len(a.words[s]) PROVE FALSE
    BY DEF Depth
  <2>1. a.words[t] = a.words[s]
    BY <1>1, EndsEqual
  <2>. QED  BY <2>1, WordsUnique DEF States
<1>. QED  BY <1>1, <1>2, <1>3

\* What falls back only to less deep states.
Linked(a) ==
  {fail \in [States(a) -> States(a)] :
     fail[0] = 0 /\ \A s \in 1..a.states : Depth(a, fail[s]) < Depth(a, s)}

\* The chain of fallbacks, by recursion.
LEMMA FallsStep ==
  ASSUME NEW a \in Trees, NEW fail \in [States(a) -> States(a)], NEW s \in States(a)
  PROVE  /\ Falls(a, fail, s, 0) = fail[s]
         /\ \A k \in 1..a.states : Falls(a, fail, s, k) = fail[Falls(a, fail, s, k - 1)]
         /\ \A k \in 0..a.states : Falls(a, fail, s, k) \in States(a)
<1>. DEFINE Eq(w) == w = [k \in 0..a.states |-> IF k = 0 THEN fail[s] ELSE fail[w[k - 1]]]
            all == CHOOSE w : Eq(w)
            g == [x \in (1..a.states) \X States(a) |-> fail[x[2]]]
<1>1. 0 \in Int /\ a.states \in Int /\ 0 <= a.states /\ fail[s] \in States(a) /\ 0 + 1 = 1
  BY TreeTypes
<1>2. ASSUME NEW k \in 1..a.states, NEW x \in States(a) PROVE fail[x] \in States(a)
  OBVIOUS
<1>3. g \in [(1..a.states) \X States(a) -> States(a)]
  BY <1>2
<1>4. \A k \in 1..a.states, x \in States(a) : g[<<k, x>>] = fail[x]
  OBVIOUS
<1>. HIDE DEF g
<1>5. PICK f \in [0..a.states -> States(a)] : Recursive(f, fail[s], g, 0, a.states)
  BY <1>1, <1>3, RecursionExists
<1>6. Eq(f)
  <2>1. ASSUME NEW k \in 0..a.states
        PROVE  f[k] = IF k = 0 THEN fail[s] ELSE fail[f[k - 1]]
    <3>1. CASE k = 0
      BY <1>5, <3>1 DEF Recursive
    <3>2. CASE k # 0
      <4>1. k \in 1..a.states /\ k - 1 \in 0..a.states
        BY <1>1, <3>2
      <4>2. f[k - 1] \in States(a) /\ f[k] = g[<<k, f[k - 1]>>]
        BY <1>1, <1>5, <4>1 DEF Recursive
      <4>3. g[<<k, f[k - 1]>>] = fail[f[k - 1]]
        BY <1>4, <4>1, <4>2
      <4>. QED  BY <3>2, <4>2, <4>3
    <3>. QED  BY <3>1, <3>2
  <2>. QED  BY <2>1
<1>7. Eq(all)
  <2>. HIDE DEF Eq
  <2>. QED  BY <1>6, Zenon
<1>8. \A k : Falls(a, fail, s, k) = all[k]
  BY Zenon DEF Falls
<1>. HIDE DEF all
<1>9. \A k \in 0..a.states : all[k] = IF k = 0 THEN fail[s] ELSE fail[all[k - 1]]
  BY <1>7
<1>10. Falls(a, fail, s, 0) = fail[s]
  <2>1. 0 \in 0..a.states
    BY <1>1
  <2>2. all[0] = fail[s]
    BY <1>9, <2>1
  <2>. QED  BY <1>8, <2>2
<1>11. ASSUME NEW k \in 1..a.states PROVE Falls(a, fail, s, k) = fail[Falls(a, fail, s, k - 1)]
  <2>1. k \in 0..a.states /\ k # 0
    BY <1>1
  <2>2. all[k] = fail[all[k - 1]]
    BY <1>9, <2>1
  <2>3. Falls(a, fail, s, k) = all[k] /\ Falls(a, fail, s, k - 1) = all[k - 1]
    BY <1>8
  <2>. QED  BY <2>2, <2>3
<1>. DEFINE T == {k \in 0..a.states : Falls(a, fail, s, k) \in States(a)}
<1>12. 0 \in T
  <2>1. 0 \in 0..a.states
    BY <1>1
  <2>2. Falls(a, fail, s, 0) \in States(a)
    BY <1>1, <1>10, Zenon
  <2>. QED  BY <2>1, <2>2
<1>13. ASSUME NEW k \in 1..a.states, k - 1 \in T PROVE k \in T
  <2>1. k \in 0..a.states /\ Falls(a, fail, s, k - 1) \in States(a)
    BY <1>1, <1>13
  <2>2. fail[Falls(a, fail, s, k - 1)] \in States(a)
    BY <1>2, <2>1
  <2>. QED  BY <1>11, <2>1, <2>2
<1>. HIDE DEF T
<1>14. \A k \in 0..a.states : k \in T
  <2>1. \A k \in 0 + 1 .. a.states : k - 1 \in T => k \in T
    BY <1>1, <1>13
  <2>. QED  BY <1>1, <1>12, <2>1, Upwards
<1>15. \A k \in 0..a.states : Falls(a, fail, s, k) \in States(a)
  BY <1>14 DEF T
<1>. QED  BY <1>10, <1>11, <1>15

LEMMA FallsDown ==
  ASSUME NEW a \in Trees, NEW fail \in Linked(a), NEW r \in 1..a.states
  PROVE  /\ \A i \in 0..a.states : Falls(a, fail, r, i) \in States(a)
         /\ \A i \in 0..a.states : Depth(a, Falls(a, fail, r, i)) < Depth(a, r)
         /\ Falls(a, fail, r, a.states) = 0
<1>. DEFINE F(i) == Falls(a, fail, r, i)
            N == a.states
            T == {i \in 0..N : F(i) = 0 \/ Depth(a, F(i)) + i < Depth(a, r)}
<1>1. fail \in [States(a) -> States(a)] /\ r \in States(a) /\ N \in Nat
  BY StateTypes DEF Linked
<1>2. /\ F(0) = fail[r]
      /\ \A i \in 1..N : F(i) = fail[F(i - 1)]
      /\ \A i \in 0..N : F(i) \in States(a)
  BY <1>1, FallsStep
<1>3. Depth(a, r) \in Nat /\ Depth(a, r) > 0 /\ Depth(a, 0) = 0
  <2>1. Depth(a, r) \in Nat \ {0} /\ Depth(a, 0) = 0
    BY RootDepth
  <2>. QED  BY <2>1
<1>. HIDE DEF F
<1>4. 0 \in T
  <2>1. Depth(a, fail[r]) < Depth(a, r) /\ Depth(a, fail[r]) \in Nat
    BY <1>1, StateTypes DEF Linked
  <2>. QED  BY <1>1, <1>2, <2>1
<1>5. ASSUME NEW i \in 1..N, i - 1 \in T PROVE i \in T
  <2>. DEFINE u == F(i - 1)
  <2>1. u \in States(a) /\ F(i) = fail[u] /\ i \in 0..N /\ i - 1 \in 0..N
    BY <1>1, <1>2
  <2>2. u = 0 \/ Depth(a, u) + (i - 1) < Depth(a, r)
    BY <1>5
  <2>. HIDE DEF u
  <2>3. CASE u = 0
    BY <2>1, <2>3 DEF Linked
  <2>4. CASE u # 0
    <3>1. u \in 1..N
      BY <2>1, <2>4, StateTypes
    <3>2. Depth(a, fail[u]) < Depth(a, u)
      BY <3>1 DEF Linked
    <3>3. Depth(a, fail[u]) \in Nat /\ Depth(a, u) \in Nat
      BY <1>1, <2>1, StateTypes
    <3>4. Depth(a, fail[u]) + i < Depth(a, r)
      BY <1>3, <2>2, <2>4, <3>2, <3>3
    <3>. QED  BY <2>1, <3>4
  <2>. QED  BY <2>3, <2>4
<1>6. \A i \in 0..N : i \in T
  <2>. HIDE DEF T
  <2>. QED  BY <1>1, <1>4, <1>5, Counting
<1>7. ASSUME NEW i \in 0..N PROVE Depth(a, F(i)) < Depth(a, r)
  <2>1. F(i) = 0 \/ Depth(a, F(i)) + i < Depth(a, r)
    BY <1>6
  <2>2. Depth(a, F(i)) \in Nat
    BY <1>2, StateTypes
  <2>3. CASE F(i) = 0
    BY <1>3, <2>3
  <2>4. CASE Depth(a, F(i)) + i < Depth(a, r)
    BY <1>3, <2>2, <2>4
  <2>. QED  BY <2>1, <2>3, <2>4
<1>8. F(N) = 0
  <2>1. N \in 0..N
    BY <1>1
  <2>2. F(N) = 0 \/ Depth(a, F(N)) + N < Depth(a, r)
    BY <1>6, <2>1
  <2>3. Depth(a, F(N)) \in Nat
    BY <1>2, <2>1, StateTypes
  <2>4. Depth(a, r) <= N
    <3>1. Depth(a, r) <= r
      BY DepthBound
    <3>. QED  BY <1>1, <1>3, <3>1
  <2>. QED  BY <1>1, <1>3, <2>2, <2>3, <2>4
<1>. QED  BY <1>2, <1>7, <1>8 DEF F

LEMMA MinIs ==
  ASSUME NEW n \in Nat, NEW S \in SUBSET (0..n), S # {}
  PROVE  Min(S) \in S /\ \A y \in S : Min(S) <= y
<1>1. \E x \in S : \A y \in S : x <= y
  <2>. SUFFICES ASSUME \A x \in S : \E y \in S : ~(x <= y) PROVE FALSE
    OBVIOUS
  <2>. DEFINE T == {k \in 0..n : \A i \in 0..k : i \notin S}
  <2>1. 0 \in T
    <3>1. 0 \notin S
      OBVIOUS
    <3>2. \A i \in 0..0 : i = 0
      OBVIOUS
    <3>. QED  BY <3>1, <3>2
  <2>2. ASSUME NEW k \in 1..n, k - 1 \in T PROVE k \in T
    <3>1. \A i \in 0..k - 1 : i \notin S
      BY <2>2
    <3>2. \A y \in S : y \notin 0..k - 1 /\ y \in 0..n
      BY <3>1
    <3>3. k \notin S
      <4>1. \A y \in S : k <= y
        BY <3>2
      <4>. QED  BY <4>1
    <3>4. \A i \in 0..k : i = k \/ i \in 0..k - 1
      OBVIOUS
    <3>. QED  BY <3>1, <3>3, <3>4
  <2>3. \A k \in 0..n : k \in T
    <3>. HIDE DEF T
    <3>. QED  BY <2>1, <2>2, Counting
  <2>4. n \in T
    BY <2>3
  <2>. QED  BY <2>4
<1>. QED  BY <1>1, Zenon DEF Min

\* FallBack stops at the first state of the chain that has a transition.
LEMMA FallBackStops ==
  ASSUME NEW a \in Trees, NEW fail \in Linked(a), NEW r \in 1..a.states, NEW c \in Letters
  PROVE  \E i \in 0..a.states :
           /\ FallBack(a, fail, r, c) = GetNextState(a.next, Falls(a, fail, r, i), c)
           /\ GetNextState(a.next, Falls(a, fail, r, i), c) # NoState
           /\ \A j \in 0..a.states :
                j < i => GetNextState(a.next, Falls(a, fail, r, j), c) = NoState
<1>. DEFINE F(i) == Falls(a, fail, r, i)
            N == a.states
            valid == {i \in 0..N : GetNextState(a.next, F(i), c) # NoState}
<1>1. N \in Nat /\ F(N) = 0
  BY FallsDown, StateTypes
<1>2. N \in valid
  BY <1>1 DEF GetNextState, NoState
<1>3. Min(valid) \in valid /\ \A y \in valid : Min(valid) <= y
  <2>1. valid \in SUBSET (0..N) /\ valid # {}
    BY <1>2
  <2>. HIDE DEF valid
  <2>. QED  BY <1>1, <2>1, MinIs
<1>4. FallBack(a, fail, r, c) = GetNextState(a.next, F(Min(valid)), c)
  BY DEF FallBack
<1>. DEFINE i == Min(valid)
<1>5. i \in valid /\ \A y \in valid : i <= y
  BY <1>3
<1>6. FallBack(a, fail, r, c) = GetNextState(a.next, F(i), c)
  BY <1>4
<1>. HIDE DEF i
<1>7. i \in 0..N /\ GetNextState(a.next, F(i), c) # NoState
  BY <1>5
<1>8. ASSUME NEW j \in 0..N, j < i PROVE GetNextState(a.next, F(j), c) = NoState
  <2>1. j \notin valid
    BY <1>5, <1>7, <1>8
  <2>. QED  BY <2>1
<1>. QED  BY <1>6, <1>7, <1>8

\* A transition, or staying in the first state.
LEMMA GetNextIs ==
  ASSUME NEW a \in Trees, NEW s \in States(a), NEW c \in Letters,
         GetNextState(a.next, s, c) # NoState
  PROVE  LET n == GetNextState(a.next, s, c) IN
         /\ n \in States(a)
         /\ \/ /\ a.next[s][c] = n /\ n # NoState /\ n \in 1..a.states
               /\ a.words[n] = Append(a.words[s], c) /\ Depth(a, n) = Depth(a, s) + 1
            \/ s = 0 /\ n = 0 /\ a.next[s][c] = NoState
<1>1. CASE a.next[s][c] = NoState
  <2>1. s = 0 /\ GetNextState(a.next, s, c) = 0
    BY <1>1 DEF GetNextState
  <2>. QED  BY <1>1, <2>1
<1>2. CASE a.next[s][c] # NoState
  <2>. DEFINE n == a.next[s][c]
  <2>1. GetNextState(a.next, s, c) = n
    BY <1>2 DEF GetNextState
  <2>2. n \in 1..a.states /\ a.words[n] = Append(a.words[s], c)
    BY <1>2, KidWord DEF States
  <2>3. n \in States(a) /\ a.words[s] \in Seq(Letters)
    BY <2>2, StateTypes
  <2>. HIDE DEF n
  <2>4. Depth(a, n) = Depth(a, s) + 1
    <3>1. Len(Append(a.words[s], c)) = Len(a.words[s]) + 1
      BY <2>3, AppendProperties
    <3>. QED  BY <2>2, <3>1 DEF Depth
  <2>5. n # NoState
    BY <1>2 DEF n
  <2>. QED  BY <2>1, <2>2, <2>3, <2>4, <2>5 DEF n
<1>. QED  BY <1>1, <1>2

LEMMA FallBackTypes ==
  ASSUME NEW a \in Trees, NEW fail \in Linked(a), NEW r \in 1..a.states, NEW c \in Letters
  PROVE  LET n == FallBack(a, fail, r, c) IN n \in States(a) /\ Depth(a, n) <= Depth(a, r)
<1>1. PICK i \in 0..a.states :
        /\ FallBack(a, fail, r, c) = GetNextState(a.next, Falls(a, fail, r, i), c)
        /\ GetNextState(a.next, Falls(a, fail, r, i), c) # NoState
  BY FallBackStops
<1>. DEFINE t == Falls(a, fail, r, i)
            n == GetNextState(a.next, t, c)
<1>2. t \in States(a) /\ Depth(a, t) < Depth(a, r)
  BY FallsDown
<1>. HIDE DEF t
<1>3. /\ n \in States(a)
      /\ Depth(a, n) = Depth(a, t) + 1 \/ n = 0
  BY <1>1, <1>2, GetNextIs DEF t
<1>4. Depth(a, t) \in Nat /\ Depth(a, r) \in Nat /\ Depth(a, 0) = 0
  <2>1. r \in States(a)
    BY StateTypes
  <2>. QED  BY <1>2, <2>1, StateTypes, RootDepth
<1>. HIDE DEF n
<1>5. Depth(a, n) <= Depth(a, r)
  BY <1>2, <1>3, <1>4
<1>. QED  BY <1>1, <1>3, <1>5 DEF n, t

\* A transition of the fallbacks leads to the longest end of the child's word.
LEMMA FallBackLongest ==
  ASSUME NEW a \in Trees, NEW fail \in Linked(a), NEW r \in 1..a.states, NEW c \in Letters,
         a.next[r][c] # NoState,
         \A s \in 1..a.states : Depth(a, s) <= Depth(a, r) => LongestProper(a, s, fail[s])
  PROVE  LongestProper(a, a.next[r][c], FallBack(a, fail, r, c))
<1>. DEFINE N == a.states
            F(i) == Falls(a, fail, r, i)
            s == a.next[r][c]
            w == a.words[r]
<1>1. N \in Nat /\ r \in States(a) /\ w \in Seq(Letters) /\ fail \in [States(a) -> States(a)]
  BY StateTypes DEF Linked
<1>2. s \in 1..N /\ s \in States(a) /\ a.words[s] = Append(w, c)
  BY <1>1, KidWord, StateTypes DEF States
<1>3. /\ F(0) = fail[r]
      /\ \A i \in 1..N : F(i) = fail[F(i - 1)]
      /\ \A i \in 0..N : F(i) \in States(a) /\ Depth(a, F(i)) < Depth(a, r)
  <2>1. F(0) = fail[r] /\ \A i \in 1..N : F(i) = fail[F(i - 1)]
    BY <1>1, FallsStep
  <2>. QED  BY <2>1, FallsDown
<1>4. PICK e \in 0..N :
        /\ FallBack(a, fail, r, c) = GetNextState(a.next, F(e), c)
        /\ GetNextState(a.next, F(e), c) # NoState
        /\ \A j \in 0..N : j < e => GetNextState(a.next, F(j), c) = NoState
  BY FallBackStops
<1>5. \A u \in 1..N : Depth(a, u) <= Depth(a, r) => LongestProper(a, u, fail[u])
  OBVIOUS
<1>6. LongestProper(a, r, fail[r])
  <2>1. Depth(a, r) \in Nat
    BY <1>1, StateTypes
  <2>. QED  BY <1>5, <2>1
<1>. HIDE DEF F, s, w
\* The chain runs through ends of the word of r.
<1>. DEFINE T == {i \in 0..N : EndsIn(w, a.words[F(i)])}
<1>7. 0 \in T
  BY <1>1, <1>3, <1>6 DEF LongestProper, w
<1>8. ASSUME NEW i \in 1..N, i - 1 \in T PROVE i \in T
  <2>. DEFINE u == F(i - 1)
  <2>1. /\ u \in States(a) /\ F(i) = fail[u] /\ EndsIn(w, a.words[u]) /\ Depth(a, u) < Depth(a, r)
        /\ i \in 0..N /\ F(i) \in States(a)
    BY <1>1, <1>3, <1>8
  <2>. HIDE DEF u
  <2>2. EndsIn(a.words[u], a.words[fail[u]])
    <3>1. CASE u = 0
      BY <2>1, <3>1, StateTypes, EndsItself DEF Linked
    <3>2. CASE u # 0
      <4>1. u \in 1..N /\ Depth(a, u) <= Depth(a, r)
        <5>1. Depth(a, u) \in Nat /\ Depth(a, r) \in Nat
          BY <1>1, <2>1, StateTypes
        <5>. QED  BY <2>1, <3>2, <5>1, StateTypes
      <4>. QED  BY <1>5, <4>1 DEF LongestProper
    <3>. QED  BY <3>1, <3>2
  <2>3. a.words[u] \in Seq(Letters) /\ a.words[F(i)] \in Seq(Letters)
    BY <2>1, StateTypes
  <2>4. EndsIn(w, a.words[F(i)])
    BY <1>1, <2>1, <2>2, <2>3, EndsTransitive
  <2>. QED  BY <2>1, <2>4
<1>9. \A i \in 0..N : EndsIn(w, a.words[F(i)])
  <2>1. \A i \in 0..N : i \in T
    <3>. HIDE DEF T
    <3>. QED  BY <1>1, <1>7, <1>8, Counting
  <2>. QED  BY <2>1
<1>. HIDE DEF T
\* It skips no end of the word of r that has a transition.
<1>10. ASSUME NEW p \in States(a), p # r, EndsIn(w, a.words[p]), a.next[p][c] # NoState
       PROVE  Depth(a, p) <= Depth(a, F(e))
  <2>. DEFINE U == {i \in 0..N : i <= e => Depth(a, p) <= Depth(a, F(i))}
  <2>1. 0 \in U
    BY <1>1, <1>3, <1>6, <1>10 DEF LongestProper, w
  <2>2. ASSUME NEW i \in 1..N, i - 1 \in U PROVE i \in U
    <3>. SUFFICES ASSUME i <= e PROVE Depth(a, p) <= Depth(a, F(i))
      BY <1>1
    <3>. DEFINE u == F(i - 1)
    <3>1. /\ u \in States(a) /\ F(i) = fail[u] /\ EndsIn(w, a.words[u]) /\ Depth(a, u) < Depth(a, r)
          /\ GetNextState(a.next, u, c) = NoState /\ Depth(a, p) <= Depth(a, u)
      <4>1. i - 1 \in 0..N /\ i - 1 < e /\ i - 1 <= e
        BY <1>1
      <4>. QED  BY <1>3, <1>4, <1>9, <2>2, <4>1
    <3>. HIDE DEF u
    <3>2. u # 0 /\ u # p
      BY <1>10, <3>1 DEF GetNextState, NoState
    <3>3. u \in 1..N /\ Depth(a, u) <= Depth(a, r)
      <4>1. Depth(a, u) \in Nat /\ Depth(a, r) \in Nat
        BY <1>1, <3>1, StateTypes
      <4>. QED  BY <3>1, <3>2, <4>1, StateTypes
    <3>4. LongestProper(a, u, fail[u])
      BY <1>5, <3>3
    <3>5. EndsIn(a.words[u], a.words[p])
      <4>1. a.words[u] \in Seq(Letters) /\ a.words[p] \in Seq(Letters)
        BY <3>1, StateTypes
      <4>2. Len(a.words[p]) <= Len(a.words[u])
        BY <3>1 DEF Depth
      <4>. QED  BY <1>1, <1>10, <3>1, <4>1, <4>2, EndsNested
    <3>. QED  BY <3>1, <3>2, <3>4, <3>5 DEF LongestProper
  <2>3. \A i \in 0..N : i \in U
    <3>. HIDE DEF U
    <3>. QED  BY <1>1, <2>1, <2>2, Counting
  <2>4. e \in 0..N /\ e <= e
    BY <1>1
  <2>. QED  BY <2>3, <2>4
<1>. DEFINE t == F(e)
            n == GetNextState(a.next, t, c)
<1>11. t \in States(a) /\ Depth(a, t) < Depth(a, r) /\ EndsIn(w, a.words[t]) /\ n # NoState
       /\ FallBack(a, fail, r, c) = n
  BY <1>3, <1>4, <1>9
<1>12. \A p \in States(a) :
         p # r /\ EndsIn(w, a.words[p]) /\ a.next[p][c] # NoState => Depth(a, p) <= Depth(a, t)
  BY <1>10
<1>. HIDE DEF t
<1>13. /\ n \in States(a)
       /\ \/ /\ a.next[t][c] = n /\ n # NoState /\ n \in 1..a.states
             /\ a.words[n] = Append(a.words[t], c) /\ Depth(a, n) = Depth(a, t) + 1
          \/ t = 0 /\ n = 0 /\ a.next[t][c] = NoState
  BY <1>11, GetNextIs
<1>. HIDE DEF n, N
<1>14. a.words[t] \in Seq(Letters) /\ Depth(a, t) \in Nat /\ Depth(a, r) \in Nat
  BY <1>1, <1>11, StateTypes
<1>15. Depth(a, s) = Depth(a, r) + 1
  <2>1. Len(Append(w, c)) = Len(w) + 1
    BY <1>1, AppendProperties
  <2>. QED  BY <1>2, <2>1 DEF Depth, w
<1>16. EndsIn(a.words[s], a.words[n])
  <2>1. CASE a.words[n] = Append(a.words[t], c)
    <3>1. EndsIn(Append(w, c), Append(a.words[t], c))
      BY <1>1, <1>11, <1>14, EndsAppend
    <3>. QED  BY <1>2, <2>1, <3>1
  <2>2. CASE n = 0
    <3>1. a.words[0] = <<>>
      BY TreeTypes DEF Grown
    <3>2. a.words[s] \in Seq(Letters)
      BY <1>2, StateTypes
    <3>. QED  BY <2>2, <3>1, <3>2, EndsItself
  <2>. QED  BY <1>13, <2>1, <2>2
<1>17. n # s
  <2>1. CASE Depth(a, n) = Depth(a, t) + 1
    BY <1>11, <1>14, <1>15, <2>1
  <2>2. CASE n = 0
    BY <1>2, <2>2 DEF N
  <2>. QED  BY <1>13, <2>1, <2>2
<1>18. ASSUME NEW u \in States(a), u # s, EndsIn(a.words[s], a.words[u])
       PROVE  Depth(a, u) <= Depth(a, n)
  <2>1. CASE u = 0
    <3>1. Depth(a, n) \in Nat
      BY <1>13, StateTypes
    <3>. QED  BY <2>1, <3>1, RootDepth
  <2>2. CASE u # 0
    <3>1. u \in 1..a.states
      BY <2>2, StateTypes
    <3>2. PICK p \in 0..a.states, d \in Letters : a.next[p][d] = u
      BY <3>1, TreeTypes DEF Grown
    <3>3. a.next[p][d] # NoState /\ p \in States(a)
      BY <3>1, <3>2 DEF NoState, States
    <3>4. a.words[u] = Append(a.words[p], d) /\ a.words[p] \in Seq(Letters)
      BY <3>2, <3>3, KidWord, StateTypes
    <3>5. EndsIn(Append(w, c), Append(a.words[p], d))
      BY <1>2, <1>18, <3>4
    <3>6. d = c /\ EndsIn(w, a.words[p])
      BY <1>1, <3>4, <3>5, EndsAppend
    <3>7. p # r
      BY <1>18, <3>2, <3>6 DEF s
    <3>8. a.next[p][c] = u /\ a.next[p][c] # NoState
      BY <3>2, <3>3, <3>6
    <3>9. Depth(a, p) <= Depth(a, t)
      BY <1>12, <3>3, <3>6, <3>7, <3>8
    <3>10. Depth(a, u) = Depth(a, p) + 1 /\ Depth(a, p) \in Nat
      <4>1. Len(Append(a.words[p], d)) = Len(a.words[p]) + 1
        BY <3>4, AppendProperties
      <4>. QED  BY <3>3, <3>4, <4>1, StateTypes DEF Depth
    <3>11. CASE Depth(a, n) = Depth(a, t) + 1
      BY <1>14, <3>9, <3>10, <3>11
    <3>12. CASE t = 0 /\ a.next[t][c] = NoState
      <4>1. Depth(a, p) = 0
        BY <3>9, <3>10, <3>12, RootDepth
      <4>2. p = 0
        <5>1. p \in 1..a.states => Depth(a, p) # 0
          BY RootDepth
        <5>. QED  BY <3>3, <4>1, <5>1, StateTypes
      <4>. QED  BY <3>8, <3>12, <4>2
    <3>. QED  BY <1>13, <3>11, <3>12
  <2>. QED  BY <2>1, <2>2
<1>19. LongestProper(a, s, n)
  BY <1>13, <1>16, <1>17, <1>18 DEF LongestProper
<1>. QED  BY <1>11, <1>19 DEF s

Nfas(a) == [fail : Linked(a), match : [States(a) -> Seq(Nat)]]

LEMMA AddFallBacksIs ==
  ASSUME NEW a \in Trees, NEW x \in Nfas(a), NEW r \in 1..a.states
  PROVE  LET y == AddFallBacks(a, x, r) IN
         /\ y \in Nfas(a)
         /\ \A s \in States(a) :
              s \notin Kids(a, r) => y.fail[s] = x.fail[s] /\ y.match[s] = x.match[s]
         /\ \A s \in Kids(a, r) : \E c \in Letters :
              /\ a.next[r][c] = s
              /\ y.fail[s] = FallBack(a, x.fail, r, c)
              /\ y.match[s] = Reverse(x.match[FallBack(a, x.fail, r, c)]) \o x.match[s]
<1>. DEFINE y == AddFallBacks(a, x, r)
            letter(s) == CHOOSE c \in Letters : a.next[r][c] = s
            next(s) == FallBack(a, x.fail, r, letter(s))
<1>1. x.fail \in Linked(a) /\ x.match \in [States(a) -> Seq(Nat)] /\ r \in States(a)
  BY StateTypes DEF Nfas
<1>2. x.fail \in [States(a) -> States(a)] /\ x.fail[0] = 0
      /\ \A s \in 1..a.states : Depth(a, x.fail[s]) < Depth(a, s)
  BY <1>1 DEF Linked
<1>3. y = [fail |-> [s \in States(a) |-> IF s \in Kids(a, r) THEN next(s) ELSE x.fail[s]],
           match |-> [s \in States(a) |->
                        IF s \in Kids(a, r) THEN Reverse(x.match[next(s)]) \o x.match[s]
                        ELSE x.match[s]]]
  BY Zenon DEF AddFallBacks, Kids, States
<1>4. \A s \in Kids(a, r) : letter(s) \in Letters /\ a.next[r][letter(s)] = s
  BY DEF Kids
<1>5. \A s \in Kids(a, r) :
        /\ s \in States(a) /\ s \in 1..a.states
        /\ next(s) \in States(a) /\ Depth(a, next(s)) < Depth(a, s)
  <2>. SUFFICES ASSUME NEW s \in Kids(a, r)
                PROVE  /\ s \in States(a) /\ s \in 1..a.states
                       /\ next(s) \in States(a) /\ Depth(a, next(s)) < Depth(a, s)
    OBVIOUS
  <2>1. s \in 1..a.states /\ Depth(a, s) = Depth(a, r) + 1
    BY <1>1, KidsDepth DEF States
  <2>2. next(s) \in States(a) /\ Depth(a, next(s)) <= Depth(a, r)
    BY <1>1, <1>4, FallBackTypes
  <2>3. s \in States(a) /\ Depth(a, r) \in Nat /\ Depth(a, next(s)) \in Nat
    BY <1>1, <2>1, <2>2, StateTypes
  <2>. HIDE DEF next
  <2>. QED  BY <2>1, <2>2, <2>3
<1>. HIDE DEF y, next, letter
<1>6. /\ y.fail = [s \in States(a) |-> IF s \in Kids(a, r) THEN next(s) ELSE x.fail[s]]
      /\ y.match = [s \in States(a) |->
                      IF s \in Kids(a, r) THEN Reverse(x.match[next(s)]) \o x.match[s]
                      ELSE x.match[s]]
      /\ y = [fail |-> y.fail, match |-> y.match]
  BY <1>3
<1>7. y.fail \in Linked(a)
  <2>1. y.fail \in [States(a) -> States(a)]
    BY <1>2, <1>5, <1>6
  <2>2. y.fail[0] = 0
    <3>1. 0 \in States(a) /\ 0 \notin Kids(a, r)
      BY StateTypes DEF Kids
    <3>. QED  BY <1>2, <1>6, <3>1
  <2>3. ASSUME NEW s \in 1..a.states PROVE Depth(a, y.fail[s]) < Depth(a, s)
    <3>1. s \in States(a)
      BY StateTypes
    <3>2. CASE s \in Kids(a, r)
      BY <1>5, <1>6, <3>1, <3>2
    <3>3. CASE s \notin Kids(a, r)
      BY <1>2, <1>6, <3>1, <3>3
    <3>. QED  BY <3>2, <3>3
  <2>. QED  BY <2>1, <2>2, <2>3 DEF Linked
<1>8. y.match \in [States(a) -> Seq(Nat)]
  <2>1. ASSUME NEW s \in Kids(a, r) PROVE Reverse(x.match[next(s)]) \o x.match[s] \in Seq(Nat)
    <3>1. x.match[next(s)] \in Seq(Nat) /\ x.match[s] \in Seq(Nat)
      BY <1>1, <1>5
    <3>2. Reverse(x.match[next(s)]) \in Seq(Nat)
      BY <3>1, ToSetReverse
    <3>. QED  BY <3>1, <3>2, ConcatProperties
  <2>. QED  BY <1>1, <1>6, <2>1
<1>9. y \in Nfas(a)
  BY <1>6, <1>7, <1>8 DEF Nfas
<1>10. \A s \in States(a) :
         s \notin Kids(a, r) => y.fail[s] = x.fail[s] /\ y.match[s] = x.match[s]
  BY <1>6
<1>11. ASSUME NEW s \in Kids(a, r)
       PROVE  \E c \in Letters :
                /\ a.next[r][c] = s
                /\ y.fail[s] = FallBack(a, x.fail, r, c)
                /\ y.match[s] = Reverse(x.match[FallBack(a, x.fail, r, c)]) \o x.match[s]
  <2>1. letter(s) \in Letters /\ a.next[r][letter(s)] = s
    BY <1>4
  <2>2. s \in States(a)
    BY <1>5
  <2>3. y.fail[s] = next(s) /\ y.match[s] = Reverse(x.match[next(s)]) \o x.match[s]
    BY <1>6, <2>2
  <2>. QED  BY <2>1, <2>3 DEF next
<1>. QED  BY <1>9, <1>10, <1>11 DEF y

\* The fallbacks, by recursion.
LEMMA FallbacksStep ==
  ASSUME NEW a \in Trees
  PROVE  /\ Fallbacks(a, 0) = [fail |-> [s \in 0..a.states |-> 0], match |-> a.match]
         /\ \A k \in 1..a.states : Fallbacks(a, k) = AddFallBacks(a, Fallbacks(a, k - 1), QueueOrder(a)[k])
         /\ \A k \in 0..a.states : Fallbacks(a, k) \in Nfas(a)
<1>. DEFINE Eq(w) == w = [k \in 0..a.states |-> IF k = 0 THEN [fail |-> [s \in 0..a.states |-> 0], match |-> a.match] ELSE AddFallBacks(a, w[k - 1], QueueOrder(a)[k])]
            all == CHOOSE w : Eq(w)
            g == [x \in (1..a.states) \X Nfas(a) |-> AddFallBacks(a, x[2], QueueOrder(a)[x[1]])]
<1>1. 0 \in Int /\ a.states \in Int /\ 0 <= a.states /\ [fail |-> [s \in 0..a.states |-> 0], match |-> a.match] \in Nfas(a) /\ 0 + 1 = 1
  <2>. DEFINE none == [s \in 0..a.states |-> 0]
  <2>1. none \in Linked(a)
    <3>1. none \in [States(a) -> States(a)] /\ none[0] = 0
      BY StateTypes DEF States
    <3>2. ASSUME NEW s \in 1..a.states PROVE Depth(a, none[s]) < Depth(a, s)
      <4>1. none[s] = 0
        BY StateTypes DEF States
      <4>2. Depth(a, s) \in Nat \ {0} /\ Depth(a, 0) = 0
        BY RootDepth
      <4>. QED  BY <4>1, <4>2
    <3>. QED  BY <3>1, <3>2 DEF Linked
  <2>2. a.match \in [States(a) -> Seq(Nat)]
    BY TreeTypes DEF States
  <2>. HIDE DEF none
  <2>3. [fail |-> none, match |-> a.match] \in Nfas(a)
    BY <2>1, <2>2 DEF Nfas
  <2>. QED  BY <2>3, StateTypes DEF none
<1>2. ASSUME NEW k \in 1..a.states, NEW x \in Nfas(a) PROVE AddFallBacks(a, x, QueueOrder(a)[k]) \in Nfas(a)
  <2>1. QueueOrder(a)[k] \in 1..a.states
    BY OrderIs
  <2>. QED  BY <2>1, AddFallBacksIs
<1>3. g \in [(1..a.states) \X Nfas(a) -> Nfas(a)]
  BY <1>2
<1>4. \A k \in 1..a.states, x \in Nfas(a) : g[<<k, x>>] = AddFallBacks(a, x, QueueOrder(a)[k])
  OBVIOUS
<1>. HIDE DEF g
<1>5. PICK f \in [0..a.states -> Nfas(a)] : Recursive(f, [fail |-> [s \in 0..a.states |-> 0], match |-> a.match], g, 0, a.states)
  BY <1>1, <1>3, RecursionExists
<1>6. Eq(f)
  <2>1. ASSUME NEW k \in 0..a.states
        PROVE  f[k] = IF k = 0 THEN [fail |-> [s \in 0..a.states |-> 0], match |-> a.match] ELSE AddFallBacks(a, f[k - 1], QueueOrder(a)[k])
    <3>1. CASE k = 0
      BY <1>5, <3>1 DEF Recursive
    <3>2. CASE k # 0
      <4>1. k \in 1..a.states /\ k - 1 \in 0..a.states
        BY <1>1, <3>2
      <4>2. f[k - 1] \in Nfas(a) /\ f[k] = g[<<k, f[k - 1]>>]
        BY <1>1, <1>5, <4>1 DEF Recursive
      <4>3. g[<<k, f[k - 1]>>] = AddFallBacks(a, f[k - 1], QueueOrder(a)[k])
        BY <1>4, <4>1, <4>2
      <4>. QED  BY <3>2, <4>2, <4>3
    <3>. QED  BY <3>1, <3>2
  <2>. QED  BY <2>1
<1>7. Eq(all)
  <2>. HIDE DEF Eq
  <2>. QED  BY <1>6, Zenon
<1>8. \A k : Fallbacks(a, k) = all[k]
  BY Zenon DEF Fallbacks
<1>. HIDE DEF all
<1>9. \A k \in 0..a.states : all[k] = IF k = 0 THEN [fail |-> [s \in 0..a.states |-> 0], match |-> a.match] ELSE AddFallBacks(a, all[k - 1], QueueOrder(a)[k])
  BY <1>7
<1>10. Fallbacks(a, 0) = [fail |-> [s \in 0..a.states |-> 0], match |-> a.match]
  <2>1. 0 \in 0..a.states
    BY <1>1
  <2>2. all[0] = [fail |-> [s \in 0..a.states |-> 0], match |-> a.match]
    BY <1>9, <2>1
  <2>. QED  BY <1>8, <2>2
<1>11. ASSUME NEW k \in 1..a.states PROVE Fallbacks(a, k) = AddFallBacks(a, Fallbacks(a, k - 1), QueueOrder(a)[k])
  <2>1. k \in 0..a.states /\ k # 0
    BY <1>1
  <2>2. all[k] = AddFallBacks(a, all[k - 1], QueueOrder(a)[k])
    BY <1>9, <2>1
  <2>3. Fallbacks(a, k) = all[k] /\ Fallbacks(a, k - 1) = all[k - 1]
    BY <1>8
  <2>. QED  BY <2>2, <2>3
<1>. DEFINE T == {k \in 0..a.states : Fallbacks(a, k) \in Nfas(a)}
<1>12. 0 \in T
  <2>1. 0 \in 0..a.states
    BY <1>1
  <2>2. Fallbacks(a, 0) \in Nfas(a)
    BY <1>1, <1>10, Zenon
  <2>. QED  BY <2>1, <2>2
<1>13. ASSUME NEW k \in 1..a.states, k - 1 \in T PROVE k \in T
  <2>1. k \in 0..a.states /\ Fallbacks(a, k - 1) \in Nfas(a)
    BY <1>1, <1>13
  <2>2. AddFallBacks(a, Fallbacks(a, k - 1), QueueOrder(a)[k]) \in Nfas(a)
    BY <1>2, <2>1
  <2>. QED  BY <1>11, <2>1, <2>2
<1>. HIDE DEF T
<1>14. \A k \in 0..a.states : k \in T
  <2>1. \A k \in 0 + 1 .. a.states : k - 1 \in T => k \in T
    BY <1>1, <1>13
  <2>. QED  BY <1>1, <1>12, <2>1, Upwards
<1>15. \A k \in 0..a.states : Fallbacks(a, k) \in Nfas(a)
  BY <1>14 DEF T
<1>. QED  BY <1>10, <1>11, <1>15

-----------------------------------------------------------------------------
(* The fallbacks and matches that Build_NFA leaves.                        *)

\* The patterns listed for a state: all with letters that end with its word, and no
\* pattern that does not.
MatchIs(a, Ps, m, s) ==
  /\ \A x \in ToSet(m) : \E p \in Ps : p.id = x /\ EndsIn(a.words[s], p.word)
  /\ \A p \in Ps : p.word # <<>> /\ EndsIn(a.words[s], p.word) => p.id \in ToSet(m)

\* What has left the queue.
Left(a, k) == {0} \cup {QueueOrder(a)[i] : i \in 1..k}

Known(a, k, s) == s = 0 \/ \E r \in Left(a, k) : s \in Kids(a, r)

LEMMA LeftTypes ==
  ASSUME NEW a \in Trees, NEW k \in 1..a.states
  PROVE  LET r == QueueOrder(a)[k] IN
         /\ r \in 1..a.states /\ r \in States(a) /\ r \notin Left(a, k - 1)
         /\ Left(a, k) = Left(a, k - 1) \cup {r}
         /\ Left(a, k) \subseteq States(a) /\ Left(a, k - 1) \subseteq States(a)
<1>. DEFINE o == QueueOrder(a)
            r == o[k]
<1>1. /\ \A i \in 1..a.states : o[i] \in 1..a.states
      /\ \A i, j \in 1..a.states : o[i] = o[j] => i = j
  BY OrderIs
<1>. HIDE DEF o
<1>2. k \in 1..k /\ 1..k \subseteq 1..a.states /\ 1..k - 1 \subseteq 1..k
      /\ \A i \in 1..k : i = k \/ i \in 1..k - 1
  BY StateTypes
<1>3. r \in 1..a.states /\ r \in States(a) /\ r # 0
  BY <1>1, StateTypes
<1>4. \A i \in 1..k - 1 : o[i] # r
  <2>. SUFFICES ASSUME NEW i \in 1..k - 1, o[i] = o[k] PROVE FALSE
    OBVIOUS
  <2>1. i \in 1..a.states /\ i # k
    BY <1>2
  <2>. QED  BY <1>1, <2>1
<1>5. r \notin {0} \cup {o[i] : i \in 1..k - 1}
  BY <1>3, <1>4
<1>6. {0} \cup {o[i] : i \in 1..k} = ({0} \cup {o[i] : i \in 1..k - 1}) \cup {r}
  BY <1>2
<1>7. {0} \cup {o[i] : i \in 1..k} \subseteq States(a)
  BY <1>1, <1>2, StateTypes
<1>. QED  BY <1>3, <1>5, <1>6, <1>7 DEF o, Left

\* Less deep states have left before.
LEMMA LeftBefore ==
  ASSUME NEW a \in Trees, NEW k \in 1..a.states, NEW p \in States(a),
         Depth(a, p) < Depth(a, QueueOrder(a)[k])
  PROVE  p \in Left(a, k - 1)
<1>. DEFINE o == QueueOrder(a)
<1>1. /\ \A i \in 1..a.states : o[i] \in 1..a.states
      /\ \A t \in 1..a.states : \E i \in 1..a.states : o[i] = t
      /\ \A i, j \in 1..a.states : i <= j => Depth(a, o[i]) <= Depth(a, o[j])
  BY OrderIs
<1>. HIDE DEF o
<1>2. CASE p = 0
  BY <1>2 DEF Left
<1>3. CASE p # 0
  <2>1. PICK i \in 1..a.states : o[i] = p
    BY <1>1, <1>3, StateTypes
  <2>2. ~(k <= i)
    <3>1. Depth(a, p) \in Nat /\ Depth(a, o[k]) \in Nat
      BY <1>1, StateTypes
    <3>2. Depth(a, p) < Depth(a, o[k])
      BY DEF o
    <3>. QED  BY <1>1, <2>1, <3>1, <3>2
  <2>3. i \in 1..k - 1
    BY <2>2
  <2>. QED  BY <2>1, <2>3 DEF Left, o
<1>. QED  BY <1>2, <1>3

LEMMA KnownBefore ==
  ASSUME NEW a \in Trees, NEW k \in 1..a.states, NEW s \in States(a),
         Depth(a, s) <= Depth(a, QueueOrder(a)[k])
  PROVE  Known(a, k - 1, s)
<1>1. CASE s = 0
  BY <1>1 DEF Known
<1>2. CASE s # 0
  <2>1. s \in 1..a.states
    BY <1>2, StateTypes
  <2>2. PICK p \in 0..a.states : s \in Kids(a, p)
    BY <2>1, KidOf
  <2>3. p \in States(a) /\ Depth(a, s) = Depth(a, p) + 1
    BY <2>2, KidsDepth DEF States
  <2>4. Depth(a, p) \in Nat /\ Depth(a, QueueOrder(a)[k]) \in Nat
    BY <2>3, LeftTypes, StateTypes
  <2>5. Depth(a, p) < Depth(a, QueueOrder(a)[k])
    BY <2>3, <2>4
  <2>6. p \in Left(a, k - 1)
    BY <2>3, <2>5, LeftBefore
  <2>. QED  BY <2>2, <2>6 DEF Known
<1>. QED  BY <1>1, <1>2

LEMMA NothingEndsIn ==
  ASSUME NEW w \in Seq(Letters), EndsIn(<<>>, w)
  PROVE  w = <<>>
<1>1. <<>> \in Seq(Letters) /\ Len(w) \in Nat /\ Len(w) <= 0
  BY LenProperties DEF EndsIn
<1>2. Len(w) = Len(<<>>)
  BY <1>1
<1>. QED  BY <1>1, <1>2, EndsEqual

LEMMA PatternTypes ==
  ASSUME NEW Ps \in SUBSET Pattern, NEW p \in Ps
  PROVE  p.id \in Nat /\ p.word \in Seq(Letters)
BY DEF Pattern

\* The first state, and those of one letter, list their own patterns.
LEMMA OwnMatches ==
  ASSUME NEW a \in Trees, NEW Ps \in SUBSET Pattern, Carries(a, Ps),
         NEW s \in States(a), s = 0 \/ s \in Kids(a, 0)
  PROVE  MatchIs(a, Ps, a.match[s], s)
<1>1. ToSet(a.match[s]) = Own(a, Ps, s)
  BY DEF Carries, States
<1>2. a.words[s] \in Seq(Letters)
  BY StateTypes
<1>3. ASSUME NEW x \in ToSet(a.match[s])
      PROVE  \E p \in Ps : p.id = x /\ EndsIn(a.words[s], p.word)
  <2>1. PICK p \in Ps : p.id = x /\ p.word = a.words[s]
    BY <1>1 DEF Own
  <2>. QED  BY <1>2, <2>1, EndsItself
<1>4. ASSUME NEW p \in Ps, p.word # <<>>, EndsIn(a.words[s], p.word)
      PROVE  p.id \in ToSet(a.match[s])
  <2>1. p.id \in Nat /\ p.word \in Seq(Letters)
    BY PatternTypes
  <2>2. CASE s = 0
    <3>1. a.words[0] = <<>>
      BY TreeTypes DEF Grown
    <3>. QED  BY <1>4, <2>1, <2>2, <3>1, NothingEndsIn
  <2>3. CASE s \in Kids(a, 0)
    <3>1. Depth(a, s) = 1
      <4>1. 0 \in 0..a.states
        BY TreeTypes
      <4>2. Depth(a, s) = Depth(a, 0) + 1
        BY <2>3, <4>1, KidsDepth
      <4>. QED  BY <4>2, RootDepth
    <3>2. Len(p.word) \in Nat /\ Len(p.word) # 0
      BY <1>4, <2>1, LenProperties, EmptySeq
    <3>3. Len(p.word) <= Len(a.words[s])
      BY <1>4 DEF EndsIn
    <3>4. Len(p.word) = Len(a.words[s])
      <4>. DEFINE n == Len(p.word)
                  d == Len(a.words[s])
      <4>1. n \in Nat /\ n # 0 /\ n <= d /\ d = 1
        BY <3>1, <3>2, <3>3 DEF Depth
      <4>. HIDE DEF n, d
      <4>2. n = d
        BY <4>1
      <4>. QED  BY <4>2 DEF n, d
    <3>5. p.word = a.words[s]
      BY <1>2, <1>4, <2>1, <3>4, EndsEqual
    <3>. QED  BY <1>1, <2>1, <3>5 DEF Own
  <2>. QED  BY <2>2, <2>3
<1>. QED  BY <1>3, <1>4 DEF MatchIs

\* The patterns of the fallback and a state's own are all that end with its word.
LEMMA MatchesJoin ==
  ASSUME NEW a \in Trees, NEW Ps \in SUBSET Pattern, Carries(a, Ps),
         NEW s \in States(a), NEW f \in States(a), LongestProper(a, s, f),
         NEW m \in Seq(Nat), MatchIs(a, Ps, m, f)
  PROVE  MatchIs(a, Ps, Reverse(m) \o a.match[s], s)
<1>. DEFINE u == Reverse(m) \o a.match[s]
<1>1. ToSet(a.match[s]) = Own(a, Ps, s) /\ a.match[s] \in Seq(Nat)
  BY TreeTypes DEF Carries, States
<1>2. ToSet(u) = ToSet(m) \cup Own(a, Ps, s)
  <2>1. Reverse(m) \in Seq(Nat) /\ ToSet(Reverse(m)) = ToSet(m)
    BY ToSetReverse
  <2>2. \A q, r \in Seq(Nat) : ToSet(q \o r) = ToSet(q) \cup ToSet(r)
    BY ToSetConcat
  <2>3. ToSet(u) = ToSet(Reverse(m)) \cup ToSet(a.match[s])
    BY <1>1, <2>1, <2>2, Zenon
  <2>. HIDE DEF u
  <2>. QED  BY <1>1, <2>1, <2>3
<1>. HIDE DEF u
<1>3. a.words[s] \in Seq(Letters) /\ a.words[f] \in Seq(Letters) /\ EndsIn(a.words[s], a.words[f])
  BY StateTypes DEF LongestProper
<1>4. ASSUME NEW x \in ToSet(u)
      PROVE  \E p \in Ps : p.id = x /\ EndsIn(a.words[s], p.word)
  <2>1. CASE x \in Own(a, Ps, s)
    <3>1. PICK p \in Ps : p.id = x /\ p.word = a.words[s]
      BY <2>1 DEF Own
    <3>. QED  BY <1>3, <3>1, EndsItself
  <2>2. CASE x \in ToSet(m)
    <3>1. PICK p \in Ps : p.id = x /\ EndsIn(a.words[f], p.word)
      BY <2>2 DEF MatchIs
    <3>2. p.word \in Seq(Letters)
      BY PatternTypes
    <3>3. EndsIn(a.words[s], p.word)
      BY <1>3, <3>1, <3>2, EndsTransitive
    <3>. QED  BY <3>1, <3>3
  <2>. QED  BY <1>2, <2>1, <2>2
<1>5. ASSUME NEW p \in Ps, p.word # <<>>, EndsIn(a.words[s], p.word)
      PROVE  p.id \in ToSet(u)
  <2>1. p.id \in Nat /\ p.word \in Seq(Letters)
    BY PatternTypes
  <2>2. PICK v \in States(a) : a.words[v] = p.word
    BY DEF Carries, States
  <2>3. CASE v = s
    <3>1. p.id \in Own(a, Ps, s)
      BY <2>1, <2>2, <2>3 DEF Own
    <3>. QED  BY <1>2, <3>1
  <2>4. CASE v # s
    <3>1. Depth(a, v) <= Depth(a, f)
      BY <1>5, <2>2, <2>4 DEF LongestProper
    <3>2. EndsIn(a.words[f], p.word)
      <4>1. Len(p.word) <= Len(a.words[f])
        BY <2>2, <3>1 DEF Depth
      <4>. QED  BY <1>3, <1>5, <2>1, <4>1, EndsNested
    <3>3. p.id \in ToSet(m)
      BY <1>5, <3>2 DEF MatchIs
    <3>. QED  BY <1>2, <3>3
  <2>. QED  BY <2>3, <2>4
<1>. QED  BY <1>4, <1>5 DEF MatchIs, u

\* When k states have left the queue: the fallbacks of their children are right, their
\* children have all their patterns, and the others have their own.
NfaIs(a, Ps, x, k) ==
  /\ x \in Nfas(a)
  /\ \A s \in 1..a.states : Known(a, k, s) => LongestProper(a, s, x.fail[s])
  /\ \A s \in States(a) : Known(a, k, s) => MatchIs(a, Ps, x.match[s], s)
  /\ \A s \in States(a) : ~Known(a, k, s) => x.match[s] = a.match[s]

LEMMA NfaStarts ==
  ASSUME NEW a \in Trees, NEW Ps \in SUBSET Pattern, Carries(a, Ps)
  PROVE  NfaIs(a, Ps, Fallbacks(a, 0), 0)
<1>. DEFINE x == Fallbacks(a, 0)
<1>1. x = [fail |-> [s \in 0..a.states |-> 0], match |-> a.match] /\ x \in Nfas(a)
  <2>1. 0 \in 0..a.states
    BY TreeTypes
  <2>. QED  BY <2>1, FallbacksStep
<1>. HIDE DEF x
<1>2. \A s : Known(a, 0, s) <=> s = 0 \/ s \in Kids(a, 0)
  <2>1. Left(a, 0) = {0}
    BY DEF Left
  <2>. QED  BY <2>1 DEF Known
<1>3. ASSUME NEW s \in 1..a.states, Known(a, 0, s) PROVE LongestProper(a, s, x.fail[s])
  <2>1. x.fail[s] = 0 /\ s \in States(a) /\ s # 0 /\ s \in Kids(a, 0)
    BY <1>1, <1>2, <1>3, StateTypes DEF States
  <2>2. Depth(a, s) = 1
    <3>1. 0 \in 0..a.states
      BY TreeTypes
    <3>2. Depth(a, s) = Depth(a, 0) + 1
      BY <2>1, <3>1, KidsDepth
    <3>. QED  BY <3>2, RootDepth
  <2>3. EndsIn(a.words[s], a.words[0])
    <3>1. a.words[0] = <<>> /\ a.words[s] \in Seq(Letters)
      BY <2>1, TreeTypes, StateTypes DEF Grown
    <3>. QED  BY <3>1, EndsItself
  <2>4. ASSUME NEW u \in States(a), u # s, EndsIn(a.words[s], a.words[u])
        PROVE  Depth(a, u) <= Depth(a, 0)
    <3>1. Depth(a, u) < Depth(a, s) /\ Depth(a, u) \in Nat
      BY <2>1, <2>4, ProperShorter, StateTypes
    <3>. QED  BY <2>2, <3>1, RootDepth
  <2>. QED  BY <2>1, <2>3, <2>4, StateTypes DEF LongestProper
<1>4. ASSUME NEW s \in States(a), Known(a, 0, s) PROVE MatchIs(a, Ps, x.match[s], s)
  BY <1>1, <1>2, <1>4, OwnMatches
<1>5. \A s \in States(a) : x.match[s] = a.match[s]
  BY <1>1
<1>6. NfaIs(a, Ps, x, 0)
  BY <1>1, <1>3, <1>4, <1>5 DEF NfaIs
<1>. QED  BY <1>6 DEF x

LEMMA NfaGoesOn ==
  ASSUME NEW a \in Trees, NEW Ps \in SUBSET Pattern, Carries(a, Ps),
         NEW k \in 1..a.states, NEW x, NfaIs(a, Ps, x, k - 1)
  PROVE  NfaIs(a, Ps, AddFallBacks(a, x, QueueOrder(a)[k]), k)
<1>. DEFINE r == QueueOrder(a)[k]
            y == AddFallBacks(a, x, r)
<1>1. /\ r \in 1..a.states /\ r \in States(a) /\ r \notin Left(a, k - 1)
      /\ Left(a, k) = Left(a, k - 1) \cup {r}
      /\ Left(a, k) \subseteq States(a) /\ Left(a, k - 1) \subseteq States(a)
  BY LeftTypes
<1>2. x \in Nfas(a) /\ x.fail \in Linked(a) /\ x.match \in [States(a) -> Seq(Nat)]
  BY DEF NfaIs, Nfas
<1>3. \A s \in States(a) : Depth(a, s) <= Depth(a, r) => Known(a, k - 1, s)
  BY KnownBefore
<1>. HIDE DEF r
<1>4. /\ y \in Nfas(a)
      /\ \A s \in States(a) :
           s \notin Kids(a, r) => y.fail[s] = x.fail[s] /\ y.match[s] = x.match[s]
      /\ \A s \in Kids(a, r) : \E c \in Letters :
           /\ a.next[r][c] = s
           /\ y.fail[s] = FallBack(a, x.fail, r, c)
           /\ y.match[s] = Reverse(x.match[FallBack(a, x.fail, r, c)]) \o x.match[s]
  BY <1>1, <1>2, AddFallBacksIs
<1>. HIDE DEF y
<1>5. \A s : Known(a, k, s) <=> Known(a, k - 1, s) \/ s \in Kids(a, r)
  BY <1>1 DEF Known
<1>6. ASSUME NEW s \in Kids(a, r) PROVE ~Known(a, k - 1, s)
  <2>. SUFFICES ASSUME Known(a, k - 1, s) PROVE FALSE
    OBVIOUS
  <2>1. s # 0
    BY DEF Kids
  <2>2. PICK q \in Left(a, k - 1) : s \in Kids(a, q)
    BY <2>1 DEF Known
  <2>3. q = r
    <3>1. q \in 0..a.states /\ r \in 0..a.states
      BY <1>1 DEF States
    <3>. QED  BY <2>2, <3>1, KidsOnce
  <2>. QED  BY <1>1, <2>2, <2>3
<1>7. \A s \in 1..a.states : Depth(a, s) <= Depth(a, r) => LongestProper(a, s, x.fail[s])
  BY <1>3, StateTypes DEF NfaIs
<1>8. ASSUME NEW s \in Kids(a, r)
      PROVE  LongestProper(a, s, y.fail[s]) /\ MatchIs(a, Ps, y.match[s], s)
  <2>1. PICK c \in Letters :
          /\ a.next[r][c] = s
          /\ y.fail[s] = FallBack(a, x.fail, r, c)
          /\ y.match[s] = Reverse(x.match[FallBack(a, x.fail, r, c)]) \o x.match[s]
    BY <1>4
  <2>. DEFINE f == FallBack(a, x.fail, r, c)
  <2>2. s # NoState /\ s \in States(a)
    BY StateTypes DEF Kids, NoState
  <2>3. f \in States(a) /\ Depth(a, f) <= Depth(a, r)
    BY <1>1, <1>2, FallBackTypes
  <2>4. LongestProper(a, s, f)
    <3>1. a.next[r][c] # NoState
      BY <2>1, <2>2
    <3>2. LongestProper(a, a.next[r][c], f)
      BY <1>1, <1>2, <1>7, <3>1, FallBackLongest
    <3>. QED  BY <2>1, <3>2
  <2>5. y.fail[s] = f /\ y.match[s] = Reverse(x.match[f]) \o x.match[s]
    BY <2>1
  <2>. HIDE DEF f
  <2>6. MatchIs(a, Ps, x.match[f], f)
    BY <1>3, <2>3 DEF NfaIs
  <2>7. x.match[s] = a.match[s]
    BY <1>6, <2>2 DEF NfaIs
  <2>8. x.match[f] \in Seq(Nat)
    BY <1>2, <2>3
  <2>9. MatchIs(a, Ps, Reverse(x.match[f]) \o a.match[s], s)
    BY <2>2, <2>3, <2>4, <2>6, <2>8, MatchesJoin
  <2>. QED  BY <2>4, <2>5, <2>7, <2>9
<1>9. ASSUME NEW s \in 1..a.states, Known(a, k, s) PROVE LongestProper(a, s, y.fail[s])
  <2>1. CASE s \in Kids(a, r)
    BY <1>8, <2>1
  <2>2. CASE s \notin Kids(a, r)
    <3>1. Known(a, k - 1, s) /\ y.fail[s] = x.fail[s]
      BY <1>4, <1>5, <1>9, <2>2, StateTypes
    <3>. QED  BY <3>1 DEF NfaIs
  <2>. QED  BY <2>1, <2>2
<1>10. ASSUME NEW s \in States(a), Known(a, k, s) PROVE MatchIs(a, Ps, y.match[s], s)
  <2>1. CASE s \in Kids(a, r)
    BY <1>8, <2>1
  <2>2. CASE s \notin Kids(a, r)
    <3>1. Known(a, k - 1, s) /\ y.match[s] = x.match[s]
      BY <1>4, <1>5, <1>10, <2>2
    <3>. QED  BY <3>1 DEF NfaIs
  <2>. QED  BY <2>1, <2>2
<1>11. ASSUME NEW s \in States(a), ~Known(a, k, s) PROVE y.match[s] = a.match[s]
  <2>1. ~Known(a, k - 1, s) /\ y.match[s] = x.match[s]
    BY <1>4, <1>5, <1>11
  <2>. QED  BY <2>1 DEF NfaIs
<1>12. NfaIs(a, Ps, y, k)
  BY <1>4, <1>9, <1>10, <1>11 DEF NfaIs
<1>. QED  BY <1>12 DEF y, r

\* Build_NFA: every fallback is the longest end that is not the whole, and every state
\* has its patterns.
LEMMA BuildNFAIs ==
  ASSUME NEW a \in Trees, NEW Ps \in SUBSET Pattern, Carries(a, Ps)
  PROVE  LET x == BuildNFA(a) IN
         /\ x \in Nfas(a)
         /\ \A s \in 1..a.states : LongestProper(a, s, x.fail[s])
         /\ \A s \in States(a) : MatchIs(a, Ps, x.match[s], s)
<1>. DEFINE N == a.states
            X(k) == Fallbacks(a, k)
            T == {k \in 0..N : NfaIs(a, Ps, X(k), k)}
<1>1. N \in Nat
  BY StateTypes
<1>2. \A k \in 1..N : X(k) = AddFallBacks(a, X(k - 1), QueueOrder(a)[k])
  BY FallbacksStep
<1>3. NfaIs(a, Ps, X(0), 0)
  BY NfaStarts
<1>. HIDE DEF X
<1>4. 0 \in T
  BY <1>1, <1>3
<1>5. ASSUME NEW k \in 1..N, k - 1 \in T PROVE k \in T
  <2>1. NfaIs(a, Ps, X(k - 1), k - 1) /\ k \in 0..N
    BY <1>1, <1>5
  <2>2. NfaIs(a, Ps, AddFallBacks(a, X(k - 1), QueueOrder(a)[k]), k)
    BY <2>1, NfaGoesOn
  <2>. QED  BY <1>2, <2>1, <2>2
<1>6. NfaIs(a, Ps, X(N), N)
  <2>1. \A k \in 0..N : k \in T
    <3>. HIDE DEF T, N
    <3>. QED  BY <1>1, <1>4, <1>5, Counting
  <2>2. N \in 0..N
    BY <1>1
  <2>. QED  BY <2>1, <2>2
<1>7. \A s \in States(a) : Known(a, N, s)
  <2>. SUFFICES ASSUME NEW s \in States(a), s # 0 PROVE Known(a, N, s)
    BY DEF Known
  <2>1. s \in 1..N
    BY StateTypes
  <2>2. PICK p \in 0..N : s \in Kids(a, p)
    BY <2>1, KidOf
  <2>3. p \in Left(a, N)
    <3>1. CASE p = 0
      BY <3>1 DEF Left
    <3>2. CASE p # 0
      <4>1. \E i \in 1..N : QueueOrder(a)[i] = p
        BY <3>2, OrderIs
      <4>. QED  BY <4>1 DEF Left
    <3>. QED  BY <3>1, <3>2
  <2>. QED  BY <2>2, <2>3 DEF Known
<1>8. BuildNFA(a) = X(N)
  BY DEF BuildNFA, X
<1>. QED  BY <1>6, <1>7, <1>8, StateTypes DEF NfaIs

-----------------------------------------------------------------------------
(* Rows.                                                                   *)

Targets(a) == 1..a.states \cup {NoState}
Tabs(a) == [States(a) -> [Letters -> Targets(a)]]

LEMMA TabTypes ==
  ASSUME NEW a \in Trees, NEW tab \in Tabs(a), NEW s \in States(a), NEW c \in Letters
  PROVE  /\ tab[s] \in [Letters -> Targets(a)] /\ tab[s][c] \in Targets(a)
         /\ tab[s][c] = NoState \/ tab[s][c] \in 1..a.states
         /\ GetNextState(tab, s, c) \in States(a) \cup {NoState}
<1>1. tab[s] \in [Letters -> Targets(a)]
  BY DEF Tabs
<1>2. tab[s][c] \in Targets(a)
  BY <1>1
<1>3. tab[s][c] = NoState \/ tab[s][c] \in 1..a.states
  BY <1>2 DEF Targets
<1>4. GetNextState(tab, s, c) \in States(a) \cup {NoState}
  BY <1>3, StateTypes DEF GetNextState
<1>. QED  BY <1>1, <1>2, <1>3, <1>4

\* What a row says: staying in the first state where it has no transition.
Value(tab, s, c) == IF tab[s][c] = NoState THEN 0 ELSE tab[s][c]

LEMMA TakeFallBackIs ==
  ASSUME NEW a \in Trees, NEW tab \in Tabs(a), NEW fail \in [States(a) -> States(a)],
         NEW r \in States(a)
  PROVE  LET new == TakeFallBack(tab, fail, r) IN
         /\ new \in Tabs(a)
         /\ \A s \in States(a) : s # r => new[s] = tab[s]
         /\ \A c \in Letters :
              Value(new, r, c) = IF tab[r][c] # NoState THEN tab[r][c] ELSE Value(tab, fail[r], c)
<1>. DEFINE f == fail[r]
            takes(c) == /\ GetNextState(tab, r, c) \in {NoState, 0}
                        /\ GetNextState(tab, f, c) \notin {NoState, 0}
            row == [c \in Letters |-> IF takes(c) THEN GetNextState(tab, f, c) ELSE tab[r][c]]
            new == TakeFallBack(tab, fail, r)
<1>1. f \in States(a)
  OBVIOUS
<1>2. new = [tab EXCEPT ![r] = row]
  BY DEF TakeFallBack
<1>3. \A s \in States(a), c \in Letters :
        /\ tab[s][c] = NoState \/ tab[s][c] \in 1..a.states
        /\ tab[s][c] # NoState => GetNextState(tab, s, c) = tab[s][c] /\ tab[s][c] \notin {NoState, 0}
        /\ tab[s][c] = NoState => GetNextState(tab, s, c) \in {NoState, 0}
  <2>1. \A s \in States(a), c \in Letters : tab[s][c] = NoState \/ tab[s][c] \in 1..a.states
    BY TabTypes
  <2>2. \A s \in States(a), c \in Letters : tab[s][c] # NoState => tab[s][c] \notin {NoState, 0}
    BY <2>1
  <2>. QED  BY <2>1, <2>2 DEF GetNextState
<1>. HIDE DEF f
<1>4. \A c \in Letters : row[c] = IF takes(c) THEN GetNextState(tab, f, c) ELSE tab[r][c]
  OBVIOUS
<1>5. \A c \in Letters : takes(c) <=> tab[r][c] = NoState /\ tab[f][c] # NoState
  BY <1>1, <1>3
<1>. HIDE DEF takes, row
<1>6. \A c \in Letters :
        /\ tab[r][c] # NoState => row[c] = tab[r][c]
        /\ tab[r][c] = NoState /\ tab[f][c] # NoState => row[c] = tab[f][c]
        /\ tab[r][c] = NoState /\ tab[f][c] = NoState => row[c] = NoState
  BY <1>1, <1>3, <1>4, <1>5
<1>7. row \in [Letters -> Targets(a)]
  <2>1. \A c \in Letters : row[c] \in Targets(a)
    BY <1>1, <1>3, <1>6 DEF Targets
  <2>2. row = [c \in Letters |-> row[c]]
    BY DEF row
  <2>. QED  BY <2>1, <2>2
<1>8. tab \in [States(a) -> [Letters -> Targets(a)]]
  BY DEF Tabs
<1>9. new \in Tabs(a)
  BY <1>2, <1>7, <1>8 DEF Tabs
<1>10. new[r] = row /\ \A s \in States(a) : s # r => new[s] = tab[s]
  BY <1>2, <1>8
<1>. HIDE DEF new
<1>11. ASSUME NEW c \in Letters
       PROVE  Value(new, r, c) = IF tab[r][c] # NoState THEN tab[r][c] ELSE Value(tab, f, c)
  BY <1>6, <1>10 DEF Value
<1>. QED  BY <1>9, <1>10, <1>11 DEF new, f

\* The rows, by recursion.
LEMMA RowsStep ==
  ASSUME NEW a \in Trees, NEW fail \in [States(a) -> States(a)]
  PROVE  /\ Rows(a, fail, 0) = a.next
         /\ \A k \in 1..a.states : Rows(a, fail, k) = TakeFallBack(Rows(a, fail, k - 1), fail, QueueOrder(a)[k])
         /\ \A k \in 0..a.states : Rows(a, fail, k) \in Tabs(a)
<1>. DEFINE Eq(w) == w = [k \in 0..a.states |-> IF k = 0 THEN a.next ELSE TakeFallBack(w[k - 1], fail, QueueOrder(a)[k])]
            all == CHOOSE w : Eq(w)
            g == [x \in (1..a.states) \X Tabs(a) |-> TakeFallBack(x[2], fail, QueueOrder(a)[x[1]])]
<1>1. 0 \in Int /\ a.states \in Int /\ 0 <= a.states /\ a.next \in Tabs(a) /\ 0 + 1 = 1
  BY TreeTypes DEF Tabs, States, Targets
<1>2. ASSUME NEW k \in 1..a.states, NEW x \in Tabs(a) PROVE TakeFallBack(x, fail, QueueOrder(a)[k]) \in Tabs(a)
  <2>1. QueueOrder(a)[k] \in States(a)
    BY OrderIs, StateTypes
  <2>. QED  BY <2>1, TakeFallBackIs
<1>3. g \in [(1..a.states) \X Tabs(a) -> Tabs(a)]
  BY <1>2
<1>4. \A k \in 1..a.states, x \in Tabs(a) : g[<<k, x>>] = TakeFallBack(x, fail, QueueOrder(a)[k])
  OBVIOUS
<1>. HIDE DEF g
<1>5. PICK f \in [0..a.states -> Tabs(a)] : Recursive(f, a.next, g, 0, a.states)
  BY <1>1, <1>3, RecursionExists
<1>6. Eq(f)
  <2>1. ASSUME NEW k \in 0..a.states
        PROVE  f[k] = IF k = 0 THEN a.next ELSE TakeFallBack(f[k - 1], fail, QueueOrder(a)[k])
    <3>1. CASE k = 0
      BY <1>5, <3>1 DEF Recursive
    <3>2. CASE k # 0
      <4>1. k \in 1..a.states /\ k - 1 \in 0..a.states
        BY <1>1, <3>2
      <4>2. f[k - 1] \in Tabs(a) /\ f[k] = g[<<k, f[k - 1]>>]
        BY <1>1, <1>5, <4>1 DEF Recursive
      <4>3. g[<<k, f[k - 1]>>] = TakeFallBack(f[k - 1], fail, QueueOrder(a)[k])
        BY <1>4, <4>1, <4>2
      <4>. QED  BY <3>2, <4>2, <4>3
    <3>. QED  BY <3>1, <3>2
  <2>. QED  BY <2>1
<1>7. Eq(all)
  <2>. HIDE DEF Eq
  <2>. QED  BY <1>6, Zenon
<1>8. \A k : Rows(a, fail, k) = all[k]
  BY Zenon DEF Rows
<1>. HIDE DEF all
<1>9. \A k \in 0..a.states : all[k] = IF k = 0 THEN a.next ELSE TakeFallBack(all[k - 1], fail, QueueOrder(a)[k])
  BY <1>7
<1>10. Rows(a, fail, 0) = a.next
  <2>1. 0 \in 0..a.states
    BY <1>1
  <2>2. all[0] = a.next
    BY <1>9, <2>1
  <2>. QED  BY <1>8, <2>2
<1>11. ASSUME NEW k \in 1..a.states PROVE Rows(a, fail, k) = TakeFallBack(Rows(a, fail, k - 1), fail, QueueOrder(a)[k])
  <2>1. k \in 0..a.states /\ k # 0
    BY <1>1
  <2>2. all[k] = TakeFallBack(all[k - 1], fail, QueueOrder(a)[k])
    BY <1>9, <2>1
  <2>3. Rows(a, fail, k) = all[k] /\ Rows(a, fail, k - 1) = all[k - 1]
    BY <1>8
  <2>. QED  BY <2>2, <2>3
<1>. DEFINE T == {k \in 0..a.states : Rows(a, fail, k) \in Tabs(a)}
<1>12. 0 \in T
  <2>1. 0 \in 0..a.states
    BY <1>1
  <2>2. Rows(a, fail, 0) \in Tabs(a)
    BY <1>1, <1>10, Zenon
  <2>. QED  BY <2>1, <2>2
<1>13. ASSUME NEW k \in 1..a.states, k - 1 \in T PROVE k \in T
  <2>1. k \in 0..a.states /\ Rows(a, fail, k - 1) \in Tabs(a)
    BY <1>1, <1>13
  <2>2. TakeFallBack(Rows(a, fail, k - 1), fail, QueueOrder(a)[k]) \in Tabs(a)
    BY <1>2, <2>1
  <2>. QED  BY <1>11, <2>1, <2>2
<1>. HIDE DEF T
<1>14. \A k \in 0..a.states : k \in T
  <2>1. \A k \in 0 + 1 .. a.states : k - 1 \in T => k \in T
    BY <1>1, <1>13
  <2>. QED  BY <1>1, <1>12, <2>1, Upwards
<1>15. \A k \in 0..a.states : Rows(a, fail, k) \in Tabs(a)
  BY <1>14 DEF T
<1>. QED  BY <1>10, <1>11, <1>15

\* The first state's row in the tree.
LEMMA RootRow ==
  ASSUME NEW a \in Trees, NEW c \in Letters
  PROVE  Longest(a, Append(a.words[0], c), Value(a.next, 0, c))
<1>1. a.words[0] = <<>> /\ 0 \in States(a) /\ 0 \in 0..a.states
  BY TreeTypes, StateTypes DEF Grown
<1>. DEFINE w == Append(a.words[0], c)
<1>2. <<>> \in Seq(Letters) /\ w \in Seq(Letters) /\ Len(w) = 1
  BY <1>1, AppendProperties
<1>3. CASE a.next[0][c] # NoState
  <2>1. a.next[0][c] \in 1..a.states /\ a.words[a.next[0][c]] = w
    BY <1>1, <1>3, KidWord
  <2>. DEFINE n == a.next[0][c]
  <2>2. n \in States(a) /\ Value(a.next, 0, c) = n /\ a.words[n] = w
    BY <1>3, <2>1, StateTypes DEF Value
  <2>. HIDE DEF n, w
  <2>3. EndsIn(w, a.words[n])
    BY <1>2, <2>2, EndsItself
  <2>4. \A u \in States(a) : EndsIn(w, a.words[u]) => Depth(a, u) <= Depth(a, n)
    BY <2>2 DEF EndsIn, Depth
  <2>. QED  BY <2>2, <2>3, <2>4 DEF Longest, w
<1>4. CASE a.next[0][c] = NoState
  <2>1. Value(a.next, 0, c) = 0
    BY <1>4 DEF Value
  <2>2. EndsIn(w, a.words[0])
    BY <1>1, <1>2, EndsItself
  <2>3. ASSUME NEW u \in States(a), EndsIn(w, a.words[u]) PROVE Depth(a, u) <= Depth(a, 0)
    <3>1. CASE u = 0
      BY <3>1, StateTypes, RootDepth
    <3>2. CASE u # 0
      <4>1. PICK p \in 0..a.states, d \in Letters : a.next[p][d] = u
        <5>1. u \in 1..a.states
          BY <3>2, StateTypes
        <5>2. \A n \in 1..a.states : \E p \in 0..a.states, d \in Letters : a.next[p][d] = n
          BY TreeTypes DEF Grown
        <5>. QED  BY <5>1, <5>2
      <4>2. a.next[p][d] # NoState
        <5>1. u \in 1..a.states
          BY <3>2, StateTypes
        <5>. QED  BY <4>1, <5>1 DEF NoState
      <4>3. a.words[u] = Append(a.words[p], d) /\ a.words[p] \in Seq(Letters) /\ p \in States(a)
        BY <4>1, <4>2, KidWord, StateTypes DEF States
      <4>4. EndsIn(Append(<<>>, c), Append(a.words[p], d))
        BY <1>1, <2>3, <4>3
      <4>5. d = c /\ EndsIn(<<>>, a.words[p])
        BY <1>2, <4>3, <4>4, EndsAppend
      <4>6. a.words[p] = a.words[0]
        BY <1>1, <4>3, <4>5, NothingEndsIn
      <4>7. p = 0
        BY <1>1, <4>6, WordsUnique
      <4>. QED  BY <1>4, <4>1, <4>2, <4>5, <4>7
    <3>. QED  BY <3>1, <3>2
  <2>. QED  BY <1>1, <2>1, <2>2, <2>3 DEF Longest
<1>. QED  BY <1>3, <1>4

\* The longest end of a word with one letter more follows from a state whose word ends the
\* word, if no longer end of it has a transition for the letter.
LEMMA LongestExtends ==
  ASSUME NEW a \in Trees, NEW t \in States(a), NEW w \in Seq(Letters), EndsIn(w, a.words[t]),
         NEW c \in Letters, NEW n \in States(a), Longest(a, Append(a.words[t], c), n),
         \A p \in States(a) :
           EndsIn(w, a.words[p]) /\ a.next[p][c] # NoState => Depth(a, p) <= Depth(a, t)
  PROVE  Longest(a, Append(w, c), n)
<1>. DEFINE wc == Append(w, c)
            tc == Append(a.words[t], c)
<1>1. a.words[t] \in Seq(Letters) /\ a.words[n] \in Seq(Letters)
  BY StateTypes
<1>2. wc \in Seq(Letters) /\ tc \in Seq(Letters) /\ EndsIn(wc, tc)
  BY <1>1, AppendProperties, EndsAppend
<1>3. EndsIn(tc, a.words[n]) /\ \A u \in States(a) : EndsIn(tc, a.words[u]) => Depth(a, u) <= Depth(a, n)
  BY DEF Longest
<1>. HIDE DEF wc, tc
<1>4. EndsIn(wc, a.words[n])
  BY <1>1, <1>2, <1>3, EndsTransitive
<1>5. ASSUME NEW u \in States(a), EndsIn(wc, a.words[u]) PROVE Depth(a, u) <= Depth(a, n)
  <2>1. CASE u = 0
    BY <2>1, StateTypes, RootDepth
  <2>2. CASE u # 0
    <3>1. u \in 1..a.states
      BY <2>2, StateTypes
    <3>2. PICK p \in 0..a.states, d \in Letters : a.next[p][d] = u
      BY <3>1, TreeTypes DEF Grown
    <3>3. a.next[p][d] # NoState
      BY <3>1, <3>2 DEF NoState
    <3>4. a.words[u] = Append(a.words[p], d) /\ a.words[p] \in Seq(Letters) /\ p \in States(a)
      BY <3>2, <3>3, KidWord, StateTypes DEF States
    <3>5. EndsIn(Append(w, c), Append(a.words[p], d))
      BY <1>5, <3>4 DEF wc
    <3>6. d = c /\ EndsIn(w, a.words[p])
      BY <3>4, <3>5, EndsAppend
    <3>7. Len(a.words[p]) <= Len(a.words[t])
      BY <3>3, <3>4, <3>6 DEF Depth
    <3>8. EndsIn(a.words[t], a.words[p])
      BY <1>1, <3>4, <3>6, <3>7, EndsNested
    <3>9. EndsIn(tc, a.words[u])
      BY <1>1, <3>4, <3>6, <3>8, EndsAppend DEF tc
    <3>. QED  BY <1>3, <3>9
  <2>. QED  BY <2>1, <2>2
<1>6. Longest(a, wc, n)
  BY <1>4, <1>5 DEF Longest
<1>. QED  BY <1>6 DEF wc

\* The row of a state follows from its own transitions and the row of its fallback.
LEMMA RowFollows ==
  ASSUME NEW a \in Trees, NEW r \in 1..a.states, NEW f \in States(a), LongestProper(a, r, f),
         NEW c \in Letters, NEW n \in States(a), Longest(a, Append(a.words[f], c), n)
  PROVE  Longest(a, Append(a.words[r], c), IF a.next[r][c] # NoState THEN a.next[r][c] ELSE n)
<1>1. r \in States(a) /\ r \in 0..a.states
  BY StateTypes DEF States
<1>2. a.words[r] \in Seq(Letters) /\ EndsIn(a.words[r], a.words[f])
  BY <1>1, StateTypes DEF LongestProper
<1>3. CASE a.next[r][c] # NoState
  <2>. DEFINE m == a.next[r][c]
              w == Append(a.words[r], c)
  <2>1. m \in States(a) /\ a.words[m] = w /\ w \in Seq(Letters)
    BY <1>1, <1>2, <1>3, KidWord, StateTypes, AppendProperties
  <2>. HIDE DEF m, w
  <2>2. EndsIn(w, a.words[m])
    BY <2>1, EndsItself
  <2>3. \A u \in States(a) : EndsIn(w, a.words[u]) => Depth(a, u) <= Depth(a, m)
    BY <2>1 DEF EndsIn, Depth
  <2>4. Longest(a, w, m)
    BY <2>1, <2>2, <2>3 DEF Longest
  <2>. QED  BY <1>3, <2>4 DEF m, w
<1>4. CASE a.next[r][c] = NoState
  <2>1. \A p \in States(a) :
          EndsIn(a.words[r], a.words[p]) /\ a.next[p][c] # NoState => Depth(a, p) <= Depth(a, f)
    BY <1>4 DEF LongestProper
  <2>2. Longest(a, Append(a.words[r], c), n)
    BY <1>2, <2>1, LongestExtends
  <2>. QED  BY <1>4, <2>2
<1>. QED  BY <1>3, <1>4

\* When k states have left the queue, their rows are complete and the others are the tree's.
RowsAre(a, tab, k) ==
  /\ tab \in Tabs(a)
  /\ \A s \in Left(a, k), c \in Letters : Longest(a, Append(a.words[s], c), Value(tab, s, c))
  /\ \A s \in States(a) : s = 0 \/ s \notin Left(a, k) => tab[s] = a.next[s]

LEMMA RowsGoOn ==
  ASSUME NEW a \in Trees, NEW fail \in Linked(a),
         \A s \in 1..a.states : LongestProper(a, s, fail[s]),
         NEW k \in 1..a.states, NEW tab, RowsAre(a, tab, k - 1)
  PROVE  RowsAre(a, TakeFallBack(tab, fail, QueueOrder(a)[k]), k)
<1>. DEFINE r == QueueOrder(a)[k]
            new == TakeFallBack(tab, fail, r)
<1>1. /\ r \in 1..a.states /\ r \in States(a) /\ r \notin Left(a, k - 1)
      /\ Left(a, k) = Left(a, k - 1) \cup {r}
      /\ Left(a, k) \subseteq States(a) /\ Left(a, k - 1) \subseteq States(a)
  BY LeftTypes
<1>2. tab \in Tabs(a) /\ fail \in [States(a) -> States(a)]
  BY DEF RowsAre, Linked
<1>3. LongestProper(a, r, fail[r]) /\ fail[r] \in States(a)
  BY <1>1, <1>2
<1>4. fail[r] \in Left(a, k - 1)
  <2>1. Depth(a, fail[r]) < Depth(a, r)
    BY <1>1, <1>3, ProperShorter DEF LongestProper
  <2>. QED  BY <1>3, <2>1, LeftBefore
<1>. HIDE DEF r
<1>5. /\ new \in Tabs(a)
      /\ \A s \in States(a) : s # r => new[s] = tab[s]
      /\ \A c \in Letters :
           Value(new, r, c) = IF tab[r][c] # NoState THEN tab[r][c] ELSE Value(tab, fail[r], c)
  BY <1>1, <1>2, TakeFallBackIs
<1>. HIDE DEF new
<1>6. tab[r] = a.next[r]
  BY <1>1 DEF RowsAre
<1>7. ASSUME NEW c \in Letters PROVE Longest(a, Append(a.words[r], c), Value(new, r, c))
  <2>. DEFINE n == Value(tab, fail[r], c)
  <2>1. Longest(a, Append(a.words[fail[r]], c), n)
    BY <1>4 DEF RowsAre
  <2>2. n \in States(a)
    BY <2>1 DEF Longest
  <2>3. Value(new, r, c) = IF a.next[r][c] # NoState THEN a.next[r][c] ELSE n
    BY <1>5, <1>6
  <2>. HIDE DEF n
  <2>4. Longest(a, Append(a.words[r], c), IF a.next[r][c] # NoState THEN a.next[r][c] ELSE n)
    BY <1>1, <1>3, <2>1, <2>2, RowFollows
  <2>. QED  BY <2>3, <2>4
<1>8. ASSUME NEW s \in Left(a, k), NEW c \in Letters
      PROVE  Longest(a, Append(a.words[s], c), Value(new, s, c))
  <2>1. CASE s = r
    BY <1>7, <2>1
  <2>2. CASE s # r
    <3>1. s \in Left(a, k - 1) /\ s \in States(a)
      BY <1>1, <2>2
    <3>2. Value(new, s, c) = Value(tab, s, c)
      BY <1>5, <2>2, <3>1 DEF Value
    <3>3. Longest(a, Append(a.words[s], c), Value(tab, s, c))
      BY <3>1 DEF RowsAre
    <3>. QED  BY <3>2, <3>3
  <2>. QED  BY <2>1, <2>2
<1>9. ASSUME NEW s \in States(a), s = 0 \/ s \notin Left(a, k) PROVE new[s] = a.next[s]
  <2>1. s # r /\ (s = 0 \/ s \notin Left(a, k - 1))
    BY <1>1, <1>9
  <2>2. tab[s] = a.next[s]
    BY <2>1 DEF RowsAre
  <2>. QED  BY <1>5, <2>1, <2>2
<1>10. RowsAre(a, new, k)
  BY <1>5, <1>8, <1>9 DEF RowsAre
<1>. QED  BY <1>10 DEF new, r

LEMMA RowsComplete ==
  ASSUME NEW a \in Trees, NEW fail \in Linked(a),
         \A s \in 1..a.states : LongestProper(a, s, fail[s])
  PROVE  LET tab == ConvertNFAToDFA(a, fail) IN
         /\ tab \in Tabs(a)
         /\ \A s \in States(a), c \in Letters :
              Longest(a, Append(a.words[s], c), Value(tab, s, c))
<1>. DEFINE N == a.states
            R(k) == Rows(a, fail, k)
            T == {k \in 0..N : RowsAre(a, R(k), k)}
<1>1. N \in Nat /\ fail \in [States(a) -> States(a)]
  BY StateTypes DEF Linked
<1>2. /\ R(0) = a.next /\ R(0) \in Tabs(a)
      /\ \A k \in 1..N : R(k) = TakeFallBack(R(k - 1), fail, QueueOrder(a)[k])
  <2>1. 0 \in 0..N
    BY <1>1
  <2>. QED  BY <1>1, <2>1, RowsStep
<1>. HIDE DEF R
<1>3. RowsAre(a, R(0), 0)
  <2>1. Left(a, 0) = {0}
    BY DEF Left
  <2>2. \A s \in Left(a, 0), c \in Letters : Longest(a, Append(a.words[s], c), Value(R(0), s, c))
    BY <1>2, <2>1, RootRow
  <2>. QED  BY <1>2, <2>2 DEF RowsAre
<1>4. 0 \in T
  BY <1>1, <1>3
<1>5. ASSUME NEW k \in 1..N, k - 1 \in T PROVE k \in T
  <2>1. RowsAre(a, R(k - 1), k - 1) /\ k \in 0..N
    BY <1>1, <1>5
  <2>2. RowsAre(a, TakeFallBack(R(k - 1), fail, QueueOrder(a)[k]), k)
    BY <2>1, RowsGoOn
  <2>. QED  BY <1>2, <2>1, <2>2
<1>6. RowsAre(a, R(N), N)
  <2>1. \A k \in 0..N : k \in T
    <3>. HIDE DEF T, N
    <3>. QED  BY <1>1, <1>4, <1>5, Counting
  <2>2. N \in 0..N
    BY <1>1
  <2>. QED  BY <2>1, <2>2
<1>7. ASSUME NEW s \in States(a) PROVE s \in Left(a, N)
  <2>1. CASE s = 0
    BY <2>1 DEF Left
  <2>2. CASE s # 0
    <3>1. \E i \in 1..N : QueueOrder(a)[i] = s
      BY <2>2, OrderIs, StateTypes
    <3>. QED  BY <3>1 DEF Left
  <2>. QED  BY <2>1, <2>2
<1>8. ConvertNFAToDFA(a, fail) = R(N)
  BY DEF ConvertNFAToDFA, R
<1>. QED  BY <1>6, <1>7, <1>8 DEF RowsAre

-----------------------------------------------------------------------------
(* The compiled patterns.                                                  *)

\* What a compiled search is, with the tree it was made from.
Compiled(m, a, Ps) ==
  /\ a \in Trees /\ m.words = a.words
  /\ m.next \in [States(a) -> [Letters -> States(a)]]
  /\ m.match \in [States(a) -> Seq(Nat)]
  /\ \A s \in States(a), c \in Letters : Longest(a, Append(a.words[s], c), m.next[s][c])
  /\ \A s \in States(a) : MatchIs(a, Ps, m.match[s], s)
  /\ \A p \in Ps : \E s \in States(a) : a.words[s] = p.word

LEMMA ToSetTypes ==
  ASSUME NEW S, NEW q \in Seq(S)
  PROVE  ToSet(q) \in SUBSET S
<1>1. \A i \in 1..Len(q) : q[i] \in S
  BY ElementOfSeq
<1>. QED  BY <1>1, ToSetIs

\* Compile makes the automaton of Aho and Corasick.
LEMMA CompileIs ==
  ASSUME NEW patterns \in Seq(Pattern)
  PROVE  Compiled(Compile(patterns), Tree(patterns, Len(patterns)), ToSet(patterns))
<1>. DEFINE a == Tree(patterns, Len(patterns))
            Ps == ToSet(patterns)
            nfa == BuildNFA(a)
            tab == ConvertNFAToDFA(a, nfa.fail)
            m == Compile(patterns)
<1>1. a \in Trees /\ Carries(a, Ps) /\ Ps \in SUBSET Pattern
  BY TreeCarries, ToSetTypes
<1>2. m = [next |-> ConvListToFull(a, tab), match |-> nfa.match, words |-> a.words]
  BY DEF Compile
<1>. HIDE DEF a, Ps, m
<1>3. /\ nfa \in Nfas(a)
      /\ \A s \in 1..a.states : LongestProper(a, s, nfa.fail[s])
      /\ \A s \in States(a) : MatchIs(a, Ps, nfa.match[s], s)
  BY <1>1, BuildNFAIs
<1>. HIDE DEF nfa
<1>4. nfa.fail \in Linked(a) /\ nfa.match \in [States(a) -> Seq(Nat)]
  BY <1>3 DEF Nfas
<1>5. /\ tab \in Tabs(a)
      /\ \A s \in States(a), c \in Letters : Longest(a, Append(a.words[s], c), Value(tab, s, c))
  BY <1>1, <1>3, <1>4, RowsComplete
<1>. HIDE DEF tab
<1>6. ConvListToFull(a, tab) = [s \in States(a) |-> [c \in Letters |-> Value(tab, s, c)]]
  <2>1. \A s \in States(a), c \in Letters :
          (IF GetNextState(tab, s, c) = NoState THEN 0 ELSE GetNextState(tab, s, c)) = Value(tab, s, c)
    BY DEF GetNextState, Value, NoState
  <2>. QED  BY <2>1 DEF ConvListToFull, States
<1>. DEFINE full == ConvListToFull(a, tab)
<1>7. \A s \in States(a), c \in Letters : full[s][c] = Value(tab, s, c)
  BY <1>6
<1>8. full \in [States(a) -> [Letters -> States(a)]]
  <2>1. \A s \in States(a), c \in Letters : Value(tab, s, c) \in States(a)
    BY <1>5 DEF Longest
  <2>. QED  BY <1>6, <2>1
<1>. HIDE DEF full
<1>9. m.next = full /\ m.match = nfa.match /\ m.words = a.words
  BY <1>2 DEF full
<1>10. \A s \in States(a), c \in Letters : Longest(a, Append(a.words[s], c), m.next[s][c])
  BY <1>5, <1>7, <1>9
<1>11. \A p \in Ps : \E s \in States(a) : a.words[s] = p.word
  BY <1>1 DEF Carries, States
<1>12. Compiled(m, a, Ps)
  BY <1>1, <1>3, <1>4, <1>8, <1>9, <1>10, <1>11 DEF Compiled
<1>. QED  BY <1>12 DEF m, a, Ps

-----------------------------------------------------------------------------
(* A search.                                                               *)

LEMMA ConcatAppend ==
  ASSUME NEW S, NEW q \in Seq(S), NEW r \in Seq(S), NEW c \in S
  PROVE  q \o Append(r, c) = Append(q \o r, c)
<1>1. <<c>> \in Seq(S) /\ q \o r \in Seq(S)
  BY ConcatProperties
<1>2. Append(r, c) = r \o <<c>> /\ Append(q \o r, c) = (q \o r) \o <<c>>
  BY <1>1, AppendIsConcat
<1>3. \A x, y, z \in Seq(S) : (x \o y) \o z = x \o (y \o z)
  BY ConcatAssociative
<1>4. (q \o r) \o <<c>> = q \o (r \o <<c>>)
  BY <1>1, <1>3, Zenon
<1>. QED  BY <1>2, <1>4, Zenon

\* Every state is the next state of the one before.
Runs(m, text, v) == \A k \in 2..Len(text) + 1 : v[k] = m.next[v[k - 1]][text[k - 1]]

\* The states a search visits, by recursion.
LEMMA VisitedStep ==
  ASSUME NEW a \in Trees, NEW m, m.next \in [States(a) -> [Letters -> States(a)]],
         NEW s \in States(a), NEW text \in Seq(Letters)
  PROVE  /\ Visited(m, s, text)[1] = s
         /\ Runs(m, text, Visited(m, s, text))
         /\ \A k \in 1..Len(text) + 1 : Visited(m, s, text)[k] \in States(a)
         /\ Visited(m, s, text) \in [1..Len(text) + 1 -> States(a)]
<1>. DEFINE Eq(w) == w = [k \in 1..Len(text) + 1 |-> IF k = 1 THEN s ELSE m.next[w[k - 1]][text[k - 1]]]
            all == CHOOSE w : Eq(w)
            g == [x \in (2..Len(text) + 1) \X States(a) |-> m.next[x[2]][text[x[1] - 1]]]
<1>1. 1 \in Int /\ Len(text) + 1 \in Int /\ 1 <= Len(text) + 1 /\ s \in States(a) /\ 1 + 1 = 2
  <2>1. Len(text) \in Nat
    BY LenProperties
  <2>. QED  BY <2>1
<1>2. ASSUME NEW k \in 2..Len(text) + 1, NEW x \in States(a) PROVE m.next[x][text[k - 1]] \in States(a)
  <2>1. text[k - 1] \in Letters
    <3>1. k - 1 \in 1..Len(text)
      BY LenProperties
    <3>. QED  BY <3>1, ElementOfSeq
  <2>. QED  BY <2>1
<1>3. g \in [(2..Len(text) + 1) \X States(a) -> States(a)]
  BY <1>2
<1>4. \A k \in 2..Len(text) + 1, x \in States(a) : g[<<k, x>>] = m.next[x][text[k - 1]]
  OBVIOUS
<1>. HIDE DEF g
<1>5. PICK f \in [1..Len(text) + 1 -> States(a)] : Recursive(f, s, g, 1, Len(text) + 1)
  BY <1>1, <1>3, RecursionExists
<1>6. Eq(f)
  <2>1. ASSUME NEW k \in 1..Len(text) + 1
        PROVE  f[k] = IF k = 1 THEN s ELSE m.next[f[k - 1]][text[k - 1]]
    <3>1. CASE k = 1
      BY <1>5, <3>1 DEF Recursive
    <3>2. CASE k # 1
      <4>1. k \in 2..Len(text) + 1 /\ k - 1 \in 1..Len(text) + 1
        BY <1>1, <3>2
      <4>2. f[k - 1] \in States(a) /\ f[k] = g[<<k, f[k - 1]>>]
        BY <1>1, <1>5, <4>1 DEF Recursive
      <4>3. g[<<k, f[k - 1]>>] = m.next[f[k - 1]][text[k - 1]]
        BY <1>4, <4>1, <4>2
      <4>. QED  BY <3>2, <4>2, <4>3
    <3>. QED  BY <3>1, <3>2
  <2>. QED  BY <2>1
<1>7. Eq(all)
  <2>. HIDE DEF Eq
  <2>. QED  BY <1>6, Zenon
<1>8. \A k : Visited(m, s, text)[k] = all[k]
  BY Zenon DEF Visited
<1>0. Visited(m, s, text) = all /\ all = [k \in 1..Len(text) + 1 |-> all[k]]
  <2>1. Visited(m, s, text) = all
    BY Zenon DEF Visited
  <2>. QED  BY <1>7, <2>1
<1>. HIDE DEF all
<1>9. \A k \in 1..Len(text) + 1 : all[k] = IF k = 1 THEN s ELSE m.next[all[k - 1]][text[k - 1]]
  BY <1>7
<1>10. Visited(m, s, text)[1] = s
  <2>1. 1 \in 1..Len(text) + 1
    BY <1>1
  <2>2. all[1] = s
    BY <1>9, <2>1
  <2>. QED  BY <1>8, <2>2
<1>11. ASSUME NEW k \in 2..Len(text) + 1 PROVE Visited(m, s, text)[k] = m.next[Visited(m, s, text)[k - 1]][text[k - 1]]
  <2>1. k \in 1..Len(text) + 1 /\ k # 1
    BY <1>1
  <2>2. all[k] = m.next[all[k - 1]][text[k - 1]]
    BY <1>9, <2>1
  <2>3. Visited(m, s, text)[k] = all[k] /\ Visited(m, s, text)[k - 1] = all[k - 1]
    BY <1>8
  <2>. QED  BY <2>2, <2>3
<1>. DEFINE T == {k \in 1..Len(text) + 1 : Visited(m, s, text)[k] \in States(a)}
<1>12. 1 \in T
  <2>1. 1 \in 1..Len(text) + 1
    BY <1>1
  <2>2. Visited(m, s, text)[1] \in States(a)
    BY <1>1, <1>10, Zenon
  <2>. QED  BY <2>1, <2>2
<1>13. ASSUME NEW k \in 2..Len(text) + 1, k - 1 \in T PROVE k \in T
  <2>1. k \in 1..Len(text) + 1 /\ Visited(m, s, text)[k - 1] \in States(a)
    BY <1>1, <1>13
  <2>2. m.next[Visited(m, s, text)[k - 1]][text[k - 1]] \in States(a)
    BY <1>2, <2>1
  <2>. QED  BY <1>11, <2>1, <2>2
<1>. HIDE DEF T
<1>14. \A k \in 1..Len(text) + 1 : k \in T
  <2>1. \A k \in 1 + 1 .. Len(text) + 1 : k - 1 \in T => k \in T
    BY <1>1, <1>13
  <2>. QED  BY <1>1, <1>12, <2>1, Upwards
<1>15. \A k \in 1..Len(text) + 1 : Visited(m, s, text)[k] \in States(a)
  BY <1>14 DEF T
<1>16. Visited(m, s, text) \in [1..Len(text) + 1 -> States(a)]
  <2>1. \A k \in 1..Len(text) + 1 : all[k] \in States(a)
    BY <1>8, <1>15
  <2>. QED  BY <1>0, <2>1
<1>17. Runs(m, text, Visited(m, s, text))
  BY <1>11 DEF Runs
<1>. QED  BY <1>10, <1>15, <1>16, <1>17

\* A search is always in the state of the longest end of what it has read.
LEMMA VisitedFollows ==
  ASSUME NEW m, NEW a, NEW Ps \in SUBSET Pattern, Compiled(m, a, Ps),
         NEW s \in States(a), NEW text \in Seq(Letters)
  PROVE  \A k \in 0..Len(text) :
           Longest(a, a.words[s] \o SubSeq(text, 1, k), Visited(m, s, text)[k + 1])
<1>1. a \in Trees /\ m.next \in [States(a) -> [Letters -> States(a)]]
  BY DEF Compiled
<1>2. /\ Visited(m, s, text)[1] = s /\ Runs(m, text, Visited(m, s, text))
      /\ Visited(m, s, text) \in [1..Len(text) + 1 -> States(a)]
  <2>1. Runs(m, text, Visited(m, s, text))
    BY <1>1, VisitedStep
  <2>2. /\ Visited(m, s, text)[1] = s
        /\ Visited(m, s, text) \in [1..Len(text) + 1 -> States(a)]
    BY <1>1, VisitedStep
  <2>. QED  BY <2>1, <2>2
<1>. DEFINE v == Visited(m, s, text)
            N == Len(text)
            w(k) == a.words[s] \o SubSeq(text, 1, k)
            T == {k \in 0..N : Longest(a, w(k), v[k + 1])}
<1>3. /\ v[1] = s
      /\ \A k \in 2..N + 1 : v[k] = m.next[v[k - 1]][text[k - 1]]
      /\ \A k \in 1..N + 1 : v[k] \in States(a)
  <2>. HIDE DEF v
  <2>1. v[1] = s /\ Runs(m, text, v) /\ v \in [1..N + 1 -> States(a)]
    BY <1>2 DEF v
  <2>. QED  BY <2>1 DEF Runs
<1>4. N \in Nat /\ a.words[s] \in Seq(Letters)
  BY <1>1, LenProperties, StateTypes
<1>5. /\ w(0) = a.words[s]
      /\ \A k \in 1..N : w(k) = Append(w(k - 1), text[k]) /\ w(k - 1) \in Seq(Letters)
  <2>1. SubSeq(text, 1, 0) = <<>>
    BY SubSeqEmpty
  <2>2. w(0) = a.words[s]
    BY <1>1, <1>4, <2>1, ConcatEmptySeq
  <2>3. ASSUME NEW k \in 1..N
        PROVE  w(k) = Append(w(k - 1), text[k]) /\ w(k - 1) \in Seq(Letters)
    <3>. DEFINE u == SubSeq(text, 1, k - 1)
    <3>1. SubSeq(text, 1, k) = Append(u, text[k]) /\ text[k] \in Letters
      BY SubSeqAppends, ElementOfSeq
    <3>2. u \in Seq(Letters)
      <4>1. k - 1 \in Int /\ \A i \in 1..k - 1 : i \in 1..Len(text)
        BY <1>4
      <4>2. \A i \in 1..k - 1 : text[i] \in Letters
        BY <4>1, ElementOfSeq
      <4>. QED  BY <4>1, <4>2, SubSeqProperties
    <3>. HIDE DEF u
    <3>3. a.words[s] \o Append(u, text[k]) = Append(a.words[s] \o u, text[k])
      <4>1. \A q, r \in Seq(Letters), c \in Letters : q \o Append(r, c) = Append(q \o r, c)
        BY ConcatAppend
      <4>. QED  BY <1>1, <1>4, <3>1, <3>2, <4>1, Zenon
    <3>4. a.words[s] \o u \in Seq(Letters)
      BY <1>1, <1>4, <3>2, ConcatProperties
    <3>. QED  BY <3>1, <3>3, <3>4 DEF u
  <2>. QED  BY <2>2, <2>3
<1>. HIDE DEF v, w
<1>6. 0 \in T
  <2>1. EndsIn(a.words[s], a.words[s])
    BY <1>1, <1>4, EndsItself
  <2>2. \A u \in States(a) : EndsIn(a.words[s], a.words[u]) => Depth(a, u) <= Depth(a, s)
    BY DEF EndsIn, Depth
  <2>3. Longest(a, w(0), v[1])
    BY <1>3, <1>5, <2>1, <2>2 DEF Longest
  <2>. QED  BY <1>1, <1>4, <2>3
<1>7. ASSUME NEW k \in 1..N, k - 1 \in T PROVE k \in T
  <2>. DEFINE t == v[k]
              c == text[k]
              n == v[k + 1]
  <2>1. k + 1 \in 2..N + 1 /\ (k + 1) - 1 = k /\ k \in 0..N /\ (k - 1) + 1 = k /\ k \in 1..N + 1
        /\ k + 1 \in 1..N + 1
    BY <1>4
  <2>2. Longest(a, w(k - 1), t)
    BY <1>7, <2>1
  <2>3. c \in Letters /\ t \in States(a) /\ n \in States(a) /\ n = m.next[t][c]
    <3>1. v[k + 1] = m.next[v[(k + 1) - 1]][text[(k + 1) - 1]]
      BY <1>3, <2>1
    <3>2. text[k] \in Letters
      BY ElementOfSeq
    <3>3. v[k] \in States(a) /\ v[k + 1] \in States(a)
      BY <1>3, <2>1
    <3>. QED  BY <2>1, <3>1, <3>2, <3>3
  <2>4. w(k) = Append(w(k - 1), c) /\ w(k - 1) \in Seq(Letters)
    BY <1>5
  <2>. HIDE DEF t, c, n
  <2>5. Longest(a, Append(a.words[t], c), n)
    BY <2>3 DEF Compiled
  <2>6. EndsIn(w(k - 1), a.words[t])
        /\ \A p \in States(a) : EndsIn(w(k - 1), a.words[p]) => Depth(a, p) <= Depth(a, t)
    BY <2>2 DEF Longest
  <2>7. Longest(a, Append(w(k - 1), c), n)
    BY <1>1, <1>4, <2>3, <2>4, <2>5, <2>6, LongestExtends
  <2>. QED  BY <2>1, <2>4, <2>7 DEF n
<1>8. \A k \in 0..N : k \in T
  <2>. HIDE DEF T, N
  <2>. QED  BY <1>1, <1>4, <1>6, <1>7, Counting
<1>. QED  BY <1>8 DEF v, w

LEMMA VisitedIs ==
  ASSUME NEW m, NEW a, NEW Ps \in SUBSET Pattern, Compiled(m, a, Ps),
         NEW s \in States(a), NEW text \in Seq(Letters)
  PROVE  LET v == Visited(m, s, text) IN
         /\ v \in Seq(States(a)) /\ Len(v) = Len(text) + 1 /\ v[1] = s
         /\ Last(v) = v[Len(text) + 1] /\ Last(v) \in States(a)
         /\ \A x : x \in ToSet(v) <=> \E k \in 0..Len(text) : v[k + 1] = x
<1>. DEFINE v == Visited(m, s, text)
            N == Len(text)
<1>1. a \in Trees /\ m.next \in [States(a) -> [Letters -> States(a)]] /\ N \in Nat
  BY LenProperties DEF Compiled
<1>2. v[1] = s /\ v \in [1..N + 1 -> States(a)]
  BY <1>1, VisitedStep
<1>. HIDE DEF v, N
<1>3. v \in Seq(States(a)) /\ Len(v) = N + 1
  <2>1. N + 1 \in Nat
    BY <1>1
  <2>2. v \in Seq(States(a))
    BY <1>2, <2>1, IsASeq
  <2>3. DOMAIN v = 1..N + 1 /\ DOMAIN v = 1..Len(v) /\ Len(v) \in Nat
    BY <1>2, <2>2, LenProperties
  <2>. QED  BY <2>1, <2>2, <2>3
<1>4. Last(v) = v[N + 1] /\ v[N + 1] \in States(a)
  <2>1. N + 1 \in 1..N + 1
    BY <1>1
  <2>. QED  BY <1>2, <1>3, <2>1 DEF Last
<1>5. \A x : x \in ToSet(v) <=> \E k \in 1..N + 1 : v[k] = x
  BY <1>3, ToSetIs
<1>6. ASSUME NEW x PROVE (\E k \in 1..N + 1 : v[k] = x) <=> \E k \in 0..N : v[k + 1] = x
  <2>1. ASSUME NEW k \in 1..N + 1, v[k] = x PROVE \E j \in 0..N : v[j + 1] = x
    <3>1. k - 1 \in 0..N /\ (k - 1) + 1 = k
      BY <1>1
    <3>. QED  BY <2>1, <3>1
  <2>2. \A k \in 0..N : k + 1 \in 1..N + 1
    BY <1>1
  <2>. QED  BY <2>1, <2>2
<1>. QED  BY <1>2, <1>3, <1>4, <1>5, <1>6 DEF v, N

\* IsSuffix, as SequencesExt defines it, is EndsIn.
LEMMA SuffixIsEnd ==
  ASSUME NEW t \in Seq(Letters), NEW w \in Seq(Letters)
  PROVE  IsSuffix(w, t) <=> EndsIn(t, w)
<1>. DEFINE n == Len(w)
            l == Len(t)
            rw == Reverse(w)
            rt == Reverse(t)
            u == SubSeq(rw, 1, n)
            v == SubSeq(rt, 1, n)
<1>1. n \in Nat /\ l \in Nat
  BY LenProperties
<1>2. /\ rw \in Seq(Letters) /\ Len(rw) = n /\ \A i \in 1..n : rw[i] = w[n - i + 1]
      /\ rt \in Seq(Letters) /\ Len(rt) = l /\ \A i \in 1..l : rt[i] = t[l - i + 1]
  BY ReverseIs
<1>3. IsSuffix(w, t) <=> n <= l /\ u = v
  BY <1>2 DEF IsSuffix, IsPrefix
<1>. HIDE DEF n, l, rw, rt
<1>4. ASSUME n <= l
      PROVE  /\ u \in Seq(Letters) /\ Len(u) = n /\ \A i \in 1..n : u[i] = w[n - i + 1]
             /\ v \in Seq(Letters) /\ Len(v) = n /\ \A i \in 1..n : v[i] = t[l - i + 1]
  <2>1. \A i \in 1..n : rw[i] \in Letters /\ rt[i] \in Letters /\ rt[i] = t[l - i + 1]
    <3>1. \A i \in 1..n : i \in 1..l
      BY <1>1, <1>4
    <3>. QED  BY <1>2, <3>1, ElementOfSeq
  <2>2. /\ u \in Seq(Letters) /\ Len(u) = n /\ \A i \in 1..n : u[i] = rw[i]
        /\ v \in Seq(Letters) /\ Len(v) = n /\ \A i \in 1..n : v[i] = rt[i]
    <3>1. n - 1 + 1 = n /\ (IF 1 <= n THEN n - 1 + 1 ELSE 0) = n /\ \A i \in 1..n : 1 + i - 1 = i
      BY <1>1
    <3>2. /\ u \in Seq(Letters) /\ Len(u) = (IF 1 <= n THEN n - 1 + 1 ELSE 0)
          /\ \A i \in 1..n - 1 + 1 : u[i] = rw[1 + i - 1]
      BY <1>1, <2>1, SubSeqProperties
    <3>3. /\ v \in Seq(Letters) /\ Len(v) = (IF 1 <= n THEN n - 1 + 1 ELSE 0)
          /\ \A i \in 1..n - 1 + 1 : v[i] = rt[1 + i - 1]
      BY <1>1, <2>1, SubSeqProperties
    <3>. HIDE DEF u, v
    <3>. QED  BY <3>1, <3>2, <3>3
  <2>. HIDE DEF u, v
  <2>. QED  BY <1>2, <2>1, <2>2
<1>. HIDE DEF u, v
<1>5. ASSUME n <= l, u = v, NEW i \in 1..n PROVE w[i] = t[l - n + i]
  <2>1. n - i + 1 \in 1..n /\ n - (n - i + 1) + 1 = i /\ l - (n - i + 1) + 1 = l - n + i
    BY <1>1
  <2>2. u[n - i + 1] = w[n - (n - i + 1) + 1] /\ v[n - i + 1] = t[l - (n - i + 1) + 1]
    BY <1>4, <1>5, <2>1
  <2>. QED  BY <1>5, <2>1, <2>2
<1>6. ASSUME n <= l, \A i \in 1..n : w[i] = t[l - n + i] PROVE u = v
  <2>1. ASSUME NEW i \in 1..n PROVE u[i] = v[i]
    <3>1. n - i + 1 \in 1..n /\ l - n + (n - i + 1) = l - i + 1
      BY <1>1
    <3>2. w[n - i + 1] = t[l - i + 1]
      BY <1>6, <3>1
    <3>. QED  BY <1>4, <1>6, <3>2
  <2>. QED  BY <1>4, <1>6, <2>1, SeqEqual
<1>7. EndsIn(t, w) <=> n <= l /\ \A i \in 1..n : w[i] = t[l - n + i]
  BY DEF EndsIn, n, l
<1>. QED  BY <1>3, <1>5, <1>6, <1>7

\* A search ends in the state of the longest end of the text behind the word it began with.
LEMMA SearchFollows ==
  ASSUME NEW m, NEW a, NEW Ps \in SUBSET Pattern, Compiled(m, a, Ps),
         NEW s \in States(a), NEW text \in Seq(Letters)
  PROVE  LET n == Last(Visited(m, s, text))
             t == a.words[s] \o text
         IN /\ n \in States(a)
            /\ a.words[n] \in ToSet(m.words) /\ IsSuffix(a.words[n], t)
            /\ \A w \in ToSet(m.words) : IsSuffix(w, t) => Len(w) <= Len(a.words[n])
<1>. DEFINE N == Len(text)
            n == Last(Visited(m, s, text))
            t == a.words[s] \o text
<1>1. /\ a \in Trees /\ m.words = a.words /\ N \in Nat /\ a.words[s] \in Seq(Letters)
      /\ a.words \in [States(a) -> Seq(Letters)]
  BY LenProperties, StateTypes, TreeTypes DEF Compiled, States
<1>2. n = Visited(m, s, text)[N + 1] /\ n \in States(a)
  BY VisitedIs
<1>3. t \in Seq(Letters) /\ SubSeq(text, 1, N) = text
  <2>1. t \in Seq(Letters)
    BY <1>1, ConcatProperties
  <2>. QED  BY <2>1, SubSeqFull
<1>4. Longest(a, t, n)
  <2>1. N \in 0..N
    BY <1>1
  <2>2. Longest(a, a.words[s] \o SubSeq(text, 1, N), Visited(m, s, text)[N + 1])
    BY <2>1, VisitedFollows
  <2>. QED  BY <1>2, <1>3, <2>2
<1>. HIDE DEF N, n, t
<1>5. ToSet(m.words) = {a.words[u] : u \in States(a)}
  BY <1>1 DEF ToSet
<1>6. \A u \in States(a) : IsSuffix(a.words[u], t) <=> EndsIn(t, a.words[u])
  BY <1>1, <1>3, SuffixIsEnd
<1>7. \A u \in States(a) : EndsIn(t, a.words[u]) => Len(a.words[u]) <= Len(a.words[n])
  BY <1>4 DEF Longest, Depth
<1>8. EndsIn(t, a.words[n])
  BY <1>4 DEF Longest
<1>. QED  BY <1>2, <1>5, <1>6, <1>7, <1>8 DEF n, t

\* What a search reports has ended, and where patterns end one of them is reported.
LEMMA SearchReports ==
  ASSUME NEW m, NEW a, NEW Ps \in SUBSET Pattern, Compiled(m, a, Ps),
         NEW s \in States(a), NEW text \in Seq(Letters)
  PROVE  LET ends(k, p) == IsSuffix(p.word, a.words[s] \o SubSeq(text, 1, k))
             items == Reported(m, Visited(m, s, text))
         IN /\ \A x \in items : \E k \in 0..Len(text), p \in Ps : p.id = x /\ ends(k, p)
            /\ \A k \in 0..Len(text), p \in Ps :
                 p.word # <<>> /\ ends(k, p) => \E q \in Ps : q.id \in items /\ ends(k, q)
<1>. DEFINE v == Visited(m, s, text)
            N == Len(text)
            t(k) == a.words[s] \o SubSeq(text, 1, k)
            items == Reported(m, v)
<1>1. /\ a \in Trees /\ N \in Nat /\ a.words[s] \in Seq(Letters)
      /\ m.match \in [States(a) -> Seq(Nat)]
      /\ \A u \in States(a) : MatchIs(a, Ps, m.match[u], u)
      /\ \A p \in Ps : \E u \in States(a) : a.words[u] = p.word
  BY LenProperties, StateTypes DEF Compiled
<1>2. \A k \in 0..N : t(k) \in Seq(Letters)
  <2>. SUFFICES ASSUME NEW k \in 0..N PROVE t(k) \in Seq(Letters)
    OBVIOUS
  <2>1. k \in Int /\ \A i \in 1..k : i \in 1..Len(text)
    BY <1>1
  <2>2. \A i \in 1..k : text[i] \in Letters
    BY <2>1, ElementOfSeq
  <2>3. SubSeq(text, 1, k) \in Seq(Letters)
    BY <2>1, <2>2, SubSeqProperties
  <2>. QED  BY <1>1, <2>3, ConcatProperties
<1>3. \A k \in 0..N : Longest(a, t(k), v[k + 1])
  BY VisitedFollows
<1>4. /\ \A x : x \in ToSet(v) <=> \E k \in 0..N : v[k + 1] = x
      /\ \A k \in 0..N : v[k + 1] \in States(a)
  <2>1. \A x : x \in ToSet(v) <=> \E k \in 0..N : v[k + 1] = x
    BY VisitedIs
  <2>. QED  BY <1>3, <2>1 DEF Longest
<1>5. items = {Head(m.match[u]) : u \in {x \in ToSet(v) : m.match[x] # <<>>}}
  BY DEF Reported
<1>. HIDE DEF v, N, t, items
<1>6. \A k \in 0..N, p \in Ps : IsSuffix(p.word, t(k)) <=> EndsIn(t(k), p.word)
  BY <1>2, PatternTypes, SuffixIsEnd
<1>7. ASSUME NEW k \in 0..N, m.match[v[k + 1]] # <<>>
      PROVE  \E q \in Ps : q.id = Head(m.match[v[k + 1]]) /\ IsSuffix(q.word, t(k))
  <2>. DEFINE u == v[k + 1]
              x == Head(m.match[u])
  <2>1. u \in States(a) /\ m.match[u] \in Seq(Nat) /\ m.match[u] # <<>> /\ a.words[u] \in Seq(Letters)
    BY <1>1, <1>4, <1>7, StateTypes
  <2>2. EndsIn(t(k), a.words[u])
    BY <1>3 DEF Longest
  <2>3. MatchIs(a, Ps, m.match[u], u)
    BY <1>1, <2>1
  <2>. HIDE DEF u
  <2>4. x \in ToSet(m.match[u])
    <3>1. Len(m.match[u]) \in Nat /\ Len(m.match[u]) # 0
      BY <2>1, EmptySeq, LenProperties
    <3>2. 1 \in 1..Len(m.match[u]) /\ m.match[u][1] = x
      BY <2>1, <3>1, HeadTailProperties
    <3>. QED  BY <2>1, <3>2, ToSetIs
  <2>. HIDE DEF x
  <2>5. PICK q \in Ps : q.id = x /\ EndsIn(a.words[u], q.word)
    BY <2>3, <2>4 DEF MatchIs
  <2>6. q.word \in Seq(Letters)
    BY PatternTypes
  <2>7. EndsIn(t(k), q.word)
    BY <1>2, <2>1, <2>2, <2>5, <2>6, EndsTransitive
  <2>. QED  BY <1>6, <2>5, <2>7 DEF u, x
<1>8. ASSUME NEW x \in items PROVE \E k \in 0..N, p \in Ps : p.id = x /\ IsSuffix(p.word, t(k))
  <2>1. PICK u \in ToSet(v) : m.match[u] # <<>> /\ x = Head(m.match[u])
    BY <1>5
  <2>2. PICK k \in 0..N : v[k + 1] = u
    BY <1>4, <2>1
  <2>. QED  BY <1>7, <2>1, <2>2
<1>9. ASSUME NEW k \in 0..N, NEW p \in Ps, p.word # <<>>, IsSuffix(p.word, t(k))
      PROVE  \E q \in Ps : q.id \in items /\ IsSuffix(q.word, t(k))
  <2>. DEFINE u == v[k + 1]
  <2>1. u \in States(a) /\ a.words[u] \in Seq(Letters) /\ u \in ToSet(v)
    BY <1>1, <1>4, StateTypes
  <2>2. Longest(a, t(k), u)
    BY <1>3
  <2>3. MatchIs(a, Ps, m.match[u], u)
    BY <1>1, <2>1
  <2>4. EndsIn(t(k), p.word)
    BY <1>6, <1>9
  <2>5. PICK w \in States(a) : a.words[w] = p.word
    BY <1>1
  <2>6. p.word \in Seq(Letters) /\ t(k) \in Seq(Letters)
    BY <1>2, PatternTypes
  <2>7. Len(p.word) <= Len(a.words[u]) /\ EndsIn(t(k), a.words[u])
    BY <2>2, <2>4, <2>5 DEF Longest, Depth
  <2>8. EndsIn(a.words[u], p.word)
    <3>. HIDE DEF u
    <3>. QED  BY <2>1, <2>4, <2>6, <2>7, EndsNested
  <2>9. p.id \in ToSet(m.match[u])
    BY <1>9, <2>3, <2>8 DEF MatchIs
  <2>10. m.match[u] # <<>>
    BY <2>9, ToSetEmpty
  <2>11. Head(m.match[u]) \in items
    BY <1>5, <2>1, <2>10
  <2>12. PICK q \in Ps : q.id = Head(m.match[u]) /\ IsSuffix(q.word, t(k))
    BY <1>7, <2>10
  <2>. QED  BY <2>11, <2>12
<1>. QED  BY <1>8, <1>9 DEF v, N, t, items

-----------------------------------------------------------------------------
(* Module Preprocessor.                                                    *)

\* The patterns of the items, by recursion.
LEMMA LoadedStep ==
  ASSUME NEW table \in [Clustered -> Seq(Letters)]
  PROVE  /\ Loaded(table, 0) = <<>>
         /\ \A k \in 1..RhsCount : Loaded(table, k) = (IF k \in Clustered THEN Append(Loaded(table, k - 1), [id |-> k, word |-> table[k]]) ELSE Loaded(table, k - 1))
         /\ \A k \in 0..RhsCount : Loaded(table, k) \in Seq(Pattern)
<1>. DEFINE Eq(w) == w = [k \in 0..RhsCount |-> IF k = 0 THEN <<>> ELSE (IF k \in Clustered THEN Append(w[k - 1], [id |-> k, word |-> table[k]]) ELSE w[k - 1])]
            all == CHOOSE w : Eq(w)
            g == [x \in (1..RhsCount) \X Seq(Pattern) |-> (IF x[1] \in Clustered THEN Append(x[2], [id |-> x[1], word |-> table[x[1]]]) ELSE x[2])]
<1>1. 0 \in Int /\ RhsCount \in Int /\ 0 <= RhsCount /\ <<>> \in Seq(Pattern) /\ 0 + 1 = 1
  BY RulesAssumption
<1>2. ASSUME NEW k \in 1..RhsCount, NEW x \in Seq(Pattern) PROVE (IF k \in Clustered THEN Append(x, [id |-> k, word |-> table[k]]) ELSE x) \in Seq(Pattern)
  <2>1. k \in Clustered => [id |-> k, word |-> table[k]] \in Pattern
    BY RulesAssumption DEF Pattern
  <2>. DEFINE p == [id |-> k, word |-> table[k]]
  <2>. HIDE DEF p
  <2>2. p \in Pattern => Append(x, p) \in Seq(Pattern)
    BY AppendProperties
  <2>3. (IF k \in Clustered THEN Append(x, p) ELSE x) \in Seq(Pattern)
    BY <2>1, <2>2 DEF p
  <2>. QED  BY <2>3 DEF p
<1>3. g \in [(1..RhsCount) \X Seq(Pattern) -> Seq(Pattern)]
  BY <1>2
<1>4. \A k \in 1..RhsCount, x \in Seq(Pattern) : g[<<k, x>>] = (IF k \in Clustered THEN Append(x, [id |-> k, word |-> table[k]]) ELSE x)
  OBVIOUS
<1>. HIDE DEF g
<1>5. PICK f \in [0..RhsCount -> Seq(Pattern)] : Recursive(f, <<>>, g, 0, RhsCount)
  BY <1>1, <1>3, RecursionExists
<1>6. Eq(f)
  <2>1. ASSUME NEW k \in 0..RhsCount
        PROVE  f[k] = IF k = 0 THEN <<>> ELSE (IF k \in Clustered THEN Append(f[k - 1], [id |-> k, word |-> table[k]]) ELSE f[k - 1])
    <3>1. CASE k = 0
      BY <1>5, <3>1 DEF Recursive
    <3>2. CASE k # 0
      <4>1. k \in 1..RhsCount /\ k - 1 \in 0..RhsCount
        BY <1>1, <3>2
      <4>2. f[k - 1] \in Seq(Pattern) /\ f[k] = g[<<k, f[k - 1]>>]
        BY <1>1, <1>5, <4>1 DEF Recursive
      <4>3. g[<<k, f[k - 1]>>] = (IF k \in Clustered THEN Append(f[k - 1], [id |-> k, word |-> table[k]]) ELSE f[k - 1])
        BY <1>4, <4>1, <4>2
      <4>. QED  BY <3>2, <4>2, <4>3
    <3>. QED  BY <3>1, <3>2
  <2>. QED  BY <2>1
<1>7. Eq(all)
  <2>. HIDE DEF Eq
  <2>. QED  BY <1>6, Zenon
<1>8. \A k : Loaded(table, k) = all[k]
  BY Zenon DEF Loaded
<1>. HIDE DEF all
<1>9. \A k \in 0..RhsCount : all[k] = IF k = 0 THEN <<>> ELSE (IF k \in Clustered THEN Append(all[k - 1], [id |-> k, word |-> table[k]]) ELSE all[k - 1])
  BY <1>7
<1>10. Loaded(table, 0) = <<>>
  <2>1. 0 \in 0..RhsCount
    BY <1>1
  <2>2. all[0] = <<>>
    BY <1>9, <2>1
  <2>. QED  BY <1>8, <2>2
<1>11. ASSUME NEW k \in 1..RhsCount PROVE Loaded(table, k) = (IF k \in Clustered THEN Append(Loaded(table, k - 1), [id |-> k, word |-> table[k]]) ELSE Loaded(table, k - 1))
  <2>1. k \in 0..RhsCount /\ k # 0
    BY <1>1
  <2>2. all[k] = (IF k \in Clustered THEN Append(all[k - 1], [id |-> k, word |-> table[k]]) ELSE all[k - 1])
    BY <1>9, <2>1
  <2>3. Loaded(table, k) = all[k] /\ Loaded(table, k - 1) = all[k - 1]
    BY <1>8
  <2>. QED  BY <2>2, <2>3
<1>. DEFINE T == {k \in 0..RhsCount : Loaded(table, k) \in Seq(Pattern)}
<1>12. 0 \in T
  <2>1. 0 \in 0..RhsCount
    BY <1>1
  <2>2. Loaded(table, 0) \in Seq(Pattern)
    BY <1>1, <1>10, Zenon
  <2>. QED  BY <2>1, <2>2
<1>13. ASSUME NEW k \in 1..RhsCount, k - 1 \in T PROVE k \in T
  <2>1. k \in 0..RhsCount /\ Loaded(table, k - 1) \in Seq(Pattern)
    BY <1>1, <1>13
  <2>2. (IF k \in Clustered THEN Append(Loaded(table, k - 1), [id |-> k, word |-> table[k]]) ELSE Loaded(table, k - 1)) \in Seq(Pattern)
    BY <1>2, <2>1
  <2>. QED  BY <1>11, <2>1, <2>2
<1>. HIDE DEF T
<1>14. \A k \in 0..RhsCount : k \in T
  <2>1. \A k \in 0 + 1 .. RhsCount : k - 1 \in T => k \in T
    BY <1>1, <1>13
  <2>. QED  BY <1>1, <1>12, <2>1, Upwards
<1>15. \A k \in 0..RhsCount : Loaded(table, k) \in Seq(Pattern)
  BY <1>14 DEF T
<1>. QED  BY <1>10, <1>11, <1>15

\* What is to be found: the pattern of every item that has one.
Wanted(table) == {[id |-> i, word |-> table[i]] : i \in Clustered}

LEMMA WantedIs ==
  ASSUME NEW table \in [Clustered -> Seq(Letters)]
  PROVE  /\ Wanted(table) \in SUBSET Pattern
         /\ \A p \in Wanted(table) : p.id \in Clustered /\ p.word = table[p.id]
         /\ \A i \in Clustered : \E p \in Wanted(table) : p.id = i /\ p.word = table[i]
<1>1. \A i \in Clustered : i \in Nat /\ table[i] \in Seq(Letters)
  BY RulesAssumption DEF Items
<1>2. \A i \in Clustered : [id |-> i, word |-> table[i]] \in Pattern
  BY <1>1 DEF Pattern
<1>3. Wanted(table) \in SUBSET Pattern
  BY <1>2 DEF Wanted
<1>4. ASSUME NEW p \in Wanted(table) PROVE p.id \in Clustered /\ p.word = table[p.id]
  BY DEF Wanted
<1>5. ASSUME NEW i \in Clustered PROVE \E p \in Wanted(table) : p.id = i /\ p.word = table[i]
  <2>1. [id |-> i, word |-> table[i]] \in Wanted(table)
    BY DEF Wanted
  <2>. QED  BY <2>1
<1>. QED  BY <1>3, <1>4, <1>5

LEMMA LoadedAre ==
  ASSUME NEW table \in [Clustered -> Seq(Letters)]
  PROVE  /\ Loaded(table, RhsCount) \in Seq(Pattern)
         /\ ToSet(Loaded(table, RhsCount)) = Wanted(table)
<1>. DEFINE Of(n) == {[id |-> i, word |-> table[i]] : i \in Clustered \cap 1..n}
            T == {n \in 0..RhsCount : ToSet(Loaded(table, n)) = Of(n)}
<1>1. RhsCount \in Nat /\ Clustered \subseteq 1..RhsCount
  BY RulesAssumption DEF Items
<1>2. /\ Loaded(table, 0) = <<>>
      /\ \A n \in 1..RhsCount :
           Loaded(table, n) = IF n \in Clustered
                              THEN Append(Loaded(table, n - 1), [id |-> n, word |-> table[n]])
                              ELSE Loaded(table, n - 1)
      /\ \A n \in 0..RhsCount : Loaded(table, n) \in Seq(Pattern)
  BY LoadedStep
<1>3. 0 \in T
  BY <1>1, <1>2, ToSetEmpty
<1>4. ASSUME NEW n \in 1..RhsCount, n - 1 \in T PROVE n \in T
  <2>. DEFINE p == [id |-> n, word |-> table[n]]
  <2>1. n \in 0..RhsCount /\ n - 1 \in 0..RhsCount /\ 1..n = (1..n - 1) \cup {n}
    BY <1>1
  <2>2. CASE n \in Clustered
    <3>1. p \in Pattern
      BY <1>1, <2>2 DEF Pattern
    <3>2. Loaded(table, n) = Append(Loaded(table, n - 1), p)
      BY <1>2, <2>2
    <3>3. Clustered \cap 1..n = (Clustered \cap 1..n - 1) \cup {n}
      BY <2>1, <2>2
    <3>4. Of(n) = Of(n - 1) \cup {p}
      BY <3>3
    <3>5. Loaded(table, n - 1) \in Seq(Pattern)
      BY <1>2, <2>1
    <3>. HIDE DEF p, Of
    <3>6. ToSet(Loaded(table, n)) = ToSet(Loaded(table, n - 1)) \cup {p}
      BY <3>1, <3>2, <3>5, AppendDistinct
    <3>. QED  BY <1>4, <2>1, <3>4, <3>6
  <2>3. CASE n \notin Clustered
    <3>1. Loaded(table, n) = Loaded(table, n - 1)
      BY <1>2, <2>3
    <3>2. Clustered \cap 1..n = Clustered \cap 1..n - 1
      BY <2>1, <2>3
    <3>3. Of(n) = Of(n - 1)
      BY <3>2
    <3>. QED  BY <1>4, <2>1, <3>1, <3>3
  <2>. QED  BY <2>2, <2>3
<1>5. \A n \in 0..RhsCount : n \in T
  <2>. HIDE DEF T
  <2>. QED  BY <1>1, <1>3, <1>4, Counting
<1>6. RhsCount \in T /\ RhsCount \in 0..RhsCount
  BY <1>1, <1>5
<1>7. Of(RhsCount) = Wanted(table)
  <2>1. Clustered \cap 1..RhsCount = Clustered
    BY <1>1
  <2>. QED  BY <2>1 DEF Wanted
<1>. QED  BY <1>2, <1>6, <1>7

\* The tree of the patterns.
SearchTree == Tree(Loaded(pattern, RhsCount), Len(Loaded(pattern, RhsCount)))

(***************************************************************************)
(* The patterns are compiled once, and the state kept for a side is one of *)
(* the compiled states.                                                    *)
(***************************************************************************)
DataInv ==
  /\ pattern \in [Clustered -> Seq(Letters)]
  /\ acsm = Compile(Loaded(pattern, RhsCount))
  /\ last \in [Sides -> States(SearchTree)]

LEMMA SearchIs ==
  ASSUME DataInv
  PROVE  /\ Compiled(acsm, SearchTree, Wanted(pattern))
         /\ \A side \in Sides : last[side] \in States(SearchTree)
         /\ acsm.words = SearchTree.words
<1>1. pattern \in [Clustered -> Seq(Letters)] /\ acsm = Compile(Loaded(pattern, RhsCount))
  BY DEF DataInv
<1>2. Compiled(acsm, SearchTree, Wanted(pattern))
  BY <1>1, LoadedAre, CompileIs DEF SearchTree
<1>3. acsm.words = SearchTree.words
  BY <1>2 DEF Compiled
<1>. QED  BY <1>2, <1>3 DEF DataInv

LEMMA DataInitInv == DataInit => DataInv
<1>. SUFFICES ASSUME DataInit PROVE DataInv
  OBVIOUS
<1>1. pattern \in [Clustered -> Seq(Letters)] /\ acsm = Compile(Loaded(pattern, RhsCount))
  BY PatternsAssumption DEF DataInit
<1>2. Compiled(acsm, SearchTree, Wanted(pattern))
  BY <1>1, LoadedAre, CompileIs DEF SearchTree
<1>3. 0 \in States(SearchTree)
  BY <1>2, StateTypes DEF Compiled
<1>. QED  BY <1>1, <1>3 DEF DataInv, DataInit

\* What a search of a piece of data does.
LEMMA DetectDataIs ==
  ASSUME NEW side \in Sides, NEW text \in Texts, DetectData(side, text)
  PROVE  LET states == Visited(acsm, last[side], text) IN
         /\ pp' = pp \cup Reported(acsm, states)
         /\ last' = [last EXCEPT ![side] = Last(states)]
         /\ pattern' = pattern /\ acsm' = acsm
<1>. DEFINE items == Reported(acsm, Visited(acsm, last[side], text))
<1>1. pp' = pp \cup items
  <2>1. IF items = {} THEN UNCHANGED vars ELSE Search(items)
    BY DEF DetectData
  <2>. HIDE DEF items
  <2>2. CASE items = {}
    BY <2>1, <2>2 DEF vars
  <2>3. CASE items # {}
    BY <2>1, <2>3 DEF Search
  <2>. QED  BY <2>2, <2>3
<1>. QED  BY <1>1 DEF DetectData, Continue

LEMMA DataNextInv == DataInv /\ [DataNext]_<<vars, pvars>> => DataInv'
<1>. SUFFICES ASSUME DataInv, [DataNext]_<<vars, pvars>> PROVE DataInv'
  OBVIOUS
<1>1. ASSUME NEW side \in Sides, NEW text \in Texts, DetectData(side, text) PROVE DataInv'
  <2>. DEFINE n == Last(Visited(acsm, last[side], text))
  <2>1. last' = [last EXCEPT ![side] = n] /\ pattern' = pattern /\ acsm' = acsm
    BY <1>1, DetectDataIs
  <2>2. n \in States(SearchTree)
    <3>1. text \in Seq(Letters)
      BY PatternsAssumption
    <3>2. Wanted(pattern) \in SUBSET Pattern
      BY WantedIs DEF DataInv
    <3>. QED  BY <3>1, <3>2, SearchIs, SearchFollows
  <2>. HIDE DEF n
  <2>3. SearchTree' = SearchTree
    BY <2>1 DEF SearchTree
  <2>4. last' \in [Sides -> States(SearchTree)]
    BY <2>1, <2>2 DEF DataInv
  <2>. QED  BY <2>1, <2>3, <2>4 DEF DataInv, States
<1>2. ASSUME UNCHANGED pvars PROVE DataInv'
  BY <1>2 DEF pvars, DataInv, SearchTree, States
<1>. QED  BY <1>1, <1>2 DEF DataNext

LEMMA DataInvariant == DataSpec => []DataInv
BY DataInitInv, DataNextInv, PTL DEF DataSpec

(***************************************************************************)
(* For every set of patterns and every way the streams of the two sides    *)
(* are cut and interleaved, a search continues where the last one of its   *)
(* side stopped: in the state of the longest end of the stream that some   *)
(* pattern begins with (acsmx2.c compiles the fallbacks into its rows).    *)
(***************************************************************************)
THEOREM AlwaysFollowsText == DataSpec => FollowsText
<1>. DEFINE Follows(side, text) ==
       LET stream == Seen(side) \o text
           begun  == {w \in ToSet(acsm.words) : IsSuffix(w, stream)}
       IN /\ Seen(side)' \in begun
          /\ \A w \in begun : Len(w) <= Len(Seen(side)')
          /\ \A other \in Sides \ {side} : last'[other] = last[other]
<1>1. ASSUME DataInv, NEW side \in Sides, NEW text \in Texts, DetectData(side, text)
      PROVE  Follows(side, text)
  <2>. DEFINE n == Last(Visited(acsm, last[side], text))
              a == SearchTree
              t == a.words[last[side]] \o text
  <2>1. last' = [last EXCEPT ![side] = n] /\ acsm' = acsm
    BY <1>1, DetectDataIs
  <2>2. last[side] \in States(a) /\ acsm.words = a.words
    BY <1>1, SearchIs
  <2>3. /\ n \in States(a) /\ a.words[n] \in ToSet(acsm.words) /\ IsSuffix(a.words[n], t)
        /\ \A w \in ToSet(acsm.words) : IsSuffix(w, t) => Len(w) <= Len(a.words[n])
    <3>1. text \in Seq(Letters)
      BY PatternsAssumption
    <3>2. Wanted(pattern) \in SUBSET Pattern
      BY <1>1, WantedIs DEF DataInv
    <3>. QED  BY <1>1, <2>2, <3>1, <3>2, SearchIs, SearchFollows
  <2>. HIDE DEF n, a
  <2>4. last'[side] = n /\ \A other \in Sides \ {side} : last'[other] = last[other]
    BY <1>1, <2>1 DEF DataInv
  <2>5. Seen(side)' = a.words[n] /\ Seen(side) \o text = t
    BY <2>1, <2>2, <2>4 DEF Seen
  <2>. HIDE DEF t
  <2>. QED  BY <2>3, <2>4, <2>5
<1>2. DataInv => [\A side \in Sides, text \in Texts : DetectData(side, text) => Follows(side, text)]_<<vars, pvars>>
  BY <1>1
<1>. QED  BY <1>2, DataInvariant, PTL DEF FollowsText

(***************************************************************************)
(* For every set of patterns and every way the streams are cut, the bits   *)
(* that a piece of data sets are of items whose pattern ends in it or      *)
(* ended with the data before, and no place where a pattern ends goes by   *)
(* without the bit of one that ends there.                                 *)
(***************************************************************************)
THEOREM AlwaysReportsTrue == DataSpec => ReportsTrue
<1>. DEFINE True(side, text) ==
       /\ pp' \ pp \subseteq UNION {EndingAt(k, Seen(side), text) : k \in 0..Len(text)}
       /\ \A k \in 1..Len(text) :
            (\E i \in EndingAt(k, Seen(side), text) : pattern[i] # <<>>) =>
              EndingAt(k, Seen(side), text) \cap pp' # {}
<1>1. ASSUME DataInv, NEW side \in Sides, NEW text \in Texts, DetectData(side, text)
      PROVE  True(side, text)
  <2>. DEFINE a == SearchTree
              Ps == Wanted(pattern)
              s == last[side]
              items == Reported(acsm, Visited(acsm, s, text))
              ends(k, w) == IsSuffix(w, a.words[s] \o SubSeq(text, 1, k))
  <2>1. pp' = pp \cup items
    BY <1>1, DetectDataIs
  <2>2. s \in States(a) /\ acsm.words = a.words /\ Compiled(acsm, a, Ps)
    BY <1>1, SearchIs
  <2>3. /\ Ps \in SUBSET Pattern
        /\ \A p \in Ps : p.id \in Clustered /\ p.word = pattern[p.id]
        /\ \A i \in Clustered : \E p \in Ps : p.id = i /\ p.word = pattern[i]
    BY <1>1, WantedIs DEF DataInv
  <2>4. text \in Seq(Letters) /\ Len(text) \in Nat
    BY PatternsAssumption, LenProperties
  <2>5. /\ \A x \in items : \E k \in 0..Len(text), p \in Ps : p.id = x /\ ends(k, p.word)
        /\ \A k \in 0..Len(text), p \in Ps :
             p.word # <<>> /\ ends(k, p.word) => \E q \in Ps : q.id \in items /\ ends(k, q.word)
    <3>. HIDE DEF a, Ps, s
    <3>. QED  BY <2>2, <2>3, <2>4, SearchReports
  <2>6. \A k \in 0..Len(text), i \in Clustered :
          i \in EndingAt(k, Seen(side), text) <=> ends(k, pattern[i])
    BY <2>2 DEF EndingAt, Seen
  <2>7. \A k \in 0..Len(text) : \A i \in EndingAt(k, Seen(side), text) : i \in Clustered
    BY DEF EndingAt
  <2>. HIDE DEF a, Ps, s, items, ends
  <2>8. ASSUME NEW x \in pp' \ pp
        PROVE  \E k \in 0..Len(text) : x \in EndingAt(k, Seen(side), text)
    <3>1. PICK k \in 0..Len(text), p \in Ps : p.id = x /\ ends(k, p.word)
      BY <2>1, <2>5
    <3>. QED  BY <2>3, <2>6, <3>1
  <2>9. ASSUME NEW k \in 1..Len(text), NEW i \in EndingAt(k, Seen(side), text), pattern[i] # <<>>
        PROVE  EndingAt(k, Seen(side), text) \cap pp' # {}
    <3>1. k \in 0..Len(text)
      BY <2>4
    <3>2. i \in Clustered /\ ends(k, pattern[i])
      BY <2>6, <2>7, <3>1
    <3>3. PICK p \in Ps : p.id = i /\ p.word = pattern[i]
      BY <2>3, <3>2
    <3>4. PICK q \in Ps : q.id \in items /\ ends(k, q.word)
      BY <2>5, <2>9, <3>1, <3>2, <3>3
    <3>5. q.id \in EndingAt(k, Seen(side), text) /\ q.id \in pp'
      BY <2>1, <2>3, <2>6, <3>1, <3>4
    <3>. QED  BY <3>5
  <2>. QED  BY <2>8, <2>9
<1>2. DataInv => [\A side \in Sides, text \in Texts : DetectData(side, text) => True(side, text)]_<<vars, pvars>>
  BY <1>1
<1>. QED  BY <1>2, DataInvariant, PTL DEF ReportsTrue

\* Every step of the search is a step of the detector or leaves it alone.
LEMMA DataNextRefines == DataInv /\ [DataNext]_<<vars, pvars>> => [Next]_vars
<1>. SUFFICES ASSUME DataInv, [DataNext]_<<vars, pvars>> PROVE [Next]_vars
  OBVIOUS
<1>1. ASSUME NEW side \in Sides, NEW text \in Texts, DetectData(side, text) PROVE [Next]_vars
  <2>. DEFINE items == Reported(acsm, Visited(acsm, last[side], text))
  <2>1. IF items = {} THEN UNCHANGED vars ELSE Search(items)
    BY <1>1 DEF DetectData
  <2>2. items \subseteq Clustered
    <3>1. text \in Seq(Letters)
      BY PatternsAssumption
    <3>2. /\ Wanted(pattern) \in SUBSET Pattern
          /\ \A p \in Wanted(pattern) : p.id \in Clustered
      BY WantedIs DEF DataInv
    <3>3. Compiled(acsm, SearchTree, Wanted(pattern)) /\ last[side] \in States(SearchTree)
      BY SearchIs
    <3>4. \A x \in items : \E p \in Wanted(pattern) : p.id = x
      BY <3>1, <3>2, <3>3, SearchReports
    <3>. QED  BY <3>2, <3>4
  <2>. HIDE DEF items
  <2>. QED  BY <2>1, <2>2 DEF Next, Call
<1>2. CASE EventCalls \/ Iterate \/ Return
  BY <1>2 DEF Next, Call, EventCalls
<1>. QED  BY <1>1, <1>2 DEF DataNext

(***************************************************************************)
(* The detector that searches data is the detector of module Detect: for   *)
(* every data base and every set of patterns its bitmaps keep their        *)
(* promises, the alternative loaded first wins, and it implements Progress.*)
(***************************************************************************)
THEOREM DataDetects ==
  DataSpec => [](RememberedInOrder /\ BitmapsAgree) /\ FirstMatchWins /\ Implements
<1>1. DataInit => Init
  BY DEF DataInit
<1>2. DataSpec => Steps
  BY <1>1, DataNextRefines, DataInvariant, PTL DEF DataSpec, Steps
<1>3. Inv => RememberedInOrder /\ BitmapsAgree
  BY DEF Inv
<1>. QED  BY <1>2, <1>3, Invariance, StepsWin, StepsImplement, PTL
=============================================================================
