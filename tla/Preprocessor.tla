---------------------------- MODULE Preprocessor ----------------------------
(***************************************************************************)
(* Detection in a work that is fed with data: the "simple" preprocessor    *)
(* (libengine/ey_preprocessor_simple.c) searches what each side sends for  *)
(* the patterns of all items and sets their bits, and the events of module *)
(* Detect go by these bits.  A work keeps one state of the search for each *)
(* side, so that a pattern may begin in one piece of data and end in the   *)
(* next.                                                                   *)
(***************************************************************************)
EXTENDS Detect, Acsm

CONSTANTS
  PatternTables,  \* patterns the files may give to the items of Clustered
  Texts           \* pieces of data

ASSUME PatternsAssumption ==
  /\ PatternTables \subseteq [Clustered -> Seq(Letters)]
  /\ Texts \subseteq Seq(Letters) \ {<<>>}

VARIABLES
  pattern,  \* the pattern of every item that has one
  acsm,     \* processor_data: the compiled patterns
  last      \* client_last_state and server_last_state

Sides == {"client", "server"}
pvars == <<pattern, acsm, last>>

\* simple_load, once for each item in the order of the files: the first n items.
Loaded(table, n) ==
  LET upto[i \in 0..RhsCount] ==
        IF i = 0 THEN <<>>
        ELSE IF i \in Clustered THEN Append(upto[i - 1], [id |-> i, word |-> table[i]])
        ELSE upto[i - 1]
  IN upto[n]

\* simple_load_finish, simple_detect_init.
DataInit ==
  /\ Init
  /\ pattern \in PatternTables
  /\ acsm = Compile(Loaded(pattern, RhsCount))
  /\ last = [side \in Sides |-> 0]

Continue(side, states) == last' = [last EXCEPT ![side] = Last(states)]

\* simple_detect with acsm_match_cb: an empty piece is not searched.
DetectData(side, text) ==
  LET states == Visited(acsm, last[side], text)
      items  == Reported(acsm, states)
  IN /\ phase = "idle"
     /\ IF items = {} THEN UNCHANGED vars ELSE Search(items)
     /\ Continue(side, states)
     /\ UNCHANGED <<pattern, acsm>>

EventCalls ==
  \E e \in Events, a \in {"pass", "drop"} : DetectEvent(e, a) \/ PreprocessorFails(e, a)

DataNext ==
  \/ \E side \in Sides, text \in Texts : DetectData(side, text)
  \/ (EventCalls \/ Iterate \/ Return) /\ UNCHANGED pvars

\* Fairness is that of Detect.
DataSpec ==
  DataInit /\ [][DataNext]_<<vars, pvars>> /\ WF_vars((Iterate \/ Return) /\ UNCHANGED pvars)

-----------------------------------------------------------------------------
\* The items whose pattern ends with letter k of a text that continues the word.
EndingAt(k, word, text) ==
  {i \in Clustered : IsSuffix(pattern[i], word \o SubSeq(text, 1, k))}

Seen(side) == acsm.words[last[side]]

(***************************************************************************)
(* Wherever the stream of one side is cut, and whatever the other side     *)
(* sends in between, the search stands in the state of the longest end of  *)
(* the stream that some pattern begins with: rows and fallbacks are those  *)
(* of Aho and Corasick (ey_preprocessor_simple.c: last_state).             *)
(***************************************************************************)
FollowsText ==
  [][\A side \in Sides, text \in Texts :
       DetectData(side, text) =>
         LET stream == Seen(side) \o text
             begun  == {w \in ToSet(acsm.words) : IsSuffix(w, stream)}
         IN /\ Seen(side)' \in begun
            /\ \A w \in begun : Len(w) <= Len(Seen(side)')
            /\ \A other \in Sides \ {side} : last'[other] = last[other]]_<<vars, pvars>>

(***************************************************************************)
(* A bit is set only for an item whose pattern ends in the data, or ended  *)
(* with the data before (the state in which a search starts is looked at   *)
(* once more); and wherever patterns end, one of them is reported, so that *)
(* a pattern that ends alone is always found.  A pattern without letters   *)
(* ends everywhere, but the states of one letter do not have it            *)
(* (acsmx2.c:898-906).                                                     *)
(***************************************************************************)
ReportsTrue ==
  [][\A side \in Sides, text \in Texts :
       DetectData(side, text) =>
         /\ pp' \ pp \subseteq UNION {EndingAt(k, Seen(side), text) : k \in 0..Len(text)}
         /\ \A k \in 1..Len(text) :
              (\E i \in EndingAt(k, Seen(side), text) : pattern[i] # <<>>) =>
                EndingAt(k, Seen(side), text) \cap pp' # {}]_<<vars, pvars>>

(***************************************************************************)
(* "Finds all occurrences of all patterns within a text" (libmatch/        *)
(* acsmx2.c:47): whatever pattern ends in the data, its item has its bit.  *)
(***************************************************************************)
AllFound ==
  [][\A side \in Sides, text \in Texts :
       DetectData(side, text) =>
         \A k \in 1..Len(text) : EndingAt(k, Seen(side), text) \subseteq pp']_<<vars, pvars>>
=============================================================================
