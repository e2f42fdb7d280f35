-------------------------------- MODULE Acsm --------------------------------
(***************************************************************************)
(* The multi-pattern search (libmatch/acsmx2.c), as far as the engine uses *)
(* it: patterns are put into a tree of states, every state gets the state  *)
(* to fall back to and the list of patterns that end in it, the fallbacks  *)
(* are compiled away into one row of next states per state, and a search   *)
(* follows the rows from the state where the last search stopped.          *)
(*                                                                         *)
(* A letter is a number, upper and lower case are one letter (xlatcase).   *)
(* A pattern is a record of its letters, "word", and what it is reported   *)
(* as, "id".                                                               *)
(***************************************************************************)
EXTENDS Integers, SequencesExt

CONSTANT Alphabet   \* acsmAlphabetSize, 256 in the code

ASSUME AlphabetAssumption == Alphabet \in Nat \ {0}

Letters == 1..Alphabet
NoState == -1       \* ACSM_FAIL_STATE2

(***************************************************************************)
(* The state machine under construction: the number of the last state, for *)
(* every state a row with the next state for each letter, and its list of  *)
(* patterns.  "words" is for properties only: the letters that lead to a   *)
(* state.                                                                  *)
(***************************************************************************)
NoRow == [c \in Letters |-> NoState]

Nothing ==
  [states |-> 0, next |-> [s \in {0} |-> NoRow], match |-> [s \in {0} |-> <<>>],
   words |-> [s \in {0} |-> <<>>]]

GetNextState(next, s, c) ==
  IF s = 0 /\ next[s][c] = NoState THEN 0 ELSE next[s][c]

PutNextState(next, s, c, n) == [next EXCEPT ![s][c] = n]

-----------------------------------------------------------------------------
\* A new state, to which letter c leads from s.
AddState(a, s, c) ==
  LET n == a.states + 1
      grown(f, new) == [t \in 0..n |-> IF t = n THEN new ELSE f[t]]
  IN [states |-> n,
      next   |-> grown(PutNextState(a.next, s, c, n), NoRow),
      match  |-> grown(a.match, <<>>),
      words  |-> grown(a.words, Append(a.words[s], c))]

\* One letter of a pattern: x.at is the state its letters have led to.
AddLetter(x, c) ==
  LET n == GetNextState(x.a.next, x.at, c)
  IN IF n \notin {NoState, 0} THEN [a |-> x.a, at |-> n]
     ELSE [a |-> AddState(x.a, x.at, c), at |-> x.a.states + 1]

\* The tree with the first n letters of a word, and where they lead to.
Path(a, word, n) ==
  LET path[k \in 0..Len(word)] ==
        IF k = 0 THEN [a |-> a, at |-> 0] ELSE AddLetter(path[k - 1], word[k])
  IN path[n]

(***************************************************************************)
(* AddPatternStates: follow the pattern as far as the tree has it, add a   *)
(* state for each further letter, and put the pattern in front of those    *)
(* that end there.                                                         *)
(***************************************************************************)
AddPatternStates(a, p) ==
  LET end == Path(a, p.word, Len(p.word))
  IN [end.a EXCEPT !.match[end.at] = <<p.id>> \o @]

\* The tree of the last n patterns: acsmAddPattern2 has put each in front of those
\* before it, and _acsmCompile2 takes them from the front.
Tree(patterns, n) ==
  LET tree[k \in 0..Len(patterns)] ==
        IF k = 0 THEN Nothing
        ELSE AddPatternStates(tree[k - 1], patterns[Len(patterns) + 1 - k])
  IN tree[n]

\* The states that the first n letters lead to from state s.
Children(a, s, n) ==
  LET upto[c \in 0..Alphabet] ==
        IF c = 0 THEN <<>>
        ELSE IF GetNextState(a.next, s, c) \in {NoState, 0} THEN upto[c - 1]
        ELSE Append(upto[c - 1], GetNextState(a.next, s, c))
  IN upto[n]

(***************************************************************************)
(* All that has been in the queue of Build_NFA and Convert_NFA_To_DFA when *)
(* k states have been removed: those of depth one, then the children of    *)
(* each in turn.                                                           *)
(***************************************************************************)
Queued(a, k) ==
  LET remove(queue, i) ==
        IF i > Len(queue) THEN queue ELSE queue \o Children(a, queue[i], Alphabet)
      queue[i \in 0..a.states] ==
        IF i = 0 THEN Children(a, 0, Alphabet) ELSE remove(queue[i - 1], i)
  IN queue[k]

QueueOrder(a) == Queued(a, a.states)

\* Mutant: the search for a fallback goes one state back only.
FallBackOnce(a, fail, s, c) ==
  LET n == GetNextState(a.next, fail[s], c) IN IF n = NoState THEN 0 ELSE n

\* The state that is n + 1 steps back from s.
Falls(a, fail, s, n) ==
  LET fs[i \in 0..a.states] == IF i = 0 THEN fail[s] ELSE fail[fs[i - 1]] IN fs[n]

\* The next valid state for letter c from the fallback of s on.
FallBack(a, fail, s, c) ==
  LET valid == {i \in 0..a.states : GetNextState(a.next, Falls(a, fail, s, i), c) # NoState}
  IN GetNextState(a.next, Falls(a, fail, s, Min(valid)), c)

\* Build_NFA for the children of state r: the fallback of each, and the patterns of the
\* fallback put in front of its own, one after the other.
AddFallBacks(a, x, r) ==
  LET childs == {s \in 1..a.states : \E c \in Letters : a.next[r][c] = s}
      next(s) == FallBack(a, x.fail, r, CHOOSE c \in Letters : a.next[r][c] = s)
  IN [fail  |-> [s \in 0..a.states |-> IF s \in childs THEN next(s) ELSE x.fail[s]],
      match |-> [s \in 0..a.states |->
                   IF s \in childs THEN Reverse(x.match[next(s)]) \o x.match[s] ELSE x.match[s]]]

\* Build_NFA when k states have been removed from the queue.
Fallbacks(a, k) ==
  LET order == QueueOrder(a)
      x[i \in 0..a.states] ==
        IF i = 0 THEN [fail |-> [s \in 0..a.states |-> 0], match |-> a.match]
        ELSE AddFallBacks(a, x[i - 1], order[i])
  IN x[k]

BuildNFA(a) == Fallbacks(a, a.states)

\* Convert_NFA_To_DFA for state r: where it has no transition it takes its fallback's.
TakeFallBack(next, fail, r) ==
  [next EXCEPT ![r] =
     [c \in Letters |->
        IF /\ GetNextState(next, r, c) \in {NoState, 0}
           /\ GetNextState(next, fail[r], c) \notin {NoState, 0}
        THEN GetNextState(next, fail[r], c) ELSE next[r][c]]]

\* Convert_NFA_To_DFA when k states have been removed from the queue.
Rows(a, fail, k) ==
  LET order == QueueOrder(a)
      rows[i \in 0..a.states] ==
        IF i = 0 THEN a.next ELSE TakeFallBack(rows[i - 1], fail, order[i])
  IN rows[k]

ConvertNFAToDFA(a, fail) == Rows(a, fail, a.states)

\* Conv_List_To_Full: a row per state, 0 where it has no transition.
ConvListToFull(a, next) ==
  [s \in 0..a.states |-> [c \in Letters |->
     IF GetNextState(next, s, c) = NoState THEN 0 ELSE GetNextState(next, s, c)]]

Compile(patterns) ==
  LET a   == Tree(patterns, Len(patterns))
      nfa == BuildNFA(a)
  IN [next |-> ConvListToFull(a, ConvertNFAToDFA(a, nfa.fail)), match |-> nfa.match,
      words |-> a.words]

-----------------------------------------------------------------------------
\* The states a search of the text visits, from the one it starts in.
Visited(a, state, text) ==
  LET v[k \in 1..Len(text) + 1] ==
        IF k = 1 THEN state ELSE a.next[v[k - 1]][text[k - 1]]
  IN v

\* Mutant: the state at the end of the data is not looked at.
ReportedBeforeEnd(a, states) ==
  {Head(a.match[s]) : s \in {x \in ToSet(Front(states)) : a.match[x] # <<>>}}

\* acsmSearchSparseDFA_Full: in every state one pattern is reported, the first.
Reported(a, states) ==
  {Head(a.match[s]) : s \in {x \in ToSet(states) : a.match[x] # <<>>}}
=============================================================================
