------------------------------- MODULE Table -------------------------------
(***************************************************************************)
(* What the hash table promises to the threads that share it: every call   *)
(* takes effect at once.  It is a set of values, no two with the same key, *)
(* never more than a limit, and what a call answers fits the set at that   *)
(* moment.                                                                 *)
(***************************************************************************)
EXTENDS Integers, FiniteSets

CONSTANTS
  Values,   \* what is stored
  Keys,
  KeyOf,    \* the key that compare_fn accepts for a value
  Threads,
  Limit     \* a positive number (HashAssumption of module HashTable)

VARIABLES
  table,    \* the values in the table
  reply     \* what the last call of a thread to take effect answers

tvars == <<table, reply>>

Holds(k) == \E v \in table : KeyOf[v] = k

Answer(t, a) == reply' = [reply EXCEPT ![t] = a]

TInit == table = {} /\ reply = [t \in Threads |-> "none"]

Insert(t, v) ==
  /\ ~Holds(KeyOf[v]) /\ Cardinality(table) < Limit
  /\ table' = table \cup {v}
  /\ Answer(t, "ok")

Conflict(t, v) == Holds(KeyOf[v]) /\ Answer(t, "conflict") /\ UNCHANGED table

Full(t, v) ==
  /\ ~Holds(KeyOf[v]) /\ Cardinality(table) = Limit
  /\ Answer(t, "limit")
  /\ UNCHANGED table

NoMemory(t) == Answer(t, "nomem") /\ UNCHANGED table

Remove(t, v) ==
  /\ v \in table
  /\ table' = table \ {v}
  /\ Answer(t, "ok")

NoKey(t, k) == ~Holds(k) /\ Answer(t, "nokey") /\ UNCHANGED table

\* Removing all that matches is not one step: each value goes by itself.
RemoveNext(v) == v \in table /\ table' = table \ {v} /\ UNCHANGED reply
RemovedAll(t) == Answer(t, "ok") /\ UNCHANGED table

Found(t, k)    == Holds(k)  /\ Answer(t, "found") /\ UNCHANGED table
NotFound(t, k) == ~Holds(k) /\ Answer(t, "null") /\ UNCHANGED table

TNext ==
  \/ \E t \in Threads, v \in Values :
       Insert(t, v) \/ Conflict(t, v) \/ Full(t, v) \/ Remove(t, v)
  \/ \E t \in Threads, k \in Keys : NoKey(t, k) \/ Found(t, k) \/ NotFound(t, k)
  \/ \E t \in Threads : NoMemory(t) \/ RemovedAll(t)
  \/ \E v \in Values : RemoveNext(v)

TSpec == TInit /\ [][TNext]_tvars
=============================================================================
