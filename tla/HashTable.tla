----------------------------- MODULE HashTable -----------------------------
(***************************************************************************)
(* The hash table (libmemory/ey_hash.c) under several threads: lines with  *)
(* a reader-writer lock each, a count and a limit for all lines under a    *)
(* lock of its own, entries from a slab.                                   *)
(*                                                                         *)
(* Between the acquisition of a line and its release nobody else sees the  *)
(* line, so the search of a line is one step with the acquisition; but the *)
(* count is seen by the threads on other lines, and the entries by the     *)
(* slab: those are steps of their own.  A reader that only searches takes  *)
(* and releases the line in one step.  It reads entry->value when it has   *)
(* released the line.                                                      *)
(*                                                                         *)
(* The callers keep their part: the line of a key is a function of the key *)
(* (gen_fn and compare_fn agree), and a value is inserted by one caller at *)
(* a time.  A line is a set of entries: their order matters only when two  *)
(* have the same key.                                                      *)
(***************************************************************************)
EXTENDS Integers, FiniteSets

CONSTANTS
  Values, Keys, KeyOf, Threads,
  Limit,
  Lines,    \* the number of lines; they are numbered from 1
  LineOf,   \* mask & gen_fn
  Entries,  \* addresses of slab items
  Filters   \* compare functions of ey_hash_remove_all: the values they accept

ASSUME HashAssumption ==
  /\ KeyOf \in [Values -> Keys]
  /\ Lines \in Nat \ {0}
  /\ LineOf \in [Keys -> 1..Lines]
  /\ Limit \in Nat \ {0}
  /\ Filters \subseteq SUBSET Values
  /\ "nobody" \notin Threads /\ "none" \notin Entries /\ "none" \notin Values

VARIABLES
  line,     \* the entries linked in every line
  writer,   \* who holds the write lock of a line
  count,    \* tbl->count
  used,     \* the entries the slab has given
  value,    \* entry->value
  pc,
  reg,      \* entry, tmp: the entry a thread works on
  key,      \* the key a thread looks for
  match,    \* ey_hash_remove_all: the values its compare function accepts
  at,       \* and the line it is at; 0 in all other functions
  reply,    \* what the call in progress, or the last one, returns
  lost      \* history: finders whose entry was unlinked after they let go

vars == <<line, writer, count, used, value, pc, reg, key, match, at, reply, lost>>

Init ==
  /\ line = [l \in 1..Lines |-> {}] /\ writer = [l \in 1..Lines |-> "nobody"]
  /\ count = 0 /\ used = {}
  /\ value = [e \in Entries |-> "none"]
  /\ pc = [t \in Threads |-> "idle"]
  /\ reg = [t \in Threads |-> "none"] /\ key \in [Threads -> Keys]
  /\ match = [t \in Threads |-> {}] /\ at = [t \in Threads |-> 0]
  /\ reply = [t \in Threads |-> "none"]
  /\ lost = {}

Goto(t, p)   == pc' = [pc EXCEPT ![t] = p]
Return(t)    == Goto(t, "idle") /\ reg' = [reg EXCEPT ![t] = "none"]
Answer(t, a) == reply' = [reply EXCEPT ![t] = a]

Home(e)    == LineOf[KeyOf[value[e]]]
Open(l)    == writer[l] = "nobody"
Hold(t, l) == writer' = [writer EXCEPT ![l] = t]
Leave(l)   == writer' = [writer EXCEPT ![l] = "nobody"]
Has(e, k)  == value[e] \in Values /\ KeyOf[value[e]] = k
In(l, k)   == {e \in line[l] : Has(e, k)}

\* A caller inserts a value that is in nobody's hands.
InHand == {"lock", "count", "link", "uncount", "unlink", "free"}
Given  == {value[e] : e \in UNION {line[l] : l \in 1..Lines}}
            \cup {value[reg[t]] : t \in {u \in Threads : pc[u] \in InHand}}

-----------------------------------------------------------------------------
(* ey_hash_insert.                                                         *)

InsertEntry(t, v, e) ==
  /\ pc[t] = "idle"
  /\ v \notin Given /\ e \notin used
  /\ used' = used \cup {e}
  /\ value' = [value EXCEPT ![e] = v]
  /\ reg' = [reg EXCEPT ![t] = e]
  /\ Goto(t, "lock")
  /\ UNCHANGED <<line, writer, count, key, match, at, reply, lost>>

InsertNoMemory(t) ==
  /\ pc[t] = "idle"
  /\ Answer(t, "nomem")
  /\ UNCHANGED <<line, writer, count, used, value, pc, reg, key, match, at, lost>>

\* Mutant: the line is searched before it is locked.
InsertSearchUnlocked(t) ==
  /\ pc[t] = "lock"
  /\ In(Home(reg[t]), KeyOf[value[reg[t]]]) = {}
  /\ Goto(t, "count")
  /\ UNCHANGED <<line, writer, count, used, value, reg, key, match, at, reply, lost>>

InsertSearch(t) ==
  LET l == Home(reg[t]) IN
  /\ pc[t] = "lock"
  /\ Open(l)
  /\ In(l, KeyOf[value[reg[t]]]) = {}
  /\ Hold(t, l)
  /\ Goto(t, "count")
  /\ UNCHANGED <<line, count, used, value, reg, key, match, at, reply, lost>>

\* Mutant: the entry is not given back.
InsertConflictLeaks(t) ==
  LET l == Home(reg[t]) IN
  /\ pc[t] = "lock"
  /\ Open(l)
  /\ In(l, KeyOf[value[reg[t]]]) # {}
  /\ Answer(t, "conflict")
  /\ Return(t)
  /\ UNCHANGED <<line, writer, count, used, value, key, match, at, lost>>

InsertConflict(t) ==
  LET l == Home(reg[t]) IN
  /\ pc[t] = "lock"
  /\ Open(l)
  /\ In(l, KeyOf[value[reg[t]]]) # {}
  /\ Answer(t, "conflict")
  /\ Goto(t, "free")
  /\ UNCHANGED <<line, writer, count, used, value, reg, key, match, at, lost>>

BelowLimit == count < Limit

InsertCount(t) ==
  /\ pc[t] = "count"
  /\ BelowLimit
  /\ count' = count + 1
  /\ Answer(t, "ok")
  /\ Goto(t, "link")
  /\ UNCHANGED <<line, writer, used, value, reg, key, match, at, lost>>

InsertLimit(t) ==
  /\ pc[t] = "count"
  /\ ~BelowLimit
  /\ Answer(t, "limit")
  /\ Leave(Home(reg[t]))
  /\ Goto(t, "free")
  /\ UNCHANGED <<line, count, used, value, reg, key, match, at, lost>>

InsertLink(t) ==
  LET l == Home(reg[t]) IN
  /\ pc[t] = "link"
  /\ line' = [line EXCEPT ![l] = @ \cup {reg[t]}]
  /\ Leave(l)
  /\ Return(t)
  /\ UNCHANGED <<count, used, value, key, match, at, reply, lost>>

-----------------------------------------------------------------------------
(* ey_hash_remove and ey_hash_remove_all.                                  *)

RemoveSearch(t, k, e) ==
  LET l == LineOf[k] IN
  /\ pc[t] = "idle"
  /\ Open(l)
  /\ e \in In(l, k)
  /\ Hold(t, l)
  /\ reg' = [reg EXCEPT ![t] = e]
  /\ Goto(t, "uncount")
  /\ UNCHANGED <<line, count, used, value, key, match, at, reply, lost>>

RemoveNoKey(t, k) ==
  LET l == LineOf[k] IN
  /\ pc[t] = "idle"
  /\ Open(l)
  /\ In(l, k) = {}
  /\ Answer(t, "nokey")
  /\ UNCHANGED <<line, writer, count, used, value, pc, reg, key, match, at, lost>>

\* The first line of ey_hash_remove_all, or the next one.
SweepStart(t, M) ==
  /\ pc[t] = "idle"
  /\ match' = [match EXCEPT ![t] = M]
  /\ at' = [at EXCEPT ![t] = 1]
  /\ Goto(t, "wait")
  /\ UNCHANGED <<line, writer, count, used, value, reg, key, reply, lost>>

SweepLock(t) ==
  /\ pc[t] = "wait"
  /\ Open(at[t])
  /\ Hold(t, at[t])
  /\ Goto(t, "sweep")
  /\ UNCHANGED <<line, count, used, value, reg, key, match, at, reply, lost>>

Matching(t) == {e \in line[at[t]] : value[e] \in match[t]}

SweepSearch(t, e) ==
  /\ pc[t] = "sweep"
  /\ e \in Matching(t)
  /\ reg' = [reg EXCEPT ![t] = e]
  /\ Goto(t, "uncount")
  /\ UNCHANGED <<line, writer, count, used, value, key, match, at, reply, lost>>

SweepLine(t) ==
  /\ pc[t] = "sweep"
  /\ Matching(t) = {}
  /\ Leave(at[t])
  /\ IF at[t] < Lines
       THEN /\ at' = [at EXCEPT ![t] = @ + 1]
            /\ Goto(t, "wait")
            /\ UNCHANGED <<match, reply>>
       ELSE /\ at' = [at EXCEPT ![t] = 0]
            /\ match' = [match EXCEPT ![t] = {}]
            /\ Answer(t, "ok")
            /\ Goto(t, "idle")
  /\ UNCHANGED <<line, count, used, value, reg, key, lost>>

Sweeping(t) == at[t] # 0

\* A count of 0 stops the program.
Uncount(t) ==
  /\ pc[t] = "uncount"
  /\ IF count = 0
       THEN Goto(t, "abort") /\ UNCHANGED <<count, reply>>
       ELSE /\ count' = count - 1
            /\ IF Sweeping(t) THEN UNCHANGED reply ELSE Answer(t, "ok")
            /\ Goto(t, "unlink")
  /\ UNCHANGED <<line, writer, used, value, reg, key, match, at, lost>>

Losers(e) == {u \in Threads : pc[u] = "found" /\ reg[u] = e}

Unlink(t) ==
  LET l == Home(reg[t]) IN
  /\ pc[t] = "unlink"
  /\ line' = [line EXCEPT ![l] = @ \ {reg[t]}]
  /\ lost' = lost \cup Losers(reg[t])
  /\ IF Sweeping(t) THEN UNCHANGED writer ELSE Leave(l)
  /\ Goto(t, "free")
  /\ UNCHANGED <<count, used, value, reg, key, match, at, reply>>

\* destroy_fn or the caller gets the value, the slab the entry; a refused
\* insertion ends here, too.  What stands in a free entry is not said.
Free(t) ==
  /\ pc[t] = "free"
  /\ used' = used \ {reg[t]}
  /\ value' = [value EXCEPT ![reg[t]] = "none"]
  /\ Goto(t, IF Sweeping(t) THEN "sweep" ELSE "idle")
  /\ reg' = [reg EXCEPT ![t] = "none"]
  /\ UNCHANGED <<line, writer, count, key, match, at, reply, lost>>

-----------------------------------------------------------------------------
(* ey_hash_find.                                                           *)

\* Mutant: the first entry of the line is taken, compare_fn is not asked.
FindFirst(t, k, e) ==
  LET l == LineOf[k] IN
  /\ pc[t] = "idle"
  /\ Open(l)
  /\ e \in line[l]
  /\ reg' = [reg EXCEPT ![t] = e]
  /\ key' = [key EXCEPT ![t] = k]
  /\ Answer(t, "found")
  /\ Goto(t, "found")
  /\ UNCHANGED <<line, writer, count, used, value, match, at, lost>>

Find(t, k, e) ==
  LET l == LineOf[k] IN
  /\ pc[t] = "idle"
  /\ Open(l)
  /\ e \in In(l, k)
  /\ reg' = [reg EXCEPT ![t] = e]
  /\ key' = [key EXCEPT ![t] = k]
  /\ Answer(t, "found")
  /\ Goto(t, "found")
  /\ UNCHANGED <<line, writer, count, used, value, match, at, lost>>

FindNot(t, k) ==
  LET l == LineOf[k] IN
  /\ pc[t] = "idle"
  /\ Open(l)
  /\ In(l, k) = {}
  /\ Answer(t, "null")
  /\ UNCHANGED <<line, writer, count, used, value, pc, reg, key, match, at, lost>>

\* Reads entry->value, whatever stands there now.
FindReturn(t) ==
  /\ pc[t] = "found"
  /\ Return(t)
  /\ lost' = lost \ {t}
  /\ UNCHANGED <<line, writer, count, used, value, key, match, at, reply>>

Step(t) ==
  \/ \E v \in Values, e \in Entries : InsertEntry(t, v, e)
  \/ InsertNoMemory(t) \/ InsertSearch(t) \/ InsertConflict(t)
  \/ InsertCount(t) \/ InsertLimit(t) \/ InsertLink(t)
  \/ \E k \in Keys : RemoveNoKey(t, k) \/ FindNot(t, k)
  \/ \E k \in Keys, e \in Entries : RemoveSearch(t, k, e) \/ Find(t, k, e)
  \/ \E M \in Filters : SweepStart(t, M)
  \/ SweepLock(t) \/ SweepLine(t)
  \/ \E e \in Entries : SweepSearch(t, e)
  \/ Uncount(t) \/ Unlink(t) \/ Free(t)
  \/ FindReturn(t)

Next == \E t \in Threads : Step(t)
Spec == Init /\ [][Next]_vars

-----------------------------------------------------------------------------
Linked   == UNION {line[l] : l \in 1..Lines}
InHands  == {t \in Threads : pc[t] \in InHand}
Insiders == {t \in Threads : pc[t] \in {"count", "link", "uncount", "unlink"}}

(* Every variable has its type.                                            *)
TypeOK ==
  /\ line \in [1..Lines -> SUBSET Entries]
  /\ writer \in [1..Lines -> Threads \cup {"nobody"}]
  /\ count \in 0..Limit
  /\ used \subseteq Entries
  /\ value \in [Entries -> Values \cup {"none"}]
  /\ pc \in [Threads -> {"idle", "lock", "count", "link", "wait", "sweep", "uncount",
                         "unlink", "free", "found", "abort"}]
  /\ reg \in [Threads -> Entries \cup {"none"}]
  /\ key \in [Threads -> Keys]
  /\ match \in [Threads -> SUBSET Values]
  /\ at \in [Threads -> 0..Lines]
  /\ reply \in [Threads -> {"none", "ok", "conflict", "limit", "nomem", "nokey",
                            "found", "null"}]
  /\ lost \subseteq Threads

(***************************************************************************)
(* Every entry that the slab has given is linked in the line of its key or *)
(* in the hands of one thread, not of two, or of the one that removes it:  *)
(* no entry is lost, none is freed while it can be reached.                *)
(***************************************************************************)
EntriesAccounted ==
  /\ used = Linked \cup {reg[t] : t \in InHands}
  /\ \A e \in used : value[e] \in Values
  /\ \A l \in 1..Lines : \A e \in line[l] : Home(e) = l
  /\ \A t, u \in InHands : t # u => reg[t] # reg[u]
  /\ \A t \in InHands : reg[t] \in Linked <=> pc[t] \in {"uncount", "unlink"}

(***************************************************************************)
(* The value that ey_hash_find returns, read after the line is released,   *)
(* has the key asked for, unless another thread has removed the entry in   *)
(* the meantime.                                                           *)
(***************************************************************************)
FoundUnlessRemoved ==
  \A t \in Threads : pc[t] = "found" /\ t \notin lost =>
    reg[t] \in Linked /\ Has(reg[t], key[t])

(***************************************************************************)
(* The count never is 0 when an entry is removed: the write to address 0   *)
(* in ey_hash_remove is not reached.                                       *)
(***************************************************************************)
NoAbort == \A t \in Threads : pc[t] # "abort"

(***************************************************************************)
(* The table implements module Table: a value is in the table from the     *)
(* moment it is counted (it is linked later) to the moment it is counted   *)
(* out (it is unlinked later).  So no key is stored twice, the limit is    *)
(* kept, and every answer fits the table at one moment of the call.        *)
(***************************************************************************)
Counted ==
  (Linked \ {reg[t] : t \in {u \in Threads : pc[u] = "unlink"}})
    \cup {reg[t] : t \in {u \in Threads : pc[u] = "link"}}
table == {value[e] : e \in Counted}

T == INSTANCE Table
Implements == T!TSpec
=============================================================================
