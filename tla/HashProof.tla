----------------------------- MODULE HashProof -----------------------------
(***************************************************************************)
(* The invariants of module HashTable for any number of threads, lines,    *)
(* values and entries, and that it implements module Table.                *)
(***************************************************************************)
EXTENDS HashTable, FiniteSetTheorems, TLAPS

(* Who works on a line that others must not see has its lock; a thread has *)
(* a place in the table (at) exactly while it removes all that matches.    *)
LocksOf(t) ==
  /\ pc[t] \in {"count", "link"} => at[t] = 0 /\ writer[Home(reg[t])] = t
  /\ pc[t] \in {"uncount", "unlink"} =>
       at[t] \in {0, Home(reg[t])} /\ writer[Home(reg[t])] = t
  /\ pc[t] = "sweep" => at[t] # 0 /\ writer[at[t]] = t
  /\ pc[t] = "free" => at[t] = 0 \/ writer[at[t]] = t
  /\ pc[t] = "wait" => at[t] # 0
  /\ pc[t] \in {"idle", "lock", "found"} => at[t] = 0

Locks == \A t \in Threads : LocksOf(t)

(* No two entries of a line have the same key, and the one that is about   *)
(* to be linked has a key of its own.                                      *)
OneOfAKey ==
  /\ \A l \in 1..Lines : \A e, f \in line[l] :
       KeyOf[value[e]] = KeyOf[value[f]] => e = f
  /\ \A t \in Threads : pc[t] \in {"count", "link"} =>
       In(Home(reg[t]), KeyOf[value[reg[t]]]) = {}

CountIs == IsFiniteSet(table) /\ count = Cardinality(table)

Inv ==
  /\ TypeOK /\ EntriesAccounted /\ Locks /\ OneOfAKey /\ CountIs
  /\ FoundUnlessRemoved /\ NoAbort

-----------------------------------------------------------------------------
\* The initial values have their types.
LEMMA InitType == Init => TypeOK
BY HashAssumption DEF Init, TypeOK

\* What a thread has in its hands is an entry of the table with a value.
LEMMA HandIs ==
  ASSUME TypeOK, EntriesAccounted, NEW t \in Threads, pc[t] \in InHand
  PROVE  /\ reg[t] \in Entries /\ reg[t] \in used
         /\ value[reg[t]] \in Values
         /\ Home(reg[t]) \in 1..Lines
<1>1. reg[t] \in used
  BY DEF EntriesAccounted, InHands
<1>2. value[reg[t]] \in Values
  BY <1>1 DEF EntriesAccounted
<1> QED
  BY <1>1, <1>2, HashAssumption DEF TypeOK, Home

\* A step keeps the types.
LEMMA NextType ==
  ASSUME TypeOK, EntriesAccounted, NEW t \in Threads, Step(t)
  PROVE  TypeOK'
<1> USE HashAssumption DEF TypeOK, Goto, Return, Answer, Hold, Leave, Home, In, Has
<1>1. ASSUME NEW v \in Values, NEW e \in Entries, InsertEntry(t, v, e) PROVE TypeOK'
  BY <1>1 DEF InsertEntry
<1>2. CASE InsertNoMemory(t)
  BY <1>2 DEF InsertNoMemory
<1>3. CASE InsertSearch(t)
  BY <1>3 DEF InsertSearch
<1>4. CASE InsertConflict(t)
  BY <1>4 DEF InsertConflict
<1>5. CASE InsertCount(t)
  <2>1. count' \in 0..Limit
    BY <1>5 DEF InsertCount, BelowLimit
  <2> QED
    BY <1>5, <2>1 DEF InsertCount
<1>6. CASE InsertLimit(t)
  BY <1>6 DEF InsertLimit
<1>7. CASE InsertLink(t)
  <2>1. reg[t] \in Entries /\ Home(reg[t]) \in 1..Lines
    BY <1>7, HandIs DEF InsertLink, InHand
  <2> HIDE DEF Home
  <2> QED
    BY <1>7, <2>1 DEF InsertLink
<1>8. ASSUME NEW k \in Keys, RemoveNoKey(t, k) \/ FindNot(t, k) PROVE TypeOK'
  <2>1. CASE RemoveNoKey(t, k)
    BY <2>1 DEF RemoveNoKey
  <2>2. CASE FindNot(t, k)
    BY <2>2 DEF FindNot
  <2> QED
    BY <1>8, <2>1, <2>2
<1>9. ASSUME NEW k \in Keys, NEW e \in Entries, RemoveSearch(t, k, e) PROVE TypeOK'
  BY <1>9 DEF RemoveSearch
<1>10. ASSUME NEW k \in Keys, NEW e \in Entries, Find(t, k, e) PROVE TypeOK'
  BY <1>10 DEF Find
<1>11. ASSUME NEW M \in Filters, SweepStart(t, M) PROVE TypeOK'
  BY <1>11 DEF SweepStart
<1>12. CASE SweepLock(t)
  BY <1>12 DEF SweepLock
<1>13. CASE SweepLine(t)
  <2>1. writer' \in [1..Lines -> Threads \cup {"nobody"}]
    BY <1>13 DEF SweepLine
  <2>2. at' \in [Threads -> 0..Lines]
    <3>1. at[t] < Lines => at[t] + 1 \in 0..Lines
      OBVIOUS
    <3> QED
      BY <1>13, <3>1 DEF SweepLine
  <2>3. match' \in [Threads -> SUBSET Values]
    BY <1>13, ZenonT(30) DEF SweepLine
  <2>4. /\ pc' = [pc EXCEPT ![t] = "wait"] \/ pc' = [pc EXCEPT ![t] = "idle"]
        /\ reply' = reply \/ reply' = [reply EXCEPT ![t] = "ok"]
        /\ UNCHANGED <<line, count, used, value, reg, key, lost>>
    BY <1>13 DEF SweepLine
  <2> QED
    BY <2>1, <2>2, <2>3, <2>4, ZenonT(30)
<1>14. ASSUME NEW e \in Entries, SweepSearch(t, e) PROVE TypeOK'
  BY <1>14 DEF SweepSearch
<1>15. CASE Uncount(t)
  <2>1. CASE count = 0
    BY <1>15, <2>1, ZenonT(30) DEF Uncount
  <2>2. CASE count # 0
    <3>1. count - 1 \in 0..Limit
      BY <2>2
    <3> QED
      BY <1>15, <2>2, <3>1, ZenonT(30) DEF Uncount
  <2> QED
    BY <2>1, <2>2
<1>16. CASE Unlink(t)
  BY <1>16, ZenonT(30) DEF Unlink, Losers
<1>17. CASE Free(t)
  BY <1>17 DEF Free
<1>18. CASE FindReturn(t)
  BY <1>18 DEF FindReturn
<1> QED
  BY <1>1, <1>2, <1>3, <1>4, <1>5, <1>6, <1>7, <1>8, <1>9, <1>10, <1>11, <1>12,
     <1>13, <1>14, <1>15, <1>16, <1>17, <1>18 DEF Step

-----------------------------------------------------------------------------
(* Where the entries are.                                                  *)

\* Who is linked, and who is after a step.
LEMMA LinkedIs == \A e : e \in Linked <=> \E l \in 1..Lines : e \in line[l]
BY DEF Linked

LEMMA LinkedNext == \A e : e \in Linked' <=> \E l \in 1..Lines : e \in line'[l]
BY DEF Linked

\* EntriesAccounted, element by element.
Accounted ==
  /\ \A e \in used : value[e] \in Values
  /\ \A e : e \in used <=> \/ \E l \in 1..Lines : e \in line[l]
                           \/ \E t \in Threads : pc[t] \in InHand /\ reg[t] = e
  /\ \A l \in 1..Lines : \A e \in line[l] : Home(e) = l
  /\ \A t, u \in Threads : pc[t] \in InHand /\ pc[u] \in InHand /\ t # u => reg[t] # reg[u]
  /\ \A t \in Threads : pc[t] \in {"uncount", "unlink"} =>
       \E l \in 1..Lines : reg[t] \in line[l]
  /\ \A t \in Threads : pc[t] \in InHand \ {"uncount", "unlink"} =>
       \A l \in 1..Lines : reg[t] \notin line[l]

\* The two forms say the same.
LEMMA AccountedIs == Accounted <=> EntriesAccounted
<1> DEFINE R == {reg[t] : t \in InHands}
<1>1. \A t : t \in InHands <=> t \in Threads /\ pc[t] \in InHand
  BY DEF InHands
<1>2. \A e : e \in R <=> \E t \in InHands : reg[t] = e
  OBVIOUS
<1>3. used = Linked \cup R <=> \A e : e \in used <=> e \in Linked \/ e \in R
  OBVIOUS
<1> HIDE DEF R
<1> QED
  BY <1>1, <1>2, <1>3, LinkedIs DEF Accounted, EntriesAccounted, R, InHand

LEMMA AccountedNext == Accounted' <=> EntriesAccounted'
BY AccountedIs, PTL

\* A step that moves no entry and puts none into a hand or out of it.
LEMMA SamePlaces ==
  ASSUME Accounted, UNCHANGED <<line, used, value>>,
         \A u \in Threads :
           /\ pc'[u] \in InHand <=> pc[u] \in InHand
           /\ pc[u] \in InHand => reg'[u] = reg[u]
           /\ pc'[u] \in {"uncount", "unlink"} <=> pc[u] \in {"uncount", "unlink"}
  PROVE  Accounted'
BY DEF Accounted, InHand, Home

\* The lock of a line keeps its entries from being taken by two.
LEMMA NobodyElse ==
  ASSUME Inv, NEW t \in Threads, NEW l \in 1..Lines, NEW e \in line[l],
         Open(l) \/ writer[l] = t
  PROVE  \A u \in Threads : pc[u] \in InHand /\ u # t => reg[u] # e
<1> SUFFICES ASSUME NEW u \in Threads, pc[u] \in InHand, u # t, reg[u] = e
             PROVE  FALSE
  OBVIOUS
<1>1. Accounted
  BY AccountedIs DEF Inv
<1>2. pc[u] \in {"uncount", "unlink"} /\ Home(e) = l
  BY <1>1 DEF Accounted
<1>3. writer[l] = u
  BY <1>2 DEF Inv, Locks, LocksOf
<1> QED
  BY <1>3, HashAssumption DEF Open

\* The entry that is removed is still counted.
LEMMA CountPositive ==
  ASSUME Inv, NEW t \in Threads, pc[t] = "uncount"
  PROVE  count # 0
<1>1. Accounted
  BY AccountedIs DEF Inv
<1>2. reg[t] \in Linked /\ pc[t] \in InHand
  BY <1>1, LinkedIs DEF Accounted, InHand
<1>3. \A u \in Threads : pc[u] = "unlink" => reg[u] # reg[t]
  BY <1>1, <1>2 DEF Accounted, InHand
<1>4. reg[t] \in Counted
  BY <1>2, <1>3 DEF Counted
<1>5. table # {}
  BY <1>4 DEF table
<1> QED
  BY <1>5, FS_EmptySet DEF Inv, CountIs

\* A step that gives thread t entry e, or takes it from t, and leaves the
\* hands of the others as they are.
OthersSame(t) ==
  \A u \in Threads \ {t} : pc'[u] = pc[u] /\ reg'[u] = reg[u]

\* An entry that is linked comes into the hands of the thread that removes it.
LEMMA TakeLinked ==
  ASSUME Accounted, NEW t \in Threads, NEW l \in 1..Lines, NEW e \in line[l],
         pc[t] \notin InHand, pc'[t] = "uncount", reg'[t] = e, OthersSame(t),
         \A u \in Threads : pc[u] \in InHand /\ u # t => reg[u] # e,
         UNCHANGED <<line, used, value>>
  PROVE  Accounted'
<1>1. \A u \in Threads : u # t => pc'[u] = pc[u] /\ reg'[u] = reg[u]
  BY DEF OthersSame
<1>2. e \in used
  BY DEF Accounted
<1>3. \A x : x \in used' <=> \/ \E m \in 1..Lines : x \in line'[m]
                            \/ \E u \in Threads : pc'[u] \in InHand /\ reg'[u] = x
  BY <1>1, <1>2 DEF Accounted, InHand
<1>4. \A m \in 1..Lines : \A x \in line'[m] : Home(x)' = m
  BY DEF Accounted, Home
<1>5. \A u, w \in Threads :
        pc'[u] \in InHand /\ pc'[w] \in InHand /\ u # w => reg'[u] # reg'[w]
  BY <1>1 DEF Accounted, InHand
<1>6. \A u \in Threads : pc'[u] \in {"uncount", "unlink"} =>
        \E m \in 1..Lines : reg'[u] \in line'[m]
  BY <1>1 DEF Accounted
<1>7. \A u \in Threads : pc'[u] \in InHand \ {"uncount", "unlink"} =>
        \A m \in 1..Lines : reg'[u] \notin line'[m]
  BY <1>1 DEF Accounted
<1> QED
  BY <1>3, <1>4, <1>5, <1>6, <1>7 DEF Accounted, InHand

\* A step loses no entry and gives none away twice.
LEMMA NextAccounted ==
  ASSUME Inv, NEW t \in Threads, Step(t)
  PROVE  EntriesAccounted'
<1> SUFFICES Accounted'
  BY AccountedNext
<1> USE DEF Goto, Return, Answer, Hold, Leave
<1>0. Accounted /\ TypeOK /\ Locks /\ EntriesAccounted
  BY AccountedIs DEF Inv
<1>1. ASSUME NEW v \in Values, NEW e \in Entries, InsertEntry(t, v, e) PROVE Accounted'
  <2>1. /\ used' = used \cup {e} /\ e \notin used /\ line' = line
        /\ pc[t] = "idle" /\ pc'[t] = "lock" /\ reg'[t] = e /\ value'[e] = v
        /\ \A x \in used : value'[x] = value[x]
        /\ \A u \in Threads : u # t => pc'[u] = pc[u] /\ reg'[u] = reg[u]
    BY <1>0, <1>1 DEF InsertEntry, TypeOK
  <2>2. /\ \A m \in 1..Lines : line[m] \subseteq used
        /\ \A u \in Threads : pc[u] \in InHand => reg[u] \in used
    BY <1>0 DEF Accounted
  <2>3. \A x : x \in used' <=> \/ \E m \in 1..Lines : x \in line'[m]
                              \/ \E u \in Threads : pc'[u] \in InHand /\ reg'[u] = x
    BY <1>0, <2>1, <2>2 DEF Accounted, InHand
  <2>4. \A x \in used' : value'[x] \in Values
    BY <1>0, <2>1 DEF Accounted
  <2>5. \A m \in 1..Lines : \A x \in line'[m] : Home(x)' = m
    BY <1>0, <2>1, <2>2 DEF Accounted, Home
  <2> QED
    BY <1>0, <2>1, <2>2, <2>3, <2>4, <2>5 DEF Accounted, InHand
<1>2. CASE InsertNoMemory(t)
  BY <1>0, <1>2, SamePlaces DEF InsertNoMemory
<1>3. CASE InsertSearch(t)
  BY <1>0, <1>3, SamePlaces DEF InsertSearch, TypeOK, InHand
<1>4. CASE InsertConflict(t)
  BY <1>0, <1>4, SamePlaces DEF InsertConflict, TypeOK, InHand
<1>5. CASE InsertCount(t)
  BY <1>0, <1>5, SamePlaces DEF InsertCount, TypeOK, InHand
<1>6. CASE InsertLimit(t)
  BY <1>0, <1>6, SamePlaces DEF InsertLimit, TypeOK, InHand
<1>7. CASE InsertLink(t)
  <2> DEFINE l == Home(reg[t])
  <2>1. pc[t] = "link" /\ l \in 1..Lines
    BY <1>0, <1>7, HandIs DEF InsertLink, InHand
  <2> HIDE DEF l
  <2>2. /\ used' = used /\ value' = value /\ pc'[t] = "idle"
        /\ \A m \in 1..Lines : \A x : x \in line'[m] <=> x \in line[m] \/ (m = l /\ x = reg[t])
        /\ \A u \in Threads : u # t => pc'[u] = pc[u] /\ reg'[u] = reg[u]
    BY <1>0, <1>7, <2>1 DEF InsertLink, TypeOK, l
  <2>3. \A x : x \in used' <=> \/ \E m \in 1..Lines : x \in line'[m]
                              \/ \E u \in Threads : pc'[u] \in InHand /\ reg'[u] = x
    BY <1>0, <2>1, <2>2 DEF Accounted, InHand
  <2>4. \A m \in 1..Lines : \A x \in line'[m] : Home(x)' = m
    BY <1>0, <2>1, <2>2 DEF Accounted, Home, l
  <2>5. \A u \in Threads : pc'[u] \in {"uncount", "unlink"} =>
          \E m \in 1..Lines : reg'[u] \in line'[m]
    BY <1>0, <2>1, <2>2 DEF Accounted
  <2>6. \A u \in Threads : pc'[u] \in InHand \ {"uncount", "unlink"} =>
          \A m \in 1..Lines : reg'[u] \notin line'[m]
    BY <1>0, <2>1, <2>2 DEF Accounted, InHand
  <2> QED
    BY <1>0, <2>1, <2>2, <2>3, <2>4, <2>5, <2>6 DEF Accounted, InHand
<1>8. ASSUME NEW k \in Keys, RemoveNoKey(t, k) \/ FindNot(t, k) PROVE Accounted'
  BY <1>0, <1>8, SamePlaces DEF RemoveNoKey, FindNot
<1>9. ASSUME NEW k \in Keys, NEW e \in Entries, RemoveSearch(t, k, e) PROVE Accounted'
  <2>1. LineOf[k] \in 1..Lines /\ e \in line[LineOf[k]]
    BY <1>9, HashAssumption DEF RemoveSearch, In
  <2>2. \A u \in Threads : pc[u] \in InHand /\ u # t => reg[u] # e
    BY <1>9, <2>1, NobodyElse DEF RemoveSearch
  <2>3. /\ pc[t] \notin InHand /\ pc'[t] = "uncount" /\ reg'[t] = e /\ OthersSame(t)
        /\ UNCHANGED <<line, used, value>>
    BY <1>0, <1>9 DEF RemoveSearch, TypeOK, InHand, OthersSame
  <2> QED
    BY <1>0, <2>1, <2>2, <2>3, TakeLinked
<1>10. ASSUME NEW k \in Keys, NEW e \in Entries, Find(t, k, e) PROVE Accounted'
  BY <1>0, <1>10, SamePlaces DEF Find, TypeOK, InHand
<1>11. ASSUME NEW M \in Filters, SweepStart(t, M) PROVE Accounted'
  BY <1>0, <1>11, SamePlaces DEF SweepStart, TypeOK, InHand
<1>12. CASE SweepLock(t)
  BY <1>0, <1>12, SamePlaces DEF SweepLock, TypeOK, InHand
<1>13. CASE SweepLine(t)
  BY <1>0, <1>13, SamePlaces DEF SweepLine, TypeOK, InHand
<1>14. ASSUME NEW e \in Entries, SweepSearch(t, e) PROVE Accounted'
  <2>1. at[t] \in 1..Lines /\ e \in line[at[t]] /\ writer[at[t]] = t
    BY <1>0, <1>14 DEF SweepSearch, Matching, TypeOK, Locks, LocksOf
  <2>2. \A u \in Threads : pc[u] \in InHand /\ u # t => reg[u] # e
    BY <2>1, NobodyElse
  <2>3. /\ pc[t] \notin InHand /\ pc'[t] = "uncount" /\ reg'[t] = e /\ OthersSame(t)
        /\ UNCHANGED <<line, used, value>>
    BY <1>0, <1>14 DEF SweepSearch, TypeOK, InHand, OthersSame
  <2> QED
    BY <1>0, <2>1, <2>2, <2>3, TakeLinked
<1>15. CASE Uncount(t)
  <2>1. count # 0
    BY <1>15, CountPositive DEF Uncount
  <2> QED
    BY <1>0, <1>15, <2>1, SamePlaces DEF Uncount, TypeOK, InHand
<1>16. CASE Unlink(t)
  <2> DEFINE l == Home(reg[t])
  <2>1. pc[t] = "unlink" /\ l \in 1..Lines
    BY <1>0, <1>16, HandIs DEF Unlink, InHand
  <2> HIDE DEF l
  <2>2. /\ used' = used /\ value' = value /\ pc'[t] = "free" /\ reg' = reg
        /\ \A m \in 1..Lines : \A x : x \in line'[m] <=> x \in line[m] /\ (m = l => x # reg[t])
        /\ \A u \in Threads : u # t => pc'[u] = pc[u]
    BY <1>0, <1>16, <2>1 DEF Unlink, TypeOK, l
  <2>3. \A m \in 1..Lines : \A x : x \in line'[m] <=> x \in line[m] /\ x # reg[t]
    <3>1. \A m \in 1..Lines : reg[t] \in line[m] => m = l
      BY <1>0 DEF Accounted, l
    <3> QED
      BY <2>2, <3>1
  <2>4. \A x : x \in used' <=> \/ \E m \in 1..Lines : x \in line'[m]
                              \/ \E u \in Threads : pc'[u] \in InHand /\ reg'[u] = x
    BY <1>0, <2>1, <2>2, <2>3 DEF Accounted, InHand
  <2>5. \A m \in 1..Lines : \A x \in line'[m] : Home(x)' = m
    BY <1>0, <2>2, <2>3 DEF Accounted, Home
  <2>6. \A u \in Threads : pc'[u] \in {"uncount", "unlink"} =>
          \E m \in 1..Lines : reg'[u] \in line'[m]
    BY <1>0, <2>1, <2>2, <2>3 DEF Accounted, InHand
  <2>7. \A u \in Threads : pc'[u] \in InHand \ {"uncount", "unlink"} =>
          \A m \in 1..Lines : reg'[u] \notin line'[m]
    BY <1>0, <2>1, <2>2, <2>3 DEF Accounted, InHand
  <2> QED
    BY <1>0, <2>1, <2>2, <2>4, <2>5, <2>6, <2>7 DEF Accounted, InHand
<1>17. CASE Free(t)
  <2>1. pc[t] = "free" /\ reg[t] \in used /\ \A m \in 1..Lines : reg[t] \notin line[m]
    BY <1>0, <1>17, HandIs DEF Free, InHand, Accounted
  <2>2. /\ line' = line /\ pc'[t] \in {"sweep", "idle"}
        /\ \A x : x \in used' <=> x \in used /\ x # reg[t]
        /\ \A x \in Entries : x # reg[t] => value'[x] = value[x]
        /\ \A u \in Threads : u # t => pc'[u] = pc[u] /\ reg'[u] = reg[u]
    BY <1>0, <1>17 DEF Free, TypeOK
  <2>3. \A x : x \in used' <=> \/ \E m \in 1..Lines : x \in line'[m]
                              \/ \E u \in Threads : pc'[u] \in InHand /\ reg'[u] = x
    BY <1>0, <2>1, <2>2 DEF Accounted, InHand
  <2>4. \A x \in used' : x \in Entries /\ value'[x] \in Values
    BY <1>0, <2>2 DEF Accounted, TypeOK
  <2>5. \A m \in 1..Lines : \A x \in line'[m] : Home(x)' = m
    <3>1. \A m \in 1..Lines : \A x \in line[m] : x \in Entries /\ x # reg[t]
      BY <1>0, <2>1 DEF TypeOK
    <3> QED
      BY <1>0, <2>2, <3>1 DEF Accounted, Home
  <2> QED
    BY <1>0, <2>1, <2>2, <2>3, <2>4, <2>5 DEF Accounted, InHand
<1>18. CASE FindReturn(t)
  BY <1>0, <1>18, SamePlaces DEF FindReturn, TypeOK, InHand
<1> QED
  BY <1>1, <1>2, <1>3, <1>4, <1>5, <1>6, <1>7, <1>8, <1>9, <1>10, <1>11, <1>12,
     <1>13, <1>14, <1>15, <1>16, <1>17, <1>18 DEF Step

-----------------------------------------------------------------------------
(* What a step of one thread leaves to the others.                         *)

\* Of another thread a step changes neither place nor entry.
LEMMA StepOthers ==
  ASSUME TypeOK, NEW t \in Threads, Step(t), NEW u \in Threads, u # t
  PROVE  /\ pc'[u] = pc[u] /\ reg'[u] = reg[u]
         /\ at'[u] = at[u] /\ key'[u] = key[u]
         /\ u \in lost => u \in lost'
<1> DEFINE Same == /\ pc'[u] = pc[u] /\ reg'[u] = reg[u]
                   /\ at'[u] = at[u] /\ key'[u] = key[u]
                   /\ u \in lost => u \in lost'
<1> SUFFICES Same
  OBVIOUS
<1> USE DEF TypeOK, Goto, Return, Answer
<1>1. ASSUME NEW v \in Values, NEW e \in Entries, InsertEntry(t, v, e) PROVE Same
  BY <1>1 DEF InsertEntry
<1>2. CASE InsertNoMemory(t)
  BY <1>2 DEF InsertNoMemory
<1>3. CASE InsertSearch(t)
  BY <1>3 DEF InsertSearch
<1>4. CASE InsertConflict(t)
  BY <1>4 DEF InsertConflict
<1>5. CASE InsertCount(t)
  BY <1>5 DEF InsertCount
<1>6. CASE InsertLimit(t)
  BY <1>6 DEF InsertLimit
<1>7. CASE InsertLink(t)
  BY <1>7 DEF InsertLink
<1>8. ASSUME NEW k \in Keys, RemoveNoKey(t, k) \/ FindNot(t, k) PROVE Same
  BY <1>8 DEF RemoveNoKey, FindNot
<1>9. ASSUME NEW k \in Keys, NEW e \in Entries, RemoveSearch(t, k, e) PROVE Same
  BY <1>9 DEF RemoveSearch
<1>10. ASSUME NEW k \in Keys, NEW e \in Entries, Find(t, k, e) PROVE Same
  BY <1>10 DEF Find
<1>11. ASSUME NEW M \in Filters, SweepStart(t, M) PROVE Same
  BY <1>11 DEF SweepStart
<1>12. CASE SweepLock(t)
  BY <1>12 DEF SweepLock
<1>13. CASE SweepLine(t)
  BY <1>13 DEF SweepLine
<1>14. ASSUME NEW e \in Entries, SweepSearch(t, e) PROVE Same
  BY <1>14 DEF SweepSearch
<1>15. CASE Uncount(t)
  BY <1>15 DEF Uncount
<1>16. CASE Unlink(t)
  BY <1>16 DEF Unlink
<1>17. CASE Free(t)
  BY <1>17 DEF Free
<1>18. CASE FindReturn(t)
  BY <1>18 DEF FindReturn
<1> QED
  BY <1>1, <1>2, <1>3, <1>4, <1>5, <1>6, <1>7, <1>8, <1>9, <1>10, <1>11, <1>12,
     <1>13, <1>14, <1>15, <1>16, <1>17, <1>18 DEF Step

\* Only a free entry changes its value, when it is given or taken back.
LEMMA StepValues ==
  ASSUME Inv, NEW t \in Threads, Step(t), NEW x \in used,
         pc[t] = "free" => x # reg[t]
  PROVE  value'[x] = value[x]
<1> DEFINE Same == value'[x] = value[x]
<1> SUFFICES Same
  OBVIOUS
<1>0. TypeOK
  BY DEF Inv
<1>1. ASSUME NEW v \in Values, NEW e \in Entries, InsertEntry(t, v, e) PROVE Same
  BY <1>0, <1>1 DEF InsertEntry, TypeOK
<1>2. CASE InsertNoMemory(t)
  BY <1>2 DEF InsertNoMemory
<1>3. CASE InsertSearch(t)
  BY <1>3 DEF InsertSearch
<1>4. CASE InsertConflict(t)
  BY <1>4 DEF InsertConflict
<1>5. CASE InsertCount(t)
  BY <1>5 DEF InsertCount
<1>6. CASE InsertLimit(t)
  BY <1>6 DEF InsertLimit
<1>7. CASE InsertLink(t)
  BY <1>7 DEF InsertLink
<1>8. ASSUME NEW k \in Keys, RemoveNoKey(t, k) \/ FindNot(t, k) PROVE Same
  BY <1>8 DEF RemoveNoKey, FindNot
<1>9. ASSUME NEW k \in Keys, NEW e \in Entries, RemoveSearch(t, k, e) PROVE Same
  BY <1>9 DEF RemoveSearch
<1>10. ASSUME NEW k \in Keys, NEW e \in Entries, Find(t, k, e) PROVE Same
  BY <1>10 DEF Find
<1>11. ASSUME NEW M \in Filters, SweepStart(t, M) PROVE Same
  BY <1>11 DEF SweepStart
<1>12. CASE SweepLock(t)
  BY <1>12 DEF SweepLock
<1>13. CASE SweepLine(t)
  BY <1>13 DEF SweepLine
<1>14. ASSUME NEW e \in Entries, SweepSearch(t, e) PROVE Same
  BY <1>14 DEF SweepSearch
<1>15. CASE Uncount(t)
  BY <1>15 DEF Uncount
<1>16. CASE Unlink(t)
  BY <1>16 DEF Unlink
<1>17. CASE Free(t)
  BY <1>0, <1>17 DEF Free, TypeOK
<1>18. CASE FindReturn(t)
  BY <1>18 DEF FindReturn
<1> QED
  BY <1>1, <1>2, <1>3, <1>4, <1>5, <1>6, <1>7, <1>8, <1>9, <1>10, <1>11, <1>12,
     <1>13, <1>14, <1>15, <1>16, <1>17, <1>18 DEF Step

\* So a linked entry keeps its value.
LEMMA LinkedValues ==
  ASSUME Inv, NEW t \in Threads, Step(t), NEW l \in 1..Lines, NEW x \in line[l]
  PROVE  value'[x] = value[x]
<1>1. Accounted
  BY AccountedIs DEF Inv
<1>2. x \in used /\ (pc[t] = "free" => x # reg[t])
  BY <1>1 DEF Accounted, InHand
<1> QED
  BY <1>2, StepValues

\* Only its own lock does a thread give back, only an open one does it take.
LEMMA StepWriters ==
  ASSUME Inv, NEW t \in Threads, Step(t), NEW l \in 1..Lines
  PROVE  writer'[l] = writer[l] \/ Open(l) \/ writer[l] = t
<1> DEFINE Fair == writer'[l] = writer[l] \/ Open(l) \/ writer[l] = t
<1> SUFFICES Fair
  OBVIOUS
<1>0. TypeOK /\ LocksOf(t)
  BY DEF Inv, Locks
<1> USE <1>0 DEF TypeOK, Hold, Leave, LocksOf
<1>1. ASSUME NEW v \in Values, NEW e \in Entries, InsertEntry(t, v, e) PROVE Fair
  BY <1>1 DEF InsertEntry
<1>2. CASE InsertNoMemory(t)
  BY <1>2 DEF InsertNoMemory
<1>3. CASE InsertSearch(t)
  BY <1>3 DEF InsertSearch
<1>4. CASE InsertConflict(t)
  BY <1>4 DEF InsertConflict
<1>5. CASE InsertCount(t)
  BY <1>5 DEF InsertCount
<1>6. CASE InsertLimit(t)
  BY <1>6 DEF InsertLimit
<1>7. CASE InsertLink(t)
  BY <1>7 DEF InsertLink
<1>8. ASSUME NEW k \in Keys, RemoveNoKey(t, k) \/ FindNot(t, k) PROVE Fair
  BY <1>8 DEF RemoveNoKey, FindNot
<1>9. ASSUME NEW k \in Keys, NEW e \in Entries, RemoveSearch(t, k, e) PROVE Fair
  BY <1>9 DEF RemoveSearch
<1>10. ASSUME NEW k \in Keys, NEW e \in Entries, Find(t, k, e) PROVE Fair
  BY <1>10 DEF Find
<1>11. ASSUME NEW M \in Filters, SweepStart(t, M) PROVE Fair
  BY <1>11 DEF SweepStart
<1>12. CASE SweepLock(t)
  BY <1>12 DEF SweepLock
<1>13. CASE SweepLine(t)
  BY <1>13 DEF SweepLine
<1>14. ASSUME NEW e \in Entries, SweepSearch(t, e) PROVE Fair
  BY <1>14 DEF SweepSearch
<1>15. CASE Uncount(t)
  BY <1>15 DEF Uncount
<1>16. CASE Unlink(t)
  BY <1>16 DEF Unlink
<1>17. CASE Free(t)
  BY <1>17 DEF Free
<1>18. CASE FindReturn(t)
  BY <1>18 DEF FindReturn
<1> QED
  BY <1>1, <1>2, <1>3, <1>4, <1>5, <1>6, <1>7, <1>8, <1>9, <1>10, <1>11, <1>12,
     <1>13, <1>14, <1>15, <1>16, <1>17, <1>18 DEF Step

\* Only the last step of an insertion links an entry.
LEMMA StepLines ==
  ASSUME Inv, NEW t \in Threads, Step(t), NEW l \in 1..Lines, NEW x \in line'[l]
  PROVE  x \in line[l] \/ (pc[t] = "link" /\ x = reg[t] /\ l = Home(x))
<1> DEFINE Old == x \in line[l] \/ (pc[t] = "link" /\ x = reg[t] /\ l = Home(x))
<1> SUFFICES Old
  OBVIOUS
<1>0. TypeOK
  BY DEF Inv
<1> USE <1>0 DEF TypeOK
<1>1. ASSUME NEW v \in Values, NEW e \in Entries, InsertEntry(t, v, e) PROVE Old
  BY <1>1 DEF InsertEntry
<1>2. CASE InsertNoMemory(t)
  BY <1>2 DEF InsertNoMemory
<1>3. CASE InsertSearch(t)
  BY <1>3 DEF InsertSearch
<1>4. CASE InsertConflict(t)
  BY <1>4 DEF InsertConflict
<1>5. CASE InsertCount(t)
  BY <1>5 DEF InsertCount
<1>6. CASE InsertLimit(t)
  BY <1>6 DEF InsertLimit
<1>7. CASE InsertLink(t)
  BY <1>7 DEF InsertLink
<1>8. ASSUME NEW k \in Keys, RemoveNoKey(t, k) \/ FindNot(t, k) PROVE Old
  BY <1>8 DEF RemoveNoKey, FindNot
<1>9. ASSUME NEW k \in Keys, NEW e \in Entries, RemoveSearch(t, k, e) PROVE Old
  BY <1>9 DEF RemoveSearch
<1>10. ASSUME NEW k \in Keys, NEW e \in Entries, Find(t, k, e) PROVE Old
  BY <1>10 DEF Find
<1>11. ASSUME NEW M \in Filters, SweepStart(t, M) PROVE Old
  BY <1>11 DEF SweepStart
<1>12. CASE SweepLock(t)
  BY <1>12 DEF SweepLock
<1>13. CASE SweepLine(t)
  BY <1>13 DEF SweepLine
<1>14. ASSUME NEW e \in Entries, SweepSearch(t, e) PROVE Old
  BY <1>14 DEF SweepSearch
<1>15. CASE Uncount(t)
  BY <1>15 DEF Uncount
<1>16. CASE Unlink(t)
  BY <1>16 DEF Unlink
<1>17. CASE Free(t)
  BY <1>17 DEF Free
<1>18. CASE FindReturn(t)
  BY <1>18 DEF FindReturn
<1> QED
  BY <1>1, <1>2, <1>3, <1>4, <1>5, <1>6, <1>7, <1>8, <1>9, <1>10, <1>11, <1>12,
     <1>13, <1>14, <1>15, <1>16, <1>17, <1>18 DEF Step

-----------------------------------------------------------------------------
(* The locks.                                                              *)

\* A step leaves the others their locks.
LEMMA OthersLocks ==
  ASSUME Inv, NEW t \in Threads, Step(t), NEW u \in Threads, u # t
  PROVE  LocksOf(u)'
<1>0. LocksOf(u) /\ Accounted /\ TypeOK
  BY AccountedIs DEF Inv, Locks
<1>1. pc'[u] = pc[u] /\ reg'[u] = reg[u] /\ at'[u] = at[u]
  BY <1>0, StepOthers
<1>2. ASSUME pc[u] \in InHand
      PROVE  Home(reg[u])' = Home(reg[u]) /\ Home(reg[u]) \in 1..Lines
  <2>1. reg[u] \in used /\ (pc[t] = "free" => reg[u] # reg[t])
    BY <1>0, <1>2 DEF Accounted, InHand
  <2>2. value'[reg[u]] = value[reg[u]]
    BY <2>1, StepValues
  <2> QED
    BY <1>1, <1>2, <2>2, HandIs DEF Inv, Home
<1>3. \A l \in 1..Lines : writer[l] = u => writer'[l] = u
  BY StepWriters, HashAssumption DEF Open
<1>4. at[u] # 0 => at[u] \in 1..Lines
  BY <1>0 DEF TypeOK
<1> QED
  BY <1>0, <1>1, <1>2, <1>3, <1>4 DEF LocksOf, InHand

\* A thread takes the lock before it needs it and gives it back after.
LEMMA OwnLocks ==
  ASSUME Inv, NEW t \in Threads, Step(t)
  PROVE  LocksOf(t)'
<1>0. LocksOf(t) /\ TypeOK /\ EntriesAccounted /\ Accounted
  BY AccountedIs DEF Inv, Locks
<1> DEFINE Mine == LocksOf(t)'
<1> SUFFICES Mine
  OBVIOUS
<1> USE <1>0 DEF TypeOK, Goto, Return, Answer, Hold, Leave, LocksOf, Home, Sweeping
<1>1. ASSUME NEW v \in Values, NEW e \in Entries, InsertEntry(t, v, e) PROVE Mine
  BY <1>1 DEF InsertEntry
<1>2. CASE InsertNoMemory(t)
  BY <1>2 DEF InsertNoMemory
<1>3. CASE InsertSearch(t)
  <2>1. Home(reg[t]) \in 1..Lines
    BY <1>3, HandIs DEF InsertSearch, InHand
  <2> QED
    BY <1>3, <2>1 DEF InsertSearch
<1>4. CASE InsertConflict(t)
  BY <1>4 DEF InsertConflict
<1>5. CASE InsertCount(t)
  BY <1>5 DEF InsertCount
<1>6. CASE InsertLimit(t)
  BY <1>6 DEF InsertLimit
<1>7. CASE InsertLink(t)
  BY <1>7 DEF InsertLink
<1>8. ASSUME NEW k \in Keys, RemoveNoKey(t, k) \/ FindNot(t, k) PROVE Mine
  BY <1>8 DEF RemoveNoKey, FindNot
<1>9. ASSUME NEW k \in Keys, NEW e \in Entries, RemoveSearch(t, k, e) PROVE Mine
  <2>1. Home(e) = LineOf[k] /\ LineOf[k] \in 1..Lines
    BY <1>9, HashAssumption DEF RemoveSearch, In, Has
  <2> QED
    BY <1>9, <2>1 DEF RemoveSearch
<1>10. ASSUME NEW k \in Keys, NEW e \in Entries, Find(t, k, e) PROVE Mine
  BY <1>10 DEF Find
<1>11. ASSUME NEW M \in Filters, SweepStart(t, M) PROVE Mine
  BY <1>11 DEF SweepStart
<1>12. CASE SweepLock(t)
  BY <1>12 DEF SweepLock
<1>13. CASE SweepLine(t)
  BY <1>13 DEF SweepLine
<1>14. ASSUME NEW e \in Entries, SweepSearch(t, e) PROVE Mine
  <2>1. Home(e) = at[t]
    BY <1>14 DEF SweepSearch, Matching, Accounted
  <2> QED
    BY <1>14, <2>1 DEF SweepSearch
<1>15. CASE Uncount(t)
  BY <1>15 DEF Uncount
<1>16. CASE Unlink(t)
  BY <1>16 DEF Unlink
<1>17. CASE Free(t)
  BY <1>17 DEF Free
<1>18. CASE FindReturn(t)
  BY <1>18 DEF FindReturn
<1> QED
  BY <1>1, <1>2, <1>3, <1>4, <1>5, <1>6, <1>7, <1>8, <1>9, <1>10, <1>11, <1>12,
     <1>13, <1>14, <1>15, <1>16, <1>17, <1>18 DEF Step

\* A step keeps the locks as they must be.
LEMMA NextLocks ==
  ASSUME Inv, NEW t \in Threads, Step(t)
  PROVE  Locks'
BY OthersLocks, OwnLocks DEF Locks

-----------------------------------------------------------------------------
(* The keys, and the entries found.                                        *)

\* How a thread comes to stand between the search of a line and the link, to
\* hold an entry that it has found, or to stop the program.
LEMMA ComesTo ==
  ASSUME Inv, NEW t \in Threads, Step(t)
  PROVE  /\ pc'[t] \in {"count", "link"} => InsertSearch(t) \/ InsertCount(t)
         /\ pc'[t] = "found" => \E k \in Keys, e \in Entries : Find(t, k, e)
         /\ pc'[t] = "abort" => Uncount(t) /\ count = 0
<1> DEFINE Goal ==
      /\ pc'[t] \in {"count", "link"} => InsertSearch(t) \/ InsertCount(t)
      /\ pc'[t] = "found" => \E k \in Keys, e \in Entries : Find(t, k, e)
      /\ pc'[t] = "abort" => Uncount(t) /\ count = 0
<1> SUFFICES Goal
  OBVIOUS
<1>0. TypeOK
  BY DEF Inv
<1> USE <1>0 DEF TypeOK, Goto, Return
<1>1. ASSUME NEW v \in Values, NEW e \in Entries, InsertEntry(t, v, e) PROVE Goal
  BY <1>1 DEF InsertEntry
<1>2. CASE InsertNoMemory(t)
  BY <1>2 DEF InsertNoMemory
<1>3. CASE InsertSearch(t)
  BY <1>3 DEF InsertSearch
<1>4. CASE InsertConflict(t)
  BY <1>4 DEF InsertConflict
<1>5. CASE InsertCount(t)
  BY <1>5 DEF InsertCount
<1>6. CASE InsertLimit(t)
  BY <1>6 DEF InsertLimit
<1>7. CASE InsertLink(t)
  BY <1>7 DEF InsertLink
<1>8. ASSUME NEW k \in Keys, RemoveNoKey(t, k) \/ FindNot(t, k) PROVE Goal
  BY <1>8 DEF RemoveNoKey, FindNot
<1>9. ASSUME NEW k \in Keys, NEW e \in Entries, RemoveSearch(t, k, e) PROVE Goal
  BY <1>9 DEF RemoveSearch
<1>10. ASSUME NEW k \in Keys, NEW e \in Entries, Find(t, k, e) PROVE Goal
  BY <1>10 DEF Find
<1>11. ASSUME NEW M \in Filters, SweepStart(t, M) PROVE Goal
  BY <1>11 DEF SweepStart
<1>12. CASE SweepLock(t)
  BY <1>12 DEF SweepLock
<1>13. CASE SweepLine(t)
  BY <1>13 DEF SweepLine
<1>14. ASSUME NEW e \in Entries, SweepSearch(t, e) PROVE Goal
  BY <1>14 DEF SweepSearch
<1>15. CASE Uncount(t)
  BY <1>15 DEF Uncount
<1>16. CASE Unlink(t)
  BY <1>16 DEF Unlink
<1>17. CASE Free(t)
  BY <1>17 DEF Free
<1>18. CASE FindReturn(t)
  BY <1>18 DEF FindReturn
<1> QED
  BY <1>1, <1>2, <1>3, <1>4, <1>5, <1>6, <1>7, <1>8, <1>9, <1>10, <1>11, <1>12,
     <1>13, <1>14, <1>15, <1>16, <1>17, <1>18 DEF Step

\* A step puts no key twice into a line.
LEMMA NextKeys ==
  ASSUME Inv, NEW t \in Threads, Step(t)
  PROVE  OneOfAKey'
<1>0. Accounted /\ TypeOK /\ Locks /\ OneOfAKey
  BY AccountedIs DEF Inv
<1>1. \A l \in 1..Lines : \A x \in line[l] : value'[x] = value[x]
  BY LinkedValues
<1>2. ASSUME NEW u \in Threads, pc[u] \in {"count", "link"}
      PROVE  /\ value'[reg[u]] = value[reg[u]]
             /\ Home(reg[u]) \in 1..Lines /\ writer[Home(reg[u])] = u
             /\ \A x \in line[Home(reg[u])] : ~Has(x, KeyOf[value[reg[u]]])
  <2>1. reg[u] \in used /\ (pc[t] = "free" => reg[u] # reg[t])
    BY <1>0, <1>2 DEF Accounted, InHand
  <2>2. value'[reg[u]] = value[reg[u]]
    BY <2>1, StepValues
  <2> QED
    BY <1>0, <1>2, <2>2, HandIs DEF Inv, InHand, Locks, LocksOf, OneOfAKey, In
<1>3. ASSUME NEW l \in 1..Lines, NEW e \in line'[l], NEW f \in line'[l],
             KeyOf[value'[e]] = KeyOf[value'[f]]
      PROVE  e = f
  <2>1. CASE e \in line[l] /\ f \in line[l]
    BY <1>0, <1>1, <1>3, <2>1 DEF OneOfAKey
  <2>2. CASE ~(e \in line[l] /\ f \in line[l])
    <3>1. pc[t] = "link" /\ l = Home(reg[t])
      BY <1>3, <2>2, StepLines
    <3>2. \A x \in line[l] : KeyOf[value[x]] # KeyOf[value[reg[t]]]
      BY <1>0, <1>2, <3>1 DEF Has, Accounted
    <3>3. value'[reg[t]] = value[reg[t]]
      BY <1>2, <3>1
    <3>4. /\ e \in line[l] \/ e = reg[t]
          /\ f \in line[l] \/ f = reg[t]
      BY <1>3, StepLines
    <3>5. \A x \in line[l] : KeyOf[value'[x]] # KeyOf[value'[reg[t]]]
      BY <1>1, <3>2, <3>3
    <3> QED
      BY <1>3, <2>2, <3>4, <3>5
  <2> QED
    BY <2>1, <2>2
<1>4. ASSUME NEW u \in Threads, pc'[u] \in {"count", "link"}
      PROVE  \A x \in line'[Home(reg[u])'] : ~Has(x, KeyOf[value[reg[u]]])'
  <2>1. CASE u = t /\ pc[t] \notin {"count", "link"}
    <3>1. InsertSearch(t)
      BY <1>0, <1>4, <2>1, ComesTo DEF InsertCount
    <3> QED
      BY <1>0, <2>1, <3>1 DEF InsertSearch, In, Has, Home, TypeOK
  <2>2. CASE pc[u] \in {"count", "link"}
    <3>1. reg'[u] = reg[u]
      BY <1>0, <1>4, StepOthers, ComesTo DEF InsertSearch, InsertCount
    <3>2. ~(u = t /\ pc[t] = "link")
      BY <1>0, <1>4, ComesTo DEF InsertSearch, InsertCount
    <3>3. pc[t] = "link" => writer[Home(reg[t])] = t
      BY <1>2
    <3>4. line'[Home(reg[u])] \subseteq line[Home(reg[u])]
      BY <1>2, <2>2, <3>2, <3>3, StepLines
    <3> QED
      BY <1>1, <1>2, <2>2, <3>1, <3>4 DEF Has, Home
  <2> QED
    BY <1>0, <1>4, <2>1, <2>2, StepOthers
<1> QED
  BY <1>3, <1>4 DEF OneOfAKey, In

\* Only ey_hash_remove and ey_hash_remove_all unlink.
LEMMA UnlinkedBy ==
  ASSUME TypeOK, NEW t \in Threads, Step(t),
         NEW l \in 1..Lines, NEW x \in line[l], x \notin line'[l]
  PROVE  Unlink(t) /\ x = reg[t]
<1> DEFINE Goal == Unlink(t) /\ x = reg[t]
<1> SUFFICES Goal
  OBVIOUS
<1> USE DEF TypeOK
<1>1. ASSUME NEW v \in Values, NEW e \in Entries, InsertEntry(t, v, e) PROVE Goal
  BY <1>1 DEF InsertEntry
<1>2. CASE InsertNoMemory(t)
  BY <1>2 DEF InsertNoMemory
<1>3. CASE InsertSearch(t)
  BY <1>3 DEF InsertSearch
<1>4. CASE InsertConflict(t)
  BY <1>4 DEF InsertConflict
<1>5. CASE InsertCount(t)
  BY <1>5 DEF InsertCount
<1>6. CASE InsertLimit(t)
  BY <1>6 DEF InsertLimit
<1>7. CASE InsertLink(t)
  BY <1>7 DEF InsertLink
<1>8. ASSUME NEW k \in Keys, RemoveNoKey(t, k) \/ FindNot(t, k) PROVE Goal
  BY <1>8 DEF RemoveNoKey, FindNot
<1>9. ASSUME NEW k \in Keys, NEW e \in Entries, RemoveSearch(t, k, e) PROVE Goal
  BY <1>9 DEF RemoveSearch
<1>10. ASSUME NEW k \in Keys, NEW e \in Entries, Find(t, k, e) PROVE Goal
  BY <1>10 DEF Find
<1>11. ASSUME NEW M \in Filters, SweepStart(t, M) PROVE Goal
  BY <1>11 DEF SweepStart
<1>12. CASE SweepLock(t)
  BY <1>12 DEF SweepLock
<1>13. CASE SweepLine(t)
  BY <1>13 DEF SweepLine
<1>14. ASSUME NEW e \in Entries, SweepSearch(t, e) PROVE Goal
  BY <1>14 DEF SweepSearch
<1>15. CASE Uncount(t)
  BY <1>15 DEF Uncount
<1>16. CASE Unlink(t)
  BY <1>16 DEF Unlink
<1>17. CASE Free(t)
  BY <1>17 DEF Free
<1>18. CASE FindReturn(t)
  BY <1>18 DEF FindReturn
<1> QED
  BY <1>1, <1>2, <1>3, <1>4, <1>5, <1>6, <1>7, <1>8, <1>9, <1>10, <1>11, <1>12,
     <1>13, <1>14, <1>15, <1>16, <1>17, <1>18 DEF Step

\* The entry found stays linked, and what it was, until it is removed.
LEMMA NextFound ==
  ASSUME Inv, NEW t \in Threads, Step(t)
  PROVE  FoundUnlessRemoved'
<1>0. Accounted /\ TypeOK /\ FoundUnlessRemoved
  BY AccountedIs DEF Inv
<1>1. \A l \in 1..Lines : \A x \in line[l] : value'[x] = value[x]
  BY LinkedValues
<1> SUFFICES ASSUME NEW u \in Threads, pc'[u] = "found", u \notin lost'
             PROVE  reg'[u] \in Linked' /\ Has(reg[u], key[u])'
  BY DEF FoundUnlessRemoved
<1>2. CASE pc[u] = "found" /\ reg'[u] = reg[u] /\ key'[u] = key[u] /\ u \notin lost
  <2>1. PICK l \in 1..Lines : reg[u] \in line[l]
    BY <1>0, <1>2, LinkedIs DEF FoundUnlessRemoved
  <2>2. reg[u] \in line'[l]
    <3> SUFFICES ASSUME reg[u] \notin line'[l] PROVE FALSE
      OBVIOUS
    <3>1. Unlink(t) /\ reg[u] = reg[t]
      BY <1>0, <2>1, UnlinkedBy
    <3> QED
      BY <1>2, <3>1 DEF Unlink, Losers
  <2>3. Has(reg[u], key[u])'
    BY <1>0, <1>1, <1>2, <2>1 DEF FoundUnlessRemoved, Has
  <2> QED
    BY <1>2, <2>2, <2>3, LinkedNext
<1>3. CASE ~(pc[u] = "found" /\ reg'[u] = reg[u] /\ key'[u] = key[u] /\ u \notin lost)
  <2>1. u = t
    BY <1>0, <1>3, StepOthers
  <2>2. PICK k \in Keys, e \in Entries : Find(t, k, e)
    BY <1>0, <2>1, ComesTo
  <2>3. /\ reg'[u] = e /\ key'[u] = k /\ line' = line /\ value' = value
        /\ e \in line[LineOf[k]] /\ Has(e, k) /\ LineOf[k] \in 1..Lines
    BY <1>0, <2>1, <2>2, HashAssumption DEF Find, In, TypeOK
  <2> QED
    BY <2>3, LinkedNext DEF Has
<1> QED
  BY <1>2, <1>3

\* No step meets a count of 0.
LEMMA NextNoAbort ==
  ASSUME Inv, NEW t \in Threads, Step(t)
  PROVE  NoAbort'
<1>1. pc'[t] # "abort"
  <2>1. Uncount(t) => count # 0
    BY CountPositive DEF Uncount
  <2> QED
    BY <2>1, ComesTo
<1>2. \A u \in Threads : u # t => pc'[u] # "abort"
  BY StepOthers DEF Inv, NoAbort
<1> QED
  BY <1>1, <1>2 DEF NoAbort

-----------------------------------------------------------------------------
(* The count, and the table that the others see.                           *)

Pending(p, e) == \E u \in Threads : pc[u] = p /\ reg[u] = e

\* Who is counted, and who is after a step.
LEMMA InCounted ==
  \A e : e \in Counted <=> (e \in Linked /\ ~Pending("unlink", e)) \/ Pending("link", e)
BY DEF Counted, Pending

LEMMA InCountedNext ==
  \A e : e \in Counted' <=>
    (e \in Linked' /\ ~Pending("unlink", e)') \/ Pending("link", e)'
BY DEF Counted, Pending

\* A counted entry is a given one with a value.
LEMMA CountedUsed ==
  ASSUME Accounted, NEW e \in Counted
  PROVE  e \in used /\ value[e] \in Values
<1>1. e \in used
  BY InCounted, LinkedIs DEF Accounted, InHand, Pending
<1> QED
  BY <1>1 DEF Accounted

\* No two counted entries have the same key: two that are linked because their
\* line has one of a kind, one that is about to be linked because it was
\* searched for, two that are because their line has one lock.
LEMMA CountedApart ==
  ASSUME Inv, NEW e \in Counted, NEW f \in Counted, KeyOf[value[e]] = KeyOf[value[f]]
  PROVE  e = f
<1>0. Accounted /\ OneOfAKey /\ Locks /\ TypeOK
  BY AccountedIs DEF Inv
<1>1. Home(e) = Home(f) /\ Home(e) \in 1..Lines
  BY <1>0, CountedUsed, HashAssumption DEF Home
<1>2. CASE e \in Linked /\ f \in Linked
  BY <1>0, <1>1, <1>2, LinkedIs DEF OneOfAKey, Accounted
<1>3. ASSUME NEW u \in Threads, pc[u] = "link", NEW x \in Linked, x \in Counted,
             KeyOf[value[x]] = KeyOf[value[reg[u]]]
      PROVE  FALSE
  <2>1. x \in line[Home(reg[u])]
    BY <1>0, <1>3, LinkedIs DEF Accounted, Home
  <2> QED
    BY <1>0, <1>3, <2>1, CountedUsed DEF OneOfAKey, In, Has
<1>4. ASSUME NEW u \in Threads, pc[u] = "link", reg[u] = e,
             NEW w \in Threads, pc[w] = "link", reg[w] = f
      PROVE  e = f
  BY <1>0, <1>1, <1>4 DEF Locks, LocksOf
<1> QED
  BY <1>2, <1>3, <1>4, InCounted DEF Pending

\* A step counts an entry in, counts one out, or leaves the counted ones alone.
LEMMA SameCounted ==
  ASSUME Inv, NEW t \in Threads, Step(t), line' = line,
         pc[t] \notin {"link", "unlink"}, pc'[t] \notin {"link", "unlink"}
  PROVE  Counted' = Counted
<1>1. \A u \in Threads : u # t => pc'[u] = pc[u] /\ reg'[u] = reg[u]
  BY StepOthers DEF Inv
<1>2. \A e : e \in Linked' <=> e \in Linked
  BY LinkedIs, LinkedNext
<1>3. \A e : e \in Counted' <=> e \in Counted
  BY <1>1, <1>2, InCounted, InCountedNext DEF Pending
<1> QED
  BY <1>3

LEMMA NextCounted ==
  ASSUME Inv, NEW t \in Threads, Step(t)
  PROVE  \/ Counted' = Counted /\ ~InsertCount(t) /\ ~Uncount(t)
         \/ InsertCount(t) /\ Counted' = Counted \cup {reg[t]} /\ reg[t] \notin Counted
         \/ Uncount(t) /\ Counted' = Counted \ {reg[t]} /\ reg[t] \in Counted
<1> DEFINE Goal ==
  \/ Counted' = Counted /\ ~InsertCount(t) /\ ~Uncount(t)
  \/ InsertCount(t) /\ Counted' = Counted \cup {reg[t]} /\ reg[t] \notin Counted
  \/ Uncount(t) /\ Counted' = Counted \ {reg[t]} /\ reg[t] \in Counted
<1> SUFFICES Goal
  OBVIOUS
<1>0. Accounted /\ TypeOK
  BY AccountedIs DEF Inv
<1>01. \A u \in Threads : u # t => pc'[u] = pc[u] /\ reg'[u] = reg[u]
  BY <1>0, StepOthers
<1>1. ASSUME NEW v \in Values, NEW e \in Entries, InsertEntry(t, v, e) PROVE Goal
  BY <1>0, <1>1, SameCounted
     DEF TypeOK, Goto, Return, InsertCount, Uncount, InsertEntry
<1>2. CASE InsertNoMemory(t)
  BY <1>0, <1>2, SameCounted
     DEF TypeOK, Goto, Return, InsertCount, Uncount, InsertNoMemory
<1>3. CASE InsertSearch(t)
  BY <1>0, <1>3, SameCounted
     DEF TypeOK, Goto, Return, InsertCount, Uncount, InsertSearch
<1>4. CASE InsertConflict(t)
  BY <1>0, <1>4, SameCounted
     DEF TypeOK, Goto, Return, InsertCount, Uncount, InsertConflict
<1>5. CASE InsertCount(t)
  <2>1. /\ pc[t] = "count" /\ pc'[t] = "link" /\ reg' = reg
        /\ \A e : e \in Linked' <=> e \in Linked
    BY <1>0, <1>5, LinkedIs, LinkedNext DEF InsertCount, Goto, TypeOK
  <2>2. /\ reg[t] \notin Linked
        /\ \A u \in Threads : pc[u] = "link" => reg[u] # reg[t]
    BY <1>0, <2>1, LinkedIs DEF Accounted, InHand
  <2>3. \A e : /\ Pending("link", e)' <=> Pending("link", e) \/ e = reg[t]
               /\ Pending("unlink", e)' <=> Pending("unlink", e)
    BY <1>01, <2>1 DEF Pending
  <2>4. \A e : e \in Counted' <=> e \in Counted \/ e = reg[t]
    BY <2>1, <2>2, <2>3, InCounted, InCountedNext
  <2>5. reg[t] \notin Counted
    BY <2>2, InCounted DEF Pending
  <2>6. Counted' = Counted \cup {reg[t]}
    BY <2>4
  <2> QED
    BY <1>5, <2>5, <2>6
<1>6. CASE InsertLimit(t)
  BY <1>0, <1>6, SameCounted
     DEF TypeOK, Goto, Return, InsertCount, Uncount, InsertLimit
<1>7. CASE InsertLink(t)
  <2>1. /\ pc[t] = "link" /\ pc'[t] = "idle" /\ Home(reg[t]) \in 1..Lines
        /\ \A e : e \in Linked' <=> e \in Linked \/ e = reg[t]
    <3>1. pc[t] = "link" /\ pc'[t] = "idle" /\ Home(reg[t]) \in 1..Lines
      BY <1>0, <1>7, HandIs DEF InsertLink, Inv, InHand, TypeOK, Return, Goto
    <3>2. \A m \in 1..Lines : \A e :
            e \in line'[m] <=> e \in line[m] \/ (m = Home(reg[t]) /\ e = reg[t])
      BY <1>0, <1>7, <3>1 DEF InsertLink, TypeOK
    <3> QED
      BY <3>1, <3>2, LinkedIs, LinkedNext
  <2>2. \A u \in Threads : pc[u] = "unlink" => reg[u] # reg[t]
    BY <1>0, <2>1 DEF Accounted, InHand
  <2>3. \A e : /\ Pending("link", e) <=> Pending("link", e)' \/ e = reg[t]
               /\ Pending("unlink", e)' <=> Pending("unlink", e)
               /\ Pending("unlink", e) => e # reg[t]
    BY <1>01, <2>1, <2>2 DEF Pending
  <2>4. \A e : e \in Counted' <=> e \in Counted
    BY <2>1, <2>2, <2>3, InCounted, InCountedNext
  <2> QED
    BY <2>1, <2>4 DEF InsertCount, Uncount
<1>8. ASSUME NEW k \in Keys, RemoveNoKey(t, k) \/ FindNot(t, k) PROVE Goal
  BY <1>0, <1>8, SameCounted
     DEF TypeOK, Goto, Return, InsertCount, Uncount, RemoveNoKey, FindNot
<1>9. ASSUME NEW k \in Keys, NEW e \in Entries, RemoveSearch(t, k, e) PROVE Goal
  BY <1>0, <1>9, SameCounted
     DEF TypeOK, Goto, Return, InsertCount, Uncount, RemoveSearch
<1>10. ASSUME NEW k \in Keys, NEW e \in Entries, Find(t, k, e) PROVE Goal
  BY <1>0, <1>10, SameCounted
     DEF TypeOK, Goto, Return, InsertCount, Uncount, Find
<1>11. ASSUME NEW M \in Filters, SweepStart(t, M) PROVE Goal
  BY <1>0, <1>11, SameCounted
     DEF TypeOK, Goto, Return, InsertCount, Uncount, SweepStart
<1>12. CASE SweepLock(t)
  BY <1>0, <1>12, SameCounted
     DEF TypeOK, Goto, Return, InsertCount, Uncount, SweepLock
<1>13. CASE SweepLine(t)
  BY <1>0, <1>13, SameCounted
     DEF TypeOK, Goto, Return, InsertCount, Uncount, SweepLine
<1>14. ASSUME NEW e \in Entries, SweepSearch(t, e) PROVE Goal
  BY <1>0, <1>14, SameCounted
     DEF TypeOK, Goto, Return, InsertCount, Uncount, SweepSearch
<1>15. CASE Uncount(t)
  <2>0. count # 0
    BY <1>15, CountPositive DEF Uncount
  <2>1. /\ pc[t] = "uncount" /\ pc'[t] = "unlink" /\ reg' = reg
        /\ \A e : e \in Linked' <=> e \in Linked
    BY <1>0, <1>15, <2>0, LinkedIs, LinkedNext DEF Uncount, Goto, TypeOK
  <2>2. /\ reg[t] \in Linked
        /\ \A u \in Threads : u # t /\ pc[u] \in {"link", "unlink"} => reg[u] # reg[t]
    BY <1>0, <2>1, LinkedIs DEF Accounted, InHand
  <2>3. \A e : /\ Pending("link", e)' <=> Pending("link", e)
               /\ Pending("unlink", e)' <=> Pending("unlink", e) \/ e = reg[t]
               /\ Pending("link", e) => e # reg[t]
    BY <1>01, <2>1, <2>2 DEF Pending
  <2>4. \A e : e \in Counted' <=> e \in Counted /\ e # reg[t]
    BY <2>1, <2>2, <2>3, InCounted, InCountedNext
  <2>5. reg[t] \in Counted
    BY <2>1, <2>2, InCounted DEF Pending
  <2>6. Counted' = Counted \ {reg[t]}
    BY <2>4
  <2> QED
    BY <1>15, <2>5, <2>6
<1>16. CASE Unlink(t)
  <2>1. /\ pc[t] = "unlink" /\ pc'[t] = "free" /\ reg' = reg
        /\ \A e : e \in Linked' <=> e \in Linked /\ e # reg[t]
    <3>1. pc[t] = "unlink" /\ pc'[t] = "free" /\ reg' = reg
      BY <1>0, <1>16 DEF Unlink, TypeOK, Goto
    <3>2. \A m \in 1..Lines : reg[t] \in line[m] => m = Home(reg[t])
      BY <1>0 DEF Accounted
    <3>3. \A m \in 1..Lines : \A e : e \in line'[m] <=> e \in line[m] /\ e # reg[t]
      BY <1>0, <1>16, <3>2 DEF Unlink, TypeOK
    <3> QED
      BY <3>1, <3>3, LinkedIs, LinkedNext
  <2>2. \A u \in Threads : u # t /\ pc[u] \in {"link", "unlink"} => reg[u] # reg[t]
    BY <1>0, <2>1 DEF Accounted, InHand
  <2>3. \A e : /\ Pending("link", e)' <=> Pending("link", e)
               /\ Pending("unlink", e) <=> Pending("unlink", e)' \/ e = reg[t]
               /\ Pending("link", e) => e # reg[t]
               /\ Pending("unlink", e)' => e # reg[t]
    BY <1>01, <2>1, <2>2 DEF Pending
  <2>4. \A e : e \in Counted' <=> e \in Counted
    BY <2>1, <2>2, <2>3, InCounted, InCountedNext
  <2> QED
    BY <2>1, <2>4 DEF InsertCount, Uncount
<1>17. CASE Free(t)
  BY <1>0, <1>17, SameCounted
     DEF TypeOK, Goto, Return, InsertCount, Uncount, Free
<1>18. CASE FindReturn(t)
  BY <1>0, <1>18, SameCounted
     DEF TypeOK, Goto, Return, InsertCount, Uncount, FindReturn
<1> QED
  BY <1>1, <1>2, <1>3, <1>4, <1>5, <1>6, <1>7, <1>8, <1>9, <1>10, <1>11, <1>12,
     <1>13, <1>14, <1>15, <1>16, <1>17, <1>18 DEF Step

\* What the others see, and what they see after a step.
LEMMA InTable == \A v : v \in table <=> \E e \in Counted : value[e] = v
BY DEF table

LEMMA InTableNext == \A v : v \in table' <=> \E e \in Counted' : value'[e] = v
BY DEF table

\* A step adds a value with a new key, removes one, or leaves the table.
LEMMA NextTable ==
  ASSUME Inv, NEW t \in Threads, Step(t)
  PROVE  \/ table' = table /\ ~InsertCount(t) /\ ~Uncount(t)
         \/ /\ InsertCount(t)
            /\ table' = table \cup {value[reg[t]]}
            /\ value[reg[t]] \in Values
            /\ \A v \in table : KeyOf[v] # KeyOf[value[reg[t]]]
         \/ /\ Uncount(t)
            /\ table' = table \ {value[reg[t]]}
            /\ value[reg[t]] \in table
<1>0. Accounted /\ TypeOK /\ Locks /\ OneOfAKey
  BY AccountedIs DEF Inv
<1>1. ASSUME NEW e \in used, pc[t] = "free" => e # reg[t] PROVE value'[e] = value[e]
  BY <1>1, StepValues
<1>2. \A e \in Counted : value'[e] = value[e]
  <2> SUFFICES ASSUME NEW e \in Counted PROVE value'[e] = value[e]
    OBVIOUS
  <2>1. e \in used
    BY <1>0, CountedUsed
  <2>2. pc[t] = "free" => e # reg[t]
    BY <1>0, InCounted, LinkedIs DEF Accounted, InHand, Pending
  <2> QED
    BY <1>1, <2>1, <2>2
<1>3. CASE Counted' = Counted /\ ~InsertCount(t) /\ ~Uncount(t)
  <2>1. \A v : v \in table' <=> v \in table
    BY <1>2, <1>3, InTable, InTableNext
  <2> QED
    BY <1>3, <2>1
<1>4. CASE InsertCount(t) /\ Counted' = Counted \cup {reg[t]} /\ reg[t] \notin Counted
  <2>1. pc[t] = "count" /\ value' = value
    BY <1>4 DEF InsertCount
  <2>2. value[reg[t]] \in Values /\ Home(reg[t]) \in 1..Lines
    BY <1>0, <2>1, HandIs DEF Inv, InHand
  <2>3. \A v : v \in table' <=> v \in table \/ v = value[reg[t]]
    BY <1>4, <2>1, InTable, InTableNext
  <2>4. ASSUME NEW v \in table, KeyOf[v] = KeyOf[value[reg[t]]] PROVE FALSE
    <3>1. PICK e \in Counted : value[e] = v
      BY InTable
    <3>2. v \in Values /\ Home(e) = Home(reg[t])
      BY <1>0, <2>4, <3>1, CountedUsed DEF Home
    <3>3. CASE Pending("link", e)
      <4>1. PICK u \in Threads : pc[u] = "link" /\ reg[u] = e
        BY <3>3 DEF Pending
      <4>2. writer[Home(e)] = u /\ writer[Home(reg[t])] = t
        BY <1>0, <2>1, <4>1 DEF Locks, LocksOf
      <4> QED
        BY <2>1, <3>2, <4>1, <4>2
    <3>4. CASE e \in Linked
      <4>1. e \in line[Home(reg[t])]
        BY <1>0, <3>2, <3>4, LinkedIs DEF Accounted
      <4> QED
        BY <1>0, <2>1, <2>4, <3>1, <3>2, <4>1 DEF OneOfAKey, In, Has
    <3> QED
      BY <3>3, <3>4, InCounted
  <2> QED
    BY <1>4, <2>2, <2>3, <2>4
<1>5. CASE Uncount(t) /\ Counted' = Counted \ {reg[t]} /\ reg[t] \in Counted
  <2>1. \A v : v \in table' <=> v \in table /\ v # value[reg[t]]
    <3>1. \A e \in Counted : value[e] = value[reg[t]] => e = reg[t]
      BY <1>5, CountedApart
    <3> QED
      BY <1>2, <1>5, <3>1, InTable, InTableNext
  <2>2. value[reg[t]] \in table
    BY <1>5, InTable
  <2> QED
    BY <1>5, <2>1, <2>2
<1> QED
  BY <1>3, <1>4, <1>5, NextCounted

\* The count stays the number of values in the table.
LEMMA NextCountIs ==
  ASSUME Inv, NEW t \in Threads, Step(t)
  PROVE  CountIs'
<1>0. IsFiniteSet(table) /\ count = Cardinality(table)
  BY DEF Inv, CountIs
<1>1. CASE table' = table /\ ~InsertCount(t) /\ ~Uncount(t)
  <2>1. count' = count
    BY <1>1 DEF Step, InsertEntry, InsertNoMemory, InsertSearch, InsertConflict,
       InsertLimit, InsertLink, RemoveNoKey, FindNot, RemoveSearch, Find, SweepStart,
       SweepLock, SweepLine, SweepSearch, Unlink, Free, FindReturn
  <2> QED
    BY <1>0, <1>1, <2>1 DEF CountIs
<1>2. CASE /\ InsertCount(t) /\ table' = table \cup {value[reg[t]]}
           /\ \A v \in table : KeyOf[v] # KeyOf[value[reg[t]]]
  <2>1. value[reg[t]] \notin table /\ count' = count + 1
    BY <1>2 DEF InsertCount
  <2> QED
    BY <1>0, <1>2, <2>1, FS_AddElement DEF CountIs
<1>3. CASE Uncount(t) /\ table' = table \ {value[reg[t]]} /\ value[reg[t]] \in table
  <2>1. count' = count - 1
    BY <1>3, CountPositive DEF Uncount
  <2> QED
    BY <1>0, <1>3, <2>1, FS_RemoveElement DEF CountIs
<1> QED
  BY <1>1, <1>2, <1>3, NextTable

-----------------------------------------------------------------------------
(* The invariant.                                                          *)

\* The invariant holds at first.
LEMMA InitInv == Init => Inv
<1> SUFFICES ASSUME Init PROVE Inv
  OBVIOUS
<1>1. TypeOK
  BY InitType
<1>2. Linked = {} /\ InHands = {} /\ Counted = {} /\ table = {}
  BY DEF Init, Linked, InHands, InHand, Counted, table
<1>3. EntriesAccounted
  BY <1>2 DEF EntriesAccounted, Init
<1>4. Locks
  BY DEF Locks, LocksOf, Init
<1>5. OneOfAKey
  BY DEF OneOfAKey, Init
<1>6. CountIs
  BY <1>2, FS_EmptySet DEF CountIs, Init
<1>7. FoundUnlessRemoved /\ NoAbort
  BY DEF FoundUnlessRemoved, NoAbort, Init
<1> QED
  BY <1>1, <1>3, <1>4, <1>5, <1>6, <1>7 DEF Inv

\* It holds when nothing changes.
LEMMA StutterInv == Inv /\ UNCHANGED vars => Inv'
<1> SUFFICES ASSUME Inv, UNCHANGED vars PROVE Inv'
  OBVIOUS
<1> USE DEF vars
<1>1. TypeOK' /\ NoAbort'
  BY DEF Inv, TypeOK, NoAbort
<1>2. Linked' = Linked /\ InHands' = InHands /\ table' = table
  BY DEF Linked, InHands, Counted, table
<1>3. EntriesAccounted'
  BY <1>2 DEF Inv, EntriesAccounted, Home
<1>4. Locks'
  BY DEF Inv, Locks, LocksOf, Home
<1>5. OneOfAKey'
  BY DEF Inv, OneOfAKey, In, Has, Home
<1>6. CountIs'
  BY <1>2 DEF Inv, CountIs
<1>7. FoundUnlessRemoved'
  BY <1>2 DEF Inv, FoundUnlessRemoved, Has
<1> QED
  BY <1>1, <1>3, <1>4, <1>5, <1>6, <1>7 DEF Inv

\* It is kept by every step.
LEMMA NextInv == Inv /\ [Next]_vars => Inv'
<1> SUFFICES ASSUME Inv, [Next]_vars PROVE Inv'
  OBVIOUS
<1>1. ASSUME NEW t \in Threads, Step(t) PROVE Inv'
  BY <1>1, NextType, NextAccounted, NextLocks, NextKeys, NextCountIs, NextFound,
     NextNoAbort DEF Inv
<1> QED
  BY <1>1, StutterInv DEF Next

\* All that the theorems below say follows from one invariant.
THEOREM HashInvariant == Spec => []Inv
BY InitInv, NextInv, PTL DEF Spec

(* Every variable of the hash table keeps its type; that the count stays   *)
(* at or below the limit is a part of it.                                  *)
THEOREM HashTypes == Spec => []TypeOK
<1>1. Inv => TypeOK
  BY DEF Inv
<1> QED
  BY <1>1, HashInvariant, PTL

(* No entry of the slab is lost, and none is given back while a line or    *)
(* another thread still has it, whatever the threads do at the same time.  *)
THEOREM HashEntries == Spec => []EntriesAccounted
<1>1. Inv => EntriesAccounted
  BY DEF Inv
<1> QED
  BY <1>1, HashInvariant, PTL

(* What ey_hash_find has found is right until somebody removes it.         *)
THEOREM HashFound == Spec => []FoundUnlessRemoved
<1>1. Inv => FoundUnlessRemoved
  BY DEF Inv
<1> QED
  BY <1>1, HashInvariant, PTL

(* ey_hash_remove and ey_hash_remove_all never meet a count of 0.          *)
THEOREM HashNoAbort == Spec => []NoAbort
<1>1. Inv => NoAbort
  BY DEF Inv
<1> QED
  BY <1>1, HashInvariant, PTL

-----------------------------------------------------------------------------
(* The implementation of module Table.                                     *)

\* Who has searched the line of a key knows of the whole table, if nobody is
\* between the count and the line.
LEMMA HoldsIs ==
  ASSUME Inv, NEW k \in Keys, NEW t \in Threads,
         \/ Open(LineOf[k])
         \/ writer[LineOf[k]] = t /\ pc[t] = "count"
  PROVE  T!Holds(k) <=> In(LineOf[k], k) # {}
<1>0. Accounted /\ Locks /\ TypeOK /\ LineOf[k] \in 1..Lines
  BY AccountedIs, HashAssumption DEF Inv
<1>1. ASSUME NEW u \in Threads, pc[u] \in {"link", "unlink"},
             Home(reg[u]) = LineOf[k]
      PROVE  FALSE
  BY <1>0, <1>1, HashAssumption DEF Locks, LocksOf, Open
<1>2. ASSUME NEW v \in table, KeyOf[v] = k PROVE In(LineOf[k], k) # {}
  <2>1. PICK e \in Counted : value[e] = v
    BY InTable
  <2>2. Home(e) = LineOf[k] /\ Has(e, k)
    BY <1>0, <1>2, <2>1, CountedUsed DEF Home, Has
  <2>3. e \in line[LineOf[k]]
    BY <1>0, <1>1, <2>2, InCounted, LinkedIs DEF Accounted, Pending
  <2> QED
    BY <2>2, <2>3 DEF In
<1>3. ASSUME NEW e \in In(LineOf[k], k) PROVE \E v \in table : KeyOf[v] = k
  <2>1. e \in line[LineOf[k]] /\ KeyOf[value[e]] = k /\ Home(e) = LineOf[k]
    BY DEF In, Has, Home
  <2>2. e \in Counted
    BY <1>0, <1>1, <2>1, InCounted, LinkedIs DEF Pending
  <2> QED
    BY <2>1, <2>2, InTable
<1> QED
  BY <1>2, <1>3 DEF T!Holds

\* Module Table counts with a copy of module FiniteSets of its own.
LEMMA SameCardinality == T!Cardinality(table) = Cardinality(table)
BY DEF T!Cardinality, Cardinality

\* A step of the table is a step of module Table, or nothing at all.
LEMMA StepImplements ==
  ASSUME Inv, NEW t \in Threads, Step(t)
  PROVE  [T!TNext]_T!tvars
<1> DEFINE Goal == T!TNext \/ UNCHANGED <<table, reply>>
<1> SUFFICES Goal
  BY DEF T!tvars
<1> USE DEF Answer, T!Answer
<1>20. table' = table \/ InsertCount(t) \/ Uncount(t)
  BY NextTable
<1>21. Accounted /\ TypeOK /\ CountIs /\ LocksOf(t)
  BY AccountedIs DEF Inv, Locks
<1>1. ASSUME NEW v \in Values, NEW e \in Entries, InsertEntry(t, v, e) PROVE Goal
  BY <1>20, <1>21, <1>1 DEF InsertEntry, InsertCount, Uncount, TypeOK
<1>2. CASE InsertNoMemory(t)
  <2>1. T!NoMemory(t)
    BY <1>20, <1>21, <1>2 DEF InsertNoMemory, InsertCount, Uncount, T!NoMemory, TypeOK, Goto
  <2> QED
    BY <2>1 DEF T!TNext
<1>3. CASE InsertSearch(t)
  BY <1>20, <1>21, <1>3 DEF InsertSearch, InsertCount, Uncount, TypeOK
<1>4. CASE InsertConflict(t)
  <2>1. pc[t] \in InHand /\ pc'[t] = "free"
    BY <1>4, <1>21 DEF InsertConflict, InHand, TypeOK, Goto
  <2>2. value[reg[t]] \in Values /\ KeyOf[value[reg[t]]] \in Keys
    BY <1>21, <2>1, HandIs, HashAssumption DEF Inv
  <2>3. T!Holds(KeyOf[value[reg[t]]])
    BY <1>4, <2>2, HoldsIs DEF InsertConflict, Home
  <2>4. table' = table
    BY <1>4, <1>20 DEF InsertConflict, InsertCount, Uncount
  <2>5. T!Conflict(t, value[reg[t]])
    BY <1>4, <2>3, <2>4 DEF InsertConflict, T!Conflict
  <2> QED
    BY <2>2, <2>5 DEF T!TNext
<1>5. CASE InsertCount(t)
  <2>1. /\ table' = table \cup {value[reg[t]]} /\ value[reg[t]] \in Values
        /\ \A v \in table : KeyOf[v] # KeyOf[value[reg[t]]]
    BY <1>5, NextTable DEF InsertCount, Uncount
  <2>2. Cardinality(table) < Limit
    BY <1>5, <1>21 DEF InsertCount, BelowLimit, CountIs
  <2>3. T!Insert(t, value[reg[t]])
    BY <1>5, <2>1, <2>2, SameCardinality DEF InsertCount, T!Insert, T!Holds
  <2> QED
    BY <2>1, <2>3 DEF T!TNext
<1>6. CASE InsertLimit(t)
  <2>1. pc[t] = "count" /\ table' = table
    BY <1>6, <1>20 DEF InsertLimit, InsertCount, Uncount
  <2>2. /\ value[reg[t]] \in Values /\ KeyOf[value[reg[t]]] \in Keys
        /\ writer[Home(reg[t])] = t
        /\ In(Home(reg[t]), KeyOf[value[reg[t]]]) = {}
    BY <1>21, <2>1, HandIs, HashAssumption DEF Inv, InHand, LocksOf, OneOfAKey
  <2>3. ~T!Holds(KeyOf[value[reg[t]]])
    BY <2>1, <2>2, HoldsIs DEF Home
  <2>4. Cardinality(table) = Limit
    BY <1>6, <1>21, HashAssumption DEF InsertLimit, BelowLimit, CountIs, TypeOK
  <2>5. T!Full(t, value[reg[t]])
    BY <1>6, <2>1, <2>3, <2>4, SameCardinality DEF InsertLimit, T!Full
  <2> QED
    BY <2>2, <2>5 DEF T!TNext
<1>7. CASE InsertLink(t)
  BY <1>20, <1>21, <1>7 DEF InsertLink, InsertCount, Uncount, TypeOK
<1>8. ASSUME NEW k \in Keys, RemoveNoKey(t, k) \/ FindNot(t, k) PROVE Goal
  <2>1. Open(LineOf[k]) /\ In(LineOf[k], k) = {} /\ pc[t] = "idle" /\ table' = table
    BY <1>8, <1>20 DEF RemoveNoKey, FindNot, InsertCount, Uncount
  <2>2. ~T!Holds(k)
    BY <2>1, HoldsIs
  <2>3. T!NoKey(t, k) \/ T!NotFound(t, k)
    BY <1>8, <2>1, <2>2 DEF RemoveNoKey, FindNot, T!NoKey, T!NotFound
  <2> QED
    BY <2>3 DEF T!TNext
<1>9. ASSUME NEW k \in Keys, NEW e \in Entries, RemoveSearch(t, k, e) PROVE Goal
  BY <1>20, <1>21, <1>9 DEF RemoveSearch, InsertCount, Uncount, TypeOK
<1>10. ASSUME NEW k \in Keys, NEW e \in Entries, Find(t, k, e) PROVE Goal
  <2>1. Open(LineOf[k]) /\ In(LineOf[k], k) # {} /\ pc[t] = "idle" /\ table' = table
    BY <1>10, <1>20 DEF Find, InsertCount, Uncount
  <2>2. T!Found(t, k)
    BY <1>10, <2>1, HoldsIs DEF Find, T!Found
  <2> QED
    BY <2>2 DEF T!TNext
<1>11. ASSUME NEW M \in Filters, SweepStart(t, M) PROVE Goal
  BY <1>20, <1>21, <1>11 DEF SweepStart, InsertCount, Uncount, TypeOK
<1>12. CASE SweepLock(t)
  BY <1>20, <1>21, <1>12 DEF SweepLock, InsertCount, Uncount, TypeOK
<1>13. CASE SweepLine(t)
  <2>1. table' = table
    BY <1>13, <1>20 DEF SweepLine, InsertCount, Uncount
  <2>2. UNCHANGED reply \/ T!RemovedAll(t)
    BY <1>13, <2>1 DEF SweepLine, T!RemovedAll
  <2> QED
    BY <2>1, <2>2 DEF T!TNext
<1>14. ASSUME NEW e \in Entries, SweepSearch(t, e) PROVE Goal
  BY <1>20, <1>21, <1>14 DEF SweepSearch, InsertCount, Uncount, TypeOK
<1>15. CASE Uncount(t)
  <2>1. pc[t] = "uncount" /\ count # 0
    BY <1>15, CountPositive DEF Uncount
  <2>2. /\ table' = table \ {value[reg[t]]} /\ value[reg[t]] \in table
        /\ value[reg[t]] \in Values
    BY <1>15, <1>21, <2>1, NextTable, HandIs DEF InsertCount, Inv, InHand
  <2>3. T!Remove(t, value[reg[t]]) \/ T!RemoveNext(value[reg[t]])
    BY <1>15, <2>1, <2>2 DEF Uncount, T!Remove, T!RemoveNext
  <2> QED
    BY <2>2, <2>3 DEF T!TNext
<1>16. CASE Unlink(t)
  BY <1>20, <1>21, <1>16 DEF Unlink, InsertCount, Uncount, TypeOK
<1>17. CASE Free(t)
  BY <1>20, <1>21, <1>17 DEF Free, InsertCount, Uncount, TypeOK
<1>18. CASE FindReturn(t)
  BY <1>20, <1>21, <1>18 DEF FindReturn, InsertCount, Uncount, TypeOK
<1> QED
  BY <1>1, <1>2, <1>3, <1>4, <1>5, <1>6, <1>7, <1>8, <1>9, <1>10, <1>11, <1>12,
     <1>13, <1>14, <1>15, <1>16, <1>17, <1>18 DEF Step

(* The hash table does what a set of values with a limit does, one call    *)
(* after another: so a key is never stored twice, an insertion is refused  *)
(* only if the key is there or the table is full, and a search or a removal*)
(* misses a key only if the table does not hold it, for any number of      *)
(* threads on any number of lines.                                         *)
THEOREM HashImplements == Spec => Implements
<1>1. Init => T!TInit
  <2>1. Init => Counted = {}
    BY DEF Init, Linked, Counted
  <2>2. Init => table = {}
    BY <2>1 DEF table
  <2> QED
    BY <2>2 DEF Init, T!TInit
<1>2. Inv /\ [Next]_vars => [T!TNext]_T!tvars
  <2>1. ASSUME UNCHANGED vars PROVE UNCHANGED T!tvars
    BY <2>1 DEF vars, T!tvars, table, Counted, Linked
  <2> QED
    BY <2>1, StepImplements DEF Next
<1> QED
  BY <1>1, <1>2, HashInvariant, PTL DEF Spec, Implements, T!TSpec
=============================================================================
