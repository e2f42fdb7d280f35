------------------------------ MODULE SlabProof ------------------------------
(***************************************************************************)
(* The invariants of module Slab, and of module Fslab that uses it, for    *)
(* any number of threads, pages and larger blocks.                         *)
(*                                                                         *)
(* Those of the slab are not inductive without the flags: that an          *)
(* allocation never finds its item marked needs that free items are not    *)
(* marked, and that a free finds it marked needs that the items in the     *)
(* hands of the callers are.  That a page goes back to malloc only when    *)
(* nobody has an item on it needs that its free list and the items in      *)
(* hands make up the page, and that free_count counts the free list.       *)
(*                                                                         *)
(* The sized allocator uses the slab as module Slab allows, so what is     *)
(* proved of the slab holds of it.  That its two ways of taking and giving *)
(* back a block agree needs three more facts: what the sizes of the blocks *)
(* say (Sized), that a thread which links or unlinks is alone with a list  *)
(* of live blocks (Alone), and that a block which is being replaced stays  *)
(* where it is (Kept).                                                     *)
(***************************************************************************)
EXTENDS Fslab, FiniteSetTheorems, TLAPS

\* Between two calls, and inside them, the flag tells what a caller has.
Marked ==
  /\ \A i \in held : i \in flag
  /\ \A t \in Threads : pc[t] = "put" => reg[t] \in flag
  /\ \A t \in Threads : pc[t] = "mark" => reg[t] \notin flag
  /\ \A p \in live, s \in Slots : s \in free[p] => <<p, s>> \notin flag

\* A busy thread has an item, and finitely many items are in use.
Finite ==
  /\ \A t \in Busy : reg[t] \in Items
  /\ IsFiniteSet(live)
  /\ IsFiniteSet(Hands)

Inv ==
  /\ TypeOK /\ Apart /\ ListsSorted /\ CountsTrue /\ NoAbort
  /\ Marked /\ Finite

-----------------------------------------------------------------------------
LEMMA InHands ==
  \A i : i \in Hands <=> i \in held \/ \E t \in Threads : pc[t] # "idle" /\ reg[t] = i
BY DEF Hands, Busy

LEMMA InHandsNext ==
  \A i : i \in Hands' <=> i \in held' \/ \E t \in Threads : pc'[t] # "idle" /\ reg'[t] = i
BY DEF Hands, Busy

LEMMA PerPageNat == PerPage \in Nat /\ PerPage >= 4
BY SlabAssumption, FS_CardinalityType DEF PerPage

\* A page holds no more free items than it has places.
LEMMA FreeBound ==
  ASSUME NEW F \in SUBSET Slots
  PROVE  /\ IsFiniteSet(F)
         /\ Cardinality(F) \in 0..PerPage
         /\ Cardinality(F) = PerPage => F = Slots
<1>1. IsFiniteSet(F) /\ Cardinality(F) <= Cardinality(Slots)
      /\ (Cardinality(F) = Cardinality(Slots) => F = Slots)
  BY SlabAssumption, FS_Subset
<1>2. Cardinality(F) \in Nat
  BY <1>1, FS_CardinalityType
<1> QED
  BY <1>1, <1>2, PerPageNat DEF PerPage

LEMMA InitInv == Init => Inv
<1> SUFFICES ASSUME Init PROVE Inv
  OBVIOUS
<1>1. Hands = {}
  BY DEF Init, Hands, Busy
<1>2. TypeOK
  BY PerPageNat DEF Init, TypeOK, Items
<1>3. CountsTrue /\ Finite
  BY <1>1, FS_EmptySet DEF Init, CountsTrue, Finite, Busy
<1>4. Apart /\ ListsSorted /\ NoAbort /\ Marked
  BY <1>1 DEF Init, Apart, ListsSorted, NoAbort, Marked, Busy
<1> QED
  BY <1>2, <1>3, <1>4 DEF Inv

-----------------------------------------------------------------------------
(***************************************************************************)
(* Taking an item from a page, an old one or one just made.                *)
(***************************************************************************)
LEMMA TakeInv ==
  ASSUME Inv, NEW t \in Threads, pc[t] = "idle",
         NEW p \in Pages, NEW F \in SUBSET Slots, NEW A \in SUBSET Pages,
         F # {},
         Take(t, p, F, Cardinality(F), A),
         \A s \in Slots : s \in F <=> <<p, s>> \notin Hands,
         p \notin full,
         \A q \in Pages : q \in A <=> q = p \/ q \in avail,
         live' = live \cup {p}, flag' \subseteq flag, held' = held,
         pages' = Cardinality(live'), IsFiniteSet(live'),
         \A i \in Hands : i \in flag => i \in flag',
         \A s \in F : <<p, s>> \notin flag'
  PROVE  Inv'
<1> USE PerPageNat
<1>1. PICK s \in F : /\ free' = [free EXCEPT ![p] = F \ {s}]
                     /\ reg' = [reg EXCEPT ![t] = <<p, s>>]
  BY DEF Take
<1> DEFINE i == <<p, s>>
           n == Cardinality(F)
<1>2. /\ i \in Items /\ i \notin Hands
      /\ n \in 1..PerPage
      /\ Cardinality(F \ {s}) = n - 1
  <2>1. n \in 0..PerPage /\ n # 0 /\ IsFiniteSet(F)
    BY FreeBound, FS_EmptySet
  <2>2. Cardinality(F \ {s}) = n - 1
    BY <2>1, FS_RemoveElement
  <2> QED
    BY <2>1, <2>2 DEF Items
<1>3. /\ count' = [count EXCEPT ![p] = n - 1]
      /\ avail' = IF n - 1 = 0 THEN A \ {p} ELSE A
      /\ full' = IF n - 1 = 0 THEN full \cup {p} ELSE full
      /\ items' = items + 1
      /\ pc' = [pc EXCEPT ![t] = "mark"]
  BY DEF Take
<1> HIDE DEF n
<1>4. /\ TypeOK /\ Apart /\ ListsSorted /\ CountsTrue /\ NoAbort /\ Marked /\ Finite
  BY DEF Inv
<1>5. /\ reg'[t] = i /\ pc'[t] = "mark"
      /\ \A u \in Threads : u # t => reg'[u] = reg[u] /\ pc'[u] = pc[u]
  BY <1>1, <1>3, <1>4 DEF TypeOK
<1>6. Hands' = Hands \cup {i}
  <2> HIDE DEF i
  <2>1. ASSUME NEW x \in Hands PROVE x \in Hands'
    <3>1. CASE x \in held
      BY <3>1, InHandsNext
    <3>2. CASE x \notin held
      <4>1. PICK u \in Threads : pc[u] # "idle" /\ reg[u] = x
        BY <3>2, InHands
      <4> QED
        BY <1>5, <4>1, InHandsNext
    <3> QED
      BY <3>1, <3>2
  <2>2. i \in Hands'
    BY <1>5, InHandsNext
  <2>3. ASSUME NEW x \in Hands', x # i PROVE x \in Hands
    <3>1. CASE x \in held
      BY <3>1, InHands
    <3>2. CASE x \notin held
      <4>1. PICK u \in Threads : pc'[u] # "idle" /\ reg'[u] = x
        BY <3>2, InHandsNext
      <4> QED
        BY <1>5, <2>3, <4>1, InHands
    <3> QED
      BY <3>1, <3>2
  <2> QED
    BY <2>1, <2>2, <2>3
<1>7. TypeOK'
  <2>1. reg' \in [Threads -> Items \cup {NoItem}]
    BY <1>1, <1>2, <1>4 DEF TypeOK
  <2>2. pc' \in [Threads -> {"idle", "mark", "put", "abort"}]
    BY <1>3, <1>4 DEF TypeOK
  <2>3. count' \in [Pages -> 0..PerPage] /\ items' \in Nat
    BY <1>2, <1>3, <1>4 DEF TypeOK
  <2>4. free' \in [Pages -> SUBSET Slots]
    BY <1>1, <1>4 DEF TypeOK
  <2>5. live' \subseteq Pages /\ avail' \subseteq Pages /\ full' \subseteq Pages
    BY <1>3, <1>4 DEF TypeOK
  <2>6. pages' \in Nat
    BY FS_CardinalityType
  <2> QED
    BY <1>4, <2>1, <2>2, <2>3, <2>4, <2>5, <2>6 DEF TypeOK
<1>8. /\ free'[p] = F \ {s} /\ count'[p] = n - 1
      /\ \A q \in Pages : q # p => free'[q] = free[q] /\ count'[q] = count[q]
  BY <1>1, <1>3, <1>4 DEF TypeOK
<1>9. Apart'
  <2>1. \A u \in Busy' : reg'[u] \notin held'
    BY <1>2, <1>4, <1>5, InHands DEF Apart, Busy
  <2>2. \A u, v \in Busy' : u # v => reg'[u] # reg'[v]
    BY <1>2, <1>4, <1>5, InHands DEF Apart, Busy
  <2>3. Hands' \subseteq live' \X Slots
    BY <1>4, <1>6 DEF Apart
  <2>4. ASSUME NEW q \in live', NEW r \in Slots
        PROVE  r \in free'[q] <=> <<q, r>> \notin Hands'
    <3>1. CASE q = p
      BY <1>6, <1>8, <3>1
    <3>2. CASE q # p
      BY <1>4, <1>6, <1>8, <3>2 DEF Apart, TypeOK
    <3> QED
      BY <3>1, <3>2
  <2> QED
    BY <2>1, <2>2, <2>3, <2>4 DEF Apart
<1>10. ListsSorted'
  <2>1. avail' = {q \in live' : count'[q] # 0}
    <3>1. live' \subseteq Pages /\ avail' \subseteq Pages
      BY <1>7 DEF TypeOK
    <3>2. n - 1 = 0 <=> count'[p] = 0
      BY <1>2, <1>8
    <3>3. p \in avail' <=> count'[p] # 0
      BY <1>3, <3>2
    <3>4. ASSUME NEW q \in Pages, q # p
          PROVE  q \in avail' <=> q \in live' /\ count'[q] # 0
      BY <1>3, <1>4, <1>8, <3>4 DEF ListsSorted
    <3> QED
      BY <3>1, <3>3, <3>4
  <2>2. full' = {q \in live' : count'[q] = 0}
    <3>1. live' \subseteq Pages /\ full' \subseteq Pages
      BY <1>7 DEF TypeOK
    <3>2. n - 1 = 0 <=> count'[p] = 0
      BY <1>2, <1>8
    <3>3. p \in full' <=> count'[p] = 0
      BY <1>3, <3>2
    <3>4. ASSUME NEW q \in Pages, q # p
          PROVE  q \in full' <=> q \in live' /\ count'[q] = 0
      BY <1>3, <1>4, <1>8, <3>4 DEF ListsSorted
    <3> QED
      BY <3>1, <3>3, <3>4
  <2>3. ASSUME NEW q \in live'
        PROVE  count'[q] = Cardinality(free'[q]) /\ count'[q] < PerPage
    <3>1. CASE q = p
      <4>1. free'[q] = F \ {s} /\ count'[q] = n - 1
        BY <1>8, <3>1
      <4>2. Cardinality(free'[q]) = Cardinality(F \ {s})
        BY <4>1
      <4>3. n - 1 < PerPage /\ Cardinality(F \ {s}) = n - 1
        BY <1>2
      <4> QED
        BY <4>1, <4>2, <4>3
    <3>2. CASE q # p
      <4>1. q \in Pages /\ q \in live
        BY <1>7, <3>2 DEF TypeOK
      <4> QED
        BY <1>4, <1>8, <3>2, <4>1 DEF ListsSorted
    <3> QED
      BY <3>1, <3>2
  <2> QED
    BY <2>1, <2>2, <2>3 DEF ListsSorted
<1>11. CountsTrue' /\ Finite'
  <2>1. IsFiniteSet(Hands') /\ Cardinality(Hands') = Cardinality(Hands) + 1
    BY <1>2, <1>4, <1>6, FS_AddElement DEF Finite
  <2>2. \A u \in Busy' : reg'[u] \in Items
    BY <1>2, <1>4, <1>5 DEF Finite, Busy
  <2> QED
    BY <1>3, <1>4, <2>1, <2>2 DEF CountsTrue, Finite
<1>12. NoAbort'
  BY <1>4, <1>5 DEF NoAbort
<1>13. Marked'
  <2>1. \A x \in held' : x \in flag'
    BY <1>4, InHands DEF Marked
  <2>2. \A u \in Threads : pc'[u] = "put" => reg'[u] \in flag'
    BY <1>4, <1>5, InHands DEF Marked
  <2>3. \A u \in Threads : pc'[u] = "mark" => reg'[u] \notin flag'
    BY <1>4, <1>5 DEF Marked
  <2>4. \A q \in live', r \in Slots : r \in free'[q] => <<q, r>> \notin flag'
    BY <1>4, <1>8 DEF Marked, TypeOK
  <2> QED
    BY <2>1, <2>2, <2>3, <2>4 DEF Marked
<1> QED
  BY <1>7, <1>9, <1>10, <1>11, <1>12, <1>13 DEF Inv

LEMMA ZallocTakeInv ==
  ASSUME Inv, NEW t \in Threads, ZallocTake(t)
  PROVE  Inv'
<1>1. PICK p \in avail : Take(t, p, free[p], count[p], avail)
  BY DEF ZallocTake
<1>2. /\ TypeOK /\ Apart /\ ListsSorted /\ CountsTrue /\ Marked /\ Finite
      /\ pc[t] = "idle"
      /\ UNCHANGED <<live, pages, flag, held>>
  BY DEF Inv, ZallocTake
<1>3. /\ p \in Pages /\ p \in live /\ count[p] # 0 /\ p \notin full
      /\ free[p] \in SUBSET Slots /\ count[p] = Cardinality(free[p])
  BY <1>2 DEF TypeOK, ListsSorted
<1>4. free[p] # {}
  BY <1>3, FS_EmptySet
<1>5. \A s \in Slots : s \in free[p] <=> <<p, s>> \notin Hands
  BY <1>2, <1>3 DEF Apart
<1>6. /\ live' = live \cup {p} /\ flag' = flag /\ held' = held
      /\ pages' = Cardinality(live') /\ IsFiniteSet(live')
  BY <1>2, <1>3 DEF CountsTrue, Finite
<1>7. \A s \in free[p] : <<p, s>> \notin flag'
  BY <1>2, <1>3 DEF Marked
<1>8. Take(t, p, free[p], Cardinality(free[p]), avail) /\ avail \in SUBSET Pages
  BY <1>1, <1>2, <1>3 DEF TypeOK
<1> QED
  BY <1>2, <1>3, <1>4, <1>5, <1>6, <1>7, <1>8, TakeInv

LEMMA ZallocPageInv ==
  ASSUME Inv, NEW t \in Threads, ZallocPage(t)
  PROVE  Inv'
<1>1. PICK p \in Pages \ live :
        /\ live' = live \cup {p}
        /\ pages' = pages + 1
        /\ ClearFlags(p)
        /\ Take(t, p, Slots, PerPage, {p})
  BY DEF ZallocPage
<1>2. /\ TypeOK /\ Apart /\ ListsSorted /\ CountsTrue /\ Marked /\ Finite
      /\ pc[t] = "idle" /\ avail = {} /\ held' = held
  BY DEF Inv, ZallocPage
<1>3. p \notin full /\ {p} \in SUBSET Pages /\ Slots # {}
  BY <1>1, <1>2, PerPageNat, FS_EmptySet, SlabAssumption DEF ListsSorted, PerPage
<1>4. \A s \in Slots : s \in Slots <=> <<p, s>> \notin Hands
  BY <1>1, <1>2 DEF Apart
<1>5. pages' = Cardinality(live') /\ IsFiniteSet(live')
  BY <1>1, <1>2, FS_AddElement DEF CountsTrue, Finite
<1>6. flag' \subseteq flag /\ \A s \in Slots : <<p, s>> \notin flag'
  BY <1>1 DEF ClearFlags
<1>7. \A i \in Hands : i \in flag => i \in flag'
  BY <1>1, <1>2 DEF ClearFlags, Apart
<1>8. Take(t, p, Slots, Cardinality(Slots), {p})
  BY <1>1 DEF PerPage
<1> QED
  BY <1>1, <1>2, <1>3, <1>4, <1>5, <1>6, <1>7, <1>8, TakeInv

-----------------------------------------------------------------------------
(***************************************************************************)
(* The item passes between a thread and the callers: the set of items in   *)
(* hands stays, and no thread aborts.                                      *)
(***************************************************************************)
LEMMA ZallocMarkInv ==
  ASSUME Inv, NEW t \in Threads, ZallocMark(t)
  PROVE  Inv'
<1> DEFINE i == reg[t]
<1>1. /\ TypeOK /\ Apart /\ ListsSorted /\ CountsTrue /\ NoAbort /\ Marked /\ Finite
      /\ pc[t] = "mark" /\ UNCHANGED shared
  BY DEF Inv, ZallocMark
<1>2. i \notin flag /\ i \in Items /\ i \in Hands /\ i \notin held /\ t \in Busy
  BY <1>1, InHands DEF Marked, Finite, Busy, Apart
<1>3. /\ pc' = [pc EXCEPT ![t] = "idle"]
      /\ flag' = flag \cup {i} /\ held' = held \cup {i}
      /\ reg' = [reg EXCEPT ![t] = NoItem]
  BY <1>2 DEF ZallocMark
<1>4. /\ pc'[t] = "idle"
      /\ \A u \in Threads : u # t => reg'[u] = reg[u] /\ pc'[u] = pc[u]
  BY <1>1, <1>3 DEF TypeOK
<1>5. Busy' = Busy \ {t}
  BY <1>4 DEF Busy
<1>6. Hands' = Hands
  <2>1. ASSUME NEW x \in Hands PROVE x \in Hands'
    BY <1>3, <1>4, InHands, InHandsNext
  <2>2. ASSUME NEW x \in Hands' PROVE x \in Hands
    BY <1>2, <1>3, <1>4, InHands, InHandsNext
  <2> QED
    BY <2>1, <2>2
<1> USE DEF shared
<1>7. TypeOK'
  BY <1>1, <1>2, <1>3 DEF TypeOK
<1>8. Apart'
  <2>1. \A u \in Busy' : reg'[u] \notin held'
    BY <1>1, <1>2, <1>3, <1>4, <1>5 DEF Apart, Busy
  <2>2. \A u, v \in Busy' : u # v => reg'[u] # reg'[v]
    BY <1>1, <1>4, <1>5 DEF Apart, Busy
  <2> QED
    BY <1>1, <1>6, <2>1, <2>2 DEF Apart
<1>9. ListsSorted' /\ CountsTrue'
  BY <1>1, <1>6 DEF ListsSorted, CountsTrue
<1>10. NoAbort'
  BY <1>1, <1>4 DEF NoAbort
<1>11. Marked'
  <2>1. \A p \in live', s \in Slots : s \in free'[p] => <<p, s>> \notin flag'
    BY <1>1, <1>2, <1>3 DEF Marked, Apart
  <2>2. \A u \in Threads : pc'[u] = "mark" => reg'[u] \notin flag'
    BY <1>1, <1>2, <1>3, <1>4 DEF Marked, Apart, Busy
  <2> QED
    BY <1>1, <1>3, <1>4, <2>1, <2>2 DEF Marked
<1>12. Finite'
  BY <1>1, <1>4, <1>5, <1>6 DEF Finite, Busy
<1> QED
  BY <1>7, <1>8, <1>9, <1>10, <1>11, <1>12 DEF Inv

LEMMA ZfreeCheckInv ==
  ASSUME Inv, NEW t \in Threads, NEW i \in held, ZfreeCheck(t, i)
  PROVE  Inv'
<1>1. /\ TypeOK /\ Apart /\ ListsSorted /\ CountsTrue /\ NoAbort /\ Marked /\ Finite
      /\ pc[t] = "idle" /\ UNCHANGED <<shared, flag>>
  BY DEF Inv, ZfreeCheck
<1>2. i \in flag /\ i \in Items
  BY <1>1 DEF Marked, TypeOK
<1>3. /\ held' = held \ {i}
      /\ reg' = [reg EXCEPT ![t] = i]
      /\ pc' = [pc EXCEPT ![t] = "put"]
  BY <1>2 DEF ZfreeCheck
<1>4. /\ pc'[t] = "put" /\ reg'[t] = i
      /\ \A u \in Threads : u # t => reg'[u] = reg[u] /\ pc'[u] = pc[u]
  BY <1>1, <1>3 DEF TypeOK
<1>5. Busy' = Busy \cup {t}
  BY <1>4 DEF Busy
<1>6. Hands' = Hands
  <2>1. ASSUME NEW x \in Hands PROVE x \in Hands'
    BY <1>1, <1>3, <1>4, InHands, InHandsNext
  <2>2. ASSUME NEW x \in Hands' PROVE x \in Hands
    BY <1>3, <1>4, InHands, InHandsNext
  <2> QED
    BY <2>1, <2>2
<1> USE DEF shared
<1>7. TypeOK'
  BY <1>1, <1>2, <1>3 DEF TypeOK
<1>8. Apart'
  <2>1. \A u \in Busy' : reg'[u] \notin held'
    BY <1>1, <1>3, <1>4, <1>5 DEF Apart, Busy
  <2>2. \A u, v \in Busy' : u # v => reg'[u] # reg'[v]
    BY <1>1, <1>4, <1>5 DEF Apart, Busy
  <2> QED
    BY <1>1, <1>6, <2>1, <2>2 DEF Apart
<1>9. ListsSorted' /\ CountsTrue'
  BY <1>1, <1>6 DEF ListsSorted, CountsTrue
<1>10. NoAbort'
  BY <1>1, <1>4 DEF NoAbort
<1>11. Marked'
  BY <1>1, <1>2, <1>3, <1>4 DEF Marked
<1>12. Finite'
  BY <1>1, <1>2, <1>4, <1>5, <1>6 DEF Finite, Busy
<1> QED
  BY <1>7, <1>8, <1>9, <1>10, <1>11, <1>12 DEF Inv

-----------------------------------------------------------------------------
(***************************************************************************)
(* The item goes back to its page.  What both ways of ey_zfree have in     *)
(* common: the thread's item leaves the set of items in hands.             *)
(***************************************************************************)
LEMMA GiveBack ==
  ASSUME Inv, NEW t \in Threads, pc[t] = "put",
         pc' = [pc EXCEPT ![t] = "idle"],
         reg' = [reg EXCEPT ![t] = NoItem],
         held' = held
  PROVE  /\ reg[t] \in Hands /\ reg[t] \in live \X Slots /\ reg[t] \in Items
         /\ reg[t][2] \notin free[reg[t][1]]
         /\ Hands' = Hands \ {reg[t]}
         /\ IsFiniteSet(Hands') /\ Cardinality(Hands') = Cardinality(Hands) - 1
         /\ items - 1 \in Nat
         /\ Busy' = Busy \ {t}
         /\ \A u \in Threads : u # t => reg'[u] = reg[u] /\ pc'[u] = pc[u]
         /\ pc'[t] = "idle"
<1> DEFINE i == reg[t]
<1>1. /\ TypeOK /\ Apart /\ CountsTrue /\ Finite
  BY DEF Inv
<1>2. /\ pc'[t] = "idle"
      /\ \A u \in Threads : u # t => reg'[u] = reg[u] /\ pc'[u] = pc[u]
  BY <1>1 DEF TypeOK
<1>3. Busy' = Busy \ {t} /\ t \in Busy
  BY <1>2 DEF Busy
<1>4. i \in Hands /\ i \in live \X Slots /\ i \in Items
  BY <1>1, <1>3, InHands DEF Apart, Finite, Busy
<1>5. i[2] \notin free[i[1]]
  BY <1>1, <1>4 DEF Apart
<1>6. Hands' = Hands \ {i}
  <2>1. ASSUME NEW x \in Hands, x # i PROVE x \in Hands'
    BY <1>2, <2>1, InHands, InHandsNext
  <2>2. ASSUME NEW x \in Hands' PROVE x \in Hands
    BY <1>2, InHands, InHandsNext
  <2>3. i \notin Hands'
    BY <1>1, <1>2, <1>3, InHandsNext DEF Apart, Busy
  <2> QED
    BY <2>1, <2>2, <2>3
<1>7. /\ IsFiniteSet(Hands') /\ Cardinality(Hands') = Cardinality(Hands) - 1
      /\ Cardinality(Hands') \in Nat
  <2>1. IsFiniteSet(Hands \ {i}) /\ Cardinality(Hands \ {i}) = Cardinality(Hands) - 1
    BY <1>1, <1>4, FS_RemoveElement DEF Finite
  <2> QED
    BY <1>6, <2>1, FS_CardinalityType
<1>8. items - 1 \in Nat
  BY <1>1, <1>7 DEF CountsTrue
<1> QED
  BY <1>2, <1>3, <1>4, <1>5, <1>6, <1>7, <1>8

LEMMA ZfreePutInv ==
  ASSUME Inv, NEW t \in Threads, ZfreePut(t)
  PROVE  Inv'
<1> USE PerPageNat
<1> DEFINE i == reg[t]
           p == reg[t][1]
           s == reg[t][2]
<1>1. /\ TypeOK /\ Apart /\ ListsSorted /\ CountsTrue /\ NoAbort /\ Marked /\ Finite
      /\ pc[t] = "put" /\ UNCHANGED <<live, pages, held>>
      /\ pc' = [pc EXCEPT ![t] = "idle"]
      /\ reg' = [reg EXCEPT ![t] = NoItem]
      /\ count[p] + 1 # PerPage
      /\ flag' = flag \ {i}
      /\ free' = [free EXCEPT ![p] = @ \cup {s}]
      /\ count' = [count EXCEPT ![p] = @ + 1]
      /\ full' = IF count'[p] = 1 THEN full \ {p} ELSE full
      /\ avail' = IF count'[p] = 1 THEN avail \cup {p} ELSE avail
      /\ items' = items - 1
  BY DEF Inv, ZfreePut, LastOut
<1>2. /\ i \in Hands /\ i \in live \X Slots /\ i \in Items
      /\ s \notin free[p]
      /\ Hands' = Hands \ {i}
      /\ IsFiniteSet(Hands') /\ Cardinality(Hands') = Cardinality(Hands) - 1
      /\ items - 1 \in Nat
      /\ Busy' = Busy \ {t}
      /\ \A u \in Threads : u # t => reg'[u] = reg[u] /\ pc'[u] = pc[u]
      /\ pc'[t] = "idle"
  BY <1>1, GiveBack
<1>3. p \in live /\ p \in Pages /\ s \in Slots /\ i = <<p, s>>
  BY <1>1, <1>2 DEF TypeOK
<1> HIDE DEF i, p, s
<1>4. /\ free'[p] = free[p] \cup {s} /\ count'[p] = count[p] + 1
      /\ \A q \in Pages : q # p => free'[q] = free[q] /\ count'[q] = count[q]
  BY <1>1, <1>3 DEF TypeOK
<1>5. /\ count[p] \in 0..PerPage /\ count[p] = Cardinality(free[p])
      /\ count[p] + 1 < PerPage
      /\ Cardinality(free[p] \cup {s}) = count[p] + 1
  <2>1. /\ count[p] \in 0..PerPage /\ count[p] = Cardinality(free[p])
        /\ count[p] < PerPage /\ free[p] \in SUBSET Slots
    BY <1>1, <1>3 DEF TypeOK, ListsSorted
  <2>2. Cardinality(free[p] \cup {s}) = count[p] + 1
    BY <1>2, <2>1, FreeBound, FS_AddElement
  <2> QED
    BY <1>1, <2>1, <2>2
<1>6. TypeOK'
  <2>1. reg' \in [Threads -> Items \cup {NoItem}]
    BY <1>1 DEF TypeOK
  <2>2. pc' \in [Threads -> {"idle", "mark", "put", "abort"}]
    BY <1>1 DEF TypeOK
  <2>3. count' \in [Pages -> 0..PerPage]
    <3>1. count[p] + 1 \in 0..PerPage
      BY <1>5
    <3> QED
      BY <1>1, <3>1 DEF TypeOK
  <2>4. free' \in [Pages -> SUBSET Slots]
    BY <1>1, <1>3 DEF TypeOK
  <2>5. avail' \subseteq Pages /\ full' \subseteq Pages
    BY <1>1, <1>3 DEF TypeOK
  <2> QED
    BY <1>1, <1>2, <2>1, <2>2, <2>3, <2>4, <2>5 DEF TypeOK
<1>7. Apart'
  <2>1. \A u \in Busy' : reg'[u] \notin held'
    BY <1>1, <1>2 DEF Apart, Busy
  <2>2. \A u, v \in Busy' : u # v => reg'[u] # reg'[v]
    BY <1>1, <1>2 DEF Apart, Busy
  <2>3. Hands' \subseteq live' \X Slots
    BY <1>1, <1>2 DEF Apart
  <2>4. ASSUME NEW q \in live', NEW r \in Slots
        PROVE  r \in free'[q] <=> <<q, r>> \notin Hands'
    <3>1. CASE q = p
      BY <1>1, <1>2, <1>3, <1>4, <3>1 DEF Apart
    <3>2. CASE q # p
      BY <1>1, <1>2, <1>3, <1>4, <3>2 DEF Apart, TypeOK
    <3> QED
      BY <3>1, <3>2
  <2> QED
    BY <2>1, <2>2, <2>3, <2>4 DEF Apart
<1>8. ListsSorted'
  <2>1. ASSUME NEW q \in Pages
        PROVE  /\ q \in avail' <=> q \in live' /\ count'[q] # 0
               /\ q \in full' <=> q \in live' /\ count'[q] = 0
    <3>1. CASE q = p
      BY <1>1, <1>3, <1>4, <1>5, <3>1 DEF ListsSorted
    <3>2. CASE q # p
      BY <1>1, <1>4, <3>2 DEF ListsSorted
    <3> QED
      BY <3>1, <3>2
  <2>2. ASSUME NEW q \in live'
        PROVE  count'[q] = Cardinality(free'[q]) /\ count'[q] < PerPage
    <3>1. CASE q = p
      <4>1. Cardinality(free'[q]) = Cardinality(free[p] \cup {s})
        BY <1>4, <3>1
      <4> QED
        BY <1>4, <1>5, <3>1, <4>1
    <3>2. CASE q # p
      <4>1. q \in Pages /\ q \in live
        BY <1>6, <1>1 DEF TypeOK
      <4> QED
        BY <1>1, <1>4, <3>2, <4>1 DEF ListsSorted
    <3> QED
      BY <3>1, <3>2
  <2>3. live' \subseteq Pages /\ avail' \subseteq Pages /\ full' \subseteq Pages
    BY <1>6 DEF TypeOK
  <2> QED
    BY <2>1, <2>2, <2>3 DEF ListsSorted
<1>9. CountsTrue'
  BY <1>1, <1>2 DEF CountsTrue
<1>10. NoAbort'
  BY <1>1, <1>2 DEF NoAbort
<1>11. Marked'
  <2>1. \A x \in held' : x \in flag'
    BY <1>1, <1>2 DEF Marked, Apart, Busy, i
  <2>2. \A u \in Threads : pc'[u] = "put" => reg'[u] \in flag'
    BY <1>1, <1>2 DEF Marked, Apart, Busy, i
  <2>3. \A u \in Threads : pc'[u] = "mark" => reg'[u] \notin flag'
    BY <1>1, <1>2 DEF Marked
  <2>4. ASSUME NEW q \in live', NEW r \in Slots, r \in free'[q]
        PROVE  <<q, r>> \notin flag'
    <3>1. CASE q = p /\ r = s
      BY <1>1, <1>3, <3>1
    <3>2. CASE ~(q = p /\ r = s)
      <4>1. q \in live /\ q \in Pages /\ r \in free[q]
        BY <1>1, <1>4, <2>4, <3>2 DEF TypeOK
      <4> QED
        BY <1>1, <4>1 DEF Marked
    <3> QED
      BY <3>1, <3>2
  <2> QED
    BY <2>1, <2>2, <2>3, <2>4 DEF Marked
<1>12. Finite'
  BY <1>1, <1>2 DEF Finite, Busy
<1> QED
  BY <1>6, <1>7, <1>8, <1>9, <1>10, <1>11, <1>12 DEF Inv

\* The page goes back to malloc: the item was the last one on it.
LEMMA ZfreePageInv ==
  ASSUME Inv, NEW t \in Threads, ZfreePage(t)
  PROVE  Inv'
<1> USE PerPageNat
<1> DEFINE i == reg[t]
           p == reg[t][1]
           s == reg[t][2]
<1>1. /\ TypeOK /\ Apart /\ ListsSorted /\ CountsTrue /\ NoAbort /\ Marked /\ Finite
      /\ pc[t] = "put" /\ UNCHANGED <<full, free, count, flag, held>>
      /\ pc' = [pc EXCEPT ![t] = "idle"]
      /\ reg' = [reg EXCEPT ![t] = NoItem]
      /\ count[p] + 1 = PerPage
      /\ avail' = avail \ {p} /\ live' = live \ {p}
      /\ pages' = pages - 1 /\ items' = items - 1
  BY DEF Inv, ZfreePage, LastOut
<1>2. /\ i \in Hands /\ i \in live \X Slots /\ i \in Items
      /\ s \notin free[p]
      /\ Hands' = Hands \ {i}
      /\ IsFiniteSet(Hands') /\ Cardinality(Hands') = Cardinality(Hands) - 1
      /\ items - 1 \in Nat
      /\ Busy' = Busy \ {t}
      /\ \A u \in Threads : u # t => reg'[u] = reg[u] /\ pc'[u] = pc[u]
      /\ pc'[t] = "idle"
  BY <1>1, GiveBack
<1>3. p \in live /\ p \in Pages /\ s \in Slots /\ i = <<p, s>>
  BY <1>1, <1>2 DEF TypeOK
<1> HIDE DEF i, p, s
<1>4. free[p] = Slots \ {s}
  <2>1. /\ count[p] \in 0..PerPage /\ count[p] = Cardinality(free[p])
        /\ free[p] \in SUBSET Slots
    BY <1>1, <1>3 DEF TypeOK, ListsSorted
  <2>2. Cardinality(free[p] \cup {s}) = count[p] + 1
    BY <1>2, <2>1, FreeBound, FS_AddElement
  <2>3. free[p] \cup {s} = Slots
    BY <1>1, <1>3, <2>1, <2>2, FreeBound
  <2> QED
    BY <1>2, <2>3
<1>5. \A x \in Hands' : x[1] # p
  <2>1. ASSUME NEW x \in Hands, x[1] = p PROVE x = i
    <3>1. x = <<p, x[2]>> /\ x[2] \in Slots
      BY <1>1, <2>1 DEF Apart
    <3>2. x[2] \notin free[p]
      BY <1>1, <1>3, <3>1 DEF Apart
    <3> QED
      BY <1>3, <1>4, <3>1, <3>2
  <2> QED
    BY <1>2, <2>1
<1>6. /\ IsFiniteSet(live') /\ Cardinality(live') = Cardinality(live) - 1
      /\ pages' = Cardinality(live') /\ pages' \in Nat
  <2>1. /\ IsFiniteSet(live \ {p})
        /\ Cardinality(live \ {p}) = Cardinality(live) - 1
    BY <1>1, <1>3, FS_RemoveElement DEF Finite
  <2>2. Cardinality(live \ {p}) \in Nat
    BY <2>1, FS_CardinalityType
  <2> QED
    BY <1>1, <2>1, <2>2 DEF CountsTrue
<1>7. TypeOK'
  BY <1>1, <1>2, <1>6 DEF TypeOK
<1>8. Apart'
  <2>1. \A u \in Busy' : reg'[u] \notin held'
    BY <1>1, <1>2 DEF Apart, Busy
  <2>2. \A u, v \in Busy' : u # v => reg'[u] # reg'[v]
    BY <1>1, <1>2 DEF Apart, Busy
  <2>3. Hands' \subseteq live' \X Slots
    BY <1>1, <1>2, <1>5 DEF Apart
  <2>4. \A q \in live', r \in Slots : r \in free'[q] <=> <<q, r>> \notin Hands'
    BY <1>1, <1>2, <1>3 DEF Apart
  <2> QED
    BY <2>1, <2>2, <2>3, <2>4 DEF Apart
<1>9. ListsSorted'
  <2>1. count[p] # 0
    BY <1>1, <1>3 DEF TypeOK
  <2> QED
    BY <1>1, <1>3, <2>1 DEF ListsSorted
<1>10. CountsTrue'
  BY <1>1, <1>2, <1>6 DEF CountsTrue
<1>11. NoAbort'
  BY <1>1, <1>2 DEF NoAbort
<1>12. Marked'
  BY <1>1, <1>2 DEF Marked
<1>13. Finite'
  BY <1>1, <1>2, <1>6 DEF Finite, Busy
<1> QED
  BY <1>7, <1>8, <1>9, <1>10, <1>11, <1>12, <1>13 DEF Inv

LEMMA ZclearInv ==
  ASSUME Inv, Zclear
  PROVE  Inv'
<1>1. Hands' = {} /\ Busy' = {}
  BY DEF Zclear, Hands, Busy
<1>2. TypeOK'
  BY DEF Zclear, Inv, TypeOK
<1>3. CountsTrue' /\ Finite'
  BY <1>1, FS_EmptySet DEF Zclear, CountsTrue, Finite
<1>4. Apart' /\ ListsSorted' /\ NoAbort' /\ Marked'
  BY <1>1 DEF Zclear, Apart, ListsSorted, NoAbort, Marked
<1> QED
  BY <1>2, <1>3, <1>4 DEF Inv

LEMMA NextInv ==
  ASSUME Inv, [Next]_vars
  PROVE  Inv'
<1>1. ASSUME NEW t \in Threads, ZallocTake(t) PROVE Inv'
  BY <1>1, ZallocTakeInv
<1>2. ASSUME NEW t \in Threads, ZallocPage(t) PROVE Inv'
  BY <1>2, ZallocPageInv
<1>3. ASSUME NEW t \in Threads, ZallocMark(t) PROVE Inv'
  BY <1>3, ZallocMarkInv
<1>4. ASSUME NEW t \in Threads, NEW i \in held, ZfreeCheck(t, i) PROVE Inv'
  BY <1>4, ZfreeCheckInv
<1>5. ASSUME NEW t \in Threads, ZfreePage(t) PROVE Inv'
  BY <1>5, ZfreePageInv
<1>6. ASSUME NEW t \in Threads, ZfreePut(t) PROVE Inv'
  BY <1>6, ZfreePutInv
<1>7. CASE Zclear
  BY <1>7, ZclearInv
<1>8. CASE UNCHANGED vars
  BY <1>8 DEF vars, shared, Inv, TypeOK, Apart, ListsSorted, CountsTrue, NoAbort,
              Marked, Finite, Hands, Busy
<1> QED
  BY <1>1, <1>2, <1>3, <1>4, <1>5, <1>6, <1>7, <1>8 DEF Next

THEOREM AlwaysInv == Spec => []Inv
<1>1. Init => Inv
  BY InitInv
<1>2. Inv /\ [Next]_vars => Inv'
  BY NextInv
<1> QED
  BY <1>1, <1>2, PTL DEF Spec

-----------------------------------------------------------------------------
(***************************************************************************)
(* ey_slab.c keeps its variables in their types: no counter goes below     *)
(* zero or, for free_count, beyond item_count_per_page.                    *)
(***************************************************************************)
THEOREM TypeCorrect == Spec => []TypeOK
<1>1. Inv => TypeOK
  BY DEF Inv
<1> QED
  BY <1>1, AlwaysInv, PTL

(***************************************************************************)
(* ey_zalloc and ey_zfree never give one item to two, never give a page    *)
(* back to malloc that has an item in use, and lose no item.               *)
(***************************************************************************)
THEOREM AlwaysApart == Spec => []Apart
<1>1. Inv => Apart
  BY DEF Inv
<1> QED
  BY <1>1, AlwaysInv, PTL

(***************************************************************************)
(* The page lists, free_count and the free lists agree, and no empty page  *)
(* is kept.                                                                *)
(***************************************************************************)
THEOREM AlwaysSorted == Spec => []ListsSorted
<1>1. Inv => ListsSorted
  BY DEF Inv
<1> QED
  BY <1>1, AlwaysInv, PTL

(***************************************************************************)
(* page_count is the number of pages, alloc_item_count that of the items   *)
(* in somebody's hands.                                                    *)
(***************************************************************************)
THEOREM AlwaysCounted == Spec => []CountsTrue
<1>1. Inv => CountsTrue
  BY DEF Inv
<1> QED
  BY <1>1, AlwaysInv, PTL

(***************************************************************************)
(* The checks of the item flag outside the lock never stop a program whose *)
(* callers free each item once.                                            *)
(***************************************************************************)
THEOREM NeverAborts == Spec => []NoAbort
<1>1. Inv => NoAbort
  BY DEF Inv
<1> QED
  BY <1>1, AlwaysInv, PTL

-----------------------------------------------------------------------------
(* The sized allocator.                                                      *)

FTypeOK ==
  /\ slabbed \in BOOLEAN
  /\ size \in [Blocks -> Nat]
  /\ blocks \subseteq Chunks /\ list \subseteq Chunks
  /\ fpc \in [Threads -> {"idle", "insert", "remove"}]
  /\ block \in [Threads -> Blocks \cup {NoItem}]
  /\ old \in [Threads -> Blocks \cup {NoItem}]
  /\ fate \in {"running", "gone", "race", "stale", "abort", "wild"}

Sized ==
  /\ \A i \in Hands : slabbed /\ size[i] <= ItemSize
  /\ fate = "running" => \A b \in blocks : ~slabbed \/ size[b] > ItemSize

Alone ==
  fate = "running" =>
    \A t \in Threads : fpc[t] # "idle" =>
      /\ list \subseteq blocks
      /\ block[t] \in Chunks
      /\ \A u \in Threads : fpc[u] # "idle" => u = t

Inserted == {block[t] : t \in {u \in Threads : fpc[u] = "insert"}}

FInv == FTypeOK /\ Sized /\ Alone /\ Kept /\ BlocksAccounted

-----------------------------------------------------------------------------
(* The slab under the sized allocator.                                     *)

LEMMA StepOfSlab == [FNext]_<<slabVars, fvars>> => [Next]_vars
<1> SUFFICES ASSUME [FNext]_<<slabVars, fvars>> PROVE [Next]_vars
  OBVIOUS
<1>1. ASSUME NEW t \in Threads, NEW n \in Sizes,
             FzallocLarge(t, n) \/ FzallocSmall(t, n)
      PROVE  [Next]_vars
  <2>1. CASE FzallocLarge(t, n)
    BY <2>1 DEF FzallocLarge, slabVars
  <2>2. CASE FzallocSmall(t, n)
    BY <2>2 DEF FzallocSmall, Next
  <2> QED
    BY <1>1, <2>1, <2>2
<1>2. ASSUME NEW t \in Threads, NEW n \in Sizes, Fzalloc(t, n) PROVE [Next]_vars
  BY <1>1, <1>2 DEF Fzalloc
<1>3. ASSUME NEW t \in Threads, NEW n \in Sizes, NEW b, Fzrealloc(t, b, n)
      PROVE  [Next]_vars
  BY <1>1, <1>3 DEF Fzrealloc
<1>4. ASSUME NEW t \in Threads, FzallocLink(t) \/ FzfreeUnlink(t) PROVE [Next]_vars
  BY <1>4 DEF FzallocLink, FzfreeUnlink, slabVars
<1>5. ASSUME NEW t \in Threads, FzallocMark(t) PROVE [Next]_vars
  BY <1>5 DEF FzallocMark, Next
<1>6. ASSUME NEW t \in Threads, NEW b \in Blocks, FzfreeTake(t, b) PROVE [Next]_vars
  <2>1. ZfreeCheck(t, b) \/ UNCHANGED vars
    BY <1>6 DEF FzfreeTake, slabVars
  <2>2. CASE ZfreeCheck(t, b)
    BY <2>2 DEF ZfreeCheck, Next
  <2> QED
    BY <2>1, <2>2
<1>7. ASSUME NEW t \in Threads, FzfreePut(t) PROVE [Next]_vars
  BY <1>7 DEF FzfreePut, Next
<1>8. CASE Fzclear \/ Fzfinit
  BY <1>8 DEF Fzclear, Fzfinit, Clear, Next
<1>9. CASE UNCHANGED <<slabVars, fvars>>
  BY <1>9 DEF slabVars
<1> QED
  BY <1>2, <1>3, <1>4, <1>5, <1>6, <1>7, <1>8, <1>9 DEF FNext

(***************************************************************************)
(* ey_fslab.c keeps the rules of ey_slab.c: whatever the threads allocate, *)
(* reallocate and free, the slab below sees only what its users may do.    *)
(***************************************************************************)
THEOREM FslabImplementsSlab == FSpec => Spec
<1>1. FInit => Init
  BY DEF FInit
<1> QED
  BY <1>1, StepOfSlab, PTL DEF FSpec, Spec

(***************************************************************************)
(* So no item of the slab is in two places under the sized allocator       *)
(* either, its lists and counters are right, and it never crashes.         *)
(***************************************************************************)
THEOREM SlabBelow == FSpec => [](TypeOK /\ Apart /\ ListsSorted /\ CountsTrue /\ NoAbort)
<1>1. Inv => TypeOK /\ Apart /\ ListsSorted /\ CountsTrue /\ NoAbort
  BY DEF Inv
<1> QED
  BY <1>1, FslabImplementsSlab, AlwaysInv, PTL

-----------------------------------------------------------------------------
(* The blocks.                                                             *)

LEMMA ItemsApart ==
  /\ Items \subseteq Blocks /\ Chunks \subseteq Blocks
  /\ \A b \in Chunks : b \notin Items
  /\ NoItem \notin Blocks
<1>1. NoItem \notin Items
  BY DEF NoItem, Items
<1> QED
  BY <1>1, FslabAssumption DEF Blocks

LEMMA InHandsAreItems == Inv => Hands \subseteq Items
BY DEF Inv, TypeOK, Finite, Hands, Busy

LEMMA FInitInv == FInit => FInv
<1> SUFFICES ASSUME FInit PROVE FInv
  OBVIOUS
<1> USE DEF FInit
<1>1. FTypeOK
  BY DEF FTypeOK
<1>2. Hands = {}
  BY DEF Init, Hands, Busy
<1>3. Sized /\ Alone /\ Kept
  BY <1>2 DEF Sized, Alone, Kept
<1>4. BlocksAccounted
  BY <1>2, <1>3 DEF BlocksAccounted
<1> QED
  BY <1>1, <1>3, <1>4 DEF FInv

\* What a thread that starts to link or unlink leaves behind.
LEMMA Entering ==
  ASSUME FInv, NEW t \in Threads, NEW step \in {"insert", "remove"},
         NEW b \in Chunks, fate = "running", Enter(t, step, b)
  PROVE  /\ block' \in [Threads -> Blocks \cup {NoItem}]
         /\ fpc' \in [Threads -> {"idle", "insert", "remove"}]
         /\ block'[t] = b /\ fpc'[t] = step
         /\ \A u \in Threads : u # t => block'[u] = block[u] /\ fpc'[u] = fpc[u]
         /\ fate' \in {"running", "race", "stale"}
         /\ fate' = "running" => list \subseteq blocks /\ \A u \in Threads : fpc[u] = "idle"
BY ItemsApart DEF FInv, FTypeOK, Enter

\* Whoever starts to replace a block is the only one to touch it.
LEMMA OldKept ==
  ASSUME Inv, FInv, NEW t \in Threads, fate = "running",
         old' = old \/ \E b \in Callers : old' = [old EXCEPT ![t] = b],
         held' = held, blocks \subseteq blocks',
         \A u \in Threads : fpc'[u] = "remove" => fpc[u] = "remove" /\ block'[u] = block[u]
  PROVE  Kept'
<1>1. CASE old' = old
  BY <1>1 DEF FInv, Kept
<1>2. CASE \E b \in Callers : old' = [old EXCEPT ![t] = b]
  <2>1. PICK b \in Callers : old' = [old EXCEPT ![t] = b]
    BY <1>2
  <2>2. /\ old'[t] = b
        /\ \A u \in Threads : u # t => old'[u] = old[u]
    BY <2>1 DEF FInv, FTypeOK
  <2>3. /\ b \in held \cup blocks
        /\ \A u \in Threads : old[u] # b
    BY DEF Callers
  <2>4. ASSUME NEW u \in Threads, fpc[u] = "remove" PROVE block[u] # b
    <3>1. block[u] \in Chunks
      BY <2>4 DEF FInv, Alone
    <3>2. b \in Items \/ block[u] # b
      BY DEF Callers, Inv, TypeOK
    <3> QED
      BY <3>1, <3>2, ItemsApart
  <2> QED
    BY <2>2, <2>3, <2>4 DEF FInv, Kept
<1> QED
  BY <1>1, <1>2

LEMMA FzallocLargeInv ==
  ASSUME Inv, FInv, NEW t \in Threads, NEW n \in Sizes, FzallocLarge(t, n),
         old' = old \/ \E b \in Callers : old' = [old EXCEPT ![t] = b]
  PROVE  FInv'
<1> USE DEF FzallocLarge
<1> PICK b \in Chunks \ (blocks \cup list) :
       /\ blocks' = blocks \cup {b}
       /\ size' = [size EXCEPT ![b] = n]
       /\ Enter(t, "insert", b)
  OBVIOUS
<1>0. fate = "running" /\ pc[t] = "idle" /\ fpc[t] = "idle" /\ OnList(n)
  BY DEF Outside
<1>e. /\ block' \in [Threads -> Blocks \cup {NoItem}]
      /\ fpc' \in [Threads -> {"idle", "insert", "remove"}]
      /\ block'[t] = b /\ fpc'[t] = "insert"
      /\ \A u \in Threads : u # t => block'[u] = block[u] /\ fpc'[u] = fpc[u]
      /\ fate' \in {"running", "race", "stale"}
      /\ fate' = "running" => list \subseteq blocks /\ \A u \in Threads : fpc[u] = "idle"
  BY <1>0, Entering
<1>s. UNCHANGED <<pc, reg, held, live>> /\ Hands' = Hands
  BY DEF slabVars, vars, shared, Hands, Busy
<1>c. Callers \subseteq held \cup blocks /\ Callers \subseteq Blocks
  BY ItemsApart DEF Callers, Inv, TypeOK, FInv, FTypeOK
<1>1. FTypeOK'
  BY <1>e, <1>c, FslabAssumption, ItemsApart DEF FInv, FTypeOK
<1>2. Sized'
  <2>1. \A i \in Hands : size'[i] = size[i]
    BY InHandsAreItems, ItemsApart DEF FInv, FTypeOK
  <2>2. \A c \in blocks : size'[c] = size[c]
    BY DEF FInv, FTypeOK
  <2>3. size'[b] = n
    BY ItemsApart DEF FInv, FTypeOK
  <2> QED
    BY <1>0, <1>s, <2>1, <2>2, <2>3 DEF FInv, Sized, OnList
<1>3. Alone'
  BY <1>e DEF Alone
<1>4. Kept'
  <2>1. /\ held' = held /\ blocks \subseteq blocks'
        /\ \A u \in Threads : fpc'[u] = "remove" => fpc[u] = "remove" /\ block'[u] = block[u]
    BY <1>e, <1>s
  <2> QED
    BY <1>0, <2>1, OldKept
<1>5. BlocksAccounted'
  <2>1. fate' # "wild" /\ fate' # "gone"
    BY <1>e
  <2>2. ASSUME fate' = "running", list' \subseteq blocks'
        PROVE  blocks' = list' \cup Inserted'
    <3>1. Inserted' = {b} /\ Inserted = {}
      BY <2>2, <1>e DEF Inserted
    <3> QED
      BY <2>2, <3>1, <1>e, <1>0 DEF FInv, BlocksAccounted, Inserted
  <2> QED
    BY <2>1, <2>2, <1>2, <1>4 DEF BlocksAccounted, Inserted, Sized
<1> QED
  BY <1>1, <1>2, <1>3, <1>4, <1>5 DEF FInv

LEMMA FzallocSmallInv ==
  ASSUME Inv, FInv, NEW t \in Threads, NEW n \in Sizes, FzallocSmall(t, n),
         old' = old \/ \E b \in Callers : old' = [old EXCEPT ![t] = b]
  PROVE  FInv'
<1> USE DEF FzallocSmall
<1>0. fate = "running" /\ slabbed /\ n <= ItemSize /\ n \in Nat
  BY FslabAssumption DEF Outside, OnList
<1>s. /\ held' = held /\ pc' = [pc EXCEPT ![t] = "mark"]
      /\ \E i \in Items : reg' = [reg EXCEPT ![t] = i]
  <2>1. CASE ZallocTake(t)
    BY <2>1 DEF ZallocTake, Take, Inv, TypeOK, Items
  <2>2. CASE ZallocPage(t)
    BY <2>2 DEF ZallocPage, Take, Items
  <2> QED
    BY <2>1, <2>2
<1> PICK i \in Items : reg' = [reg EXCEPT ![t] = i]
  BY <1>s
<1>i. reg'[t] = i
  BY DEF Inv, TypeOK
<1>h. \A j \in Hands' : j = i \/ j \in Hands
  BY <1>s, InHands, InHandsNext DEF Inv, TypeOK
<1>z. /\ size' \in [Blocks -> Nat] /\ size'[i] = n
      /\ \A j \in Blocks : j # i => size'[j] = size[j]
  BY <1>0, <1>i, ItemsApart DEF FInv, FTypeOK
<1>c. Callers \subseteq held \cup blocks /\ Callers \subseteq Blocks
  BY ItemsApart DEF Callers, Inv, TypeOK, FInv, FTypeOK
<1>1. FTypeOK'
  BY <1>z, <1>c DEF FInv, FTypeOK
<1>2. Sized'
  <2>1. \A j \in Hands : j \in Blocks
    BY InHandsAreItems, ItemsApart
  <2>2. \A b \in blocks : b \in Blocks /\ b # i
    BY ItemsApart DEF FInv, FTypeOK
  <2> QED
    BY <2>1, <2>2, <1>0, <1>h, <1>z DEF FInv, Sized
<1>3. Alone'
  BY DEF Alone, FInv
<1>4. Kept'
  BY <1>0, <1>s, OldKept
<1>5. BlocksAccounted'
  BY <1>0, <1>2, <1>4 DEF FInv, BlocksAccounted, Sized
<1> QED
  BY <1>1, <1>2, <1>3, <1>4, <1>5 DEF FInv

LEMMA FzallocLinkInv ==
  ASSUME Inv, FInv, NEW t \in Threads, FzallocLink(t)
  PROVE  FInv'
<1> USE DEF FzallocLink
<1>0. /\ fate = "running" /\ fpc[t] = "insert"
      /\ fate' \in {"running", "abort"}
      /\ list \subseteq blocks /\ block[t] \in Chunks
      /\ \A u \in Threads : fpc'[u] = "idle"
  BY DEF FInv, Alone, FTypeOK, Replaces
<1>s. UNCHANGED <<pc, reg, held, live>> /\ Hands' = Hands
  BY DEF slabVars, vars, shared, Hands, Busy
<1>1. FTypeOK'
  BY <1>0 DEF FInv, FTypeOK
<1>2. Sized'
  BY <1>s DEF FInv, Sized
<1>3. Alone'
  BY <1>0 DEF Alone
<1>4. Kept'
  BY <1>0, <1>s DEF FInv, Kept
<1>5. BlocksAccounted'
  <2>1. blocks = list \cup Inserted
    BY <1>0 DEF FInv, BlocksAccounted, Inserted
  <2>2. Inserted = {block[t]} /\ Inserted' = {}
    BY <1>0 DEF FInv, Alone, Inserted
  <2> QED
    BY <2>1, <2>2, <1>0, <1>2, <1>4 DEF BlocksAccounted, Inserted, Sized
<1> QED
  BY <1>1, <1>2, <1>3, <1>4, <1>5 DEF FInv

LEMMA FzallocMarkInv ==
  ASSUME Inv, FInv, NEW t \in Threads, FzallocMark(t)
  PROVE  FInv'
<1> USE DEF FzallocMark
<1>0. fate = "running" /\ fate' \in {"running", "abort"}
  BY DEF Replaces
<1>s. held \subseteq held' /\ \A j \in Hands' : j \in Hands
  BY InHands, InHandsNext DEF ZallocMark, Inv, TypeOK
<1>1. FTypeOK'
  BY <1>0 DEF FInv, FTypeOK
<1>2. Sized'
  BY <1>s DEF FInv, Sized
<1>3. Alone'
  BY <1>0 DEF FInv, Alone
<1>4. Kept'
  BY <1>s DEF FInv, Kept
<1>5. BlocksAccounted'
  BY <1>0, <1>2, <1>4 DEF FInv, BlocksAccounted, Sized
<1> QED
  BY <1>1, <1>2, <1>3, <1>4, <1>5 DEF FInv

LEMMA FzfreeTakeInv ==
  ASSUME Inv, FInv, NEW t \in Threads, NEW b \in Blocks, FzfreeTake(t, b)
  PROVE  FInv'
<1> USE DEF FzfreeTake
<1>0. fate = "running" /\ fpc[t] = "idle"
  BY DEF Outside
<1>b. b \in held \cup blocks
  <2>1. CASE Ready(t)
    BY <2>1 DEF Callers
  <2>2. CASE ~Ready(t)
    BY <2>2 DEF Ready, FInv, Kept
  <2> QED
    BY <2>1, <2>2
<1>o. /\ old'[t] = NoItem
      /\ \A u \in Threads : u # t => old'[u] = old[u] /\ old[u] # b
  <2>1. \A u \in Threads : u # t => old[u] # b
    <3>1. CASE Ready(t)
      BY <3>1 DEF Callers
    <3>2. CASE ~Ready(t)
      BY <3>2, <1>b, ItemsApart DEF Ready, FInv, Kept
    <3> QED
      BY <3>1, <3>2
  <2> QED
    BY <2>1 DEF FInv, FTypeOK
\* Whatever block it is that t gives back, nobody is replacing it.
<1>4. ASSUME held' = held \/ held' = held \ {b}, blocks' = blocks,
             \A u \in Threads : fpc'[u] = "remove" =>
               \/ block'[u] = b
               \/ fpc[u] = "remove" /\ block'[u] = block[u]
      PROVE  Kept'
  BY <1>4, <1>o DEF FInv, Kept
<1>5. CASE FromList(size[b]) /\ b \in Chunks
  <2>0. Enter(t, "remove", b) /\ UNCHANGED slabVars
    BY <1>5, ItemsApart DEF FromList
  <2>e. /\ block' \in [Threads -> Blocks \cup {NoItem}]
        /\ fpc' \in [Threads -> {"idle", "insert", "remove"}]
        /\ block'[t] = b /\ fpc'[t] = "remove"
        /\ \A u \in Threads : u # t => block'[u] = block[u] /\ fpc'[u] = fpc[u]
        /\ fate' \in {"running", "race", "stale"}
        /\ fate' = "running" => list \subseteq blocks /\ \A u \in Threads : fpc[u] = "idle"
    BY <1>0, <1>5, <2>0, Entering
  <2>s. Hands' = Hands
    BY <2>0 DEF slabVars, vars, Hands, Busy
  <2>1. FTypeOK'
    BY <2>e DEF FInv, FTypeOK
  <2>2. Sized'
    BY <1>0, <2>s DEF FInv, Sized
  <2>3. Alone'
    BY <2>e, <1>5 DEF Alone
  <2>k. Kept'
    BY <1>4, <2>0, <2>e DEF slabVars, vars
  <2>4. BlocksAccounted'
    <3>1. ASSUME fate' = "running" PROVE Inserted' = {} /\ Inserted = {}
      BY <3>1, <2>e DEF Inserted
    <3> QED
      BY <3>1, <1>0, <2>k, <2>e, <2>2 DEF FInv, BlocksAccounted, Inserted, Sized
  <2> QED
    BY <2>1, <2>2, <2>3, <2>4, <2>k DEF FInv
<1>6. CASE ~FromList(size[b]) /\ b \in Items
  <2>0. ZfreeCheck(t, b) /\ UNCHANGED <<fpc, block, fate>>
    BY <1>6, ItemsApart
  <2>s. \A j \in Hands' : j \in Hands
    BY <2>0, InHands, InHandsNext DEF ZfreeCheck, Inv, TypeOK
  <2>1. FTypeOK'
    BY <2>0 DEF FInv, FTypeOK
  <2>2. Sized'
    BY <1>0, <2>s DEF FInv, Sized
  <2>3. Alone'
    BY <2>0 DEF FInv, Alone
  <2>k. Kept'
    BY <1>4, <2>0 DEF ZfreeCheck
  <2>4. BlocksAccounted'
    BY <2>0, <2>2, <1>0, <2>k DEF FInv, BlocksAccounted, Sized
  <2> QED
    BY <2>1, <2>2, <2>3, <2>4, <2>k DEF FInv
<1>7. CASE FromList(size[b]) <=> b \in Items
  <2>0. /\ fate' = "wild" /\ block' = [block EXCEPT ![t] = b]
        /\ UNCHANGED <<slabVars, fpc>>
    BY <1>7, ItemsApart DEF Blocks
  <2>s. Hands' = Hands
    BY <2>0 DEF slabVars, vars, Hands, Busy
  <2>1. FTypeOK'
    BY <2>0 DEF FInv, FTypeOK
  <2>2. Sized'
    BY <1>0, <2>s DEF FInv, Sized
  <2>3. Alone'
    BY <2>0 DEF Alone
  <2>4. size[b] = ItemSize
    <3>1. CASE b \in held
      <4>1. b \in Items /\ slabbed /\ size[b] <= ItemSize
        BY <3>1 DEF FInv, Sized, Hands, Inv, TypeOK
      <4>2. size[b] >= ItemSize
        BY <1>7, <4>1, ItemsApart DEF FromList
      <4> QED
        BY <4>1, <4>2, FslabAssumption DEF FInv, FTypeOK
    <3>2. CASE b \in blocks
      <4>1. b \in Chunks /\ (~slabbed \/ size[b] > ItemSize)
        BY <1>0, <3>2 DEF FInv, Sized, FTypeOK
      <4>2. slabbed /\ ~(size[b] >= ItemSize)
        BY <1>7, <4>1, ItemsApart DEF FromList
      <4> QED
        BY <4>1, <4>2, FslabAssumption DEF FInv, FTypeOK
    <3> QED
      BY <1>b, <3>1, <3>2
  <2>5. block'[t] # NoItem /\ size'[block'[t]] = ItemSize
    BY <2>0, <2>4, ItemsApart DEF FInv, FTypeOK
  <2>k. Kept'
    <3>1. \A u \in Threads : fpc'[u] = "remove" =>
            block'[u] = b \/ (fpc[u] = "remove" /\ block'[u] = block[u])
      BY <2>0 DEF FInv, FTypeOK
    <3> QED
      BY <1>4, <2>0, <3>1 DEF slabVars, vars
  <2>6. BlocksAccounted'
    BY <2>0, <2>2, <2>5, <2>k DEF BlocksAccounted, Sized
  <2> QED
    BY <2>1, <2>2, <2>3, <2>6, <2>k DEF FInv
<1> QED
  BY <1>5, <1>6, <1>7

LEMMA FzfreeUnlinkInv ==
  ASSUME Inv, FInv, NEW t \in Threads, FzfreeUnlink(t)
  PROVE  FInv'
<1> USE DEF FzfreeUnlink
<1>0. /\ fate = "running" /\ fpc[t] = "remove"
      /\ list \subseteq blocks /\ block[t] \in Chunks
      /\ \A u \in Threads : u # t => fpc[u] = "idle"
      /\ \A u \in Threads : fpc'[u] = "idle"
  BY DEF FInv, Alone, FTypeOK
<1>s. UNCHANGED <<pc, reg, held, live>> /\ Hands' = Hands
  BY DEF slabVars, vars, shared, Hands, Busy
<1>z. /\ size' \in [Blocks -> Nat]
      /\ \A c \in Blocks : c # block[t] => size'[c] = size[c]
  BY <1>0, ItemsApart DEF FInv, FTypeOK
<1>1. FTypeOK'
  BY <1>z DEF FInv, FTypeOK
<1>2. Sized'
  <2>1. \A j \in Hands : j \in Blocks /\ j # block[t]
    BY <1>0, InHandsAreItems, ItemsApart
  <2>2. \A c \in blocks' : c \in Blocks /\ c \in blocks /\ c # block[t]
    BY ItemsApart DEF FInv, FTypeOK
  <2> QED
    BY <2>1, <2>2, <1>s, <1>z DEF FInv, Sized
<1>3. Alone'
  BY <1>0 DEF Alone
<1>4. Kept'
  BY <1>0, <1>s DEF FInv, Kept
<1>5. BlocksAccounted'
  <2>1. blocks = list \cup Inserted
    BY <1>0 DEF FInv, BlocksAccounted, Inserted
  <2>2. Inserted = {} /\ Inserted' = {}
    BY <1>0 DEF Inserted
  <2> QED
    BY <2>1, <2>2, <1>0, <1>2, <1>4 DEF BlocksAccounted, Inserted, Sized
<1> QED
  BY <1>1, <1>2, <1>3, <1>4, <1>5 DEF FInv

LEMMA FzfreePutInv ==
  ASSUME Inv, FInv, NEW t \in Threads, FzfreePut(t)
  PROVE  FInv'
<1> USE DEF FzfreePut
<1>0. pc[t] = "put" /\ held' = held /\ pc' = [pc EXCEPT ![t] = "idle"]
      /\ reg' = [reg EXCEPT ![t] = NoItem] /\ fate = "running"
  BY DEF ZfreePage, ZfreePut
<1>i. reg[t] \in Items
  BY <1>0 DEF Inv, Finite, Busy
<1>h. \A j \in Hands' : j \in Hands
  BY <1>0, InHands, InHandsNext DEF Inv, TypeOK
<1>z. /\ size' \in [Blocks -> Nat] /\ size'[reg[t]] = 0
      /\ \A c \in Blocks : c # reg[t] => size'[c] = size[c]
  BY <1>i, ItemsApart DEF FInv, FTypeOK
<1>1. FTypeOK'
  BY <1>z DEF FInv, FTypeOK
<1>2. Sized'
  <2>1. \A j \in Hands : j \in Blocks
    BY InHandsAreItems, ItemsApart
  <2>2. \A b \in blocks : b \in Blocks /\ b # reg[t]
    BY <1>i, ItemsApart DEF FInv, FTypeOK
  <2> QED
    BY <2>1, <2>2, <1>h, <1>z, FslabAssumption DEF FInv, Sized
<1>3. Alone'
  BY DEF FInv, Alone
<1>4. Kept'
  BY <1>0 DEF FInv, Kept
<1>5. BlocksAccounted'
  BY <1>0, <1>2, <1>4 DEF FInv, BlocksAccounted, Sized
<1> QED
  BY <1>1, <1>2, <1>3, <1>4, <1>5 DEF FInv

LEMMA ClearInv ==
  ASSUME Inv, FInv, NEW after \in {"running", "gone"}, Clear(after)
  PROVE  FInv'
<1> USE DEF Clear
<1>0. /\ fate = "running"
      /\ \A t \in Threads : pc'[t] = "idle" /\ fpc'[t] = "idle" /\ fpc[t] = "idle"
      /\ \A t \in Threads : old'[t] = NoItem
      /\ held' = {} /\ live' = {}
      /\ fate' \in {after, "stale"}
  BY DEF Ready, Outside, Zclear
<1>h. Hands' = {}
  BY <1>0 DEF Hands, Busy
<1>b. list \subseteq blocks => blocks = list
  BY <1>0 DEF FInv, BlocksAccounted
<1>1. FTypeOK'
  BY <1>0 DEF FInv, FTypeOK
<1>2. Alone' /\ Kept'
  BY <1>0 DEF Alone, Kept
<1>3. CASE list \subseteq blocks
  <2>1. blocks' = {} /\ fate' = after
    BY <1>3, <1>b
  <2>2. Sized'
    BY <1>h, <2>1 DEF Sized
  <2>3. BlocksAccounted'
    BY <1>0, <1>2, <1>h, <2>1 DEF BlocksAccounted
  <2> QED
    BY <1>1, <1>2, <2>2, <2>3 DEF FInv
<1>4. CASE ~(list \subseteq blocks)
  <2>1. fate' = "stale"
    BY <1>4
  <2>2. Sized' /\ BlocksAccounted'
    BY <1>2, <1>h, <2>1 DEF Sized, BlocksAccounted
  <2> QED
    BY <1>1, <1>2, <2>2 DEF FInv
<1> QED
  BY <1>3, <1>4

LEMMA FNextInv == Inv /\ FInv /\ [FNext]_<<slabVars, fvars>> => FInv'
<1> SUFFICES ASSUME Inv, FInv, [FNext]_<<slabVars, fvars>> PROVE FInv'
  OBVIOUS
<1>1. ASSUME NEW t \in Threads, NEW n \in Sizes, Fzalloc(t, n) PROVE FInv'
  <2>1. old' = old
    BY <1>1 DEF Fzalloc
  <2> QED
    BY <1>1, <2>1, FzallocLargeInv, FzallocSmallInv DEF Fzalloc
<1>2. ASSUME NEW t \in Threads, NEW n \in Sizes, NEW b \in Callers, Fzrealloc(t, b, n)
      PROVE  FInv'
  <2>1. \E c \in Callers : old' = [old EXCEPT ![t] = c]
    BY <1>2 DEF Fzrealloc
  <2> QED
    BY <1>2, <2>1, FzallocLargeInv, FzallocSmallInv DEF Fzrealloc
<1>3. ASSUME NEW t \in Threads, FzallocLink(t) PROVE FInv'
  BY <1>3, FzallocLinkInv
<1>4. ASSUME NEW t \in Threads, FzallocMark(t) PROVE FInv'
  BY <1>4, FzallocMarkInv
<1>5. ASSUME NEW t \in Threads, NEW b \in Blocks, FzfreeTake(t, b) PROVE FInv'
  BY <1>5, FzfreeTakeInv
<1>6. ASSUME NEW t \in Threads, FzfreeUnlink(t) PROVE FInv'
  BY <1>6, FzfreeUnlinkInv
<1>7. ASSUME NEW t \in Threads, FzfreePut(t) PROVE FInv'
  BY <1>7, FzfreePutInv
<1>8. CASE Fzclear \/ Fzfinit
  BY <1>8, ClearInv DEF Fzclear, Fzfinit
<1>9. CASE UNCHANGED <<slabVars, fvars>>
  <2>1. UNCHANGED <<live, pc, reg, held>> /\ UNCHANGED fvars
    BY <1>9 DEF slabVars, vars, shared
  <2>2. Hands' = Hands
    BY <2>1 DEF Hands, Busy
  <2> QED
    BY <2>1, <2>2 DEF fvars, FInv, FTypeOK, Sized, Alone, Kept, BlocksAccounted
<1> QED
  BY <1>1, <1>2, <1>3, <1>4, <1>5, <1>6, <1>7, <1>8, <1>9 DEF FNext

(***************************************************************************)
(* ey_fzalloc and ey_fzfree disagree only on blocks just as large as an    *)
(* item; as long as nobody races on the list of larger blocks and it was   *)
(* not cleared with blocks on it, it has them all, and all memory goes     *)
(* back to malloc in the end.                                              *)
(***************************************************************************)
THEOREM AlwaysAccounted == FSpec => []BlocksAccounted
<1>1. FInit => FInv
  BY FInitInv
<1>2. FInv => BlocksAccounted
  BY DEF FInv
<1>3. FSpec => []Inv
  BY FslabImplementsSlab, AlwaysInv, PTL
<1>4. Inv /\ FInv /\ [FNext]_<<slabVars, fvars>> => FInv'
  BY FNextInv
<1> QED
  BY <1>1, <1>2, <1>3, <1>4, PTL DEF FSpec
=============================================================================
