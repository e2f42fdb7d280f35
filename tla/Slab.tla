-------------------------------- MODULE Slab --------------------------------
(***************************************************************************)
(* The slab allocator (libmemory/ey_slab.c): items of one size on pages    *)
(* that come from malloc and go back to it as soon as they are empty.      *)
(*                                                                         *)
(* The lock covers the lists, the counters and the free list of a page, so *)
(* what happens under it is one step.  The flag of an item lies outside:   *)
(* ey_zalloc tests and sets it after the unlock, ey_zfree tests it before  *)
(* the lock, and other threads run in between.                             *)
(*                                                                         *)
(* The callers keep their part: an item is freed once, by any thread, and  *)
(* nobody writes beyond its end (hence the magic word of the tail is not   *)
(* here).  An allocation that malloc refuses changes nothing.  The order   *)
(* of pages on a list, and of items on a free list, is left open.          *)
(***************************************************************************)
EXTENDS Integers, FiniteSets

CONSTANTS
  Pages,    \* addresses at which malloc may place a page
  Slots,    \* the places of items on a page
  Threads

PerPage == Cardinality(Slots)   \* item_count_per_page
Items   == Pages \X Slots

\* MIN_PAGE_ITEMS.
ASSUME SlabAssumption == IsFiniteSet(Slots) /\ PerPage >= 4

NoItem == <<>>

VARIABLES
  live,     \* the pages malloc has given and not got back
  avail,    \* alloc_page_list
  full,     \* full_page_list
  free,     \* free_item of every page
  count,    \* free_count of every page
  flag,     \* the items whose ITEM_ALLOCTED flag is set
  pages,    \* page_count
  items,    \* alloc_item_count
  pc,       \* where a thread stands in ey_zalloc or ey_zfree
  reg,      \* the item it is about to hand out or to take back
  held      \* the items the callers have

shared == <<live, avail, full, free, count, pages, items>>
vars   == <<shared, flag, pc, reg, held>>

\* ey_zinit.
Init ==
  /\ live = {} /\ avail = {} /\ full = {}
  /\ free = [p \in Pages |-> {}] /\ count = [p \in Pages |-> 0]
  /\ flag = {}
  /\ pages = 0 /\ items = 0
  /\ pc = [t \in Threads |-> "idle"]
  /\ reg = [t \in Threads |-> NoItem]
  /\ held = {}

-----------------------------------------------------------------------------
(* ey_zalloc: take an item off the free list F of page p, which has n free *)
(* items and stands on the list A of pages with free items.                *)

Take(t, p, F, n, A) ==
  /\ \E s \in F :
       /\ free' = [free EXCEPT ![p] = F \ {s}]
       /\ reg' = [reg EXCEPT ![t] = <<p, s>>]
  /\ count' = [count EXCEPT ![p] = n - 1]
  /\ avail' = IF n - 1 = 0 THEN A \ {p} ELSE A
  /\ full' = IF n - 1 = 0 THEN full \cup {p} ELSE full
  /\ items' = items + 1
  /\ pc' = [pc EXCEPT ![t] = "mark"]

ZallocTake(t) ==
  /\ pc[t] = "idle"
  /\ \E p \in avail : Take(t, p, free[p], count[p], avail)
  /\ UNCHANGED <<live, pages, flag, held>>

\* No page has a free item: get_page, then retry.
\* Mutant: get_page trusts the flags it finds in the memory malloc gives it.
KeepFlags(p) == flag' = flag

ClearFlags(p) == flag' = flag \ ({p} \X Slots)

ZallocPage(t) ==
  /\ pc[t] = "idle"
  /\ avail = {}
  /\ \E p \in Pages \ live :
       /\ live' = live \cup {p}
       /\ pages' = pages + 1
       /\ ClearFlags(p)
       /\ Take(t, p, Slots, PerPage, {p})
  /\ UNCHANGED held

\* After the unlock: the item must not be marked yet; mark it, return it.
ZallocMark(t) ==
  /\ pc[t] = "mark"
  /\ IF reg[t] \in flag
       THEN /\ pc' = [pc EXCEPT ![t] = "abort"]
            /\ UNCHANGED <<flag, reg, held>>
       ELSE /\ pc' = [pc EXCEPT ![t] = "idle"]
            /\ flag' = flag \cup {reg[t]}
            /\ held' = held \cup {reg[t]}
            /\ reg' = [reg EXCEPT ![t] = NoItem]
  /\ UNCHANGED shared

-----------------------------------------------------------------------------
(* ey_zfree: before the lock the item must be marked.                      *)

ZfreeCheck(t, i) ==
  /\ pc[t] = "idle"
  /\ i \in held
  /\ held' = held \ {i}
  /\ reg' = [reg EXCEPT ![t] = i]
  /\ pc' = [pc EXCEPT ![t] = IF i \in flag THEN "put" ELSE "abort"]
  /\ UNCHANGED <<shared, flag>>

\* Mutants: the page goes when one other item is still out, or stays empty.
LastButOne(p) == count[p] + 2 = PerPage
LastForgotten(p) == count[p] = PerPage

\* Is the item on its way back to page p the last one out?
LastOut(p) == count[p] + 1 = PerPage

ZfreePage(t) ==
  LET p == reg[t][1] IN
  /\ pc[t] = "put"
  /\ LastOut(p)
  /\ avail' = avail \ {p}
  /\ live' = live \ {p}
  /\ pages' = pages - 1
  /\ items' = items - 1
  /\ pc' = [pc EXCEPT ![t] = "idle"]
  /\ reg' = [reg EXCEPT ![t] = NoItem]
  /\ UNCHANGED <<full, free, count, flag, held>>

ZfreePut(t) ==
  LET p == reg[t][1] IN
  /\ pc[t] = "put"
  /\ ~LastOut(p)
  /\ flag' = flag \ {reg[t]}
  /\ free' = [free EXCEPT ![p] = @ \cup {reg[t][2]}]
  /\ count' = [count EXCEPT ![p] = @ + 1]
  /\ full' = IF count'[p] = 1 THEN full \ {p} ELSE full
  /\ avail' = IF count'[p] = 1 THEN avail \cup {p} ELSE avail
  /\ items' = items - 1
  /\ pc' = [pc EXCEPT ![t] = "idle"]
  /\ reg' = [reg EXCEPT ![t] = NoItem]
  /\ UNCHANGED <<live, pages, held>>

\* ey_zclear, also the heart of ey_zfinit: no caller is inside the slab, and
\* none uses its items any more.
Zclear ==
  /\ \A t \in Threads : pc[t] = "idle"
  /\ live' = {} /\ avail' = {} /\ full' = {}
  /\ pages' = 0 /\ items' = 0
  /\ held' = {}
  /\ UNCHANGED <<free, count, flag, pc, reg>>

Next ==
  \/ \E t \in Threads :
       \/ ZallocTake(t) \/ ZallocPage(t) \/ ZallocMark(t)
       \/ \E i \in held : ZfreeCheck(t, i)
       \/ ZfreePage(t) \/ ZfreePut(t)
  \/ Zclear

Spec == Init /\ [][Next]_vars

-----------------------------------------------------------------------------
(* Every variable has its type.                                            *)
TypeOK ==
  /\ live \subseteq Pages /\ avail \subseteq Pages /\ full \subseteq Pages
  /\ free \in [Pages -> SUBSET Slots]
  /\ count \in [Pages -> 0..PerPage]
  /\ flag \subseteq Items
  /\ pages \in Nat /\ items \in Nat
  /\ pc \in [Threads -> {"idle", "mark", "put", "abort"}]
  /\ reg \in [Threads -> Items \cup {NoItem}]
  /\ held \subseteq Items

Busy  == {t \in Threads : pc[t] # "idle"}
Hands == held \cup {reg[t] : t \in Busy}

(***************************************************************************)
(* An item in somebody's hands, a caller's or a thread's inside ey_zalloc  *)
(* or ey_zfree, is in nobody else's and lies on a page that has not gone   *)
(* back to malloc; the free list of a page has the other items of the page,*)
(* and all of them.                                                        *)
(***************************************************************************)
Apart ==
  /\ \A t \in Busy : reg[t] \notin held
  /\ \A t, u \in Busy : t # u => reg[t] # reg[u]
  /\ Hands \subseteq live \X Slots
  /\ \A p \in live, s \in Slots : s \in free[p] <=> <<p, s>> \notin Hands

(***************************************************************************)
(* The lists sort the pages by free_count, free_count counts the free list *)
(* (so that SLIST_FIRST never reads the uninitialised end of it), and a    *)
(* page without an item in use has gone back to malloc.                    *)
(***************************************************************************)
ListsSorted ==
  /\ avail = {p \in live : count[p] # 0}
  /\ full = {p \in live : count[p] = 0}
  /\ \A p \in live : count[p] = Cardinality(free[p]) /\ count[p] < PerPage

(***************************************************************************)
(* page_count and alloc_item_count tell the truth.                         *)
(***************************************************************************)
CountsTrue == pages = Cardinality(live) /\ items = Cardinality(Hands)

(***************************************************************************)
(* Callers that free an item once never meet "item has been allocated" nor *)
(* "Slab memory double free", although the flag is handled outside the     *)
(* lock and is not cleared when its page goes back to malloc.              *)
(***************************************************************************)
NoAbort == \A t \in Threads : pc[t] # "abort"
=============================================================================
