-------------------------------- MODULE Fslab --------------------------------
(***************************************************************************)
(* The sized allocator (libmemory/ey_fslab.c) on top of a slab: a request  *)
(* that fits an item is served by the slab, a larger one by malloc, and    *)
(* the larger blocks stand on a list so that ey_fzclear finds them.  The   *)
(* slab has a lock, the list has none.                                     *)
(*                                                                         *)
(* Sizes are the sizes users ask for; ItemSize is the one whose block is   *)
(* just as large as an item.  The callers keep their part: a block is      *)
(* freed once, nobody is inside the allocator or uses its blocks when it   *)
(* is cleared.  Where the code touches memory that is not what it takes it *)
(* for, anything may follow: the model stops there and says why.           *)
(***************************************************************************)
EXTENDS Slab

CONSTANTS
  Chunks,    \* addresses at which malloc may place a larger block
  Sizes,     \* the sizes callers ask for
  ItemSize   \* ey_zsize without the head of the block

ASSUME FslabAssumption ==
  /\ Sizes \subseteq Nat /\ ItemSize \in Nat
  /\ Chunks \cap Items = {} /\ NoItem \notin Chunks

VARIABLES
  slabbed,   \* z->slab is not NULL
  size,      \* user_size in the head of every block
  blocks,    \* the larger blocks malloc has given and not got back
  list,      \* malloc_list
  fpc,       \* where a thread stands in the list
  block,     \* the block it is about to link or unlink, or has freed
  old,       \* the block ey_fzrealloc is about to free
  new,       \* the block that takes its place
  fate       \* "running", "gone" (ey_fzfinit), or why it stopped

fvars == <<slabbed, size, blocks, list, fpc, block, old, new, fate>>
slabVars == vars

Blocks == Items \cup Chunks

\* ey_fzinit; size 0, or a size too large for ey_zinit, leaves no slab.
FInit ==
  /\ Init
  /\ slabbed \in BOOLEAN
  /\ size = [b \in Blocks |-> 0]
  /\ blocks = {} /\ list = {}
  /\ fpc = [t \in Threads |-> "idle"]
  /\ block = [t \in Threads |-> NoItem]
  /\ old = [t \in Threads |-> NoItem] /\ new = [t \in Threads |-> NoItem]
  /\ fate = "running"

\* Thread t is neither in the slab nor in the list; it is ready when it is not
\* inside ey_fzrealloc either.
Outside(t) == fate = "running" /\ pc[t] = "idle" /\ fpc[t] = "idle"
Ready(t)   == Outside(t) /\ old[t] = NoItem
\* The blocks the callers have: not those inside a reallocation.
Callers ==
  (held \cup {b \in list \cap blocks : \A t \in Threads : block[t] # b})
    \ UNION {{old[t], new[t]} : t \in Threads}

\* Mutant: the size of the head is forgotten.
FromListUser(n) == ~slabbed \/ n > ItemSize + 1

\* Where ey_fzalloc takes a block from and where ey_fzfree gives it back.
OnList(n) == ~slabbed \/ n > ItemSize
FromList(n) == ~slabbed \/ n >= ItemSize

-----------------------------------------------------------------------------
\* A thread starts to link or unlink block b.  Two at once are a data race; the
\* blocks that ey_fzclear has freed are still on the list.
Enter(t, step, b) ==
  /\ block' = [block EXCEPT ![t] = b]
  /\ fpc' = [fpc EXCEPT ![t] = step]
  /\ fate' = IF \E u \in Threads : fpc[u] # "idle" THEN "race"
             ELSE IF list \subseteq blocks THEN fate ELSE "stale"

\* ey_fzalloc.
FzallocLarge(t, n) ==
  /\ Outside(t) /\ OnList(n)
  /\ \E b \in Chunks \ (blocks \cup list) :
       /\ blocks' = blocks \cup {b}
       /\ size' = [size EXCEPT ![b] = n]
       /\ Enter(t, "insert", b)
  /\ UNCHANGED <<slabVars, slabbed, list, new>>

FzallocSmall(t, n) ==
  /\ Outside(t) /\ ~OnList(n)
  /\ ZallocTake(t) \/ ZallocPage(t)
  /\ size' = [size EXCEPT ![reg'[t]] = n]
  /\ UNCHANGED <<slabbed, blocks, list, fpc, block, new, fate>>

\* ey_fzrealloc wants the new block larger than the old one, and frees that.
Replaces(t, b) ==
  /\ fate' = IF old[t] = NoItem \/ size[old[t]] < size[b] THEN fate ELSE "abort"
  /\ new' = [new EXCEPT ![t] = IF old[t] = NoItem THEN NoItem ELSE b]

FzallocLink(t) ==
  /\ fate = "running" /\ fpc[t] = "insert"
  /\ list' = list \cup {block[t]}
  /\ fpc' = [fpc EXCEPT ![t] = "idle"]
  /\ block' = [block EXCEPT ![t] = NoItem]
  /\ Replaces(t, block[t])
  /\ UNCHANGED <<slabVars, slabbed, size, blocks, old>>

FzallocMark(t) ==
  /\ fate = "running"
  /\ ZallocMark(t)
  /\ Replaces(t, reg[t])
  /\ UNCHANGED <<slabbed, size, blocks, list, fpc, block, old>>

Fzalloc(t, n) ==
  /\ Ready(t)
  /\ FzallocLarge(t, n) \/ FzallocSmall(t, n)
  /\ UNCHANGED old

\* Until it is freed the old block is the caller's to this thread only.
Fzrealloc(t, b, n) ==
  /\ Ready(t)
  /\ FzallocLarge(t, n) \/ FzallocSmall(t, n)
  /\ old' = [old EXCEPT ![t] = b]

\* ey_fzfree.  An item is not a block of the list, nor the reverse: unlinking
\* and freeing it is wild.
FzfreeTake(t, b) ==
  /\ Outside(t)
  /\ IF Ready(t) THEN b \in Callers ELSE b = old[t]
  /\ old' = [old EXCEPT ![t] = NoItem] /\ new' = [new EXCEPT ![t] = NoItem]
  /\ \/ /\ FromList(size[b]) /\ b \in Chunks
        /\ Enter(t, "remove", b)
        /\ UNCHANGED slabVars
     \/ /\ ~FromList(size[b]) /\ b \in Items
        /\ ZfreeCheck(t, b)
        /\ UNCHANGED <<fpc, block, fate>>
     \/ /\ FromList(size[b]) <=> b \in Items
        /\ fate' = "wild" /\ block' = [block EXCEPT ![t] = b]
        /\ UNCHANGED <<slabVars, fpc>>
  /\ UNCHANGED <<slabbed, size, blocks, list>>

FzfreeUnlink(t) ==
  /\ fate = "running" /\ fpc[t] = "remove"
  /\ list' = list \ {block[t]}
  /\ blocks' = blocks \ {block[t]}
  /\ size' = [size EXCEPT ![block[t]] = 0]
  /\ fpc' = [fpc EXCEPT ![t] = "idle"]
  /\ block' = [block EXCEPT ![t] = NoItem]
  /\ UNCHANGED <<slabVars, slabbed, old, new, fate>>

FzfreePut(t) ==
  /\ fate = "running"
  /\ ZfreePage(t) \/ ZfreePut(t)
  /\ size' = [size EXCEPT ![reg[t]] = 0]
  /\ UNCHANGED <<slabbed, blocks, list, fpc, block, old, new, fate>>

\* ey_fzclear frees what is on the list and leaves it there; ey_fzfinit clears,
\* and the list goes with the allocator.
Clear(after) ==
  /\ fate = "running"
  /\ \A t \in Threads : Ready(t)
  /\ Zclear
  /\ IF list \subseteq blocks
       THEN blocks' = blocks \ list /\ fate' = after
       ELSE UNCHANGED blocks /\ fate' = "stale"
  /\ size' = [b \in Blocks |-> 0]
  /\ UNCHANGED <<slabbed, list, fpc, block, old, new>>

Fzclear == Clear("running")
Fzfinit == Clear("gone")

FNext ==
  \/ \E t \in Threads :
       \/ \E n \in Sizes :
            \/ Fzalloc(t, n)
            \/ \E b \in Callers : Fzrealloc(t, b, n)
       \/ FzallocLink(t) \/ FzallocMark(t)
       \/ \E b \in Blocks : FzfreeTake(t, b)
       \/ FzfreeUnlink(t) \/ FzfreePut(t)
  \/ Fzclear \/ Fzfinit

FSpec == FInit /\ [][FNext]_<<slabVars, fvars>>

-----------------------------------------------------------------------------
\* A block that is being replaced stands where it was, until its thread frees it.
Kept ==
  \A t \in Threads : old[t] # NoItem =>
    /\ old[t] \in held \cup blocks
    /\ \A u \in Threads : /\ fpc[u] = "remove" => block[u] # old[t]
                          /\ u # t => old[u] # old[t]

(***************************************************************************)
(* ey_fzalloc and ey_fzfree agree on where a block belongs, except for one *)
(* that is just as large as an item.  As long as the list is not raced on  *)
(* and was not cleared with blocks on it, it has every larger block that   *)
(* somebody uses, the slab's items are none of them, and when the          *)
(* allocator goes, all its memory has gone back to malloc.  ey_fzrealloc   *)
(* copies from a block that nobody else frees or replaces meanwhile.       *)
(***************************************************************************)
BlocksAccounted ==
  /\ fate = "wild" => \E t \in Threads : block[t] # NoItem /\ size[block[t]] = ItemSize
  /\ fate = "running" /\ list \subseteq blocks =>
       blocks = list \cup {block[t] : t \in {u \in Threads : fpc[u] = "insert"}}
  /\ \A i \in Hands : slabbed /\ size[i] <= ItemSize
  /\ fate = "gone" => blocks = {} /\ live = {}
  /\ Kept
=============================================================================
