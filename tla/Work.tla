-------------------------------- MODULE Work --------------------------------
(***************************************************************************)
(* The life of works and of their events (ey_runtime.c, ey_work.c,         *)
(* ey_bitmap.c, and the per-work data of the simple preprocessor).         *)
(*                                                                         *)
(* Every work is driven by a thread of its own; threads meet at the bitmap *)
(* buffers, which come from one allocator of the engine and are used again,*)
(* and at the engine's work list.  Creation runs a ladder of allocations   *)
(* and initialisers, any of which may fail; its failure labels fall into   *)
(* the same finalisers that destruction runs.  A hook that no program has  *)
(* registered is one that succeeds and does nothing.                       *)
(*                                                                         *)
(* A thread that still uses a work while ey_engine_destroy runs is outside *)
(* the model: nothing in the code guards against it.                       *)
(***************************************************************************)
EXTENDS Rules, Sequences

CONSTANTS
  Works,    \* the works that exist at a time, at most
  Buffers   \* the bitmap buffers of the engine's bitmap_buffer_fslab

NoBuffer == "none"

ASSUME WorkAssumption ==
  /\ Works # {} /\ \E b1, b2 \in Buffers : b1 # b2
  /\ NoBuffer \notin Buffers

VARIABLES
  engine,   \* "up", "destroying" (inside ey_work_finit) or "gone"
  list,     \* engine_work_list
  pc,       \* where the thread of a work stands
  held,     \* what the work has allocated and not freed
  open,     \* the stages it has initialised, or tried to, and not finalised
  mem,      \* the bits set in each buffer, allocated or not
  sbuf,     \* the buffer of state_bitmap, per work
  pbuf,     \* the buffer of preprocessor_bitmap, per work
  seen      \* history: the patterns found in the data of this work

vars == <<engine, list, pc, held, open, mem, sbuf, pbuf, seen>>

\* Memory never handed out before holds anything.
Init ==
  /\ engine = "up"
  /\ list = <<>>
  /\ pc = [w \in Works |-> "idle"]
  /\ held = [w \in Works |-> {}]
  /\ open = [w \in Works |-> {}]
  /\ mem \in [Buffers -> SUBSET Uncleared]
  /\ sbuf = [w \in Works |-> NoBuffer]
  /\ pbuf = [w \in Works |-> NoBuffer]
  /\ seen = [w \in Works |-> {}]

Goto(w, from, to) == pc[w] = from /\ pc' = [pc EXCEPT ![w] = to]
Hold(w, r)        == held' = [held EXCEPT ![w] = @ \cup {r}]
Open(w, stage)    == open' = [open EXCEPT ![w] = @ \cup {stage}]
Close(w, stage)   == open' = [open EXCEPT ![w] = @ \ {stage}]

-----------------------------------------------------------------------------
(* ey_runtime_create.                                                      *)

Start(w) ==
  /\ engine = "up"
  /\ Goto(w, "idle", "state_bitmap")
  /\ seen' = [seen EXCEPT ![w] = {}]
  /\ UNCHANGED <<engine, list, held, open, mem, sbuf, pbuf>>

\* Mutant: the buffer is handed out as its last user left it.
DirtyBuffer(b) ==
  /\ \A w \in Works : b # sbuf[w] /\ b # pbuf[w]
  /\ UNCHANGED mem

\* ey_bitmap_create: of what its last user left, it zeroes the first bytes.
FreshBuffer(b) ==
  /\ \A w \in Works : b # sbuf[w] /\ b # pbuf[w]
  /\ mem' = [mem EXCEPT ![b] = @ \cap Uncleared]

StateBitmap(w) ==
  /\ Goto(w, "state_bitmap", "pp_bitmap")
  /\ \E b \in Buffers : FreshBuffer(b) /\ sbuf' = [sbuf EXCEPT ![w] = b]
  /\ UNCHANGED <<engine, list, held, open, pbuf, seen>>

PpBitmap(w) ==
  /\ Goto(w, "pp_bitmap", "ey_work")
  /\ \E b \in Buffers : FreshBuffer(b) /\ pbuf' = [pbuf EXCEPT ![w] = b]
  /\ UNCHANGED <<engine, list, held, open, sbuf, seen>>

\* ey_work, its local allocator and the engine_work, one after the other.
Allocate(w) ==
  /\ \/ Goto(w, "ey_work", "allocator") /\ Hold(w, "ey_work")
     \/ Goto(w, "allocator", "engine_work") /\ Hold(w, "allocator")
     \/ Goto(w, "engine_work", "pre_init") /\ Hold(w, "engine_work")
  /\ UNCHANGED <<engine, list, open, mem, sbuf, pbuf, seen>>

AllocateFails(w) ==
  /\ \E s \in {"state_bitmap", "pp_bitmap", "ey_work", "allocator", "engine_work"} :
       Goto(w, s, "free")
  /\ UNCHANGED <<engine, list, held, open, mem, sbuf, pbuf, seen>>

\* The predefined and the userdefined initialiser of the work.
PreInit(w) ==
  /\ Goto(w, "pre_init", "user_init") \/ Goto(w, "pre_init", "pre_finit")
  /\ Open(w, "pre")
  /\ UNCHANGED <<engine, list, held, mem, sbuf, pbuf, seen>>

\* Mutant: a failing initialiser goes to the label one too far.
UserInitSkipsFinit(w) ==
  /\ Goto(w, "user_init", "detect_init") \/ Goto(w, "user_init", "pre_finit")
  /\ Open(w, "user")
  /\ UNCHANGED <<engine, list, held, mem, sbuf, pbuf, seen>>

UserInit(w) ==
  /\ Goto(w, "user_init", "detect_init") \/ Goto(w, "user_init", "user_finit")
  /\ Open(w, "user")
  /\ UNCHANGED <<engine, list, held, mem, sbuf, pbuf, seen>>

\* ey_preprocessor_detect_init: the simple preprocessor allocates its states.
DetectInit(w) ==
  /\ \/ Goto(w, "detect_init", "insert") /\ Hold(w, "simple")
     \/ Goto(w, "detect_init", "detect_finit") /\ UNCHANGED held
  /\ Open(w, "detect")
  /\ UNCHANGED <<engine, list, mem, sbuf, pbuf, seen>>

\* Under the engine lock.
Insert(w) ==
  /\ Goto(w, "insert", "live")
  /\ list' = Append(list, w)
  /\ UNCHANGED <<engine, held, open, mem, sbuf, pbuf, seen>>

-----------------------------------------------------------------------------
(* A live work: raw data, events, and the bitmaps they change.             *)

\* acsm_match_cb: the data of this work shows the patterns of S.
Search(w, S) ==
  /\ engine = "up" /\ pc[w] = "live"
  /\ mem' = [mem EXCEPT ![pbuf[w]] = @ \cup S]
  /\ seen' = [seen EXCEPT ![w] = @ \cup S]
  /\ UNCHANGED <<engine, list, pc, held, open, sbuf, pbuf>>

\* ey_runtime_create_event; without memory for the event nothing happens.
StartEvent(w) ==
  /\ engine = "up"
  /\ Goto(w, "live", "ev_pre_init")
  /\ Hold(w, "event")
  /\ UNCHANGED <<engine, list, open, mem, sbuf, pbuf, seen>>

EventPreInit(w) ==
  /\ Goto(w, "ev_pre_init", "ev_user_init") \/ Goto(w, "ev_pre_init", "ev_pre_finit")
  /\ Open(w, "ev_pre")
  /\ UNCHANGED <<engine, list, held, mem, sbuf, pbuf, seen>>

EventUserInit(w) ==
  /\ Goto(w, "ev_user_init", "event") \/ Goto(w, "ev_user_init", "ev_user_finit")
  /\ Open(w, "ev_user")
  /\ UNCHANGED <<engine, list, held, mem, sbuf, pbuf, seen>>

\* ey_runtime_detect_event, of which module Detect has the detail: items that
\* are not last ones may be remembered, any may be forgotten, patterns used up.
DetectEvent(w) ==
  /\ pc[w] = "event"
  /\ \E s \in SUBSET (mem[sbuf[w]] \cup (Items \ Final)), p \in SUBSET mem[pbuf[w]] :
       mem' = [mem EXCEPT ![sbuf[w]] = s, ![pbuf[w]] = p]
  /\ UNCHANGED <<engine, list, pc, held, open, sbuf, pbuf, seen>>

\* ey_runtime_destroy_event, and the failure labels of ey_runtime_create_event.
EndEvent(w) ==
  /\ Goto(w, "event", "ev_user_finit")
  /\ UNCHANGED <<engine, list, held, open, mem, sbuf, pbuf, seen>>

EventUserFinit(w) ==
  /\ Goto(w, "ev_user_finit", "ev_pre_finit")
  /\ Close(w, "ev_user")
  /\ UNCHANGED <<engine, list, held, mem, sbuf, pbuf, seen>>

EventPreFinit(w) ==
  /\ Goto(w, "ev_pre_finit", "live")
  /\ Close(w, "ev_pre")
  /\ held' = [held EXCEPT ![w] = @ \ {"event"}]
  /\ UNCHANGED <<engine, list, mem, sbuf, pbuf, seen>>

-----------------------------------------------------------------------------
(* ey_runtime_destroy, and the failure labels of ey_runtime_create.        *)

\* Mutant: the work is destroyed but stays on the list.
RemoveNot(w) ==
  /\ Goto(w, "live", "detect_finit")
  /\ engine = "destroying" => Head(list) = w /\ \A x \in Works : pc[x] \in {"idle", "live"}
  /\ UNCHANGED <<engine, list, held, open, mem, sbuf, pbuf, seen>>

\* TAILQ_REMOVE of entry n.
Unlinked(l, n) == SubSeq(l, 1, n - 1) \o SubSeq(l, n + 1, Len(l))

\* Under the engine lock; ey_work_finit takes the works from the head.
Remove(w) ==
  /\ Goto(w, "live", "detect_finit")
  /\ engine = "destroying" => Head(list) = w /\ \A x \in Works : pc[x] \in {"idle", "live"}
  /\ \E n \in DOMAIN list :
       list[n] = w /\ list' = Unlinked(list, n)
  /\ UNCHANGED <<engine, held, open, mem, sbuf, pbuf, seen>>

DetectFinit(w) ==
  /\ Goto(w, "detect_finit", "user_finit")
  /\ Close(w, "detect")
  /\ held' = [held EXCEPT ![w] = @ \ {"simple"}]
  /\ UNCHANGED <<engine, list, mem, sbuf, pbuf, seen>>

UserFinit(w) ==
  /\ Goto(w, "user_finit", "pre_finit")
  /\ Close(w, "user")
  /\ UNCHANGED <<engine, list, held, mem, sbuf, pbuf, seen>>

PreFinit(w) ==
  /\ Goto(w, "pre_finit", "free")
  /\ Close(w, "pre")
  /\ UNCHANGED <<engine, list, held, mem, sbuf, pbuf, seen>>

\* Mutant: the local allocator of the work is forgotten.
FreeAllButAllocator(w) ==
  /\ Goto(w, "free", "idle")
  /\ held' = [held EXCEPT ![w] = @ \ {"engine_work", "ey_work"}]
  /\ sbuf' = [sbuf EXCEPT ![w] = NoBuffer]
  /\ pbuf' = [pbuf EXCEPT ![w] = NoBuffer]
  /\ UNCHANGED <<engine, list, open, mem, seen>>

\* The frees at the end; a freed buffer keeps its bits.
FreeAll(w) ==
  /\ Goto(w, "free", "idle")
  /\ held' = [held EXCEPT ![w] = @ \ {"engine_work", "allocator", "ey_work"}]
  /\ sbuf' = [sbuf EXCEPT ![w] = NoBuffer]
  /\ pbuf' = [pbuf EXCEPT ![w] = NoBuffer]
  /\ UNCHANGED <<engine, list, open, mem, seen>>

-----------------------------------------------------------------------------
(* ey_engine_destroy, as far as ey_work_finit: destroy the works on the    *)
(* list, then the slabs they came from.                                    *)

EngineDestroy ==
  /\ engine = "up"
  /\ \A w \in Works : pc[w] \in {"idle", "live"}
  /\ engine' = "destroying"
  /\ UNCHANGED <<list, pc, held, open, mem, sbuf, pbuf, seen>>

FreeSlabs ==
  /\ engine = "destroying"
  /\ list = <<>>
  /\ \A w \in Works : pc[w] \in {"idle", "live"}
  /\ engine' = "gone"
  /\ UNCHANGED <<list, pc, held, open, mem, sbuf, pbuf, seen>>

-----------------------------------------------------------------------------
Create(w) ==
  \/ StateBitmap(w) \/ PpBitmap(w) \/ Allocate(w) \/ AllocateFails(w)
  \/ PreInit(w) \/ UserInit(w) \/ DetectInit(w) \/ Insert(w)
Destroy(w) == DetectFinit(w) \/ UserFinit(w) \/ PreFinit(w) \/ FreeAll(w)
EventStep(w) ==
  \/ StartEvent(w) \/ EventPreInit(w) \/ EventUserInit(w) \/ DetectEvent(w)
  \/ EndEvent(w) \/ EventUserFinit(w) \/ EventPreFinit(w)

Next ==
  \/ \E w \in Works :
       \/ Start(w) \/ Create(w) \/ EventStep(w) \/ Remove(w) \/ Destroy(w)
       \/ \E S \in SUBSET Clustered \ {{}} : Search(w, S)
  \/ EngineDestroy \/ FreeSlabs

(***************************************************************************)
(* ey_work_finit does not stop before its end; nothing else must happen.   *)
(***************************************************************************)
Teardown ==
  engine = "destroying" /\ (FreeSlabs \/ \E w \in Works : Remove(w) \/ Destroy(w))

Spec == Init /\ [][Next]_vars /\ WF_vars(Teardown)

-----------------------------------------------------------------------------
Living == {"live", "ev_pre_init", "ev_user_init", "event", "ev_user_finit", "ev_pre_finit"}

(***************************************************************************)
(* A finaliser of ey_runtime.c runs when its stage, and no later one, has  *)
(* been initialised or tried; when a work's memory is freed no stage is    *)
(* left, and between events no stage of an event is.                       *)
(***************************************************************************)
StagesAt ==
  [idle |-> {}, free |-> {}, pre_finit |-> {"pre"}, user_finit |-> {"pre", "user"},
   detect_finit |-> {"pre", "user", "detect"}, live |-> {"pre", "user", "detect"},
   ev_pre_finit  |-> {"pre", "user", "detect", "ev_pre"},
   ev_user_finit |-> {"pre", "user", "detect", "ev_pre", "ev_user"},
   event         |-> {"pre", "user", "detect", "ev_pre", "ev_user"}]

FinalisersMatch ==
  \A w \in Works : pc[w] \in DOMAIN StagesAt => open[w] = StagesAt[pc[w]]

(***************************************************************************)
(* Whichever rung of creation fails, nothing of the work is left: neither  *)
(* memory, nor a bitmap buffer, nor its place on the engine's list, which  *)
(* holds the living works, each once.                                      *)
(***************************************************************************)
NothingLeft ==
  /\ \A w \in Works : pc[w] = "idle" =>
       held[w] = {} /\ sbuf[w] = NoBuffer /\ pbuf[w] = NoBuffer
  /\ \A w \in Works : pc[w] \in Living <=> \E n \in DOMAIN list : list[n] = w
  /\ \A m, n \in DOMAIN list : list[m] = list[n] => m = n
  /\ engine = "gone" => \A w \in Works : pc[w] = "idle"

(***************************************************************************)
(* What a work takes for its patterns was found in its own data: a buffer  *)
(* that ey_bitmap_create hands out again brings nothing from the work that *)
(* had it before.                                                          *)
(***************************************************************************)
PatternsOfThisWork ==
  \A w \in Works : pc[w] \in Living => mem[pbuf[w]] \subseteq seen[w]

\* ey_engine_destroy gets through the list and frees the slabs.
EngineGoes == (engine = "destroying") ~> (engine = "gone")
=============================================================================
