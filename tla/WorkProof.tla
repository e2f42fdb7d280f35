----------------------------- MODULE WorkProof -----------------------------
(***************************************************************************)
(* Proofs about module Work, for any number of works and buffers and every *)
(* data base of signatures.                                                *)
(***************************************************************************)
EXTENDS Work, SequenceTheorems, TLAPS

Steps ==
  {"idle", "state_bitmap", "pp_bitmap", "ey_work", "allocator", "engine_work",
   "pre_init", "user_init", "detect_init", "insert", "live", "ev_pre_init",
   "ev_user_init", "event", "ev_user_finit", "ev_pre_finit", "detect_finit",
   "user_finit", "pre_finit", "free"}

\* The steps at which a stage is open.
InEvUser == {"event", "ev_user_finit"}
InEvPre  == InEvUser \cup {"ev_user_init", "ev_pre_finit"}
InDetect == InEvPre \cup {"insert", "live", "detect_finit", "ev_pre_init"}
InUser   == InDetect \cup {"detect_init", "user_finit"}
InPre    == InUser \cup {"user_init", "pre_finit"}

\* The steps at which a work may have memory of its own.
Allocated == InPre \cup {"allocator", "engine_work", "pre_init", "free"}

TypesOK ==
  /\ engine \in {"up", "destroying", "gone"}
  /\ list \in Seq(Works)
  /\ pc \in [Works -> Steps]
  /\ DOMAIN held = Works /\ DOMAIN open = Works
  /\ mem \in [Buffers -> SUBSET Items]
  /\ sbuf \in [Works -> Buffers \cup {NoBuffer}]
  /\ pbuf \in [Works -> Buffers \cup {NoBuffer}]
  /\ seen \in [Works -> SUBSET Items]

Stages ==
  \A w \in Works :
    /\ open[w] \subseteq {"pre", "user", "detect", "ev_pre", "ev_user"}
    /\ "pre" \in open[w] <=> pc[w] \in InPre
    /\ "user" \in open[w] <=> pc[w] \in InUser
    /\ "detect" \in open[w] <=> pc[w] \in InDetect
    /\ "ev_pre" \in open[w] <=> pc[w] \in InEvPre
    /\ "ev_user" \in open[w] <=> pc[w] \in InEvUser

Memory ==
  \A w \in Works :
    /\ held[w] \subseteq {"ey_work", "allocator", "engine_work", "simple", "event"}
    /\ held[w] # {} => pc[w] \in Allocated
    /\ "simple" \in held[w] => pc[w] \in InDetect
    /\ "event" \in held[w] => pc[w] \in Living \ {"live"}

OnList ==
  /\ \A w \in Works : pc[w] \in Living <=> \E n \in DOMAIN list : list[n] = w
  /\ \A m, n \in DOMAIN list : list[m] = list[n] => m = n

Down == engine = "gone" => \A w \in Works : pc[w] = "idle"

\* Where a work has its buffers, and where it may have some of them.
WithBoth == Steps \ {"idle", "state_bitmap", "pp_bitmap", "free",
                     "detect_finit", "user_finit", "pre_finit"}

BuffersApart ==
  /\ \A w \in Works : pc[w] \in {"idle", "state_bitmap"} =>
       sbuf[w] = NoBuffer /\ pbuf[w] = NoBuffer
  /\ \A w \in Works : pc[w] = "pp_bitmap" => sbuf[w] \in Buffers /\ pbuf[w] = NoBuffer
  /\ \A w, x \in Works : sbuf[w] = pbuf[x] => sbuf[w] = NoBuffer
  /\ \A w, x \in Works : pbuf[w] = pbuf[x] /\ w # x => pbuf[w] = NoBuffer
  /\ \A w, x \in Works : sbuf[w] = sbuf[x] /\ w # x => sbuf[w] = NoBuffer

Patterns ==
  \A w \in Works : pc[w] \in WithBoth =>
    /\ sbuf[w] \in Buffers /\ pbuf[w] \in Buffers
    /\ mem[pbuf[w]] \subseteq seen[w] \cup Uncleared

Inv == TypesOK /\ Stages /\ Memory /\ OnList /\ Down /\ BuffersApart /\ Patterns

LEMMA InitInv == Init => Inv
<1> SUFFICES ASSUME Init PROVE Inv
  OBVIOUS
<1>0. Uncleared \subseteq Items
  BY DEF Uncleared
<1>1. TypesOK
  BY <1>0 DEF Init, TypesOK, Steps
<1>2. Stages /\ Memory
  BY DEF Init, Stages, Memory, InPre, InUser, InDetect, InEvPre, InEvUser
<1>3. OnList
  BY DEF Init, OnList, Living
<1>4. Down /\ BuffersApart /\ Patterns
  BY DEF Init, Down, BuffersApart, Patterns, WithBoth
<1> QED BY <1>1, <1>2, <1>3, <1>4 DEF Inv

LEMMA StepStages ==
  ASSUME TypesOK, Stages, NEW w \in Works,
         Start(w) \/ Create(w) \/ EventStep(w) \/ Remove(w) \/ Destroy(w)
  PROVE  Stages'
<1> USE DEF TypesOK, Stages, Goto, Open, Close, InPre, InUser, InDetect, InEvPre, InEvUser
<1>1. CASE Start(w)
  BY <1>1 DEF Start
<1>2. CASE Create(w)
  BY <1>2 DEF Create, StateBitmap, PpBitmap, Allocate, AllocateFails, PreInit,
              UserInit, DetectInit, Insert
<1>3. CASE EventStep(w)
  BY <1>3 DEF EventStep, StartEvent, EventPreInit, EventUserInit, DetectEvent,
              EndEvent, EventUserFinit, EventPreFinit
<1>4. CASE Remove(w)
  BY <1>4 DEF Remove
<1>5. CASE Destroy(w)
  BY <1>5 DEF Destroy, DetectFinit, UserFinit, PreFinit, FreeAll
<1> QED BY <1>1, <1>2, <1>3, <1>4, <1>5

LEMMA StepMemory ==
  ASSUME TypesOK, Memory, NEW w \in Works,
         Start(w) \/ Create(w) \/ EventStep(w) \/ Remove(w) \/ Destroy(w)
  PROVE  Memory'
<1> USE DEF TypesOK, Memory, Goto, Hold, Allocated, Living,
            InPre, InUser, InDetect, InEvPre, InEvUser
<1>1. CASE Start(w)
  BY <1>1 DEF Start
<1>2. CASE Create(w)
  BY <1>2 DEF Create, StateBitmap, PpBitmap, Allocate, AllocateFails, PreInit,
              UserInit, DetectInit, Insert
<1>3. CASE EventStep(w)
  BY <1>3 DEF EventStep, StartEvent, EventPreInit, EventUserInit, DetectEvent,
              EndEvent, EventUserFinit, EventPreFinit
<1>4. CASE Remove(w)
  BY <1>4 DEF Remove
<1>5. CASE Destroy(w)
  BY <1>5 DEF Destroy, DetectFinit, UserFinit, PreFinit, FreeAll
<1> QED BY <1>1, <1>2, <1>3, <1>4, <1>5

\* Taking entry n out of a list.
Moved(n, k) == IF k < n THEN k ELSE k + 1

LEMMA Without ==
  ASSUME NEW s \in Seq(Works), NEW n \in 1..Len(s)
  PROVE  /\ Unlinked(s, n) \in Seq(Works)
         /\ Len(Unlinked(s, n)) = Len(s) - 1
         /\ \A k \in 1..Len(s) - 1 : Unlinked(s, n)[k] = s[Moved(n, k)]
<1> DEFINE a == SubSeq(s, 1, n - 1)
           b == SubSeq(s, n + 1, Len(s))
<1>0. Len(s) \in Nat /\ n \in Nat /\ 1 <= n /\ n <= Len(s) /\ \A i \in 1..Len(s) : s[i] \in Works
  BY LenProperties, ElementOfSeq
<1>1. a \in Seq(Works) /\ Len(a) = n - 1 /\ \A k \in 1..n - 1 : a[k] = s[k]
  <2>1. \A i \in 1..n - 1 : s[i] \in Works
    BY <1>0
  <2> QED BY <1>0, <2>1, SubSeqProperties
<1>2. b \in Seq(Works) /\ Len(b) = Len(s) - n /\ \A k \in 1..Len(s) - n : b[k] = s[n + k]
  <2>1. \A i \in n + 1..Len(s) : s[i] \in Works
    BY <1>0
  <2> QED BY <1>0, <2>1, SubSeqProperties
<1> HIDE DEF a, b
<1>3. /\ a \o b \in Seq(Works) /\ Len(a \o b) = Len(s) - 1
      /\ \A k \in 1..Len(s) - 1 : (a \o b)[k] = IF k <= n - 1 THEN a[k] ELSE b[k - (n - 1)]
  BY <1>0, <1>1, <1>2, ConcatProperties
<1>4. ASSUME NEW k \in 1..Len(s) - 1 PROVE (a \o b)[k] = s[Moved(n, k)]
  <2>1. CASE k <= n - 1
    BY <1>0, <1>1, <1>3, <2>1 DEF Moved
  <2>2. CASE ~(k <= n - 1)
    <3>1. k - (n - 1) \in 1..Len(s) - n /\ n + (k - (n - 1)) = k + 1
      BY <1>0, <2>2
    <3>2. b[k - (n - 1)] = s[k + 1]
      BY <1>2, <3>1
    <3> QED BY <1>0, <1>3, <2>2, <3>2 DEF Moved
  <2> QED BY <2>1, <2>2
<1> QED BY <1>3, <1>4 DEF Unlinked, a, b

LEMMA StepOnList ==
  ASSUME TypesOK, OnList, NEW w \in Works,
         Start(w) \/ Create(w) \/ EventStep(w) \/ Remove(w) \/ Destroy(w)
  PROVE  list' \in Seq(Works) /\ OnList'
<1>0. /\ list \in Seq(Works) /\ Len(list) \in Nat /\ DOMAIN list = 1..Len(list)
      /\ pc \in [Works -> Steps]
      /\ \A m, n \in 1..Len(list) : list[m] = list[n] => m = n
      /\ \A x \in Works : pc[x] \in Living <=> \E n \in 1..Len(list) : list[n] = x
  BY LenProperties DEF TypesOK, OnList
<1> USE DEF Goto
<1>1. CASE list' = list /\ (pc[w] \in Living <=> pc'[w] \in Living)
             /\ \A x \in Works \ {w} : pc'[x] = pc[x]
  BY <1>1 DEF TypesOK, OnList
<1>2. CASE Insert(w)
  <2>1. list' = Append(list, w) /\ pc[w] \notin Living
    BY <1>2 DEF Insert, Living
  <2>2. /\ list' \in Seq(Works) /\ Len(list') = Len(list) + 1
        /\ DOMAIN list' = 1..Len(list) + 1
        /\ list'[Len(list) + 1] = w
        /\ \A n \in 1..Len(list) : list'[n] = list[n]
    BY <1>0, <2>1, AppendProperties, LenProperties
  <2>3. pc'[w] \in Living /\ \A x \in Works \ {w} : pc'[x] = pc[x]
    BY <1>0, <1>2 DEF Insert, Living
  <2>4. \A n \in 1..Len(list) : list[n] # w
    BY <1>0, <2>1
  <2>5. \A m, n \in DOMAIN list' : list'[m] = list'[n] => m = n
    BY <1>0, <2>2, <2>4
  <2>6. ASSUME NEW x \in Works
        PROVE  pc'[x] \in Living <=> \E n \in DOMAIN list' : list'[n] = x
    <3>1. CASE x = w
      BY <1>0, <2>2, <2>3, <3>1
    <3>2. CASE x # w
      BY <1>0, <2>2, <2>3, <3>2
    <3> QED BY <3>1, <3>2
  <2> QED BY <2>2, <2>5, <2>6 DEF OnList
<1>3. CASE Remove(w)
  <2>1. PICK n \in 1..Len(list) : list[n] = w /\ list' = Unlinked(list, n)
    BY <1>0, <1>3 DEF Remove
  <2>3. /\ list' \in Seq(Works) /\ Len(list') = Len(list) - 1
        /\ \A k \in 1..Len(list) - 1 : list'[k] = list[Moved(n, k)]
    <3>1. /\ Unlinked(list, n) \in Seq(Works) /\ Len(Unlinked(list, n)) = Len(list) - 1
          /\ \A k \in 1..Len(list) - 1 : Unlinked(list, n)[k] = list[Moved(n, k)]
      <4>1. list \in Seq(Works) /\ n \in 1..Len(list)
        BY <1>0
      <4> QED BY <4>1, Without
    <3> QED BY <2>1, <3>1
  <2>4. DOMAIN list' = 1..Len(list) - 1
    BY <1>0, <2>3, LenProperties
  <2>5. pc'[w] \notin Living /\ \A x \in Works \ {w} : pc'[x] = pc[x]
    BY <1>0, <1>3 DEF Remove, Living
  <2>7. /\ \A k \in 1..Len(list) - 1 : Moved(n, k) \in 1..Len(list) /\ Moved(n, k) # n
        /\ \A j, k \in 1..Len(list) - 1 : Moved(n, j) = Moved(n, k) => j = k
        /\ \A m \in 1..Len(list) : m # n => \E k \in 1..Len(list) - 1 : Moved(n, k) = m
    <3>1. n \in 1..Len(list)
      BY <2>1, <1>0
    <3>2. ASSUME NEW m \in 1..Len(list), m # n
          PROVE  \E k \in 1..Len(list) - 1 : Moved(n, k) = m
      <4>1. CASE m < n
        <5>1. m \in 1..Len(list) - 1 /\ Moved(n, m) = m
          BY <1>0, <3>1, <4>1 DEF Moved
        <5> QED BY <5>1
      <4>2. CASE m > n
        <5>1. m - 1 \in 1..Len(list) - 1 /\ Moved(n, m - 1) = m
          BY <1>0, <3>1, <4>2 DEF Moved
        <5> QED BY <5>1
      <4> QED BY <1>0, <3>1, <3>2, <4>1, <4>2
    <3> QED BY <1>0, <3>1, <3>2 DEF Moved
  <2>8. ASSUME NEW j \in DOMAIN list', NEW k \in DOMAIN list', list'[j] = list'[k]
        PROVE  j = k
    <3>1. /\ j \in 1..Len(list) - 1 /\ k \in 1..Len(list) - 1
          /\ list[Moved(n, j)] = list[Moved(n, k)]
      BY <2>3, <2>4, <2>8
    <3>2. Moved(n, j) = Moved(n, k)
      BY <1>0, <2>7, <3>1
    <3> QED BY <2>7, <3>1, <3>2
  <2>9. ASSUME NEW x \in Works
        PROVE  pc'[x] \in Living <=> \E k \in DOMAIN list' : list'[k] = x
    <3>1. CASE x = w
      <4>1. pc'[x] \notin Living
        BY <2>5, <3>1
      <4>2. \A k \in DOMAIN list' : list'[k] # x
        BY <1>0, <2>1, <2>3, <2>4, <2>7, <3>1
      <4> QED BY <4>1, <4>2
    <3>2. CASE x # w
      <4>1. pc'[x] = pc[x]
        BY <2>5, <3>2
      <4>2. ASSUME NEW m \in 1..Len(list), list[m] = x
            PROVE  \E k \in DOMAIN list' : list'[k] = x
        <5>1. PICK k \in 1..Len(list) - 1 : Moved(n, k) = m
          BY <2>1, <2>7, <3>2, <4>2
        <5> QED BY <2>3, <2>4, <4>2, <5>1
      <4>3. ASSUME NEW k \in DOMAIN list', list'[k] = x
            PROVE  \E m \in 1..Len(list) : list[m] = x
        BY <2>3, <2>4, <2>7, <4>3
      <4> QED BY <1>0, <4>1, <4>2, <4>3
    <3> QED BY <3>1, <3>2
  <2> QED BY <2>3, <2>8, <2>9 DEF OnList
<1>4. CASE Start(w) \/ (Create(w) /\ ~Insert(w))
  BY <1>0, <1>1, <1>4 DEF Start, Create, StateBitmap, PpBitmap, Allocate, AllocateFails, PreInit,
              UserInit, DetectInit, Living
<1>5. CASE EventStep(w) \/ Destroy(w)
  BY <1>0, <1>1, <1>5 DEF EventStep, StartEvent, EventPreInit, EventUserInit, DetectEvent,
              EndEvent, EventUserFinit, EventPreFinit, Living,
              Destroy, DetectFinit, UserFinit, PreFinit, FreeAll
<1> QED BY <1>2, <1>3, <1>4, <1>5

\* What a work does apart from the buffers, and what does it to them.
Quiet(w) ==
  \/ Start(w) \/ Allocate(w) \/ AllocateFails(w) \/ PreInit(w) \/ UserInit(w)
  \/ DetectInit(w) \/ Insert(w) \/ StartEvent(w) \/ EventPreInit(w) \/ EventUserInit(w)
  \/ EndEvent(w) \/ EventUserFinit(w) \/ EventPreFinit(w)
  \/ Remove(w) \/ DetectFinit(w) \/ UserFinit(w) \/ PreFinit(w)

LEMMA StepTypes ==
  ASSUME TypesOK, OnList, NEW w \in Works,
         Start(w) \/ Create(w) \/ EventStep(w) \/ Remove(w) \/ Destroy(w)
  PROVE  TypesOK'
<1>1. list' \in Seq(Works)
  BY StepOnList
<1> USE <1>1 DEF TypesOK, Goto, Hold, Open, Close, Steps
<1>2. CASE Quiet(w)
  <2>1. CASE Start(w) \/ Allocate(w) \/ AllocateFails(w) \/ PreInit(w) \/ UserInit(w)
             \/ DetectInit(w) \/ Insert(w)
    BY <2>1 DEF Start, Allocate, AllocateFails, PreInit, UserInit, DetectInit, Insert
  <2>2. CASE StartEvent(w) \/ EventPreInit(w) \/ EventUserInit(w) \/ EndEvent(w)
             \/ EventUserFinit(w) \/ EventPreFinit(w)
    BY <2>2 DEF StartEvent, EventPreInit, EventUserInit, EndEvent, EventUserFinit,
                EventPreFinit
  <2>3. CASE Remove(w) \/ DetectFinit(w) \/ UserFinit(w) \/ PreFinit(w)
    BY <2>3 DEF Remove, DetectFinit, UserFinit, PreFinit
  <2> QED BY <1>2, <2>1, <2>2, <2>3 DEF Quiet
<1>3. CASE StateBitmap(w)
  BY <1>3 DEF StateBitmap, FreshBuffer
<1>4. CASE PpBitmap(w)
  BY <1>4 DEF PpBitmap, FreshBuffer
<1>5. CASE FreeAll(w)
  BY <1>5 DEF FreeAll
<1>6. CASE DetectEvent(w)
  BY <1>6, ZenonT(30) DEF DetectEvent
<1> QED BY <1>2, <1>3, <1>4, <1>5, <1>6 DEF Quiet, Create, EventStep, Destroy

LEMMA StepDown ==
  ASSUME TypesOK, OnList, Down, NEW w \in Works,
         Start(w) \/ Create(w) \/ EventStep(w) \/ Remove(w) \/ Destroy(w)
  PROVE  Down'
<1>1. engine' = engine
  BY DEF Start, Create, EventStep, Destroy, Allocate, AllocateFails, PreInit, UserInit,
         DetectInit, Insert, StartEvent, EventPreInit, EventUserInit, EndEvent,
         EventUserFinit, EventPreFinit, Remove, DetectFinit, UserFinit, PreFinit,
         StateBitmap, PpBitmap, FreeAll, DetectEvent
<1>2. pc[w] # "idle" \/ engine = "up"
  BY DEF Start, Create, EventStep, Destroy, Allocate, AllocateFails, PreInit, UserInit,
         DetectInit, Insert, StartEvent, EventPreInit, EventUserInit, EndEvent,
         EventUserFinit, EventPreFinit, Remove, DetectFinit, UserFinit, PreFinit,
         StateBitmap, PpBitmap, FreeAll, DetectEvent, Goto
<1> QED BY <1>1, <1>2 DEF Down, TypesOK

\* A quiet step leaves the buffers where they are and as they are; it does not
\* come back to a step at which they are still to be had.
LEMMA QuietBuffers ==
  ASSUME TypesOK, NEW w \in Works, Quiet(w)
  PROVE  /\ mem' = mem /\ sbuf' = sbuf /\ pbuf' = pbuf
         /\ \A x \in Works \ {w} : pc'[x] = pc[x] /\ seen'[x] = seen[x]
         /\ pc'[w] \in {"idle", "state_bitmap"} => pc[w] = "idle"
         /\ pc'[w] # "pp_bitmap"
         /\ pc'[w] \in WithBoth => pc[w] \in WithBoth /\ seen' = seen
<1> USE DEF TypesOK, Goto, WithBoth, Steps
<1>1. CASE Start(w) \/ Allocate(w) \/ AllocateFails(w) \/ PreInit(w) \/ UserInit(w)
           \/ DetectInit(w) \/ Insert(w)
  BY <1>1 DEF Start, Allocate, AllocateFails, PreInit, UserInit, DetectInit, Insert
<1>2. CASE StartEvent(w) \/ EventPreInit(w) \/ EventUserInit(w) \/ EndEvent(w)
           \/ EventUserFinit(w) \/ EventPreFinit(w)
  BY <1>2 DEF StartEvent, EventPreInit, EventUserInit, EndEvent, EventUserFinit,
              EventPreFinit
<1>3. CASE Remove(w) \/ DetectFinit(w) \/ UserFinit(w) \/ PreFinit(w)
  BY <1>3 DEF Remove, DetectFinit, UserFinit, PreFinit
<1> QED BY <1>1, <1>2, <1>3 DEF Quiet

LEMMA StepBuffers ==
  ASSUME TypesOK, BuffersApart, NEW w \in Works,
         Start(w) \/ Create(w) \/ EventStep(w) \/ Remove(w) \/ Destroy(w)
  PROVE  BuffersApart'
<1>1. CASE Quiet(w)
  <2>1. sbuf' = sbuf /\ pbuf' = pbuf
    BY <1>1, QuietBuffers
  <2>2. \A x \in Works : /\ pc'[x] \in {"idle", "state_bitmap"} =>
                              pc[x] \in {"idle", "state_bitmap"}
                         /\ pc'[x] = "pp_bitmap" => pc[x] = "pp_bitmap"
    BY <1>1, QuietBuffers
  <2> QED BY <2>1, <2>2 DEF BuffersApart
<1>2. CASE StateBitmap(w)
  BY <1>2, WorkAssumption DEF StateBitmap, FreshBuffer, BuffersApart, TypesOK, Goto
<1>3. CASE PpBitmap(w)
  BY <1>3, WorkAssumption DEF PpBitmap, FreshBuffer, BuffersApart, TypesOK, Goto
<1>4. CASE FreeAll(w)
  BY <1>4 DEF FreeAll, BuffersApart, TypesOK, Goto
<1>5. CASE DetectEvent(w)
  BY <1>5 DEF DetectEvent, BuffersApart
<1> QED BY <1>1, <1>2, <1>3, <1>4, <1>5 DEF Quiet, Create, EventStep, Destroy

\* A buffer that is handed out brings at most the uncleared bits; whatever
\* another work does goes to buffers of its own.
LEMMA StepPatterns ==
  ASSUME TypesOK, BuffersApart, Patterns, NEW w \in Works,
         Start(w) \/ Create(w) \/ EventStep(w) \/ Remove(w) \/ Destroy(w)
  PROVE  Patterns'
<1>1. CASE Quiet(w)
  <2>1. SUFFICES ASSUME NEW x \in Works, pc'[x] \in WithBoth
                 PROVE  /\ sbuf[x] \in Buffers /\ pbuf[x] \in Buffers
                        /\ mem[pbuf[x]] \subseteq seen'[x] \cup Uncleared
    BY <1>1, QuietBuffers DEF Patterns
  <2>2. pc[x] \in WithBoth /\ seen'[x] = seen[x]
    BY <1>1, <2>1, QuietBuffers
  <2> QED BY <2>2 DEF Patterns
<1>2. CASE StateBitmap(w)
  BY <1>2, WorkAssumption
     DEF StateBitmap, FreshBuffer, BuffersApart, Patterns, TypesOK, Goto, WithBoth, Steps
<1>3. CASE PpBitmap(w)
  <2>1. PICK b \in Buffers : FreshBuffer(b) /\ pbuf' = [pbuf EXCEPT ![w] = b]
    BY <1>3 DEF PpBitmap
  <2>2. /\ pc' = [pc EXCEPT ![w] = "ey_work"] /\ sbuf' = sbuf /\ seen' = seen
        /\ pc[w] = "pp_bitmap"
    BY <1>3 DEF PpBitmap, Goto
  <2>3. mem'[b] \subseteq Uncleared /\ \A c \in Buffers \ {b} : mem'[c] = mem[c]
    BY <2>1 DEF FreshBuffer, TypesOK
  <2>4. ASSUME NEW x \in Works \ {w}, pc'[x] \in WithBoth
        PROVE  /\ sbuf[x] \in Buffers /\ pbuf'[x] \in Buffers
               /\ mem'[pbuf'[x]] \subseteq seen'[x] \cup Uncleared
    <3>1. pc[x] \in WithBoth /\ pbuf'[x] = pbuf[x] /\ pbuf[x] # b
      BY <2>1, <2>2, <2>4 DEF TypesOK, FreshBuffer
    <3> QED BY <2>2, <2>3, <3>1 DEF Patterns
  <2>5. /\ sbuf[w] \in Buffers /\ pbuf'[w] \in Buffers
        /\ mem'[pbuf'[w]] \subseteq seen'[w] \cup Uncleared
    BY <2>1, <2>2, <2>3 DEF TypesOK, BuffersApart
  <2> QED BY <2>2, <2>4, <2>5 DEF Patterns
<1>4. CASE FreeAll(w)
  BY <1>4 DEF FreeAll, Patterns, TypesOK, Goto, WithBoth, Steps
<1>5. CASE DetectEvent(w)
  <2>1. PICK s \in SUBSET (mem[sbuf[w]] \cup (Items \ Final)), p \in SUBSET mem[pbuf[w]] :
          mem' = [mem EXCEPT ![sbuf[w]] = s, ![pbuf[w]] = p]
    BY <1>5 DEF DetectEvent
  <2>2. pc' = pc /\ sbuf' = sbuf /\ pbuf' = pbuf /\ seen' = seen /\ pc[w] \in WithBoth
    BY <1>5 DEF DetectEvent, WithBoth, Steps
  <2>3. sbuf[w] \in Buffers /\ pbuf[w] \in Buffers
    BY <2>2 DEF Patterns
  <2>4. ASSUME NEW x \in Works, pc[x] \in WithBoth
        PROVE  mem'[pbuf[x]] \subseteq mem[pbuf[x]]
    <3>1. pbuf[x] \in Buffers /\ pbuf[x] # sbuf[w] /\ (x # w => pbuf[x] # pbuf[w])
      BY <2>3, <2>4, WorkAssumption DEF Patterns, BuffersApart
    <3> QED BY <2>1, <2>3, <3>1 DEF TypesOK
  <2> QED BY <2>2, <2>4 DEF Patterns
<1> QED BY <1>1, <1>2, <1>3, <1>4, <1>5 DEF Quiet, Create, EventStep, Destroy

LEMMA StepInv ==
  ASSUME Inv, NEW w \in Works,
         Start(w) \/ Create(w) \/ EventStep(w) \/ Remove(w) \/ Destroy(w)
  PROVE  Inv'
<1>1. TypesOK'
  BY StepTypes DEF Inv
<1>2. Stages' /\ Memory'
  BY StepStages, StepMemory DEF Inv
<1>3. OnList' /\ Down'
  BY StepOnList, StepDown DEF Inv
<1>4. BuffersApart' /\ Patterns'
  BY StepBuffers, StepPatterns DEF Inv
<1> QED BY <1>1, <1>2, <1>3, <1>4 DEF Inv

LEMMA SearchInv ==
  ASSUME Inv, NEW w \in Works, NEW S \in SUBSET Clustered, Search(w, S)
  PROVE  Inv'
<1>1. /\ UNCHANGED <<engine, list, pc, held, open, sbuf, pbuf>> /\ pc[w] = "live"
      /\ mem' = [mem EXCEPT ![pbuf[w]] = @ \cup S]
      /\ seen' = [seen EXCEPT ![w] = @ \cup S]
      /\ S \subseteq Items
  BY RulesAssumption DEF Search
<1>2. pbuf[w] \in Buffers
  BY <1>1 DEF Inv, Patterns, WithBoth, Steps
<1>3. TypesOK'
  BY <1>1, <1>2 DEF Inv, TypesOK
<1>4. Stages' /\ Memory' /\ OnList' /\ Down' /\ BuffersApart'
  BY <1>1 DEF Inv, Stages, Memory, OnList, Down, BuffersApart
<1>5. ASSUME NEW x \in Works, pc[x] \in WithBoth
      PROVE  mem'[pbuf[x]] \subseteq seen'[x] \cup Uncleared
  <2>1. pbuf[x] \in Buffers /\ mem[pbuf[x]] \subseteq seen[x] \cup Uncleared
    BY <1>5 DEF Inv, Patterns
  <2>2. CASE x = w
    BY <1>1, <2>1, <2>2 DEF Inv, TypesOK
  <2>3. CASE x # w
    <3>1. pbuf[x] # pbuf[w]
      BY <1>2, <2>3, WorkAssumption DEF Inv, BuffersApart
    <3> QED BY <1>1, <2>1, <2>3, <3>1 DEF Inv, TypesOK
  <2> QED BY <2>2, <2>3
<1> QED BY <1>1, <1>3, <1>4, <1>5 DEF Inv, Patterns

LEMMA TeardownInv ==
  ASSUME Inv, EngineDestroy \/ FreeSlabs
  PROVE  Inv'
<1>1. /\ UNCHANGED <<list, pc, held, open, mem, sbuf, pbuf, seen>>
      /\ engine' \in {"destroying", "gone"}
  BY DEF EngineDestroy, FreeSlabs
<1>2. TypesOK'
  BY <1>1 DEF Inv, TypesOK
<1>3. Stages' /\ Memory' /\ OnList' /\ BuffersApart' /\ Patterns'
  BY <1>1 DEF Inv, Stages, Memory, OnList, BuffersApart, Patterns
<1>4. Down'
  <2>1. CASE EngineDestroy
    BY <2>1 DEF EngineDestroy, Down
  <2>2. CASE FreeSlabs
    <3>1. list = <<>> /\ pc' = pc /\ \A w \in Works : pc[w] \in {"idle", "live"}
      BY <2>2 DEF FreeSlabs
    <3>2. \A w \in Works : pc[w] \notin Living
      BY <3>1 DEF Inv, OnList
    <3> QED BY <3>1, <3>2 DEF Down, Living
  <2> QED BY <2>1, <2>2
<1> QED BY <1>2, <1>3, <1>4 DEF Inv

LEMMA NextInv == Inv /\ [Next]_vars => Inv'
<1> SUFFICES ASSUME Inv, [Next]_vars PROVE Inv'
  OBVIOUS
<1>1. CASE UNCHANGED vars
  BY <1>1 DEF vars, Inv, TypesOK, Stages, Memory, OnList, Down, BuffersApart, Patterns
<1>2. CASE Next
  BY <1>2, StepInv, SearchInv, TeardownInv DEF Next
<1> QED BY <1>1, <1>2

LEMMA Invariant == Spec => []Inv
  BY InitInv, NextInv, PTL DEF Spec

\* Whichever steps of creating a work or an event fail, a finaliser runs for the
\* stages that were initialised or tried, and for no others (the labels of
\* ey_runtime_create and ey_runtime_create_event).
THEOREM FinalisersAlwaysMatch == Spec => []FinalisersMatch
<1>1. Inv => FinalisersMatch
  <2> SUFFICES ASSUME Inv, NEW w \in Works, pc[w] \in DOMAIN StagesAt
               PROVE  open[w] = StagesAt[pc[w]]
    BY DEF FinalisersMatch
  <2>1. /\ open[w] \subseteq {"pre", "user", "detect", "ev_pre", "ev_user"}
        /\ "pre" \in open[w] <=> pc[w] \in InPre
        /\ "user" \in open[w] <=> pc[w] \in InUser
        /\ "detect" \in open[w] <=> pc[w] \in InDetect
        /\ "ev_pre" \in open[w] <=> pc[w] \in InEvPre
        /\ "ev_user" \in open[w] <=> pc[w] \in InEvUser
    BY DEF Inv, Stages
  <2> USE <2>1 DEF StagesAt, InPre, InUser, InDetect, InEvPre, InEvUser
  <2>2. CASE pc[w] \in {"idle", "free"}
    BY <2>2
  <2>3. CASE pc[w] = "pre_finit"
    BY <2>3
  <2>4. CASE pc[w] = "user_finit"
    BY <2>4
  <2>5. CASE pc[w] \in {"detect_finit", "live"}
    BY <2>5
  <2>6. CASE pc[w] = "ev_pre_finit"
    BY <2>6
  <2>7. CASE pc[w] \in {"ev_user_finit", "event"}
    BY <2>7
  <2> QED BY <2>2, <2>3, <2>4, <2>5, <2>6, <2>7
<1> QED BY <1>1, Invariant, PTL

\* A work that is gone has left no memory, no buffer and no entry on the
\* engine's list, and an engine that is gone has no works (ey_runtime_destroy,
\* ey_work_finit).
THEOREM NothingIsLeft == Spec => []NothingLeft
<1>1. Inv => NothingLeft
  <2> SUFFICES ASSUME Inv PROVE NothingLeft
    OBVIOUS
  <2>1. \A w \in Works : pc[w] = "idle" =>
          held[w] = {} /\ sbuf[w] = NoBuffer /\ pbuf[w] = NoBuffer
    BY DEF Inv, Memory, BuffersApart, Allocated, InPre, InUser, InDetect, InEvPre, InEvUser
  <2> QED BY <2>1 DEF NothingLeft, Inv, OnList, Down
<1> QED BY <1>1, Invariant, PTL

\* If ey_bitmap_create clears the bits of all items, no work ever has a pattern
\* of another one, whatever buffers they exchange (ey_bitmap.c).
THEOREM PatternsAreOwn ==
  ASSUME Uncleared = {}
  PROVE  Spec => []PatternsOfThisWork
<1>1. Inv => PatternsOfThisWork
  BY DEF Inv, Patterns, PatternsOfThisWork, Living, WithBoth, Steps
<1> QED BY <1>1, Invariant, PTL
=============================================================================
