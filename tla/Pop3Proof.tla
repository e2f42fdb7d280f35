------------------------------ MODULE Pop3Proof ------------------------------
(***************************************************************************)
(* The POP3 decoder, for any commands, bodies and number of requests.      *)
(*                                                                         *)
(* The queue: QueueInOrder of Pop3Session is inductive with the types of   *)
(* the variables it speaks of.                                             *)
(*                                                                         *)
(* Refusals: Stage says where lexer and parser are in an answer that is    *)
(* not Refusable, by what is still to come of it; every piece leads from a *)
(* stage to a stage, so that the parser always has a way on.               *)
(*                                                                         *)
(* Pairs and signatures: Where says the same, more loosely, of a plain     *)
(* session, in which no line of a body is taken for an answer.  Thus there *)
(* are as many pairs as answers, but for the answer that is being read,    *)
(* and the queue has the requests that come next.                          *)
(***************************************************************************)
EXTENDS Pop3Session, SequenceTheorems, FiniteSetTheorems, WellFoundedInduction, TLAPS

-----------------------------------------------------------------------------
(* The queue.                                                              *)

AnswerType == [status : {"ok", "err"}, body : Bodies \cup {NoBody}, after : SessionStates]
PairType == [req : Nat, res : Int]

Types ==
  /\ answers \in Seq(AnswerType)
  /\ parsed \in Nat
  /\ requests \in Seq(Nat)
  /\ cmds \in Seq(PairType)

QueueInv == Types /\ QueueInOrder

queue == <<parsed, requests, cmds>>

\* A positive answer leads from a session state to a session state.
LEMMA TransferType ==
  ASSUME NEW s \in SessionStates, NEW code
  PROVE  Transfer(s, code) \in SessionStates
BY DEF Transfer, SessionStates

LEMMA ServerStateType ==
  ASSUME answers \in Seq(AnswerType)
  PROVE  ServerState \in SessionStates
<1>1. CASE answers = <<>>
  BY <1>1 DEF ServerState, SessionStates
<1>2. CASE answers # <<>>
  <2>1. Len(answers) \in 1..Len(answers)
    BY <1>2, EmptySeq, LenProperties
  <2>2. answers[Len(answers)] \in AnswerType
    BY <2>1, ElementOfSeq
  <2>. QED  BY <1>2, <2>2 DEF ServerState, AnswerType
<1>. QED  BY <1>1, <1>2

\* The insertion of a request at the tail of request_list keeps the order.
LEMMA AddRequestKeeps ==
  ASSUME QueueInv, AddRequest, UNCHANGED cmds, answers' \in Seq(AnswerType)
  PROVE  QueueInv'
<1>. DEFINE n == Len(requests)
<1>0. /\ requests' = Append(requests, parsed + 1) /\ parsed' = parsed + 1
      /\ requests \in Seq(Nat) /\ parsed \in Nat /\ n \in Nat /\ n <= parsed
  BY LenProperties DEF QueueInv, Types, QueueInOrder, AddRequest
<1>1. Types'
  BY <1>0, AppendProperties DEF QueueInv, Types
<1>2. /\ Len(requests') = n + 1
      /\ \A i \in 1..n : requests'[i] = requests[i]
      /\ requests'[n + 1] = parsed + 1
  BY <1>0, AppendProperties
<1>3. Gone' = Gone /\ Gone \in Nat /\ parsed = Gone + n
  BY <1>0, <1>2 DEF Gone
<1>4. \A i \in 1..Len(requests') : requests'[i] = Gone' + i
  <2>. SUFFICES ASSUME NEW i \in 1..Len(requests')
                PROVE  requests'[i] = Gone' + i
    OBVIOUS
  <2>1. CASE i \in 1..n
    BY <2>1, <1>2, <1>3 DEF QueueInv, QueueInOrder
  <2>2. CASE i = n + 1
    BY <2>2, <1>0, <1>2, <1>3
  <2>3. i \in 1..(n + 1)
    BY <1>2
  <2>. QED  BY <2>1, <2>2, <2>3, <1>0
<1>5. Len(requests') <= parsed'
  BY <1>0, <1>2
<1>6. /\ \A i \in 1..Len(cmds) : cmds[i].req \in 0..Gone
      /\ \A i, j \in 1..Len(cmds) :
           i < j /\ cmds[i].req # 0 /\ cmds[j].req # 0 => cmds[i].req < cmds[j].req
      /\ \A r \in 1..Gone : \E i \in 1..Len(cmds) : cmds[i].req = r
  BY DEF QueueInv, QueueInOrder
<1>7. QueueInOrder'
  BY <1>3, <1>4, <1>5, <1>6 DEF QueueInOrder
<1>. QED  BY <1>1, <1>7 DEF QueueInv

\* A pair takes the head of request_list, or no request when it is empty.
LEMMA AddCommandKeeps ==
  ASSUME QueueInv, NEW status, AddCommand(status), UNCHANGED parsed,
         answers' \in Seq(AnswerType)
  PROVE  QueueInv'
<1>. DEFINE r == IF requests = <<>> THEN 0 ELSE Head(requests)
            n == Len(cmds)
<1>. USE DEF QueueInv, Types
<1>1. /\ cmds' = Append(cmds, [req |-> r, res |-> Len(answers) - 1])
      /\ requests' = IF requests = <<>> THEN <<>> ELSE Tail(requests)
  BY DEF AddCommand
<1>2. n \in Nat /\ Len(requests) \in Nat /\ Len(answers) \in Nat
  BY LenProperties
<1>3. r \in Nat
  BY HeadTailProperties
<1>4. /\ cmds' \in Seq(PairType)
      /\ Len(cmds') = n + 1
      /\ \A i \in 1..n : cmds'[i] = cmds[i]
      /\ cmds'[n + 1].req = r
  <2>1. [req |-> r, res |-> Len(answers) - 1] \in PairType
    BY <1>2, <1>3 DEF PairType
  <2>. QED  BY <2>1, <1>1, AppendProperties
<1>5. Gone \in Nat /\ Len(requests) <= parsed
  BY <1>2 DEF QueueInOrder, Gone
<1>6. CASE requests = <<>>
  <2>1. requests' = requests /\ Gone' = Gone /\ r = 0 /\ Len(requests) = 0
    BY <1>1, <1>6, EmptySeq DEF Gone
  <2>2. \A i \in 1..Len(cmds') : cmds'[i].req \in 0..Gone'
    BY <1>2, <1>4, <1>5, <2>1 DEF QueueInOrder
  <2>3. \A i, j \in 1..Len(cmds') :
          i < j /\ cmds'[i].req # 0 /\ cmds'[j].req # 0 => cmds'[i].req < cmds'[j].req
    <3>. SUFFICES ASSUME NEW i \in 1..Len(cmds'), NEW j \in 1..Len(cmds'),
                         i < j, cmds'[i].req # 0, cmds'[j].req # 0
                  PROVE  cmds'[i].req < cmds'[j].req
      OBVIOUS
    <3>1. i \in 1..n /\ j \in 1..n
      BY <1>2, <1>4, <2>1
    <3>. QED  BY <3>1, <1>4 DEF QueueInOrder
  <2>4. \A q \in 1..Gone' : \E i \in 1..Len(cmds') : cmds'[i].req = q
    <3>. SUFFICES ASSUME NEW q \in 1..Gone
                  PROVE  \E i \in 1..Len(cmds') : cmds'[i].req = q
      BY <2>1
    <3>1. PICK i \in 1..n : cmds[i].req = q
      BY DEF QueueInOrder
    <3>. QED  BY <3>1, <1>2, <1>4
  <2>. QED  BY <1>4, <1>5, <2>1, <2>2, <2>3, <2>4 DEF QueueInOrder
<1>7. CASE requests # <<>>
  <2>1. /\ requests' \in Seq(Nat)
        /\ Len(requests') = Len(requests) - 1
        /\ \A i \in 1..Len(requests') : requests'[i] = requests[i + 1]
        /\ r = requests[1]
        /\ Len(requests) >= 1
    BY <1>1, <1>7, HeadTailProperties, EmptySeq, LenProperties
  <2>2. Gone' = Gone + 1 /\ r = Gone + 1
    BY <1>2, <1>5, <2>1 DEF Gone, QueueInOrder
  <2>3. \A i \in 1..Len(requests') : requests'[i] = Gone' + i
    BY <1>2, <1>5, <2>1, <2>2 DEF QueueInOrder
  <2>4. \A i \in 1..n : cmds'[i].req \in 0..Gone /\ cmds'[i] = cmds[i]
    BY <1>4 DEF QueueInOrder
  <2>5. \A i \in 1..Len(cmds') : cmds'[i].req \in 0..Gone'
    BY <1>2, <1>4, <1>5, <2>2, <2>4
  <2>6. \A i, j \in 1..Len(cmds') :
          i < j /\ cmds'[i].req # 0 /\ cmds'[j].req # 0 => cmds'[i].req < cmds'[j].req
    <3>. SUFFICES ASSUME NEW i \in 1..Len(cmds'), NEW j \in 1..Len(cmds'),
                         i < j, cmds'[i].req # 0, cmds'[j].req # 0
                  PROVE  cmds'[i].req < cmds'[j].req
      OBVIOUS
    <3>1. i \in 1..n
      BY <1>2, <1>4
    <3>2. CASE j \in 1..n
      BY <3>1, <3>2, <2>4 DEF QueueInOrder
    <3>3. CASE j = n + 1
      BY <3>1, <3>3, <2>4, <2>2, <1>4, <1>5
    <3>4. j \in 1..(n + 1)
      BY <1>4
    <3>. QED  BY <3>2, <3>3, <3>4, <1>2
  <2>7. \A q \in 1..Gone' : \E i \in 1..Len(cmds') : cmds'[i].req = q
    <3>. SUFFICES ASSUME NEW q \in 1..Gone'
                  PROVE  \E i \in 1..Len(cmds') : cmds'[i].req = q
      OBVIOUS
    <3>1. CASE q \in 1..Gone
      <4>1. PICK i \in 1..n : cmds[i].req = q
        BY <3>1 DEF QueueInOrder
      <4>. QED  BY <4>1, <1>2, <1>4
    <3>2. CASE q = Gone + 1
      BY <3>2, <2>2, <1>2, <1>4, SMTT(20)
    <3>. QED  BY <3>1, <3>2, <2>2, <1>5
  <2>8. Len(requests') <= parsed'
    BY <1>2, <1>5, <2>1
  <2>. QED  BY <1>4, <2>1, <2>3, <2>5, <2>6, <2>7, <2>8 DEF QueueInOrder
<1>. QED  BY <1>6, <1>7

\* A step that leaves the queue alone.
LEMMA QueueUnchanged ==
  ASSUME QueueInv, UNCHANGED queue, answers' \in Seq(AnswerType)
  PROVE  QueueInv'
BY DEF QueueInv, Types, QueueInOrder, Gone, queue

LEMMA ClientKeeps ==
  ASSUME QueueInv, NEW piece, ParseClient(piece), UNCHANGED <<cmds, answers>>
  PROVE  QueueInv'
<1>1. answers' \in Seq(AnswerType)
  BY DEF QueueInv, Types
<1>2. CASE AddRequest
  BY <1>1, <1>2, AddRequestKeeps
<1>3. CASE UNCHANGED <<parsed, requests>>
  BY <1>1, <1>3, QueueUnchanged DEF queue
<1>. QED  BY <1>2, <1>3 DEF ParseClient

LEMMA ServerKeeps ==
  ASSUME QueueInv, NEW piece, NEW next, ParseServer(piece, next), UNCHANGED parsed,
         answers' \in Seq(AnswerType)
  PROVE  QueueInv'
<1>1. CASE UNCHANGED <<cmds, requests>>
  BY <1>1, QueueUnchanged DEF queue
<1>2. CASE AddCommand(spar)
  BY <1>2, AddCommandKeeps
<1>. QED  BY <1>1, <1>2 DEF ParseServer, PushServer

LEMMA QueueStep ==
  ASSUME QueueInv, [Next]_vars
  PROVE  QueueInv'
<1>0. answers \in Seq(AnswerType)
  BY DEF QueueInv, Types
<1>1. CASE \E code \in Commands, weak \in BOOLEAN : AskCommand(code, weak)
  BY <1>1, ClientKeeps DEF AskCommand, serverSide
<1>2. CASE EndLine
  BY <1>2, ClientKeeps DEF EndLine, serverSide
<1>3. CASE CutClient
  BY <1>3, ClientKeeps DEF CutClient, serverSide, peers
<1>4. CASE EndClient
  <2>1. UNCHANGED <<cmds, answers>>
    BY <1>4 DEF EndClient, serverSide, peers
  <2>2. CASE AddRequest
    BY <2>1, <2>2, <1>0, AddRequestKeeps
  <2>3. CASE UNCHANGED <<parsed, requests>>
    BY <2>1, <2>3, <1>0, QueueUnchanged DEF queue
  <2>. QED  BY <1>4, <2>2, <2>3 DEF EndClient
<1>5. ASSUME NEW status \in {"ok", "err"}, NEW body \in Bodies \cup {NoBody},
             NEW said \in BOOLEAN, Answer(status, body, said)
      PROVE  QueueInv'
  <2>. DEFINE after == IF status = "ok" THEN Transfer(ServerState, Code(Len(answers)))
                       ELSE ServerState
              ans == [status |-> status, body |-> body, after |-> after]
  <2>1. answers' = Append(answers, ans)
    BY <1>5 DEF Answer
  <2>2. after \in SessionStates
    BY <1>0, ServerStateType, TransferType
  <2>3. ans \in AnswerType
    BY <2>2 DEF AnswerType
  <2>4. answers' \in Seq(AnswerType)
    BY <1>0, <2>1, <2>3, AppendProperties
  <2>5. UNCHANGED parsed /\ ParseServer(Got("server", status), status)
    BY <1>5 DEF Answer
  <2>. QED  BY <2>4, <2>5, ServerKeeps
<1>6. CASE MoreAnswer
  BY <1>0, <1>6, ServerKeeps DEF MoreAnswer
<1>7. CASE CutServer
  <2>1. UNCHANGED <<answers, parsed>>
    BY <1>7 DEF CutServer, peers
  <2>2. CASE greedy
    BY <1>0, <1>7, <2>1, <2>2, ServerKeeps DEF CutServer
  <2>3. CASE ~greedy
    BY <1>0, <1>7, <2>1, <2>3, QueueUnchanged DEF CutServer, queue
  <2>. QED  BY <2>2, <2>3
<1>8. CASE EndServer
  BY <1>0, <1>8, ServerKeeps DEF EndServer, peers
<1>9. CASE UNCHANGED vars
  BY <1>0, <1>9, QueueUnchanged DEF vars, queue, peers, serverSide
<1>. QED  BY <1>1, <1>2, <1>3, <1>4, <1>5, <1>6, <1>7, <1>8, <1>9 DEF Next

LEMMA QueueInit == Init => QueueInv
<1>. SUFFICES ASSUME Init PROVE QueueInv
  OBVIOUS
<1>1. answers = <<>> /\ requests = <<>> /\ cmds = <<>> /\ parsed = 0
  BY DEF Init
<1>2. Types
  BY <1>1, EmptySeq DEF Types
<1>3. QueueInOrder
  BY <1>1, EmptySeq DEF QueueInOrder, Gone
<1>. QED  BY <1>2, <1>3 DEF QueueInv

-----------------------------------------------------------------------------
(* Recursive functions.                                                    *)

\* What holds of 0 and passes from n to n + 1 holds of every number.
LEMMA SetInduction ==
  ASSUME NEW T \in SUBSET Nat, 0 \in T, \A n \in T : n + 1 \in T
  PROVE  T = Nat
<1> SUFFICES ASSUME Nat \ T # {} PROVE FALSE
  OBVIOUS
<1>1. IsWellFoundedOn(OpToRel(<, Nat), Nat)
  BY NatLessThanWellFounded
<1>2. PICK x \in Nat \ T : \A y \in Nat \ T : ~(<<y, x>> \in OpToRel(<, Nat))
  <2>1. Nat \ T \subseteq Nat OBVIOUS
  <2> QED BY <1>1, <2>1, WFMin, Zenon
<1>3. x # 0 /\ x - 1 \in Nat
  OBVIOUS
<1>4. x - 1 \in Nat \ T
  BY <1>3
<1>5. <<x - 1, x>> \in OpToRel(<, Nat)
  <2>1. x - 1 < x BY <1>3
  <2> QED BY <2>1, <1>3, Zenon DEF OpToRel
<1> QED BY <1>2, <1>4, <1>5

\* f has the value b at m, and from there on what g makes of the value before.
Recursive(f, b, g, m, n) == f[m] = b /\ \A i \in m + 1 .. n : f[i] = g[<<i, f[i - 1]>>]

LEMMA RecursionExists ==
  ASSUME NEW S, NEW b \in S, NEW m \in Int, NEW n \in Nat,
         NEW g \in [Int \X S -> S]
  PROVE  \E f \in [m..m + n -> S] : Recursive(f, b, g, m, m + n)
<1> DEFINE T == {k \in Nat : \E f \in [m..m + k -> S] : Recursive(f, b, g, m, m + k)}
<1>1. 0 \in T
  <2> DEFINE f == [i \in m..m + 0 |-> b]
  <2>1. f \in [m..m + 0 -> S] /\ Recursive(f, b, g, m, m + 0)
    BY DEF Recursive
  <2> QED BY <2>1, Zenon
<1>2. ASSUME NEW k \in T PROVE k + 1 \in T
  <2>1. PICK f \in [m..m + k -> S] : Recursive(f, b, g, m, m + k)
    OBVIOUS
  <2> DEFINE h == [i \in m..m + (k + 1) |->
                     IF i <= m + k THEN f[i] ELSE g[<<i, f[i - 1]>>]]
  <2>2. h \in [m..m + (k + 1) -> S]
    <3> SUFFICES ASSUME NEW i \in m..m + (k + 1)
                 PROVE  (IF i <= m + k THEN f[i] ELSE g[<<i, f[i - 1]>>]) \in S
      OBVIOUS
    <3>1. CASE i <= m + k  BY <3>1
    <3>2. CASE i = m + (k + 1)
      <4>1. i - 1 \in m..m + k BY <3>2
      <4>2. f[i - 1] \in S BY <4>1
      <4> QED BY <3>2, <4>2
    <3> QED BY <3>1, <3>2
  <2>3. Recursive(h, b, g, m, m + (k + 1))
    <3>1. h[m] = b BY <2>1 DEF Recursive
    <3>2. ASSUME NEW i \in m + 1 .. m + (k + 1) PROVE h[i] = g[<<i, h[i - 1]>>]
      <4>1. i - 1 \in m..m + k /\ i - 1 <= m + k /\ i - 1 \in m..m + (k + 1) OBVIOUS
      <4>2. h[i - 1] = f[i - 1] BY <4>1
      <4>3. CASE i <= m + k
        <5>1. i \in m + 1 .. m + k /\ h[i] = f[i] BY <4>3
        <5> QED BY <4>2, <5>1, <2>1 DEF Recursive
      <4>4. CASE i = m + (k + 1)
        <5>1. h[i] = g[<<i, f[i - 1]>>] BY <4>4
        <5> QED BY <5>1, <4>2
      <4> QED BY <4>3, <4>4
    <3> QED BY <3>1, <3>2 DEF Recursive
  <2>4. k + 1 \in Nat OBVIOUS
  <2> HIDE DEF h
  <2> QED BY <2>2, <2>3, <2>4, Zenon
<1> HIDE DEF T
<1>3. T = Nat
  <2>1. T \in SUBSET Nat BY DEF T
  <2> QED BY <1>1, <1>2, <2>1, SetInduction
<1>4. n \in T
  BY <1>3
<1> QED BY <1>4 DEF T

-----------------------------------------------------------------------------
(* The pieces of an answer.                                                *)

LEMMA LinePiecesType ==
  ASSUME NEW line \in BodyLines
  PROVE  LinePieces(line) \in Seq(Pieces)
<1>1. CASE line = "blank"
  BY <1>1 DEF LinePieces, Pieces
<1>2. CASE line = "dots"
  BY <1>2 DEF LinePieces, Pieces
<1>3. CASE line \in {"text", "ok", "err"}
  <2>1. line # "blank" /\ line # "dots" /\ line \in Pieces /\ "nl" \in Pieces
    BY <1>3 DEF Pieces
  <2>2. LinePieces(line) = <<line, "nl">>
    BY <2>1 DEF LinePieces
  <2>. QED  BY <2>1, <2>2
<1>. QED  BY <1>1, <1>2, <1>3 DEF BodyLines

\* The lines of a body, by recursion.
LEMMA LinesToStep ==
  ASSUME NEW body \in Seq(BodyLines)
  PROVE  /\ LinesTo(body, 0) = <<>>
         /\ \A n \in 1..Len(body) :
              LinesTo(body, n) = LinesTo(body, n - 1) \o LinePieces(body[n])
         /\ \A n \in 0..Len(body) : LinesTo(body, n) \in Seq(Pieces)
<1> DEFINE N == Len(body)
           Eq(w) == w = [i \in 0..Len(body) |->
                           IF i = 0 THEN <<>> ELSE w[i - 1] \o LinePieces(body[i])]
           all == CHOOSE w : Eq(w)
           g == [p \in Int \X Seq(Pieces) |->
                   IF p[1] \in 1..N THEN p[2] \o LinePieces(body[p[1]]) ELSE p[2]]
<1>0. \A i \in 1..N : LinePieces(body[i]) \in Seq(Pieces)
  BY ElementOfSeq, LinePiecesType
<1>1. g \in [Int \X Seq(Pieces) -> Seq(Pieces)]
  BY <1>0
<1>2. N \in Nat /\ 0 \in Int /\ <<>> \in Seq(Pieces)
  BY LenProperties
<1> HIDE DEF g
<1>3. PICK f \in [0..0 + N -> Seq(Pieces)] : Recursive(f, <<>>, g, 0, 0 + N)
  BY <1>1, <1>2, RecursionExists
<1>4. Eq(f)
  <2>1. ASSUME NEW k \in 0..N
        PROVE  f[k] = IF k = 0 THEN <<>> ELSE f[k - 1] \o LinePieces(body[k])
    <3>1. CASE k = 0
      BY <1>3, <3>1 DEF Recursive
    <3>2. CASE k # 0
      <4>1. k \in 0 + 1 .. 0 + N /\ k \in 1..N /\ k - 1 \in 0..0 + N
        BY <1>2, <3>2
      <4>2. f[k] = g[<<k, f[k - 1]>>]
        BY <1>3, <4>1 DEF Recursive
      <4>3. f[k - 1] \in Seq(Pieces) /\ k \in Int
        BY <1>3, <4>1
      <4>4. g[<<k, f[k - 1]>>] = f[k - 1] \o LinePieces(body[k])
        BY <4>1, <4>3 DEF g
      <4>. QED  BY <3>2, <4>2, <4>4
    <3>. QED  BY <3>1, <3>2
  <2>2. f \in [0..N -> Seq(Pieces)]
    <3>1. 0 + N = N
      BY <1>2
    <3>. QED  BY <1>3, <3>1
  <2>. QED  BY <2>1, <2>2
<1>5. Eq(all)
  <2> HIDE DEF Eq
  <2>. QED  BY <1>4, Zenon
<1>6. \A n : LinesTo(body, n) = all[n]
  BY Zenon DEF LinesTo
<1> HIDE DEF all
<1>7. LinesTo(body, 0) = <<>>
  <2>1. 0 \in 0..N /\ all[0] = <<>>
    BY <1>2, <1>5
  <2>. QED  BY <1>6, <2>1
<1>8. ASSUME NEW n \in 1..N
      PROVE  LinesTo(body, n) = LinesTo(body, n - 1) \o LinePieces(body[n])
  <2>1. n \in 0..N /\ n # 0
    BY <1>2
  <2>2. all[n] = all[n - 1] \o LinePieces(body[n])
    BY <1>5, <2>1
  <2>. QED  BY <1>6, <2>2
<1>9. \A n \in 0..N : LinesTo(body, n) \in Seq(Pieces)
  <2> DEFINE T == {n \in Nat : n <= N => LinesTo(body, n) \in Seq(Pieces)}
  <2>1. 0 \in T
    BY <1>2, <1>7
  <2>2. ASSUME NEW n \in T PROVE n + 1 \in T
    <3> SUFFICES ASSUME n + 1 <= N PROVE LinesTo(body, n + 1) \in Seq(Pieces)
      OBVIOUS
    <3>1. n + 1 \in 1..N /\ (n + 1) - 1 = n /\ n <= N
      BY <1>2
    <3>2. LinesTo(body, n) \in Seq(Pieces) /\ LinePieces(body[n + 1]) \in Seq(Pieces)
      BY <1>0, <3>1
    <3>3. LinesTo(body, n + 1) = LinesTo(body, n) \o LinePieces(body[n + 1])
      BY <1>8, <3>1
    <3>. QED  BY <3>2, <3>3, ConcatProperties
  <2> HIDE DEF T
  <2>3. T = Nat
    <3>1. T \in SUBSET Nat
      BY DEF T
    <3>. QED  BY <2>1, <2>2, <3>1, SetInduction
  <2>. QED  BY <1>2, <2>3 DEF T
<1>. QED  BY <1>7, <1>8, <1>9

LEMMA JoinAt ==
  ASSUME NEW a \in Seq(Pieces), NEW b \in Seq(Pieces)
  PROVE  /\ a \o b \in Seq(Pieces)
         /\ Len(a) \in Nat /\ Len(b) \in Nat
         /\ Len(a \o b) = Len(a) + Len(b)
         /\ \A i \in 1..Len(a) : (a \o b)[i] = a[i]
         /\ \A i \in 1..Len(b) : (a \o b)[Len(a) + i] = b[i]
         /\ \A i \in 1..Len(a \o b) : i \in 1..Len(a) \/ i - Len(a) \in 1..Len(b)
OBVIOUS

\* What a line adds to a body: one piece, or two.
LEMMA LineAdds ==
  ASSUME NEW F \in Seq(Pieces), NEW line \in BodyLines
  PROVE  LET G == F \o LinePieces(line)
         IN  /\ G \in Seq(Pieces)
             /\ \A i \in 1..Len(F) : G[i] = F[i]
             /\ line = "blank" => Len(G) = Len(F) + 1 /\ G[Len(F) + 1] = "nl"
             /\ line = "dots" => Len(G) = Len(F) + 1 /\ G[Len(F) + 1] = "dots"
             /\ line \notin {"blank", "dots"} =>
                  Len(G) = Len(F) + 2 /\ G[Len(F) + 1] = line /\ G[Len(F) + 2] = "nl"
<1>. DEFINE b == LinePieces(line)
            G == F \o b
<1>1. b \in Seq(Pieces)
  BY LinePiecesType
<1>. HIDE DEF b
<1>2. /\ G \in Seq(Pieces) /\ Len(G) = Len(F) + Len(b)
      /\ \A i \in 1..Len(F) : G[i] = F[i]
      /\ \A i \in 1..Len(b) : G[Len(F) + i] = b[i]
  BY <1>1, JoinAt
<1>. HIDE DEF G
<1>3. line = "blank" => Len(b) = 1 /\ b[1] = "nl"
  BY DEF b, LinePieces
<1>4. line = "dots" => Len(b) = 1 /\ b[1] = "dots"
  BY DEF b, LinePieces
<1>5. line \notin {"blank", "dots"} => Len(b) = 2 /\ b[1] = line /\ b[2] = "nl"
  BY DEF b, LinePieces
<1>10. Len(b) = 1 \/ Len(b) = 2 => G[Len(F) + 1] = b[1]
  BY <1>2
<1>11. Len(b) = 2 => G[Len(F) + 2] = b[2]
  BY <1>2
<1>6. line = "blank" => Len(G) = Len(F) + 1 /\ G[Len(F) + 1] = "nl"
  BY <1>2, <1>3, <1>10
<1>7. line = "dots" => Len(G) = Len(F) + 1 /\ G[Len(F) + 1] = "dots"
  BY <1>2, <1>4, <1>10
<1>8. line \notin {"blank", "dots"} =>
        Len(G) = Len(F) + 2 /\ G[Len(F) + 1] = line /\ G[Len(F) + 2] = "nl"
  BY <1>2, <1>5, <1>10, <1>11
<1>9. G = F \o LinePieces(line)
  BY DEF G, b
<1>. QED  BY <1>2, <1>6, <1>7, <1>8, <1>9

-----------------------------------------------------------------------------
(* What is still to come of a body, in a session where no line reads as a  *)
(* status line before an ordinary one: it ends with its only dot, and a    *)
(* text comes before "+OK" and "-ERR".                                     *)

Tame(q) ==
  \A i \in 1..Len(q) : q[i] \in {"ok", "err"} => \E j \in 1..(i - 1) : q[j] = "text"

Ends(q) == q # <<>> /\ \A i \in 1..Len(q) : q[i] = "dot" <=> i = Len(q)

TameTo(body, n) ==
  LET F == LinesTo(body, n)
  IN  /\ \A i \in 1..Len(F) : F[i] # "dot"
      /\ Tame(F)
      /\ \/ \E j \in 1..Len(F) : F[j] = "text"
         \/ \A i \in 1..n : body[i] \in {"blank", "dots"}

LEMMA TameStep ==
  ASSUME NEW body \in Seq(BodyLines), ~Hard(body), NEW n \in Nat, n + 1 <= Len(body),
         TameTo(body, n)
  PROVE  TameTo(body, n + 1)
<1>. DEFINE F == LinesTo(body, n)
            line == body[n + 1]
            G == F \o LinePieces(line)
<1>1. n + 1 \in 1..Len(body) /\ n \in 0..Len(body) /\ (n + 1) - 1 = n
  BY LenProperties
<1>2. F \in Seq(Pieces) /\ line \in BodyLines
  BY <1>1, LinesToStep, ElementOfSeq
<1>3. LinesTo(body, n + 1) = G
  BY <1>1, LinesToStep
<1>4. /\ \A i \in 1..Len(F) : F[i] # "dot"
      /\ Tame(F)
      /\ \/ \E j \in 1..Len(F) : F[j] = "text"
         \/ \A i \in 1..n : body[i] \in {"blank", "dots"}
  BY DEF TameTo
<1>. HIDE DEF F, line
<1>5. /\ \A i \in 1..Len(F) : G[i] = F[i]
      /\ line = "blank" => Len(G) = Len(F) + 1 /\ G[Len(F) + 1] = "nl"
      /\ line = "dots" => Len(G) = Len(F) + 1 /\ G[Len(F) + 1] = "dots"
      /\ line \notin {"blank", "dots"} =>
           Len(G) = Len(F) + 2 /\ G[Len(F) + 1] = line /\ G[Len(F) + 2] = "nl"
  BY <1>2, LineAdds
<1>6. Len(F) \in Nat
  BY <1>2, LenProperties
<1>. HIDE DEF G
<1>7. line \in {"ok", "err"} => \E j \in 1..Len(F) : F[j] = "text"
  <2>. SUFFICES ASSUME line \in {"ok", "err"}, \A i \in 1..n : body[i] \in {"blank", "dots"}
                PROVE  FALSE
    BY <1>4
  <2>1. body[n + 1] \in {"ok", "err"} /\ \A j \in 1..((n + 1) - 1) : body[j] \in {"blank", "dots"}
    BY <1>1 DEF line
  <2>. QED  BY <2>1, <1>1 DEF Hard
<1>8. Len(F) + 1 <= Len(G) /\ Len(G) \in Nat
  BY <1>2, <1>5, <1>6 DEF BodyLines
<1>9. \A i \in 1..Len(G) : i \in 1..Len(F) \/ i = Len(F) + 1 \/ (i = Len(F) + 2 /\ G[i] = "nl")
  BY <1>5, <1>6, <1>8
<1>10. G[Len(F) + 1] # "dot" /\ (G[Len(F) + 1] \in {"ok", "err"} => line \in {"ok", "err"})
  BY <1>2, <1>5 DEF BodyLines
<1>11. \A i \in 1..Len(G) : G[i] # "dot"
  BY <1>4, <1>5, <1>9, <1>10
<1>12. Tame(G)
  <2>. SUFFICES ASSUME NEW i \in 1..Len(G), G[i] \in {"ok", "err"}
                PROVE  \E j \in 1..(i - 1) : G[j] = "text"
    BY DEF Tame
  <2>1. CASE i \in 1..Len(F)
    <3>1. PICK j \in 1..(i - 1) : F[j] = "text"
      BY <1>4, <1>5, <2>1 DEF Tame
    <3>2. j \in 1..Len(F)
      BY <1>6, <2>1
    <3>. QED  BY <1>5, <3>1, <3>2
  <2>2. CASE i = Len(F) + 1
    <3>1. PICK j \in 1..Len(F) : F[j] = "text"
      BY <1>7, <1>10, <2>2
    <3>. QED  BY <1>5, <1>6, <2>2, <3>1
  <2>. QED  BY <1>9, <2>1, <2>2
<1>13. \/ \E j \in 1..Len(G) : G[j] = "text"
       \/ \A i \in 1..(n + 1) : body[i] \in {"blank", "dots"}
  <2>1. CASE \E j \in 1..Len(F) : F[j] = "text"
    <3>1. PICK j \in 1..Len(F) : F[j] = "text"
      BY <2>1
    <3>2. j \in 1..Len(G)
      BY <1>6, <1>8
    <3>. QED  BY <1>5, <3>1, <3>2
  <2>2. CASE line = "text"
    <3>1. G[Len(F) + 1] = "text" /\ Len(F) + 1 \in 1..Len(G)
      BY <1>5, <1>6, <1>8, <2>2
    <3>. QED  BY <3>1
  <2>3. CASE line \in {"blank", "dots"} /\ \A i \in 1..n : body[i] \in {"blank", "dots"}
    <3>1. \A i \in 1..(n + 1) : i \in 1..n \/ i = n + 1
      OBVIOUS
    <3>. QED  BY <2>3, <3>1 DEF line
  <2>. QED  BY <1>2, <1>4, <1>7, <2>1, <2>2, <2>3 DEF BodyLines
<1>. QED  BY <1>3, <1>11, <1>12, <1>13 DEF TameTo

LEMMA TameBody ==
  ASSUME NEW body \in Seq(BodyLines), ~Hard(body)
  PROVE  LET q == LinesTo(body, Len(body)) \o <<"dot">>
         IN  q \in Seq(Pieces) /\ Ends(q) /\ Tame(q)
<1>. DEFINE T == {n \in Nat : n <= Len(body) => TameTo(body, n)}
<1>0. Len(body) \in Nat
  BY LenProperties
<1>1. 0 \in T
  <2>1. LinesTo(body, 0) = <<>>
    BY LinesToStep
  <2>2. TameTo(body, 0)
    BY <2>1 DEF TameTo, Tame
  <2>. QED  BY <2>2
<1>2. ASSUME NEW n \in T PROVE n + 1 \in T
  <2>. SUFFICES ASSUME n + 1 <= Len(body) PROVE TameTo(body, n + 1)
    OBVIOUS
  <2>1. n \in Nat /\ TameTo(body, n)
    BY <1>0
  <2>. QED  BY <2>1, TameStep
<1>. HIDE DEF T
<1>3. T = Nat
  <2>1. T \in SUBSET Nat
    BY DEF T
  <2>. QED  BY <1>1, <1>2, <2>1, SetInduction
<1>4. TameTo(body, Len(body))
  BY <1>0, <1>3 DEF T
<1>. DEFINE F == LinesTo(body, Len(body))
            D == <<"dot">>
            q == F \o D
<1>5. F \in Seq(Pieces) /\ D \in Seq(Pieces) /\ Len(D) = 1 /\ D[1] = "dot"
  <2>1. Len(body) \in 0..Len(body)
    BY <1>0
  <2>. QED  BY <2>1, LinesToStep DEF Pieces
<1>6. (\A i \in 1..Len(F) : F[i] # "dot") /\ Tame(F)
  BY <1>4 DEF TameTo
<1>. HIDE DEF F, D
<1>7. /\ q \in Seq(Pieces) /\ Len(F) \in Nat /\ Len(q) = Len(F) + 1
      /\ \A i \in 1..Len(F) : q[i] = F[i]
      /\ q[Len(F) + 1] = "dot"
  BY <1>5, JoinAt, SMTT(20)
<1>. HIDE DEF q
<1>8. \A i \in 1..Len(q) : i \in 1..Len(F) \/ i = Len(F) + 1
  BY <1>7
<1>9. q # <<>>
  BY <1>7, EmptySeq
<1>10. Ends(q)
  BY <1>6, <1>7, <1>8, <1>9 DEF Ends
<1>11. Tame(q)
  <2>. SUFFICES ASSUME NEW i \in 1..Len(q), q[i] \in {"ok", "err"}
                PROVE  \E j \in 1..(i - 1) : q[j] = "text"
    BY DEF Tame
  <2>1. i \in 1..Len(F)
    BY <1>7, <1>8
  <2>2. PICK j \in 1..(i - 1) : F[j] = "text"
    BY <1>6, <1>7, <2>1 DEF Tame
  <2>3. j \in 1..Len(F)
    BY <1>7, <2>1
  <2>. QED  BY <1>7, <2>2, <2>3
<1>. QED  BY <1>7, <1>10, <1>11 DEF q, F, D
-----------------------------------------------------------------------------
(* What is still to come of a body that is not Refusable: blank lines,     *)
(* then an ordinary one, then lines none of which is blank, and the dot.   *)

Begins == {"text", "ok", "err"}

\* The lines from place k on.
LinesFrom(q, k) ==
  /\ k \in Nat /\ k < Len(q)
  /\ q[Len(q)] = "dot"
  /\ \A i \in (k + 1)..Len(q) :
       /\ q[i] = "dot" => i = Len(q)
       /\ q[i] \in Begins => q[i + 1] = "nl"
       /\ q[i] = "nl" => i > k + 1 /\ q[i - 1] \in Begins

BodyFrom(q, k) ==
  (\A i \in 1..k : q[i] = "nl") /\ LinesFrom(q, k) /\ q[k + 1] = "text"

Body(q) == \E k \in Nat : BodyFrom(q, k)

\* The same of the first lines of a body, before the dot.
RunsFrom(F, k) ==
  /\ k \in Nat /\ k < Len(F)
  /\ \A i \in 1..k : F[i] = "nl"
  /\ F[k + 1] = "text"
  /\ \A i \in (k + 1)..Len(F) :
       /\ F[i] # "dot"
       /\ F[i] \in Begins => i < Len(F) /\ F[i + 1] = "nl"
       /\ F[i] = "nl" => i > k + 1 /\ F[i - 1] \in Begins

RunsTo(body, n) ==
  LET F == LinesTo(body, n)
  IN  \/ /\ \A i \in 1..n : body[i] = "blank"
         /\ \A i \in 1..Len(F) : F[i] = "nl"
      \/ n > 0 /\ body[n] # "blank" /\ \E k \in Nat : RunsFrom(F, k)

\* A line that is not blank adds to lines that run.
LEMMA RunsOn ==
  ASSUME NEW F \in Seq(Pieces), NEW line \in BodyLines, line # "blank",
         NEW k \in Nat, RunsFrom(F, k)
  PROVE  RunsFrom(F \o LinePieces(line), k)
<1>. DEFINE G == F \o LinePieces(line)
<1>1. /\ G \in Seq(Pieces)
      /\ \A i \in 1..Len(F) : G[i] = F[i]
      /\ line = "dots" => Len(G) = Len(F) + 1 /\ G[Len(F) + 1] = "dots"
      /\ line \notin {"blank", "dots"} =>
           Len(G) = Len(F) + 2 /\ G[Len(F) + 1] = line /\ G[Len(F) + 2] = "nl"
  BY LineAdds
<1>2. Len(F) \in Nat /\ Len(G) \in Nat
  BY <1>1, LenProperties
<1>. HIDE DEF G
<1>3. k < Len(F) /\ Len(F) < Len(G)
  BY <1>1, <1>2 DEF RunsFrom
<1>4. (\A i \in 1..k : G[i] = "nl") /\ G[k + 1] = "text"
  <2>1. \A i \in 1..k : i \in 1..Len(F)
    BY <1>2, <1>3
  <2>2. k + 1 \in 1..Len(F)
    BY <1>2, <1>3
  <2>. QED  BY <1>1, <2>1, <2>2 DEF RunsFrom
<1>5. ASSUME NEW i \in (k + 1)..Len(G)
      PROVE  /\ G[i] # "dot"
             /\ G[i] \in Begins => i < Len(G) /\ G[i + 1] = "nl"
             /\ G[i] = "nl" => i > k + 1 /\ G[i - 1] \in Begins
  <2>1. CASE i \in (k + 1)..Len(F)
    <3>1. i \in 1..Len(F) /\ G[i] = F[i]
      BY <1>1, <2>1
    <3>2. /\ F[i] # "dot"
          /\ F[i] \in Begins => i < Len(F) /\ F[i + 1] = "nl"
          /\ F[i] = "nl" => i > k + 1 /\ F[i - 1] \in Begins
      BY <2>1 DEF RunsFrom
    <3>3. i < Len(F) => i + 1 \in 1..Len(F)
      BY <1>2, <3>1
    <3>4. i > k + 1 => i - 1 \in 1..Len(F)
      BY <1>2, <3>1
    <3>5. i < Len(F) => i < Len(G)
      BY <1>2, <1>3
    <3>. QED  BY <1>1, <3>1, <3>2, <3>3, <3>4, <3>5
  <2>2. CASE line = "dots"
    <3>1. i \in (k + 1)..Len(F) \/ i = Len(F) + 1
      BY <1>1, <1>2, <2>2
    <3>2. CASE i = Len(F) + 1
      BY <1>1, <2>2, <3>2 DEF Begins
    <3>. QED  BY <2>1, <3>1, <3>2
  <2>3. CASE line \in Begins
    <3>0. line \notin {"blank", "dots"} /\ line # "nl" /\ line # "dot"
      BY <2>3 DEF Begins
    <3>1. i \in (k + 1)..Len(F) \/ i = Len(F) + 1 \/ i = Len(F) + 2
      BY <1>1, <1>2, <3>0
    <3>2. CASE i = Len(F) + 1
      <4>1. G[i] = line /\ i + 1 = Len(F) + 2 /\ i < Len(G) /\ G[i + 1] = "nl"
        BY <1>1, <1>2, <3>0, <3>2
      <4>. QED  BY <3>0, <4>1
    <3>3. CASE i = Len(F) + 2
      <4>1. G[i] = "nl" /\ i - 1 = Len(F) + 1 /\ G[i - 1] = line /\ i > k + 1
        BY <1>1, <1>2, <1>3, <3>0, <3>3
      <4>. QED  BY <2>3, <4>1 DEF Begins
    <3>. QED  BY <2>1, <3>1, <3>2, <3>3
  <2>. QED  BY <2>2, <2>3 DEF BodyLines, Begins
<1>6. RunsFrom(G, k)
  BY <1>2, <1>3, <1>4, <1>5 DEF RunsFrom
<1>. QED  BY <1>6 DEF G

LEMMA RunsStep ==
  ASSUME NEW body \in Seq(BodyLines), body # NoBody, ~Refusable(body),
         NEW n \in Nat, n + 1 <= Len(body), RunsTo(body, n)
  PROVE  RunsTo(body, n + 1)
<1>. DEFINE F == LinesTo(body, n)
            line == body[n + 1]
            G == F \o LinePieces(line)
<1>0. Len(body) \in Nat
  BY LenProperties
<1>1. n + 1 \in 1..Len(body) /\ n \in 0..Len(body) /\ (n + 1) - 1 = n
  BY <1>0
<1>2. F \in Seq(Pieces) /\ line \in BodyLines
  BY <1>1, LinesToStep, ElementOfSeq
<1>3. LinesTo(body, n + 1) = G
  BY <1>1, LinesToStep
<1>4. \/ /\ \A i \in 1..n : body[i] = "blank"
         /\ \A i \in 1..Len(F) : F[i] = "nl"
      \/ n > 0 /\ body[n] # "blank" /\ \E k \in Nat : RunsFrom(F, k)
  BY DEF RunsTo
<1>5. /\ ~(body[n + 1] \in {"ok", "err", "dots"} /\ \A j \in 1..n : body[j] = "blank")
      /\ ~(n + 1 \in 2..Len(body) /\ body[n + 1] = "blank" /\ body[n] # "blank")
  BY <1>1 DEF Refusable
<1>. HIDE DEF F, line
<1>6. /\ G \in Seq(Pieces)
      /\ \A i \in 1..Len(F) : G[i] = F[i]
      /\ line = "blank" => Len(G) = Len(F) + 1 /\ G[Len(F) + 1] = "nl"
      /\ line \notin {"blank", "dots"} =>
           Len(G) = Len(F) + 2 /\ G[Len(F) + 1] = line /\ G[Len(F) + 2] = "nl"
  BY <1>2, LineAdds
<1>7. Len(F) \in Nat
  BY <1>2, LenProperties
<1>8. CASE \E k \in Nat : RunsFrom(F, k) /\ n > 0 /\ body[n] # "blank"
  <2>1. PICK k \in Nat : RunsFrom(F, k)
    BY <1>8
  <2>2. line # "blank"
    BY <1>0, <1>1, <1>5, <1>8 DEF line
  <2>3. RunsFrom(LinesTo(body, n + 1), k)
    BY <1>2, <1>3, <2>1, <2>2, RunsOn
  <2>4. n + 1 > 0 /\ body[n + 1] # "blank"
    BY <2>2 DEF line
  <2>. QED  BY <2>3, <2>4 DEF RunsTo
<1>. HIDE DEF G
<1>9. CASE (\A i \in 1..n : body[i] = "blank") /\ \A i \in 1..Len(F) : F[i] = "nl"
  <2>1. CASE line = "blank"
    <3>1. \A i \in 1..Len(G) : i \in 1..Len(F) \/ i = Len(F) + 1
      BY <1>6, <1>7, <2>1
    <3>2. \A i \in 1..Len(G) : G[i] = "nl"
      BY <1>6, <1>9, <2>1, <3>1
    <3>3. \A i \in 1..(n + 1) : i \in 1..n \/ i = n + 1
      OBVIOUS
    <3>4. \A i \in 1..(n + 1) : body[i] = "blank"
      BY <1>9, <2>1, <3>3 DEF line
    <3>. QED  BY <1>3, <3>2, <3>4 DEF RunsTo
  <2>2. CASE line = "text"
    <3>1. Len(G) = Len(F) + 2 /\ G[Len(F) + 1] = "text" /\ G[Len(F) + 2] = "nl"
      BY <1>6, <2>2
    <3>2. Len(F) < Len(G) /\ \A i \in 1..Len(F) : G[i] = "nl"
      BY <1>6, <1>7, <1>9, <3>1
    <3>3. ASSUME NEW i \in (Len(F) + 1)..Len(G)
          PROVE  /\ G[i] # "dot"
                 /\ G[i] \in Begins => i < Len(G) /\ G[i + 1] = "nl"
                 /\ G[i] = "nl" => i > Len(F) + 1 /\ G[i - 1] \in Begins
      <4>1. i = Len(F) + 1 \/ i = Len(F) + 2
        BY <1>7, <3>1
      <4>2. CASE i = Len(F) + 1
        <5>1. i + 1 = Len(F) + 2 /\ i < Len(G)
          BY <1>7, <3>1, <4>2
        <5>. QED  BY <3>1, <4>2, <5>1
      <4>3. CASE i = Len(F) + 2
        <5>1. i - 1 = Len(F) + 1 /\ i > Len(F) + 1
          BY <1>7, <4>3
        <5>. QED  BY <3>1, <4>3, <5>1 DEF Begins
      <4>. QED  BY <4>1, <4>2, <4>3
    <3>4. RunsFrom(G, Len(F))
      BY <1>7, <3>1, <3>2, <3>3 DEF RunsFrom
    <3>. QED  BY <1>3, <1>7, <2>2, <3>4 DEF RunsTo, line
  <2>3. line = "blank" \/ line = "text"
    BY <1>2, <1>5, <1>9 DEF BodyLines, line
  <2>. QED  BY <2>1, <2>2, <2>3
<1>. QED  BY <1>4, <1>8, <1>9

LEMMA BodyRuns ==
  ASSUME NEW body \in Seq(BodyLines), body # NoBody, ~Refusable(body)
  PROVE  Body(LinesTo(body, Len(body)) \o <<"dot">>)
<1>. DEFINE T == {n \in Nat : n <= Len(body) => RunsTo(body, n)}
<1>0. Len(body) \in Nat
  BY LenProperties
<1>1. 0 \in T
  <2>1. LinesTo(body, 0) = <<>>
    BY LinesToStep
  <2>2. RunsTo(body, 0)
    BY <2>1 DEF RunsTo
  <2>. QED  BY <2>2
<1>2. ASSUME NEW n \in T PROVE n + 1 \in T
  <2>. SUFFICES ASSUME n + 1 <= Len(body) PROVE RunsTo(body, n + 1)
    OBVIOUS
  <2>1. n \in Nat /\ RunsTo(body, n)
    BY <1>0
  <2>. QED  BY <2>1, RunsStep
<1>. HIDE DEF T
<1>3. T = Nat
  <2>1. T \in SUBSET Nat
    BY DEF T
  <2>. QED  BY <1>1, <1>2, <2>1, SetInduction
<1>4. RunsTo(body, Len(body))
  BY <1>0, <1>3 DEF T
<1>. DEFINE F == LinesTo(body, Len(body))
            D == <<"dot">>
            q == F \o D
<1>5. F \in Seq(Pieces) /\ D \in Seq(Pieces) /\ Len(D) = 1 /\ D[1] = "dot"
  <2>1. Len(body) \in 0..Len(body)
    BY <1>0
  <2>. QED  BY <2>1, LinesToStep DEF Pieces
<1>6. ~ \A i \in 1..Len(body) : body[i] = "blank"
  BY DEF Refusable
<1>7. PICK k \in Nat : RunsFrom(F, k)
  BY <1>4, <1>6 DEF RunsTo
<1>. HIDE DEF F, D
<1>8. /\ q \in Seq(Pieces) /\ Len(F) \in Nat /\ Len(q) = Len(F) + 1
      /\ \A i \in 1..Len(F) : q[i] = F[i]
      /\ q[Len(F) + 1] = "dot"
  BY <1>5, JoinAt, SMTT(20)
<1>. HIDE DEF q
<1>9. k < Len(F) /\ k < Len(q)
  BY <1>7, <1>8 DEF RunsFrom
<1>10. (\A i \in 1..k : q[i] = "nl") /\ q[k + 1] = "text"
  <2>1. \A i \in 1..k : i \in 1..Len(F)
    BY <1>8, <1>9
  <2>2. k + 1 \in 1..Len(F)
    BY <1>8, <1>9
  <2>. QED  BY <1>7, <1>8, <2>1, <2>2 DEF RunsFrom
<1>11. ASSUME NEW i \in (k + 1)..Len(q)
       PROVE  /\ q[i] = "dot" => i = Len(q)
              /\ q[i] \in Begins => q[i + 1] = "nl"
              /\ q[i] = "nl" => i > k + 1 /\ q[i - 1] \in Begins
  <2>1. CASE i \in (k + 1)..Len(F)
    <3>1. i \in 1..Len(F) /\ q[i] = F[i]
      BY <1>8, <2>1
    <3>2. /\ F[i] # "dot"
          /\ F[i] \in Begins => i < Len(F) /\ F[i + 1] = "nl"
          /\ F[i] = "nl" => i > k + 1 /\ F[i - 1] \in Begins
      BY <1>7, <2>1 DEF RunsFrom
    <3>3. i < Len(F) => i + 1 \in 1..Len(F)
      BY <1>8, <3>1
    <3>4. i > k + 1 => i - 1 \in 1..Len(F)
      BY <1>8, <3>1
    <3>. QED  BY <1>8, <3>1, <3>2, <3>3, <3>4
  <2>2. CASE i = Len(q)
    BY <1>8, <2>2 DEF Begins
  <2>. QED  BY <1>8, <2>1, <2>2
<1>12. q[Len(q)] = "dot"
  BY <1>8
<1>13. LinesFrom(q, k)
  BY <1>9, <1>11, <1>12 DEF LinesFrom
<1>14. Body(q)
  BY <1>10, <1>13 DEF Body, BodyFrom
<1>. QED  BY <1>14 DEF q, F, D
-----------------------------------------------------------------------------
(* Where lexer and parser are in an answer that is not refused: l, p and   *)
(* the pieces q that are still to be parsed.                               *)

OkEnd(q) == q # <<>> /\ q[1] = "nl" /\ (Tail(q) = <<>> \/ Body(Tail(q)))

OkLine(q) == OkEnd(q) \/ (q # <<>> /\ q[1] = "text" /\ OkEnd(Tail(q)))

ErrEnd(q) == q # <<>> /\ q[1] = "nl" /\ Tail(q) = <<>>

ErrLine(q) == ErrEnd(q) \/ (q # <<>> /\ q[1] = "text" /\ ErrEnd(Tail(q)))

Stage(l, p, q) ==
  \/ /\ l = "initial" /\ p \in {"list", "head"}
     /\ \/ q = <<>>
        \/ q # <<>> /\ q[1] = "ok" /\ OkLine(Tail(q))
        \/ q # <<>> /\ q[1] = "err" /\ ErrLine(Tail(q))
  \/ l = "line" /\ p = "ok" /\ OkLine(q)
  \/ l = "line" /\ p = "okline" /\ OkEnd(q)
  \/ l = "line" /\ p = "err" /\ ErrLine(q)
  \/ l = "line" /\ p = "errline" /\ ErrEnd(q)
  \/ l \in {"initial", "body"} /\ p = "head" /\ Body(q) /\ (l = "body" => q[1] = "text")
  \/ l = "body" /\ p = "line" /\ q # <<>> /\ q[1] = "nl" /\ LinesFrom(q, 1)
  \/ l = "body" /\ p = "lines" /\ LinesFrom(q, 0)

LEMMA TailAt ==
  ASSUME NEW q \in Seq(Pieces), q # <<>>
  PROVE  /\ Len(q) \in Nat /\ Len(q) >= 1
         /\ Head(q) = q[1] /\ q[1] \in Pieces
         /\ Tail(q) \in Seq(Pieces)
         /\ Len(Tail(q)) = Len(q) - 1
         /\ \A i \in 1..Len(Tail(q)) : Tail(q)[i] = q[i + 1]
         /\ Tail(q) = <<>> <=> Len(q) = 1
<1>1. Len(q) \in Nat /\ Len(q) >= 1
  BY EmptySeq, LenProperties
<1>2. /\ Head(q) = q[1]
      /\ Tail(q) \in Seq(Pieces)
      /\ Len(Tail(q)) = Len(q) - 1
      /\ \A i \in 1..Len(Tail(q)) : Tail(q)[i] = q[i + 1]
  BY HeadTailProperties
<1>3. q[1] \in Pieces
  BY <1>1, ElementOfSeq
<1>4. Tail(q) = <<>> <=> Len(q) = 1
  BY <1>1, <1>2, EmptySeq
<1>. QED  BY <1>1, <1>2, <1>3, <1>4

\* The tokens that the states of the parser take.
LEMMA Taken ==
  /\ Takes("list", "ok") /\ Goto["list"]["ok"] = "ok"
  /\ Takes("list", "err") /\ Goto["list"]["err"] = "err"
  /\ Takes("head", "ok") /\ Goto["head"]["ok"] = "ok"
  /\ Takes("head", "err") /\ Goto["head"]["err"] = "err"
  /\ Takes("ok", "string") /\ Goto["ok"]["string"] = "okline"
  /\ Takes("ok", "newline") /\ Goto["ok"]["newline"] = "head"
  /\ Takes("okline", "newline") /\ Goto["okline"]["newline"] = "head"
  /\ Takes("err", "string") /\ Goto["err"]["string"] = "errline"
  /\ Takes("err", "newline") /\ Goto["err"]["newline"] = "list"
  /\ Takes("errline", "newline") /\ Goto["errline"]["newline"] = "list"
  /\ Takes("head", "string") /\ Goto["head"]["string"] = "line"
  /\ Takes("line", "newline") /\ Goto["line"]["newline"] = "lines"
  /\ Takes("lines", "string") /\ Goto["lines"]["string"] = "line"
  /\ Takes("lines", "bodyline") /\ Goto["lines"]["bodyline"] = "lines"
  /\ Takes("lines", "eob") /\ Goto["lines"]["eob"] = "list"
  /\ Takes("head", "bodyline") /\ Goto["head"]["bodyline"] = "lines"
  /\ Takes("head", "eob") /\ Goto["head"]["eob"] = "list"
BY DEF Takes, Goto

\* The tokens of the pieces, by start condition.
LEMMA Tokens ==
  /\ Token("initial", "ok") = "ok" /\ Token("initial", "err") = "err"
  /\ Token("initial", "nl") = "eaten" /\ Token("initial", "text") = "string"
  /\ Token("initial", "dot") = "newline" /\ Token("initial", "dots") = "eob"
  /\ Token("line", "text") = "string" /\ Token("line", "nl") = "newline"
  /\ Token("body", "text") = "string" /\ Token("body", "ok") = "string"
  /\ Token("body", "err") = "string" /\ Token("body", "nl") = "newline"
  /\ Token("body", "dot") = "eob" /\ Token("body", "dots") = "bodyline"
BY DEF Token

LEMMA LexesTo ==
  /\ LexAfter("initial", "ok") = "line" /\ LexAfter("initial", "err") = "line"
  /\ LexAfter("initial", "nl") = "initial" /\ LexAfter("initial", "text") = "body"
  /\ LexAfter("initial", "dot") = "body" /\ LexAfter("initial", "dots") = "initial"
  /\ LexAfter("line", "text") = "line" /\ LexAfter("line", "nl") = "initial"
  /\ LexAfter("body", "text") = "body" /\ LexAfter("body", "ok") = "body"
  /\ LexAfter("body", "err") = "body" /\ LexAfter("body", "nl") = "body"
  /\ LexAfter("body", "dot") = "initial" /\ LexAfter("body", "dots") = "body"
BY DEF LexAfter

\* A piece through lexer and parser, where the parser takes its token.
Passes(l, p, q) ==
  LET t == Token(l, Head(q))
  IN  IF t = "eaten"
      THEN Stage(l, p, Tail(q))
      ELSE Takes(p, t) /\ Stage(LexAfter(l, Head(q)), Goto[p][t], Tail(q))

LEMMA LinesTail ==
  ASSUME NEW q \in Seq(Pieces), NEW k \in Nat, k > 0, LinesFrom(q, k)
  PROVE  LinesFrom(Tail(q), k - 1)
<1>. DEFINE r == Tail(q)
<1>1. Len(q) \in Nat /\ k < Len(q) /\ q # <<>>
  BY LenProperties, EmptySeq DEF LinesFrom
<1>2. Len(r) = Len(q) - 1 /\ \A i \in 1..Len(r) : r[i] = q[i + 1]
  BY <1>1, TailAt
<1>. HIDE DEF r
<1>3. k - 1 \in Nat /\ k - 1 < Len(r) /\ Len(r) \in Nat
  BY <1>1, <1>2
<1>4. r[Len(r)] = "dot"
  <2>1. Len(r) \in 1..Len(r) /\ Len(r) + 1 = Len(q)
    BY <1>2, <1>3
  <2>. QED  BY <1>2, <2>1 DEF LinesFrom
<1>5. ASSUME NEW i \in ((k - 1) + 1)..Len(r)
      PROVE  /\ r[i] = "dot" => i = Len(r)
             /\ r[i] \in Begins => r[i + 1] = "nl"
             /\ r[i] = "nl" => i > (k - 1) + 1 /\ r[i - 1] \in Begins
  <2>1. i \in 1..Len(r) /\ i + 1 \in (k + 1)..Len(q) /\ (i + 1) - 1 = i
    BY <1>2, <1>3
  <2>2. /\ q[i + 1] = "dot" => i + 1 = Len(q)
        /\ q[i + 1] \in Begins => q[(i + 1) + 1] = "nl"
        /\ q[i + 1] = "nl" => i + 1 > k + 1 /\ q[i] \in Begins
    BY <2>1 DEF LinesFrom
  <2>3. r[i] = q[i + 1]
    BY <1>2, <2>1
  <2>4. r[i] = "dot" => i = Len(r)
    BY <1>2, <2>1, <2>2, <2>3
  <2>5. r[i] \in Begins => r[i + 1] = "nl"
    <3>1. SUFFICES ASSUME r[i] \in Begins PROVE r[i + 1] = "nl"
      OBVIOUS
    <3>2. i # Len(r)
      BY <1>4, <3>1 DEF Begins
    <3>3. i + 1 \in 1..Len(r)
      BY <1>3, <2>1, <3>2
    <3>. QED  BY <1>2, <2>2, <2>3, <3>1, <3>3
  <2>6. r[i] = "nl" => i > (k - 1) + 1 /\ r[i - 1] \in Begins
    <3>1. SUFFICES ASSUME r[i] = "nl" PROVE i > (k - 1) + 1 /\ r[i - 1] \in Begins
      OBVIOUS
    <3>2. i > k /\ q[i] \in Begins
      BY <1>3, <2>1, <2>2, <2>3, <3>1
    <3>3. i - 1 \in 1..Len(r) /\ (i - 1) + 1 = i
      BY <1>3, <2>1, <3>2
    <3>. QED  BY <1>2, <1>3, <2>1, <3>2, <3>3
  <2>. QED  BY <2>4, <2>5, <2>6
<1>6. LinesFrom(r, k - 1)
  BY <1>3, <1>4, <1>5 DEF LinesFrom
<1>. QED  BY <1>6 DEF r

\* The first piece of a line, of dots or of an ordinary line, is parsed.
LEMMA LinesGoOn ==
  ASSUME NEW q \in Seq(Pieces), LinesFrom(q, 0), q[1] # "dot"
  PROVE  /\ q # <<>> /\ Tail(q) # <<>>
         /\ q[1] \in Begins \cup {"dots"}
         /\ q[1] \in Begins => Tail(q)[1] = "nl" /\ LinesFrom(Tail(q), 1)
         /\ q[1] = "dots" => LinesFrom(Tail(q), 0)
<1>. DEFINE r == Tail(q)
<1>1. Len(q) \in Nat /\ 0 < Len(q) /\ q # <<>>
  BY LenProperties, EmptySeq DEF LinesFrom
<1>2. /\ Len(r) = Len(q) - 1 /\ \A i \in 1..Len(r) : r[i] = q[i + 1]
      /\ q[1] \in Pieces
      /\ r = <<>> <=> Len(q) = 1
  BY <1>1, TailAt
<1>. HIDE DEF r
<1>3. Len(q) # 1 /\ r # <<>>
  BY <1>2 DEF LinesFrom
<1>4. 1 \in (0 + 1)..Len(q)
  BY <1>1
<1>5. /\ q[1] \in Begins => q[1 + 1] = "nl"
      /\ q[1] # "nl"
  BY <1>4 DEF LinesFrom
<1>6. q[1] \in Begins \cup {"dots"}
  BY <1>2, <1>5 DEF Pieces, Begins
<1>7. Len(r) \in Nat /\ 1 \in 1..Len(r) /\ 0 < Len(r)
  BY <1>1, <1>2, <1>3
<1>8. r[Len(r)] = "dot"
  <2>1. Len(r) \in 1..Len(r) /\ Len(r) + 1 = Len(q)
    BY <1>2, <1>7
  <2>. QED  BY <1>2, <2>1 DEF LinesFrom
<1>9. ASSUME NEW i \in 1..Len(r)
      PROVE  /\ r[i] = "dot" => i = Len(r)
             /\ r[i] \in Begins => r[i + 1] = "nl"
             /\ r[i] = "nl" => q[i] \in Begins
  <2>1. i + 1 \in (0 + 1)..Len(q) /\ (i + 1) - 1 = i
    BY <1>2, <1>7
  <2>2. /\ q[i + 1] = "dot" => i + 1 = Len(q)
        /\ q[i + 1] \in Begins => q[(i + 1) + 1] = "nl"
        /\ q[i + 1] = "nl" => q[i] \in Begins
    BY <2>1 DEF LinesFrom
  <2>3. r[i] = q[i + 1]
    BY <1>2
  <2>4. r[i] = "dot" => i = Len(r)
    BY <1>2, <1>7, <2>2, <2>3
  <2>5. r[i] \in Begins => r[i + 1] = "nl"
    <3>1. SUFFICES ASSUME r[i] \in Begins PROVE r[i + 1] = "nl"
      OBVIOUS
    <3>2. i # Len(r)
      BY <1>8, <3>1 DEF Begins
    <3>3. i + 1 \in 1..Len(r)
      BY <1>7, <3>2
    <3>. QED  BY <1>2, <2>2, <2>3, <3>1, <3>3
  <2>. QED  BY <2>2, <2>3, <2>4, <2>5
<1>10. ASSUME q[1] \in Begins
       PROVE  r[1] = "nl" /\ LinesFrom(r, 1)
  <2>1. r[1] = "nl"
    BY <1>2, <1>5, <1>7, <1>10
  <2>2. Len(r) # 1
    BY <1>8, <2>1
  <2>3. ASSUME NEW i \in (1 + 1)..Len(r), r[i] = "nl"
        PROVE  i > 1 + 1 /\ r[i - 1] \in Begins
    <3>1. i \in 1..Len(r) /\ i - 1 \in 1..Len(r) /\ (i - 1) + 1 = i
      BY <1>7, <2>3
    <3>2. q[i] \in Begins /\ r[i - 1] = q[i]
      BY <1>2, <1>9, <2>3, <3>1
    <3>3. i # 2
      BY <2>1, <3>2 DEF Begins
    <3>. QED  BY <3>1, <3>2, <3>3
  <2>4. \A i \in (1 + 1)..Len(r) : i \in 1..Len(r)
    BY <1>7
  <2>5. 1 \in Nat /\ 1 < Len(r)
    BY <1>7, <2>2
  <2>. QED  BY <1>8, <1>9, <2>1, <2>3, <2>4, <2>5 DEF LinesFrom
<1>11. ASSUME q[1] = "dots"
       PROVE  LinesFrom(r, 0)
  <2>1. ASSUME NEW i \in (0 + 1)..Len(r), r[i] = "nl"
        PROVE  i > 0 + 1 /\ r[i - 1] \in Begins
    <3>1. i \in 1..Len(r)
      OBVIOUS
    <3>2. q[i] \in Begins
      BY <1>9, <2>1, <3>1
    <3>3. i # 1
      BY <1>11, <3>2 DEF Begins
    <3>4. i - 1 \in 1..Len(r) /\ (i - 1) + 1 = i
      BY <1>7, <3>1, <3>3
    <3>. QED  BY <1>2, <3>2, <3>3, <3>4
  <2>2. \A i \in (0 + 1)..Len(r) : i \in 1..Len(r)
    OBVIOUS
  <2>. QED  BY <1>7, <1>8, <1>9, <2>1, <2>2 DEF LinesFrom
<1>. QED  BY <1>1, <1>3, <1>6, <1>10, <1>11 DEF r
LEMMA FirstLinePasses ==
  ASSUME NEW q \in Seq(Pieces), q # <<>>,
         NEW p \in {"ok", "okline", "err", "errline"}, Stage("line", p, q)
  PROVE  Passes("line", p, q)
<1>1. Head(q) = q[1]
  BY TailAt
<1>2. CASE p \in {"ok", "okline"} /\ OkEnd(q)
  <2>1. Stage("initial", "head", Tail(q))
    BY <1>2 DEF OkEnd, Stage
  <2>2. Head(q) = "nl"
    BY <1>1, <1>2 DEF OkEnd
  <2>. QED  BY <1>2, <2>1, <2>2, Taken, Tokens, LexesTo DEF Passes
<1>3. CASE p = "ok" /\ q[1] = "text" /\ OkEnd(Tail(q))
  <2>1. Stage("line", "okline", Tail(q))
    BY <1>3 DEF Stage
  <2>. QED  BY <1>1, <1>3, <2>1, Taken, Tokens, LexesTo DEF Passes
<1>4. CASE p \in {"err", "errline"} /\ ErrEnd(q)
  <2>1. Stage("initial", "list", Tail(q))
    BY <1>4 DEF ErrEnd, Stage
  <2>2. Head(q) = "nl"
    BY <1>1, <1>4 DEF ErrEnd
  <2>. QED  BY <1>4, <2>1, <2>2, Taken, Tokens, LexesTo DEF Passes
<1>5. CASE p = "err" /\ q[1] = "text" /\ ErrEnd(Tail(q))
  <2>1. Stage("line", "errline", Tail(q))
    BY <1>5 DEF Stage
  <2>. QED  BY <1>1, <1>5, <2>1, Taken, Tokens, LexesTo DEF Passes
<1>. QED  BY <1>2, <1>3, <1>4, <1>5 DEF Stage, OkLine, ErrLine

LEMMA BodyPasses ==
  ASSUME NEW q \in Seq(Pieces), Body(q), NEW l \in {"initial", "body"},
         l = "body" => q[1] = "text"
  PROVE  Passes(l, "head", q)
<1>1. PICK k \in Nat : BodyFrom(q, k)
  BY DEF Body
<1>2. Len(q) \in Nat /\ k < Len(q) /\ q # <<>>
  BY <1>1, LenProperties, EmptySeq DEF BodyFrom, LinesFrom
<1>3. Head(q) = q[1]
  BY <1>2, TailAt
<1>4. CASE k = 0
  <2>1. q[1] = "text" /\ LinesFrom(q, 0)
    BY <1>1, <1>4 DEF BodyFrom
  <2>2. Tail(q) # <<>> /\ Tail(q)[1] = "nl" /\ LinesFrom(Tail(q), 1)
    BY <2>1, LinesGoOn DEF Begins
  <2>3. Stage("body", "line", Tail(q))
    BY <2>2 DEF Stage
  <2>4. l = "initial" \/ l = "body"
    OBVIOUS
  <2>. QED  BY <1>3, <2>1, <2>3, <2>4, Taken, Tokens, LexesTo DEF Passes
<1>5. CASE k # 0
  <2>0. 1 \in 1..k
    BY <1>5
  <2>1. q[1] = "nl" /\ l = "initial"
    BY <1>1, <2>0 DEF BodyFrom
  <2>2. LinesFrom(Tail(q), k - 1)
    BY <1>1, <1>5, LinesTail DEF BodyFrom
  <2>3. /\ Len(Tail(q)) = Len(q) - 1
        /\ \A i \in 1..Len(Tail(q)) : Tail(q)[i] = q[i + 1]
    BY <1>2, TailAt
  <2>4. \A i \in 1..(k - 1) : Tail(q)[i] = "nl"
    <3>. SUFFICES ASSUME NEW i \in 1..(k - 1) PROVE Tail(q)[i] = "nl"
      OBVIOUS
    <3>1. i \in 1..Len(Tail(q)) /\ i + 1 \in 1..k
      BY <1>2, <2>3
    <3>. QED  BY <1>1, <2>3, <3>1 DEF BodyFrom
  <2>5. Tail(q)[(k - 1) + 1] = "text"
    <3>1. k \in 1..Len(Tail(q)) /\ (k - 1) + 1 = k
      BY <1>2, <1>5, <2>3
    <3>. QED  BY <1>1, <2>3, <3>1 DEF BodyFrom
  <2>6. Body(Tail(q))
    <3>1. k - 1 \in Nat
      BY <1>5
    <3>2. BodyFrom(Tail(q), k - 1)
      BY <2>2, <2>4, <2>5 DEF BodyFrom
    <3>. QED  BY <3>1, <3>2 DEF Body
  <2>7. Stage("initial", "head", Tail(q))
    BY <2>6 DEF Stage
  <2>. QED  BY <1>3, <2>1, <2>7, Tokens DEF Passes
<1>. QED  BY <1>4, <1>5

LEMMA StagePasses ==
  ASSUME NEW q \in Seq(Pieces), q # <<>>, NEW l, NEW p, Stage(l, p, q)
  PROVE  Passes(l, p, q)
<1>1. Head(q) = q[1] /\ Len(q) >= 1 /\ Len(q) \in Nat
  BY TailAt
<1>2. CASE l = "initial" /\ p \in {"list", "head"} /\ q[1] = "ok" /\ OkLine(Tail(q))
  <2>1. Stage("line", "ok", Tail(q))
    BY <1>2 DEF Stage
  <2>. QED  BY <1>1, <1>2, <2>1, Taken, Tokens, LexesTo DEF Passes
<1>3. CASE l = "initial" /\ p \in {"list", "head"} /\ q[1] = "err" /\ ErrLine(Tail(q))
  <2>1. Stage("line", "err", Tail(q))
    BY <1>3 DEF Stage
  <2>. QED  BY <1>1, <1>3, <2>1, Taken, Tokens, LexesTo DEF Passes
<1>4. CASE l = "line" /\ p \in {"ok", "okline", "err", "errline"}
  BY <1>4, FirstLinePasses
<1>5. CASE l \in {"initial", "body"} /\ p = "head" /\ Body(q) /\ (l = "body" => q[1] = "text")
  BY <1>5, BodyPasses
<1>6. CASE l = "body" /\ p = "line" /\ q[1] = "nl" /\ LinesFrom(q, 1)
  <2>1. LinesFrom(Tail(q), 0)
    <3>1. LinesFrom(Tail(q), 1 - 1)
      BY <1>6, LinesTail
    <3>. QED  BY <3>1
  <2>2. Stage("body", "lines", Tail(q))
    BY <2>1 DEF Stage
  <2>. QED  BY <1>1, <1>6, <2>2, Taken, Tokens, LexesTo DEF Passes
<1>7. CASE l = "body" /\ p = "lines" /\ LinesFrom(q, 0)
  <2>1. CASE q[1] = "dot"
    <3>1. Tail(q) = <<>>
      <4>1. 1 \in (0 + 1)..Len(q)
        BY <1>1
      <4>2. Len(q) = 1
        BY <1>7, <2>1, <4>1 DEF LinesFrom
      <4>. QED  BY <4>2, TailAt
    <3>2. Stage("initial", "list", Tail(q))
      BY <3>1 DEF Stage
    <3>. QED  BY <1>1, <1>7, <2>1, <3>2, Taken, Tokens, LexesTo DEF Passes
  <2>2. CASE q[1] \in Begins
    <3>1. Tail(q) # <<>> /\ Tail(q)[1] = "nl" /\ LinesFrom(Tail(q), 1)
      BY <1>7, <2>2, LinesGoOn DEF Begins
    <3>2. Stage("body", "line", Tail(q))
      BY <3>1 DEF Stage
    <3>3. Token("body", q[1]) = "string" /\ LexAfter("body", q[1]) = "body"
      BY <2>2, Tokens, LexesTo DEF Begins
    <3>. QED  BY <1>1, <1>7, <3>2, <3>3, Taken DEF Passes
  <2>3. CASE q[1] = "dots"
    <3>1. LinesFrom(Tail(q), 0)
      BY <1>7, <2>3, LinesGoOn
    <3>2. Stage("body", "lines", Tail(q))
      BY <3>1 DEF Stage
    <3>. QED  BY <1>1, <1>7, <2>3, <3>2, Taken, Tokens, LexesTo DEF Passes
  <2>4. q[1] = "dot" \/ q[1] \in Begins \cup {"dots"}
    BY <1>7, LinesGoOn
  <2>. QED  BY <2>1, <2>2, <2>3, <2>4
<1>. QED  BY <1>2, <1>3, <1>4, <1>5, <1>6, <1>7 DEF Stage

\* A buffer that ends within the next piece.
LEMMA StageCut ==
  ASSUME NEW q \in Seq(Pieces), q # <<>>, NEW l, NEW p, Stage(l, p, q)
  PROVE  Stage(LexCut(l, Head(q)), p, q)
<1>1. Head(q) = q[1]
  BY TailAt
<1>2. CASE LexCut(l, q[1]) = l
  BY <1>1, <1>2
<1>3. CASE LexCut(l, q[1]) # l
  <2>1. l = "initial" /\ q[1] \in {"text", "dot", "dots"} /\ LexCut(l, q[1]) = "body"
    BY <1>3 DEF LexCut
  <2>2. p = "head" /\ Body(q)
    BY <2>1 DEF Stage
  <2>3. PICK k \in Nat : BodyFrom(q, k)
    BY <2>2 DEF Body
  <2>4. q[1] = "text"
    <3>1. CASE k = 0
      BY <2>3, <3>1 DEF BodyFrom
    <3>2. CASE k # 0
      <4>1. 1 \in 1..k
        BY <3>2
      <4>. QED  BY <2>1, <2>3, <4>1 DEF BodyFrom
    <3>. QED  BY <3>1, <3>2
  <2>. QED  BY <1>1, <2>1, <2>2, <2>4 DEF Stage
<1>. QED  BY <1>2, <1>3

LEMMA PiecesAssociate ==
  ASSUME NEW a \in Seq(Pieces), NEW b \in Seq(Pieces), NEW c \in Seq(Pieces)
  PROVE  (a \o b) \o c = a \o (b \o c)
OBVIOUS

\* The pieces of an answer.
LEMMA Prepended ==
  ASSUME NEW x \in Pieces, NEW b \in Seq(Pieces)
  PROVE  LET q == <<x>> \o b
         IN  q \in Seq(Pieces) /\ q # <<>> /\ q[1] = x /\ Head(q) = x /\ Tail(q) = b
<1>. DEFINE q == <<x>> \o b
<1>1. <<x>> \in Seq(Pieces) /\ Len(<<x>>) = 1 /\ <<x>>[1] = x
  OBVIOUS
<1>2. /\ q \in Seq(Pieces) /\ Len(q) = 1 + Len(b) /\ Len(b) \in Nat
      /\ q[1] = x
      /\ \A i \in 1..Len(b) : q[1 + i] = b[i]
  BY <1>1, JoinAt
<1>. HIDE DEF q
<1>3. q # <<>>
  BY <1>2, EmptySeq
<1>4. /\ Head(q) = q[1] /\ Tail(q) \in Seq(Pieces) /\ Len(Tail(q)) = Len(b)
      /\ \A i \in 1..Len(b) : Tail(q)[i] = b[i]
  BY <1>2, <1>3, TailAt
<1>5. Tail(q) = b
  BY <1>4, SeqEqual
<1>. QED  BY <1>2, <1>3, <1>4, <1>5 DEF q

LEMMA RestIs ==
  ASSUME NEW said \in BOOLEAN, NEW body,
         NEW b \in Seq(Pieces),
         b = IF body = NoBody THEN <<>> ELSE LinesTo(body, Len(body)) \o <<"dot">>
  PROVE  /\ Rest(said, body) \in Seq(Pieces)
         /\ said => /\ Rest(said, body) # <<>> /\ Rest(said, body)[1] = "text"
                    /\ Tail(Rest(said, body)) = <<"nl">> \o b
         /\ ~said => Rest(said, body) = <<"nl">> \o b
<1>1. CASE ~said
  <2>1. Rest(said, body) = <<"nl">> \o b
    BY <1>1 DEF Rest
  <2>. QED  BY <1>1, <2>1, Prepended DEF Pieces
<1>2. CASE said
  <2>. DEFINE r == <<"nl">> \o b
              T == <<"text">>
              N == <<"nl">>
  <2>1. Rest(said, body) = <<"text", "nl">> \o b
    BY <1>2 DEF Rest
  <2>2. r \in Seq(Pieces)
    BY Prepended DEF Pieces
  <2>3. <<"text", "nl">> \o b = <<"text">> \o r
    <3>1. <<"text", "nl">> = T \o N
      OBVIOUS
    <3>2. T \in Seq(Pieces) /\ N \in Seq(Pieces)
      BY DEF Pieces
    <3> HIDE DEF T, N
    <3>3. (T \o N) \o b = T \o (N \o b)
      BY <3>2, PiecesAssociate, ZenonT(30)
    <3>. QED  BY <3>1, <3>3 DEF T, N
  <2>. HIDE DEF r
  <2>4. Rest(said, body) = <<"text">> \o r
    BY <2>1, <2>3
  <2>5. "text" \in Pieces
    BY DEF Pieces
  <2>6. /\ Rest(said, body) \in Seq(Pieces) /\ Rest(said, body) # <<>>
        /\ Rest(said, body)[1] = "text" /\ Tail(Rest(said, body)) = r
    BY <2>2, <2>4, <2>5, Prepended
  <2>. QED  BY <1>2, <2>6 DEF r
<1>. QED  BY <1>1, <1>2

-----------------------------------------------------------------------------
(* Refusals.                                                               *)

Directions == {"client", "server"}

DecoderInv ==
  /\ greedy \in BOOLEAN
  /\ srest \in Seq(Pieces)
  /\ held \in [Directions -> Pieces \cup {"key", "nothing"}]
  /\ held["server"] \in Pieces \cup {"nothing"}
  /\ ~greedy => held["server"] = "nothing" /\ held["client"] = "nothing"
  /\ refused \in {"none", "client", "server"}
  /\ refused = "client" => crest # <<>>

\* The pieces of the last answer that the parser has not had.
Pend == IF held["server"] = "nothing" THEN srest ELSE <<held["server"]>> \o srest

NoRefusable == \A i \in DOMAIN answers : ~Refusable(answers[i].body)

RefusalInv == NoRefusable => refused # "server" /\ Stage(slex, spar, Pend)

LEMMA StageOfNone ==
  ASSUME NEW l, NEW p, Stage(l, p, <<>>)
  PROVE  l = "initial" /\ p \in {"list", "head"}
<1>1. Len(<<>>) = 0
  OBVIOUS
<1>2. ~ Body(<<>>) /\ ~ LinesFrom(<<>>, 0)
  BY <1>1 DEF Body, BodyFrom, LinesFrom
<1>3. ~ OkLine(<<>>) /\ ~ OkEnd(<<>>) /\ ~ ErrLine(<<>>) /\ ~ ErrEnd(<<>>)
  BY DEF OkLine, OkEnd, ErrLine, ErrEnd
<1>. QED  BY <1>2, <1>3 DEF Stage

LEMMA BodyPiecesType ==
  ASSUME NEW body \in Bodies \cup {NoBody}
  PROVE  (IF body = NoBody THEN <<>> ELSE LinesTo(body, Len(body)) \o <<"dot">>) \in Seq(Pieces)
<1>1. CASE body = NoBody
  BY <1>1
<1>2. CASE body # NoBody
  <2>1. body \in Seq(BodyLines)
    BY <1>2, ConstantsAssumption
  <2>2. Len(body) \in 0..Len(body)
    BY <2>1, LenProperties
  <2>. DEFINE F == LinesTo(body, Len(body))
              D == <<"dot">>
  <2>3. F \in Seq(Pieces) /\ D \in Seq(Pieces)
    BY <2>1, <2>2, LinesToStep DEF Pieces
  <2>. HIDE DEF F, D
  <2>4. F \o D \in Seq(Pieces)
    BY <2>3, JoinAt
  <2>. QED  BY <1>2, <2>4 DEF F, D
<1>. QED  BY <1>1, <1>2

\* An answer whose body is not refused begins between two answers.
LEMMA AnswerBegins ==
  ASSUME NEW status \in {"ok", "err"}, NEW body \in Bodies \cup {NoBody},
         NEW said \in BOOLEAN, status = "err" => body = NoBody,
         NEW p \in {"list", "head"}
  PROVE  /\ Rest(said, body) \in Seq(Pieces)
         /\ <<status>> \o Rest(said, body) \in Seq(Pieces)
         /\ ~Refusable(body) => Stage("initial", p, <<status>> \o Rest(said, body))
<1>. DEFINE b == IF body = NoBody THEN <<>> ELSE LinesTo(body, Len(body)) \o <<"dot">>
            R == Rest(said, body)
            q == <<status>> \o R
<1>1. b \in Seq(Pieces)
  BY BodyPiecesType
<1>2. ASSUME ~Refusable(body) PROVE b = <<>> \/ Body(b)
  <2>1. CASE body = NoBody
    BY <2>1
  <2>2. CASE body # NoBody
    <3>1. body \in Seq(BodyLines)
      BY <2>2, ConstantsAssumption
    <3>2. Body(LinesTo(body, Len(body)) \o <<"dot">>)
      BY <1>2, <2>2, <3>1, BodyRuns
    <3>. QED  BY <2>2, <3>2
  <2>. QED  BY <2>1, <2>2
<1>3. status = "err" => b = <<>>
  OBVIOUS
<1>4. b = IF body = NoBody THEN <<>> ELSE LinesTo(body, Len(body)) \o <<"dot">>
  OBVIOUS
<1>. HIDE DEF b
<1>5. /\ R \in Seq(Pieces)
      /\ said => R # <<>> /\ R[1] = "text" /\ Tail(R) = <<"nl">> \o b
      /\ ~said => R = <<"nl">> \o b
  BY <1>1, <1>4, RestIs, ZenonT(30)
<1>. HIDE DEF R
<1>6. LET e == <<"nl">> \o b IN e # <<>> /\ e[1] = "nl" /\ Tail(e) = b
  BY <1>1, Prepended DEF Pieces
<1>7. status \in Pieces
  BY DEF Pieces
<1>8. q \in Seq(Pieces) /\ q # <<>> /\ q[1] = status /\ Tail(q) = R
  BY <1>5, <1>7, Prepended
<1>. HIDE DEF q
<1>9. ASSUME ~Refusable(body) PROVE Stage("initial", p, q)
  <2>1. CASE status = "ok"
    <3>1. OkEnd(<<"nl">> \o b)
      BY <1>2, <1>6, <1>9 DEF OkEnd
    <3>2. OkLine(R)
      BY <1>5, <3>1 DEF OkLine
    <3>. QED  BY <1>8, <2>1, <3>2 DEF Stage
  <2>2. CASE status = "err"
    <3>1. ErrEnd(<<"nl">> \o b)
      BY <1>3, <1>6, <2>2 DEF ErrEnd
    <3>2. ErrLine(R)
      BY <1>5, <3>1 DEF ErrLine
    <3>. QED  BY <1>8, <2>2, <3>2 DEF Stage
  <2>. QED  BY <2>1, <2>2
<1>. QED  BY <1>5, <1>8, <1>9 DEF q, R

\* The start condition that the next piece may have led to.
LEMMA StageNext ==
  ASSUME NEW l, NEW p, NEW r \in Seq(Pieces), Stage(l, p, r), NEW next,
         ~greedy \/ (r # <<>> /\ next = Head(r)) \/ next \notin {"text", "dot", "dots"},
         NEW m \in LexNext(l, next)
  PROVE  Stage(m, p, r)
<1>1. m = l \/ (greedy /\ m = LexCut(l, next))
  BY DEF LexNext
<1>2. CASE m = l
  BY <1>2
<1>3. CASE greedy /\ m = LexCut(l, next) /\ next \notin {"text", "dot", "dots"}
  <2>1. m = l
    BY <1>3 DEF LexCut
  <2>. QED  BY <2>1
<1>4. CASE m = LexCut(l, next) /\ r # <<>> /\ next = Head(r)
  BY <1>4, StageCut
<1>. QED  BY <1>1, <1>2, <1>3, <1>4

\* One piece through lexer and parser.
LEMMA ParsedStage ==
  ASSUME NEW piece, NEW next, ParseServer(piece, next),
         NEW q \in Seq(Pieces), Stage(slex, spar, q), NEW r \in Seq(Pieces),
         (piece = "nothing" /\ r = q) \/ (q # <<>> /\ piece = Head(q) /\ r = Tail(q)),
         ~greedy \/ (r # <<>> /\ next = Head(r)) \/ next \notin {"text", "dot", "dots"}
  PROVE  refused' = refused /\ Stage(slex', spar', r)
<1>1. CASE piece = "nothing" /\ r = q
  <2>1. slex' \in LexNext(slex, next) /\ UNCHANGED <<spar, refused>>
    BY <1>1 DEF ParseServer
  <2>2. Stage(slex', spar, r)
    BY <1>1, <2>1, StageNext
  <2>. QED  BY <2>1, <2>2
<1>2. CASE q # <<>> /\ piece = Head(q) /\ r = Tail(q)
  <2>0. piece # "nothing"
    <3>1. piece \in Pieces
      BY <1>2, TailAt
    <3>. QED  BY <3>1 DEF Pieces
  <2>1. Passes(slex, spar, q)
    BY <1>2, StagePasses
  <2>2. CASE Token(slex, piece) = "eaten"
    <3>1. slex' \in LexNext(slex, next) /\ UNCHANGED <<spar, refused>>
      BY <2>2 DEF ParseServer
    <3>2. Stage(slex, spar, r)
      BY <1>2, <2>1, <2>2 DEF Passes
    <3>3. Stage(slex', spar, r)
      BY <3>1, <3>2, StageNext
    <3>. QED  BY <3>1, <3>3
  <2>3. CASE Token(slex, piece) # "eaten"
    <3>1. /\ slex' \in LexNext(LexAfter(slex, piece), next)
          /\ PushServer(Token(slex, piece))
      BY <2>0, <2>3 DEF ParseServer
    <3>2. /\ Takes(spar, Token(slex, piece))
          /\ Stage(LexAfter(slex, piece), Goto[spar][Token(slex, piece)], r)
      BY <1>2, <2>1, <2>3 DEF Passes
    <3>3. spar' = Goto[spar][Token(slex, piece)] /\ refused' = refused
      BY <3>1, <3>2 DEF PushServer
    <3>4. Stage(slex', spar', r)
      BY <3>1, <3>2, <3>3, StageNext
    <3>. QED  BY <3>3, <3>4
  <2>. QED  BY <2>2, <2>3
<1>. QED  BY <1>1, <1>2

LEMMA DecoderStep ==
  ASSUME DecoderInv, [Next]_vars
  PROVE  DecoderInv'
<1>0. "client" \in Directions /\ "server" \in Directions /\ "client" # "server"
  BY DEF Directions
<1>1. ASSUME NEW code \in Commands, NEW weak \in BOOLEAN, AskCommand(code, weak)
      PROVE  DecoderInv'
  <2>1. /\ UNCHANGED <<greedy, srest, refused>> /\ refused = "none"
        /\ Keep("client", "key")
    BY <1>1 DEF AskCommand, Live, Open
  <2>. QED  BY <1>0, <2>1 DEF DecoderInv, Keep
<1>2. CASE EndLine
  <2>1. /\ UNCHANGED <<greedy, srest, refused>> /\ refused = "none"
        /\ Keep("client", "nl") /\ "nl" \in Pieces
    BY <1>2 DEF EndLine, Live, Open, Pieces
  <2>. QED  BY <1>0, <2>1 DEF DecoderInv, Keep
<1>3. CASE CutClient
  <2>1. /\ UNCHANGED <<greedy, srest, refused>> /\ refused = "none"
        /\ held' = [held EXCEPT !["client"] = "nothing"]
    BY <1>3 DEF CutClient, Live, Open, peers
  <2>. QED  BY <1>0, <2>1 DEF DecoderInv
<1>4. CASE EndClient
  <2>1. /\ UNCHANGED <<greedy, srest, crest>>
        /\ refused' = IF crest = <<>> THEN "none" ELSE "client"
        /\ held' = [held EXCEPT !["client"] = "nothing"]
    BY <1>4 DEF EndClient, peers
  <2>. QED  BY <1>0, <2>1 DEF DecoderInv
<1>5. ASSUME refused = "none", NEW piece, NEW next, ParseServer(piece, next),
             UNCHANGED <<greedy, crest>>,
             srest' \in Seq(Pieces), NEW kept \in Pieces \cup {"nothing"},
             \/ Keep("server", kept)
             \/ greedy /\ held' = [held EXCEPT !["server"] = kept]
             \/ kept = "nothing" /\ held' = [held EXCEPT !["server"] = kept]
      PROVE  DecoderInv'
  <2>1. refused' \in {"none", "server"}
    BY <1>5 DEF ParseServer, PushServer
  <2>2. held' = held \/ (greedy /\ held' = [held EXCEPT !["server"] = kept])
                     \/ (kept = "nothing" /\ held' = [held EXCEPT !["server"] = kept])
    BY <1>5 DEF Keep
  <2>. QED  BY <1>0, <1>5, <2>1, <2>2 DEF DecoderInv
<1>6. ASSUME NEW status \in {"ok", "err"}, NEW body \in Bodies \cup {NoBody},
             NEW said \in BOOLEAN, Answer(status, body, said)
      PROVE  DecoderInv'
  <2>1. /\ ParseServer(Got("server", status), status) /\ Keep("server", status)
        /\ srest' = Rest(said, body) /\ UNCHANGED <<greedy, crest>>
        /\ refused = "none"
        /\ <<status, body>> \in Answerable(Code(Len(answers)))
    BY <1>6 DEF Answer, Live, Open
  <2>2. status = "err" => body = NoBody
    BY <2>1 DEF Answerable
  <2>3. srest' \in Seq(Pieces)
    <3>1. "list" \in {"list", "head"}
      OBVIOUS
    <3>. QED  BY <2>1, <2>2, <3>1, AnswerBegins
  <2>4. status \in Pieces \cup {"nothing"}
    BY DEF Pieces
  <2>. QED  BY <1>5, <2>1, <2>3, <2>4
<1>7. CASE MoreAnswer
  <2>1. /\ ParseServer(Got("server", Head(srest)), Head(srest))
        /\ Keep("server", Head(srest))
        /\ srest' = Tail(srest) /\ UNCHANGED <<greedy, crest>>
        /\ refused = "none" /\ srest # <<>>
    BY <1>7 DEF MoreAnswer, Live, Open
  <2>2. Tail(srest) \in Seq(Pieces) /\ Head(srest) \in Pieces \cup {"nothing"}
    BY <2>1, TailAt DEF DecoderInv
  <2>. QED  BY <1>5, <2>1, <2>2
<1>8. CASE CutServer
  <2>1. UNCHANGED peers /\ UNCHANGED greedy /\ refused = "none" /\ srest \in Seq(Pieces)
    BY <1>8 DEF CutServer, Live, Open, DecoderInv
  <2>2. CASE greedy
    <3>1. /\ ParseServer(held["server"], Head(srest))
          /\ held' = [held EXCEPT !["server"] = "nothing"]
      BY <1>8, <2>2 DEF CutServer
    <3>. QED  BY <1>5, <2>1, <3>1 DEF peers
  <2>3. CASE ~greedy
    <3>1. UNCHANGED <<held, refused>>
      BY <1>8, <2>3 DEF CutServer
    <3>. QED  BY <2>1, <3>1 DEF DecoderInv, peers
  <2>. QED  BY <2>2, <2>3
<1>9. CASE EndServer
  <2>1. /\ ParseServer(held["server"], "nothing")
        /\ held' = [held EXCEPT !["server"] = "nothing"]
        /\ UNCHANGED peers /\ UNCHANGED greedy /\ refused = "none" /\ srest \in Seq(Pieces)
    BY <1>9 DEF EndServer, Live, Open, DecoderInv
  <2>. QED  BY <1>5, <2>1 DEF peers
<1>10. CASE UNCHANGED vars
  BY <1>10 DEF vars, peers, DecoderInv
<1>. QED  BY <1>1, <1>2, <1>3, <1>4, <1>6, <1>7, <1>8, <1>9, <1>10 DEF Next

\* What a greedy parser gets of the pieces it has not had.
LEMMA HeldIsNext ==
  ASSUME DecoderInv
  PROVE  /\ Pend \in Seq(Pieces)
         /\ \/ held["server"] = "nothing" /\ srest = Pend
            \/ Pend # <<>> /\ held["server"] = Head(Pend) /\ srest = Tail(Pend)
<1>1. CASE held["server"] = "nothing"
  BY <1>1 DEF Pend, DecoderInv
<1>2. CASE held["server"] # "nothing"
  <2>1. held["server"] \in Pieces /\ srest \in Seq(Pieces)
    BY <1>2 DEF DecoderInv
  <2>. DEFINE x == held["server"]
  <2>2. Pend = <<x>> \o srest
    BY <1>2 DEF Pend
  <2>. HIDE DEF x
  <2>3. x \in Pieces
    BY <2>1 DEF x
  <2>4. Pend \in Seq(Pieces) /\ Pend # <<>> /\ Head(Pend) = x /\ Tail(Pend) = srest
    BY <2>1, <2>2, <2>3, Prepended
  <2>. QED  BY <2>4 DEF x
<1>. QED  BY <1>1, <1>2

LEMMA RefusalUnchanged ==
  ASSUME RefusalInv, UNCHANGED <<answers, slex, spar, srest>>,
         held'["server"] = held["server"], refused' # "server" \/ refused' = refused
  PROVE  RefusalInv'
BY DEF RefusalInv, NoRefusable, Pend

LEMMA AnswerStages ==
  ASSUME DecoderInv, answers \in Seq(AnswerType), RefusalInv,
         NEW status \in {"ok", "err"}, NEW body \in Bodies \cup {NoBody},
         NEW said \in BOOLEAN, Answer(status, body, said)
  PROVE  RefusalInv'
<1>. DEFINE ans == [status |-> status, body |-> body,
                    after |-> IF status = "ok"
                              THEN Transfer(ServerState, Code(Len(answers)))
                              ELSE ServerState]
            R == Rest(said, body)
            q == <<status>> \o R
<1>1. /\ ParseServer(Got("server", status), status) /\ Keep("server", status)
      /\ srest = <<>> /\ srest' = R /\ UNCHANGED greedy
      /\ refused = "none"
      /\ answers' = Append(answers, ans)
      /\ <<status, body>> \in Answerable(Code(Len(answers)))
  BY DEF Answer, Live, Open
<1>2. status = "err" => body = NoBody
  BY <1>1 DEF Answerable
<1>3. /\ Len(answers') = Len(answers) + 1 /\ Len(answers) \in Nat
      /\ DOMAIN answers = 1..Len(answers) /\ DOMAIN answers' = 1..(Len(answers) + 1)
      /\ \A i \in 1..Len(answers) : answers'[i] = answers[i]
      /\ answers'[Len(answers) + 1].body = body
  <2>. HIDE DEF ans
  <2>1. ans.body = body
    BY DEF ans
  <2>. QED  BY <1>1, <2>1, AppendProperties, LenProperties
<1>4. SUFFICES ASSUME NoRefusable'
               PROVE  refused' # "server" /\ Stage(slex', spar', Pend')
  BY DEF RefusalInv
<1>5. NoRefusable /\ ~Refusable(body)
  BY <1>3, <1>4 DEF NoRefusable
<1>6. Stage(slex, spar, Pend)
  BY <1>5 DEF RefusalInv
<1>. HIDE DEF ans, R
<1>7. ASSUME NEW p \in {"list", "head"}
      PROVE  R \in Seq(Pieces) /\ q \in Seq(Pieces) /\ Stage("initial", p, q)
  BY <1>2, <1>5, AnswerBegins DEF R
<1>8. R \in Seq(Pieces) /\ q \in Seq(Pieces)
  <2>1. "list" \in {"list", "head"}
    OBVIOUS
  <2>. QED  BY <1>7, <2>1
<1>9. status \in Pieces /\ status # "nothing" /\ status \notin {"text", "dot", "dots"}
  BY DEF Pieces
<1>10. q # <<>> /\ Head(q) = status /\ Tail(q) = R
  BY <1>8, <1>9, Prepended
<1>11. CASE ~greedy
  <2>1. /\ ParseServer(status, status) /\ held' = held /\ Pend = <<>> /\ Pend' = R
    BY <1>1, <1>11 DEF Got, Keep, Pend, DecoderInv
  <2>2. slex = "initial" /\ spar \in {"list", "head"}
    BY <1>6, <2>1, StageOfNone
  <2>3. Stage(slex, spar, q)
    BY <1>7, <2>2
  <2>. HIDE DEF q
  <2>4. refused' = refused /\ Stage(slex', spar', R)
    BY <1>8, <1>10, <1>11, <2>1, <2>3, ParsedStage
  <2>. QED  BY <1>1, <2>1, <2>4
<1>12. CASE greedy
  <2>1. ParseServer(held["server"], status)
    BY <1>1, <1>12 DEF Got
  <2>2. held'["server"] = status
    <3>1. held' = [held EXCEPT !["server"] = status]
      BY <1>1, <1>12 DEF Keep
    <3>. QED  BY <3>1 DEF DecoderInv, Directions
  <2>3. Pend' = q
    BY <1>1, <1>9, <2>2 DEF Pend
  <2>. HIDE DEF q
  <2>4. <<>> \in Seq(Pieces)
    OBVIOUS
  <2>5. refused' = refused /\ Stage(slex', spar', <<>>)
    BY <1>1, <1>6, <1>9, <2>1, <2>4, HeldIsNext, ParsedStage
  <2>6. slex' = "initial" /\ spar' \in {"list", "head"}
    BY <2>5, StageOfNone
  <2>7. Stage("initial", spar', q)
    BY <1>7, <2>6 DEF q
  <2>. QED  BY <1>1, <2>3, <2>5, <2>6, <2>7
<1>. QED  BY <1>11, <1>12

LEMMA MoreStages ==
  ASSUME DecoderInv, RefusalInv, MoreAnswer
  PROVE  RefusalInv'
<1>1. /\ ParseServer(Got("server", Head(srest)), Head(srest))
      /\ Keep("server", Head(srest))
      /\ srest' = Tail(srest) /\ UNCHANGED <<greedy, answers>>
      /\ refused = "none" /\ srest # <<>> /\ srest \in Seq(Pieces)
  BY DEF MoreAnswer, Live, Open, DecoderInv
<1>2. SUFFICES ASSUME NoRefusable
               PROVE  refused' # "server" /\ Stage(slex', spar', Pend')
  BY <1>1 DEF RefusalInv, NoRefusable
<1>3. Stage(slex, spar, Pend)
  BY <1>2 DEF RefusalInv
<1>4. Head(srest) \in Pieces /\ Tail(srest) \in Seq(Pieces) /\ Head(srest) # "nothing"
  <2>1. Head(srest) \in Pieces /\ Tail(srest) \in Seq(Pieces)
    BY <1>1, TailAt
  <2>. QED  BY <2>1 DEF Pieces
<1>5. CASE ~greedy
  <2>1. /\ ParseServer(Head(srest), Head(srest)) /\ Pend = srest /\ Pend' = Tail(srest)
    BY <1>1, <1>5 DEF Got, Keep, Pend, DecoderInv
  <2>2. refused' = refused /\ Stage(slex', spar', Tail(srest))
    BY <1>1, <1>3, <1>4, <1>5, <2>1, ParsedStage
  <2>. QED  BY <1>1, <2>1, <2>2
<1>6. CASE greedy
  <2>1. ParseServer(held["server"], Head(srest))
    BY <1>1, <1>6 DEF Got
  <2>2. held'["server"] = Head(srest)
    <3>1. held' = [held EXCEPT !["server"] = Head(srest)]
      BY <1>1, <1>6 DEF Keep
    <3>. QED  BY <3>1 DEF DecoderInv, Directions
  <2>3. Pend' = srest
    <3>1. Pend' = <<Head(srest)>> \o Tail(srest)
      BY <1>1, <1>4, <2>2 DEF Pend
    <3>. DEFINE e == <<Head(srest)>> \o Tail(srest)
    <3>2. e \in Seq(Pieces) /\ e # <<>> /\ Head(e) = Head(srest) /\ Tail(e) = Tail(srest)
      BY <1>4, Prepended
    <3>. HIDE DEF e
    <3>3. /\ Len(srest) >= 1 /\ Len(srest) \in Nat /\ Head(srest) = srest[1]
          /\ Len(Tail(srest)) = Len(srest) - 1
          /\ \A i \in 1..Len(Tail(srest)) : Tail(srest)[i] = srest[i + 1]
      BY <1>1, TailAt
    <3>4. /\ Len(e) >= 1 /\ Len(e) \in Nat /\ Head(e) = e[1]
          /\ Len(Tail(e)) = Len(e) - 1
          /\ \A i \in 1..Len(Tail(e)) : Tail(e)[i] = e[i + 1]
      BY <3>2, TailAt
    <3>5. Len(e) = Len(srest)
      BY <3>2, <3>3, <3>4
    <3>6. \A i \in 1..Len(e) : e[i] = srest[i]
      <4>. SUFFICES ASSUME NEW i \in 1..Len(e) PROVE e[i] = srest[i]
        OBVIOUS
      <4>1. CASE i = 1
        BY <3>2, <3>3, <3>4, <4>1
      <4>2. CASE i # 1
        <5>1. i - 1 \in 1..Len(Tail(e)) /\ (i - 1) + 1 = i
          BY <3>4, <4>2
        <5>. QED  BY <3>2, <3>3, <3>4, <5>1
      <4>. QED  BY <4>1, <4>2
    <3>7. e = srest
      BY <1>1, <3>2, <3>5, <3>6, SeqEqual
    <3>. QED  BY <3>1, <3>7 DEF e
  <2>4. refused' = refused /\ Stage(slex', spar', srest)
    BY <1>1, <1>3, <2>1, HeldIsNext, ParsedStage
  <2>. QED  BY <1>1, <2>3, <2>4
<1>. QED  BY <1>5, <1>6

LEMMA CutStages ==
  ASSUME DecoderInv, RefusalInv, CutServer
  PROVE  RefusalInv'
<1>1. /\ UNCHANGED <<greedy, answers, srest>>
      /\ refused = "none" /\ srest # <<>> /\ srest \in Seq(Pieces)
  BY DEF CutServer, Live, Open, DecoderInv, peers
<1>2. SUFFICES ASSUME NoRefusable
               PROVE  refused' # "server" /\ Stage(slex', spar', Pend')
  BY <1>1 DEF RefusalInv, NoRefusable
<1>3. Stage(slex, spar, Pend)
  BY <1>2 DEF RefusalInv
<1>4. CASE ~greedy
  <2>1. slex' = LexCut(slex, Head(srest)) /\ UNCHANGED <<held, spar, refused>>
    BY <1>4 DEF CutServer
  <2>2. Pend = srest /\ Pend' = srest
    BY <1>1, <1>4, <2>1 DEF Pend, DecoderInv
  <2>. QED  BY <1>1, <1>3, <2>1, <2>2, StageCut
<1>5. CASE greedy
  <2>1. /\ ParseServer(held["server"], Head(srest))
        /\ held' = [held EXCEPT !["server"] = "nothing"]
    BY <1>5 DEF CutServer
  <2>2. Pend' = srest
    BY <1>1, <2>1 DEF Pend, DecoderInv, Directions
  <2>3. refused' = refused /\ Stage(slex', spar', srest)
    BY <1>1, <1>3, <2>1, HeldIsNext, ParsedStage
  <2>. QED  BY <1>1, <2>2, <2>3
<1>. QED  BY <1>4, <1>5

LEMMA EndStages ==
  ASSUME DecoderInv, RefusalInv, EndServer
  PROVE  RefusalInv'
<1>1. /\ UNCHANGED <<greedy, answers, srest>>
      /\ refused = "none" /\ srest = <<>> /\ srest \in Seq(Pieces)
      /\ ParseServer(held["server"], "nothing")
      /\ held' = [held EXCEPT !["server"] = "nothing"]
  BY DEF EndServer, Live, Open, DecoderInv, peers
<1>2. SUFFICES ASSUME NoRefusable
               PROVE  refused' # "server" /\ Stage(slex', spar', Pend')
  BY <1>1 DEF RefusalInv, NoRefusable
<1>3. Stage(slex, spar, Pend)
  BY <1>2 DEF RefusalInv
<1>4. Pend' = srest
  BY <1>1 DEF Pend, DecoderInv, Directions
<1>5. "nothing" \notin {"text", "dot", "dots"}
  OBVIOUS
<1>6. refused' = refused /\ Stage(slex', spar', srest)
  BY <1>1, <1>3, <1>5, HeldIsNext, ParsedStage
<1>. QED  BY <1>1, <1>4, <1>6

LEMMA RefusalStep ==
  ASSUME DecoderInv, answers \in Seq(AnswerType), RefusalInv, [Next]_vars
  PROVE  RefusalInv'
<1>0. held \in [Directions -> Pieces \cup {"key", "nothing"}]
      /\ "client" \in Directions /\ "server" \in Directions /\ "client" # "server"
  BY DEF DecoderInv, Directions
<1>1. CASE \E code \in Commands, weak \in BOOLEAN : AskCommand(code, weak)
  <2>1. /\ UNCHANGED <<answers, slex, spar, srest, refused>>
        /\ Keep("client", "key")
    BY <1>1 DEF AskCommand, serverSide
  <2>2. held'["server"] = held["server"]
    BY <1>0, <2>1 DEF Keep
  <2>. QED  BY <2>1, <2>2, RefusalUnchanged
<1>2. CASE EndLine
  <2>1. /\ UNCHANGED <<answers, slex, spar, srest, refused>>
        /\ Keep("client", "nl")
    BY <1>2 DEF EndLine, serverSide
  <2>2. held'["server"] = held["server"]
    BY <1>0, <2>1 DEF Keep
  <2>. QED  BY <2>1, <2>2, RefusalUnchanged
<1>3. CASE CutClient
  <2>1. /\ UNCHANGED <<answers, slex, spar, srest, refused>>
        /\ held' = [held EXCEPT !["client"] = "nothing"]
    BY <1>3 DEF CutClient, serverSide, peers
  <2>2. held'["server"] = held["server"]
    BY <1>0, <2>1
  <2>. QED  BY <2>1, <2>2, RefusalUnchanged
<1>4. CASE EndClient
  <2>1. /\ UNCHANGED <<answers, slex, spar, srest>> /\ refused' # "server"
        /\ held' = [held EXCEPT !["client"] = "nothing"]
    BY <1>4 DEF EndClient, serverSide, peers
  <2>2. held'["server"] = held["server"]
    BY <1>0, <2>1
  <2>. QED  BY <2>1, <2>2, RefusalUnchanged
<1>5. CASE \E status \in {"ok", "err"}, body \in Bodies \cup {NoBody}, said \in BOOLEAN :
             Answer(status, body, said)
  BY <1>5, AnswerStages
<1>6. CASE MoreAnswer
  BY <1>6, MoreStages
<1>7. CASE CutServer
  BY <1>7, CutStages
<1>8. CASE EndServer
  BY <1>8, EndStages
<1>9. CASE UNCHANGED vars
  BY <1>9, RefusalUnchanged DEF vars, peers, serverSide
<1>. QED  BY <1>1, <1>2, <1>3, <1>4, <1>5, <1>6, <1>7, <1>8, <1>9 DEF Next

-----------------------------------------------------------------------------
(* Where lexer and parser are in a plain session.                          *)

TameEnd(q) == q = <<>> \/ (Ends(q) /\ Tame(q))

FirstEnd(q) == q # <<>> /\ q[1] = "nl" /\ TameEnd(Tail(q))

Where(l, p, q) ==
  \/ l = "initial" /\ p \in {"list", "head"} /\ TameEnd(q)
  \/ l = "line" /\ p \in {"ok", "err"}
     /\ (FirstEnd(q) \/ (q # <<>> /\ q[1] = "text" /\ FirstEnd(Tail(q))))
  \/ l = "line" /\ p \in {"okline", "errline"} /\ FirstEnd(q)
  \/ l = "body" /\ p \in {"head", "list", "line", "lines"} /\ Ends(q)

\* In a body, the parser stays in it or leaves it, or refuses.
LEMMA InBody ==
  ASSUME NEW p \in {"head", "list", "line", "lines"},
         NEW t \in {"string", "newline", "bodyline", "eob"}, Takes(p, t)
  PROVE  Goto[p][t] \in {"list", "line", "lines"} /\ (t = "eob" => Goto[p][t] = "list")
<1>1. CASE p = "head"
  BY <1>1 DEF Takes, Goto
<1>2. CASE p = "list"
  BY <1>2 DEF Takes, Goto
<1>3. CASE p = "line"
  BY <1>3 DEF Takes, Goto
<1>4. CASE p = "lines"
  BY <1>4 DEF Takes, Goto
<1>. QED  BY <1>1, <1>2, <1>3, <1>4

LEMMA EndsTail ==
  ASSUME NEW q \in Seq(Pieces), Ends(q), Head(q) # "dot"
  PROVE  Ends(Tail(q))
<1>. DEFINE r == Tail(q)
<1>1. q # <<>> /\ \A i \in 1..Len(q) : q[i] = "dot" <=> i = Len(q)
  BY DEF Ends
<1>2. /\ Len(q) \in Nat /\ Len(q) >= 1 /\ Head(q) = q[1] /\ Len(r) = Len(q) - 1
      /\ \A i \in 1..Len(r) : r[i] = q[i + 1]
      /\ r = <<>> <=> Len(q) = 1
  BY <1>1, TailAt
<1>. HIDE DEF r
<1>3. 1 \in 1..Len(q)
  BY <1>2
<1>4. r # <<>>
  BY <1>1, <1>2, <1>3
<1>5. ASSUME NEW i \in 1..Len(r) PROVE r[i] = "dot" <=> i = Len(r)
  <2>1. i + 1 \in 1..Len(q) /\ r[i] = q[i + 1]
    BY <1>2
  <2>2. q[i + 1] = "dot" <=> i + 1 = Len(q)
    BY <1>1, <2>1
  <2>. QED  BY <1>2, <2>1, <2>2
<1>. QED  BY <1>4, <1>5 DEF Ends, r

LEMMA TameTail ==
  ASSUME NEW q \in Seq(Pieces), q # <<>>, Tame(q), Head(q) # "text"
  PROVE  Head(q) \notin {"ok", "err"} /\ Tame(Tail(q))
<1>. DEFINE r == Tail(q)
<1>1. /\ Len(q) \in Nat /\ Len(q) >= 1 /\ Head(q) = q[1] /\ Len(r) = Len(q) - 1
      /\ \A i \in 1..Len(r) : r[i] = q[i + 1]
  BY TailAt
<1>. HIDE DEF r
<1>2. Head(q) \notin {"ok", "err"}
  <2>1. 1 \in 1..Len(q)
    BY <1>1
  <2>. QED  BY <1>1, <2>1 DEF Tame
<1>3. Tame(r)
  <2>. SUFFICES ASSUME NEW i \in 1..Len(r), r[i] \in {"ok", "err"}
                PROVE  \E j \in 1..(i - 1) : r[j] = "text"
    BY DEF Tame
  <2>1. i + 1 \in 1..Len(q) /\ q[i + 1] \in {"ok", "err"}
    BY <1>1
  <2>2. PICK j \in 1..((i + 1) - 1) : q[j] = "text"
    BY <2>1 DEF Tame
  <2>3. j # 1 /\ j - 1 \in 1..(i - 1)
    BY <1>1, <2>2
  <2>4. j - 1 \in 1..Len(r) /\ (j - 1) + 1 = j
    BY <1>1, <2>3
  <2>. QED  BY <1>1, <2>2, <2>3, <2>4
<1>. QED  BY <1>2, <1>3 DEF r

\* A piece through lexer and parser: a pair is made by the token after "+OK"
\* or "-ERR", and no body begins another answer.
GoesOn(l, p, q) ==
  LET t == Token(l, Head(q))
  IN  IF t = "eaten"
      THEN p \notin PairsIn /\ Where(l, p, Tail(q))
      ELSE /\ p \in PairsIn => Takes(p, t)
           /\ Takes(p, t) => /\ Goto[p][t] \notin PairsIn
                             /\ Where(LexAfter(l, Head(q)), Goto[p][t], Tail(q))

LEMMA FirstLineGoesOn ==
  ASSUME NEW q \in Seq(Pieces), q # <<>>,
         NEW p \in {"ok", "okline", "err", "errline"}, Where("line", p, q)
  PROVE  GoesOn("line", p, q)
<1>1. Head(q) = q[1]
  BY TailAt
<1>2. CASE FirstEnd(q)
  <2>1. Where("initial", "head", Tail(q)) /\ Where("initial", "list", Tail(q))
    BY <1>2 DEF FirstEnd, Where
  <2>2. Head(q) = "nl"
    BY <1>1, <1>2 DEF FirstEnd
  <2>3. Token("line", Head(q)) = "newline" /\ LexAfter("line", Head(q)) = "initial"
    BY <2>2, Tokens, LexesTo
  <2>4. Takes(p, "newline") /\ Goto[p]["newline"] \in {"head", "list"}
    BY Taken
  <2>5. Goto[p]["newline"] \notin PairsIn
    BY <2>4 DEF PairsIn
  <2>. QED  BY <2>1, <2>3, <2>4, <2>5 DEF GoesOn
<1>3. CASE p \in {"ok", "err"} /\ q[1] = "text" /\ FirstEnd(Tail(q))
  <2>1. Where("line", "okline", Tail(q)) /\ Where("line", "errline", Tail(q))
    BY <1>3 DEF Where
  <2>2. Token("line", Head(q)) = "string" /\ LexAfter("line", Head(q)) = "line"
    BY <1>1, <1>3, Tokens, LexesTo
  <2>3. Takes(p, "string") /\ Goto[p]["string"] \in {"okline", "errline"}
    BY <1>3, Taken
  <2>4. Goto[p]["string"] \notin PairsIn
    BY <2>3 DEF PairsIn
  <2>. QED  BY <2>1, <2>2, <2>3, <2>4 DEF GoesOn
<1>. QED  BY <1>2, <1>3 DEF Where

LEMMA BodyGoesOn ==
  ASSUME NEW q \in Seq(Pieces), Ends(q), NEW p \in {"head", "list", "line", "lines"}
  PROVE  GoesOn("body", p, q)
<1>1. /\ q # <<>> /\ Head(q) \in Pieces /\ Head(q) = q[1] /\ Len(q) \in Nat /\ Len(q) >= 1
      /\ Tail(q) = <<>> <=> Len(q) = 1
  BY TailAt DEF Ends
<1>. DEFINE t == Token("body", Head(q))
            l == LexAfter("body", Head(q))
<1>2. t \in {"string", "newline", "bodyline", "eob"}
  BY <1>1, Tokens DEF Pieces
<1>3. (Head(q) = "dot" => t = "eob" /\ l = "initial") /\ (Head(q) # "dot" => l = "body")
  BY <1>1, Tokens, LexesTo DEF Pieces
<1>. HIDE DEF t, l
<1>4. p \notin PairsIn
  BY DEF PairsIn
<1>5. ASSUME Takes(p, t)
      PROVE  Goto[p][t] \notin PairsIn /\ Where(l, Goto[p][t], Tail(q))
  <2>1. Goto[p][t] \in {"list", "line", "lines"} /\ (t = "eob" => Goto[p][t] = "list")
    BY <1>2, <1>5, InBody
  <2>2. Goto[p][t] \notin PairsIn
    BY <2>1 DEF PairsIn
  <2>3. CASE Head(q) = "dot"
    <3>1. 1 \in 1..Len(q)
      BY <1>1
    <3>2. Tail(q) = <<>>
      BY <1>1, <2>3, <3>1 DEF Ends
    <3>. QED  BY <1>3, <2>1, <2>2, <2>3, <3>2 DEF Where, TameEnd
  <2>4. CASE Head(q) # "dot"
    <3>1. Ends(Tail(q))
      BY <2>4, EndsTail
    <3>. QED  BY <1>3, <2>1, <2>2, <2>4, <3>1 DEF Where
  <2>. QED  BY <2>3, <2>4
<1>6. t # "eaten"
  BY <1>2
<1>. QED  BY <1>4, <1>5, <1>6 DEF GoesOn, t, l

LEMMA BetweenGoesOn ==
  ASSUME NEW q \in Seq(Pieces), Ends(q), Tame(q), NEW p \in {"list", "head"}
  PROVE  GoesOn("initial", p, q)
<1>1. /\ q # <<>> /\ Head(q) \in Pieces /\ Head(q) = q[1] /\ Len(q) >= 1
  BY TailAt DEF Ends
<1>2. p \notin PairsIn
  BY DEF PairsIn
<1>3. CASE Head(q) = "nl"
  <2>1. Ends(Tail(q)) /\ Tame(Tail(q))
    BY <1>1, <1>3, EndsTail, TameTail
  <2>2. Where("initial", p, Tail(q))
    BY <2>1 DEF Where, TameEnd
  <2>. QED  BY <1>2, <1>3, <2>2, Tokens DEF GoesOn
<1>4. CASE Head(q) = "text"
  <2>1. Ends(Tail(q))
    BY <1>4, EndsTail
  <2>2. ASSUME Takes(p, "string")
        PROVE  Goto[p]["string"] \notin PairsIn /\ Where("body", Goto[p]["string"], Tail(q))
    <3>1. Goto[p]["string"] \in {"list", "line", "lines"}
      BY <2>2, InBody
    <3>. QED  BY <2>1, <3>1 DEF Where, PairsIn
  <2>. QED  BY <1>2, <1>4, <2>2, Tokens, LexesTo DEF GoesOn
<1>5. CASE Head(q) = "dots"
  <2>1. Ends(Tail(q)) /\ Tame(Tail(q))
    BY <1>1, <1>5, EndsTail, TameTail
  <2>2. ASSUME Takes(p, "eob")
        PROVE  Goto[p]["eob"] \notin PairsIn /\ Where("initial", Goto[p]["eob"], Tail(q))
    <3>1. Goto[p]["eob"] = "list"
      BY <2>2, InBody
    <3>. QED  BY <2>1, <3>1 DEF Where, TameEnd, PairsIn
  <2>. QED  BY <1>2, <1>5, <2>2, Tokens, LexesTo DEF GoesOn
<1>6. CASE Head(q) = "dot"
  <2>1. ~Takes(p, "newline")
    BY DEF Takes, Goto
  <2>. QED  BY <1>2, <1>6, <2>1, Tokens DEF GoesOn
<1>7. Head(q) \notin {"ok", "err"}
  <2>1. CASE Head(q) = "text"
    BY <2>1
  <2>2. CASE Head(q) # "text"
    BY <1>1, <2>2, TameTail
  <2>. QED  BY <2>1, <2>2
<1>. QED  BY <1>1, <1>3, <1>4, <1>5, <1>6, <1>7 DEF Pieces

LEMMA WhereGoesOn ==
  ASSUME NEW q \in Seq(Pieces), q # <<>>, NEW l, NEW p, Where(l, p, q)
  PROVE  GoesOn(l, p, q)
<1>1. CASE l = "initial" /\ p \in {"list", "head"} /\ TameEnd(q)
  BY <1>1, BetweenGoesOn DEF TameEnd
<1>2. CASE l = "line" /\ p \in {"ok", "okline", "err", "errline"}
  BY <1>2, FirstLineGoesOn
<1>3. CASE l = "body" /\ p \in {"head", "list", "line", "lines"} /\ Ends(q)
  BY <1>3, BodyGoesOn
<1>. QED  BY <1>1, <1>2, <1>3 DEF Where

LEMMA WhereCut ==
  ASSUME NEW q \in Seq(Pieces), q # <<>>, NEW l, NEW p, Where(l, p, q)
  PROVE  Where(LexCut(l, Head(q)), p, q)
<1>1. CASE LexCut(l, Head(q)) = l
  BY <1>1
<1>2. CASE LexCut(l, Head(q)) # l
  <2>1. l = "initial" /\ LexCut(l, Head(q)) = "body"
    BY <1>2 DEF LexCut
  <2>2. p \in {"list", "head"} /\ Ends(q)
    BY <2>1 DEF Where, TameEnd
  <2>. QED  BY <2>1, <2>2 DEF Where
<1>. QED  BY <1>1, <1>2

LEMMA WhereBetween ==
  ASSUME NEW l, NEW p, Where(l, p, <<>>)
  PROVE  l = "initial" /\ p \in {"list", "head"}
BY DEF Where, FirstEnd, Ends

\* The answer whose "+OK" or "-ERR" has been parsed.
LEMMA WhereBegins ==
  ASSUME NEW status \in {"ok", "err"}, NEW body \in Bodies \cup {NoBody}, ~Hard(body),
         NEW said \in BOOLEAN
  PROVE  Where("line", status, Rest(said, body))
<1>. DEFINE b == IF body = NoBody THEN <<>> ELSE LinesTo(body, Len(body)) \o <<"dot">>
            R == Rest(said, body)
            e == <<"nl">> \o b
<1>1. b \in Seq(Pieces)
  BY BodyPiecesType
<1>2. TameEnd(b)
  <2>1. CASE body = NoBody
    BY <2>1 DEF TameEnd
  <2>2. CASE body # NoBody
    <3>1. body \in Seq(BodyLines)
      BY <2>2, ConstantsAssumption
    <3>. QED  BY <2>2, <3>1, TameBody DEF TameEnd
  <2>. QED  BY <2>1, <2>2
<1>3. b = IF body = NoBody THEN <<>> ELSE LinesTo(body, Len(body)) \o <<"dot">>
  OBVIOUS
<1>. HIDE DEF b
<1>4. /\ said => R # <<>> /\ R[1] = "text" /\ Tail(R) = e
      /\ ~said => R = e
  BY <1>1, <1>3, RestIs, ZenonT(30)
<1>. HIDE DEF R
<1>5. e # <<>> /\ e[1] = "nl" /\ Tail(e) = b
  BY <1>1, Prepended DEF Pieces
<1>. HIDE DEF e
<1>6. FirstEnd(e)
  BY <1>2, <1>5 DEF FirstEnd
<1>7. Where("line", status, R)
  BY <1>4, <1>6 DEF Where
<1>. QED  BY <1>7 DEF R

-----------------------------------------------------------------------------
(* The peers: what has been asked and answered, and what the client's      *)
(* parser has of it.                                                       *)

AskType == [code : Commands, weak : BOOLEAN, waited : BOOLEAN]

\* The state of the server before it gives the answer i.
Before(i) == IF i = 1 THEN "init" ELSE answers[i - 1].after

PeersInv ==
  /\ asked \in Seq(AskType)
  /\ crest = <<>> \/ (crest = <<"nl">> /\ asked # <<>>)
  /\ Len(answers) + Len(crest) <= Len(asked) + 1
  /\ \A i \in 1..Len(answers) :
       answers[i].after = StateAfter(Before(i), Code(i - 1), answers[i].status)
  /\ \A r \in 1..Len(asked) : asked[r].waited => r <= Len(answers)
  /\ crest # <<>> /\ asked[Len(asked)].waited => srest = <<>> /\ Len(answers) = Len(asked)

\* In a session that is not greedy the parser of the client does not lag.
ClientInv ==
  ~greedy => /\ refused = "client" => parsed = Len(asked)
             /\ refused # "client" => /\ parsed = Len(asked) - Len(crest)
                                      /\ (reading <=> crest # <<>>)

LEMMA CrestLength ==
  ASSUME PeersInv
  PROVE  (crest = <<>> /\ Len(crest) = 0) \/ (crest # <<>> /\ Len(crest) = 1)
BY DEF PeersInv

LEMMA PeersUnchanged ==
  ASSUME PeersInv, UNCHANGED <<asked, crest, answers>>, srest = <<>> => srest' = <<>>
  PROVE  PeersInv'
BY DEF PeersInv, Before, Code

LEMMA AskKeepsPeers ==
  ASSUME PeersInv, answers \in Seq(AnswerType),
         NEW code \in Commands, NEW weak \in BOOLEAN, AskCommand(code, weak)
  PROVE  PeersInv'
<1>. DEFINE ask == [code |-> code, weak |-> weak, waited |-> Waited]
            n == Len(asked)
<1>1. /\ asked' = Append(asked, ask) /\ crest = <<>> /\ crest' = <<"nl">>
      /\ UNCHANGED <<answers, srest>>
  BY DEF AskCommand
<1>2. ask \in AskType /\ ask.waited = Waited
  BY DEF AskType, Waited
<1>. HIDE DEF ask
<1>3. /\ asked' \in Seq(AskType) /\ Len(asked') = n + 1 /\ n \in Nat
      /\ \A i \in 1..n : asked'[i] = asked[i]
      /\ asked'[n + 1] = ask
  BY <1>1, <1>2, AppendProperties, LenProperties DEF PeersInv
<1>. HIDE DEF n
<1>4. Len(crest) = 0 /\ Len(crest') = 1 /\ Len(answers) \in Nat
  BY <1>1, LenProperties
<1>5. Len(answers') + Len(crest') <= Len(asked') + 1 /\ Len(answers) <= n + 1
  BY <1>1, <1>3, <1>4 DEF PeersInv, n
<1>6. ASSUME NEW i \in 1..Len(answers')
      PROVE  answers'[i].after = StateAfter(Before(i)', Code(i - 1)', answers'[i].status)
  <2>1. answers[i].after = StateAfter(Before(i), Code(i - 1), answers[i].status)
    BY <1>1, <1>6 DEF PeersInv
  <2>2. Before(i)' = Before(i)
    BY <1>1 DEF Before
  <2>3. Code(i - 1)' = Code(i - 1)
    <3>1. i - 1 = 0 \/ i - 1 \in 1..n
      BY <1>1, <1>3, <1>4, <1>5, <1>6
    <3>. QED  BY <1>3, <3>1 DEF Code
  <2>. QED  BY <1>1, <2>1, <2>2, <2>3
<1>7. ASSUME NEW r \in 1..Len(asked'), asked'[r].waited
      PROVE  r <= Len(answers')
  <2>1. CASE r \in 1..n
    BY <1>1, <1>3, <1>7, <2>1 DEF PeersInv, n
  <2>2. CASE r = n + 1
    <3>1. Waited
      BY <1>2, <1>3, <1>7, <2>2
    <3>. QED  BY <1>1, <1>3, <2>2, <3>1 DEF Waited, n
  <2>. QED  BY <1>3, <2>1, <2>2
<1>8. ASSUME asked'[Len(asked')].waited
      PROVE  srest' = <<>> /\ Len(answers') = Len(asked')
  BY <1>1, <1>2, <1>3, <1>8 DEF Waited, n
<1>9. asked' # <<>>
  BY <1>3, EmptySeq
<1>. QED  BY <1>1, <1>3, <1>5, <1>6, <1>7, <1>8, <1>9 DEF PeersInv

LEMMA EndLineKeepsPeers ==
  ASSUME PeersInv, answers \in Seq(AnswerType), EndLine
  PROVE  PeersInv'
<1>1. crest # <<>> /\ crest' = <<>> /\ Len(crest') = 0 /\ UNCHANGED <<asked, answers, srest>>
  BY DEF EndLine
<1>2. Len(crest) = 1 /\ Len(answers) \in Nat /\ Len(asked) \in Nat
  BY <1>1, CrestLength, LenProperties DEF PeersInv
<1>3. Len(answers') + Len(crest') <= Len(asked') + 1
  BY <1>1, <1>2 DEF PeersInv
<1>. QED  BY <1>1, <1>3 DEF PeersInv, Before, Code

LEMMA AnswerKeepsPeers ==
  ASSUME PeersInv, answers \in Seq(AnswerType),
         NEW status \in {"ok", "err"}, NEW body \in Bodies \cup {NoBody},
         NEW said \in BOOLEAN, Answer(status, body, said)
  PROVE  PeersInv'
<1>. DEFINE n == Len(answers)
            code == Code(n)
            ans == [status |-> status, body |-> body,
                    after |-> IF status = "ok" THEN Transfer(ServerState, code)
                              ELSE ServerState]
<1>1. /\ answers' = Append(answers, ans) /\ UNCHANGED <<asked, crest>> /\ MayAnswer
  BY DEF Answer
<1>2. ans.status = status /\ ans.after = StateAfter(ServerState, code, status)
  BY DEF StateAfter
<1>3. ServerState = Before(n + 1)
  <2>1. n \in Nat /\ (answers = <<>> <=> n = 0)
    BY LenProperties, EmptySeq
  <2>. QED  BY <2>1 DEF ServerState, Before
<1>. HIDE DEF ans, code
<1>4. /\ n \in Nat /\ Len(answers') = n + 1
      /\ \A i \in 1..n : answers'[i] = answers[i]
      /\ answers'[n + 1] = ans
  BY <1>1, AppendProperties, LenProperties
<1>5. n + Len(crest) <= Len(asked) /\ Len(crest) \in Nat /\ Len(asked) \in Nat
  BY <1>1, CrestLength, LenProperties DEF MayAnswer, PeersInv
<1>6. crest # <<>> /\ asked[Len(asked)].waited => FALSE
  BY <1>5, CrestLength DEF PeersInv
<1>7. Len(answers') + Len(crest') <= Len(asked') + 1
  BY <1>1, <1>4, <1>5
<1>8. ASSUME NEW i \in 1..Len(answers')
      PROVE  answers'[i].after = StateAfter(Before(i)', Code(i - 1)', answers'[i].status)
  <2>1. Code(i - 1)' = Code(i - 1)
    BY <1>1 DEF Code
  <2>2. Before(i)' = Before(i)
    <3>1. i = 1 \/ i - 1 \in 1..n
      BY <1>4
    <3>. QED  BY <1>4, <3>1 DEF Before
  <2>3. CASE i \in 1..n
    BY <1>4, <2>1, <2>2, <2>3 DEF PeersInv
  <2>4. CASE i = n + 1
    <3>1. i - 1 = n
      BY <1>4, <2>4
    <3>. QED  BY <1>2, <1>3, <1>4, <2>1, <2>2, <2>4, <3>1 DEF code
  <2>. QED  BY <1>4, <2>3, <2>4
<1>9. \A r \in 1..Len(asked') : asked'[r].waited => r <= Len(answers')
  BY <1>1, <1>4 DEF PeersInv
<1>. QED  BY <1>1, <1>6, <1>7, <1>8, <1>9 DEF PeersInv

LEMMA PeersStep ==
  ASSUME PeersInv, answers \in Seq(AnswerType), [Next]_vars
  PROVE  PeersInv'
<1>1. CASE \E code \in Commands, weak \in BOOLEAN : AskCommand(code, weak)
  BY <1>1, AskKeepsPeers
<1>2. CASE EndLine
  BY <1>2, EndLineKeepsPeers
<1>3. CASE CutClient \/ EndClient \/ CutServer \/ EndServer
  <2>1. UNCHANGED <<asked, crest, answers, srest>>
    BY <1>3 DEF CutClient, EndClient, CutServer, EndServer, peers
  <2>. QED  BY <2>1, PeersUnchanged
<1>4. CASE \E status \in {"ok", "err"}, body \in Bodies \cup {NoBody}, said \in BOOLEAN :
             Answer(status, body, said)
  BY <1>4, AnswerKeepsPeers
<1>5. CASE MoreAnswer
  <2>1. UNCHANGED <<asked, crest, answers>> /\ srest # <<>>
    BY <1>5 DEF MoreAnswer
  <2>. QED  BY <2>1, PeersUnchanged
<1>6. CASE UNCHANGED vars
  <2>1. UNCHANGED <<asked, crest, answers, srest>>
    BY <1>6 DEF vars, peers
  <2>. QED  BY <2>1, PeersUnchanged
<1>. QED  BY <1>1, <1>2, <1>3, <1>4, <1>5, <1>6 DEF Next

LEMMA ClientStep ==
  ASSUME ClientInv, PeersInv, DecoderInv, [Next]_vars
  PROVE  ClientInv'
<1>. SUFFICES ASSUME ~greedy' PROVE ClientInv'
  BY DEF ClientInv
<1>0. ~greedy /\ held["client"] = "nothing" /\ Len(asked) \in Nat /\ asked \in Seq(AskType)
  <2>1. greedy' = greedy
    BY DEF Next, AskCommand, EndLine, CutClient, EndClient, Answer, MoreAnswer, CutServer,
           EndServer, vars
  <2>. QED  BY <2>1, LenProperties DEF DecoderInv, PeersInv
<1>1. ASSUME NEW code \in Commands, NEW weak \in BOOLEAN, AskCommand(code, weak)
      PROVE  ClientInv'
  <2>. DEFINE ask == [code |-> code, weak |-> weak, waited |-> Waited]
  <2>1. /\ refused = "none" /\ refused' = refused /\ crest = <<>> /\ crest' = <<"nl">>
        /\ ParseClient("key") /\ asked' = Append(asked, ask)
    BY <1>0, <1>1 DEF AskCommand, Live, Open, Got
  <2>2. reading' = TRUE /\ parsed' = parsed
    BY <2>1 DEF ParseClient
  <2>3. ask \in AskType
    BY DEF AskType, Waited
  <2>. HIDE DEF ask
  <2>4. Len(asked') = Len(asked) + 1
    BY <1>0, <2>1, <2>3, AppendProperties
  <2>5. Len(crest) = 0 /\ Len(crest') = 1 /\ crest' # <<>>
    BY <2>1
  <2>. QED  BY <1>0, <2>1, <2>2, <2>4, <2>5 DEF ClientInv
<1>2. CASE EndLine
  <2>1. /\ refused = "none" /\ refused' = refused /\ crest # <<>> /\ crest' = <<>>
        /\ ParseClient("nl") /\ asked' = asked
    BY <1>0, <1>2 DEF EndLine, Live, Open, Got
  <2>2. reading /\ parsed = Len(asked) - 1
    BY <1>0, <2>1, CrestLength DEF ClientInv
  <2>3. reading' = FALSE /\ parsed' = parsed + 1
    BY <2>1, <2>2 DEF ParseClient, AddRequest
  <2>4. Len(crest') = 0
    BY <2>1
  <2>. QED  BY <1>0, <2>1, <2>2, <2>3, <2>4 DEF ClientInv
<1>3. CASE CutClient
  BY <1>0, <1>3 DEF CutClient
<1>4. CASE EndClient
  <2>1. /\ refused = "none" /\ refused' = IF crest = <<>> THEN "none" ELSE "client"
        /\ UNCHANGED <<crest, asked>> /\ reading' = FALSE
        /\ IF reading THEN AddRequest ELSE UNCHANGED parsed
    BY <1>0, <1>4 DEF EndClient, Live, Open, peers
  <2>2. CASE crest = <<>>
    <3>1. ~reading /\ parsed = Len(asked) - 0
      BY <1>0, <2>1, <2>2, CrestLength DEF ClientInv
    <3>. QED  BY <1>0, <2>1, <2>2, <3>1, CrestLength DEF ClientInv
  <2>3. CASE crest # <<>>
    <3>1. reading /\ parsed = Len(asked) - 1
      BY <1>0, <2>1, <2>3, CrestLength DEF ClientInv
    <3>2. parsed' = parsed + 1
      BY <2>1, <3>1 DEF AddRequest
    <3>. QED  BY <1>0, <2>1, <2>3, <3>1, <3>2 DEF ClientInv
  <2>. QED  BY <2>2, <2>3
<1>5. CASE /\ UNCHANGED <<crest, asked, parsed, reading>>
           /\ refused' = refused \/ (refused = "none" /\ refused' = "server")
  BY <1>0, <1>5 DEF ClientInv
<1>6. ASSUME NEW piece, NEW next, ParseServer(piece, next), refused = "none",
             UNCHANGED <<crest, asked, parsed, reading>>
      PROVE  ClientInv'
  <2>1. refused' = refused \/ (refused = "none" /\ refused' = "server")
    BY <1>6 DEF ParseServer, PushServer
  <2>. QED  BY <1>5, <1>6, <2>1
<1>7. CASE \E status \in {"ok", "err"}, body \in Bodies \cup {NoBody}, said \in BOOLEAN :
             Answer(status, body, said)
  BY <1>6, <1>7 DEF Answer, Live, Open
<1>8. CASE MoreAnswer
  BY <1>6, <1>8 DEF MoreAnswer, Live, Open
<1>9. CASE CutServer
  BY <1>0, <1>5, <1>9 DEF CutServer, peers
<1>10. CASE EndServer
  BY <1>6, <1>10 DEF EndServer, Live, Open, peers
<1>11. CASE UNCHANGED vars
  BY <1>5, <1>11 DEF vars, peers
<1>. QED  BY <1>1, <1>2, <1>3, <1>4, <1>7, <1>8, <1>9, <1>10, <1>11 DEF Next

-----------------------------------------------------------------------------
(* Pairs of a plain session.                                               *)

PairsInv ==
  Plain =>
    /\ refused = "server" => spar = "list"
    /\ refused # "server" => Where(slex, spar, srest)
    /\ spar \in PairsIn => answers # <<>> /\ spar = answers[Len(answers)].status
    /\ Len(cmds) = IF spar \in PairsIn THEN Len(answers) - 1 ELSE Len(answers)
    /\ asked # <<>> => Len(cmds) >= 1
    /\ Gone = IF cmds = <<>> THEN 0 ELSE Len(cmds) - 1
    /\ PairedAsMeant

\* A session that is plain has been so from its beginning.
LEMMA PlainBefore ==
  ASSUME answers \in Seq(AnswerType), asked \in Seq(AskType), [Next]_vars, Plain'
  PROVE  Plain
<1>1. greedy' = greedy
  BY DEF Next, AskCommand, EndLine, CutClient, EndClient, Answer, MoreAnswer, CutServer,
         EndServer, vars
<1>2. asked' = asked \/ \E a \in AskType : asked' = Append(asked, a)
  BY DEF Next, AskCommand, EndLine, CutClient, EndClient, Answer, MoreAnswer, CutServer,
         EndServer, vars, peers, AskType, Waited
<1>3. answers' = answers \/ \E a : answers' = Append(answers, a)
  BY DEF Next, AskCommand, EndLine, CutClient, EndClient, Answer, MoreAnswer, CutServer,
         EndServer, vars, peers
<1>4. asked # <<>> => asked[1].waited
  <2>1. CASE asked' = asked
    BY <2>1 DEF Plain
  <2>2. ASSUME NEW a \in AskType, asked' = Append(asked, a), asked # <<>>
        PROVE  asked[1].waited
    <3>1. 1 \in 1..Len(asked) /\ Len(asked') = Len(asked) + 1 /\ asked'[1] = asked[1]
      BY <2>2, AppendProperties, LenProperties, EmptySeq
    <3>2. asked' # <<>>
      BY <3>1, EmptySeq
    <3>. QED  BY <3>1, <3>2 DEF Plain
  <2>. QED  BY <1>2, <2>1, <2>2
<1>5. \A i \in DOMAIN answers : ~Hard(answers[i].body)
  <2>1. CASE answers' = answers
    BY <2>1 DEF Plain
  <2>2. ASSUME NEW a, answers' = Append(answers, a), NEW i \in DOMAIN answers
        PROVE  ~Hard(answers[i].body)
    <3>1. i \in DOMAIN answers' /\ answers'[i] = answers[i]
      BY <2>2, LenProperties
    <3>. QED  BY <3>1 DEF Plain
  <2>. QED  BY <1>3, <2>1, <2>2
<1>. QED  BY <1>1, <1>4, <1>5 DEF Plain

\* A step that leaves the server's side alone.
LEMMA PairsUnchanged ==
  ASSUME PairsInv, Plain' => Plain, Gone' = Gone,
         UNCHANGED <<answers, srest, slex, spar, cmds>>,
         refused' = refused \/ (refused # "server" /\ refused' # "server"),
         asked' # <<>> => asked # <<>>
  PROVE  PairsInv'
BY DEF PairsInv, PairedAsMeant

LEMMA AskKeepsPairs ==
  ASSUME PairsInv, PeersInv, answers \in Seq(AnswerType), Plain' => Plain, DecoderInv,
         cmds \in Seq(PairType),
         NEW code \in Commands, NEW weak \in BOOLEAN, AskCommand(code, weak)
  PROVE  PairsInv'
<1>. SUFFICES ASSUME Plain, Plain' PROVE PairsInv'
  BY DEF PairsInv
<1>. DEFINE ask == [code |-> code, weak |-> weak, waited |-> Waited]
<1>1. /\ ParseClient(Got("client", "key"))
      /\ UNCHANGED <<answers, srest, slex, spar, cmds, refused>>
      /\ refused = "none"
  BY DEF AskCommand, serverSide, Live, Open
<1>2. asked' = Append(asked, ask)
  BY DEF AskCommand
<1>3. Got("client", "key") = "key"
  BY DEF Plain, Got
<1>4. UNCHANGED <<parsed, requests>>
  BY <1>1, <1>3 DEF ParseClient
<1>5. Gone' = Gone
  BY <1>4 DEF Gone
<1>6. CASE asked # <<>>
  BY <1>1, <1>5, <1>6, PairsUnchanged
<1>7. CASE asked = <<>>
  <2>1. ask \in AskType /\ ask.waited = Waited
    BY DEF AskType, Waited
  <2>. HIDE DEF ask
  <2>2. asked' # <<>> /\ asked'[1] = ask
    <3>1. Len(asked) = 0 /\ asked \in Seq(AskType)
      BY <1>7 DEF PeersInv
    <3>2. Len(asked') = Len(asked) + 1 /\ asked'[Len(asked) + 1] = ask
      BY <1>2, <2>1, <3>1, AppendProperties
    <3>3. Len(asked') = 1 /\ asked'[1] = ask
      BY <3>1, <3>2
    <3>4. asked' # <<>>
      <4>. SUFFICES ASSUME asked' = <<>> PROVE FALSE
        OBVIOUS
      <4>1. Len(<<>>) = 0
        OBVIOUS
      <4>. QED  BY <3>3, <4>1
    <3>. QED  BY <3>3, <3>4
  <2>3. Waited
    BY <2>1, <2>2 DEF Plain
  <2>4. srest = <<>> /\ Len(answers) = 1
    BY <1>7, <2>3 DEF Waited
  <2>5. spar \notin PairsIn
    <3>1. Where(slex, spar, <<>>)
      BY <1>1, <2>4 DEF PairsInv
    <3>2. spar \in {"list", "head"}
      BY <3>1, WhereBetween
    <3>. QED  BY <3>2 DEF PairsIn
  <2>6. Len(cmds) >= 1
    <3>1. Len(cmds) = Len(answers)
      BY <2>5 DEF PairsInv
    <3>. QED  BY <2>4, <3>1
  <2>. QED  BY <1>1, <1>5, <2>6 DEF PairsInv, PairedAsMeant
<1>. QED  BY <1>6, <1>7

\* A request that is parsed is put at the tail of the queue.
LEMMA RequestKeepsGone ==
  ASSUME Types, AddRequest
  PROVE  Gone' = Gone
<1>1. /\ parsed' = parsed + 1 /\ requests' = Append(requests, parsed + 1)
      /\ parsed \in Nat /\ requests \in Seq(Nat)
  BY DEF AddRequest, Types
<1>2. Len(requests') = Len(requests) + 1 /\ Len(requests) \in Nat
  BY <1>1, AppendProperties, LenProperties
<1>. QED  BY <1>1, <1>2 DEF Gone

LEMMA AnswerKeepsPairs ==
  ASSUME PairsInv, answers \in Seq(AnswerType), Plain' => Plain, DecoderInv,
         NEW status \in {"ok", "err"}, NEW body \in Bodies \cup {NoBody},
         NEW said \in BOOLEAN, Answer(status, body, said)
  PROVE  PairsInv' /\ (Plain' => UNCHANGED <<cmds, requests, known>>)
<1>. SUFFICES ASSUME Plain, Plain'
              PROVE  PairsInv' /\ UNCHANGED <<cmds, requests, known>>
  BY DEF PairsInv
<1>. DEFINE n == Len(answers)
            ans == [status |-> status, body |-> body,
                    after |-> IF status = "ok"
                              THEN Transfer(ServerState, Code(n)) ELSE ServerState]
<1>1. /\ answers' = Append(answers, ans) /\ srest = <<>> /\ srest' = Rest(said, body)
      /\ ParseServer(Got("server", status), status)
      /\ UNCHANGED <<asked, parsed, greedy>>
      /\ refused = "none"
  BY DEF Answer, Live, Open
<1>2. ans.status = status /\ ans.body = body
  OBVIOUS
<1>. HIDE DEF ans
<1>3. /\ n \in Nat /\ Len(answers') = n + 1
      /\ answers'[n + 1] = ans
      /\ n + 1 \in DOMAIN answers'
  BY <1>1, AppendProperties, LenProperties
<1>4. Got("server", status) = status /\ ~greedy
  BY DEF Plain, Got
<1>5. Where(slex, spar, <<>>)
  BY <1>1 DEF PairsInv
<1>6. slex = "initial" /\ spar \in {"list", "head"}
  BY <1>5, WhereBetween
<1>7. /\ Token(slex, status) = status /\ LexAfter(slex, status) = "line"
      /\ status # "eaten" /\ status # "nothing"
  BY <1>6, Tokens, LexesTo
<1>8. slex' = "line" /\ PushServer(status)
  <2>1. slex' \in LexNext(LexAfter(slex, status), status) /\ PushServer(status)
    BY <1>1, <1>4, <1>7 DEF ParseServer
  <2>. QED  BY <1>4, <1>7, <2>1 DEF LexNext
<1>9. Takes(spar, status) /\ Goto[spar][status] = status
  BY <1>6, Taken
<1>10. /\ spar' = status /\ refused' = refused
       /\ UNCHANGED <<cmds, requests, known>>
  <2>1. spar \notin PairsIn
    BY <1>6 DEF PairsIn
  <2>. QED  BY <1>8, <1>9, <2>1 DEF PushServer
<1>11. Gone' = Gone
  BY <1>1, <1>10 DEF Gone
<1>12. ~Hard(body)
  BY <1>2, <1>3 DEF Plain
<1>13. Where(slex', spar', srest')
  BY <1>1, <1>8, <1>10, <1>12, WhereBegins
<1>14. spar' \in PairsIn /\ spar \notin PairsIn
  BY <1>6, <1>10 DEF PairsIn
<1>15. answers' # <<>>
  BY <1>3, EmptySeq
<1>16. Len(cmds) = n
  BY <1>14 DEF PairsInv
<1>17. spar' = answers'[Len(answers')].status
  BY <1>2, <1>3, <1>10
<1>18. PairedAsMeant'
  BY <1>10 DEF PairsInv, PairedAsMeant
<1>19. Len(cmds') = Len(answers') - 1
  BY <1>3, <1>10, <1>16
<1>20. asked' # <<>> => Len(cmds') >= 1
  BY <1>1, <1>10 DEF PairsInv
<1>21. Gone' = IF cmds' = <<>> THEN 0 ELSE Len(cmds') - 1
  BY <1>10, <1>11 DEF PairsInv
<1>22. refused' # "server"
  BY <1>1, <1>10
<1>. QED  BY <1>10, <1>13, <1>14, <1>15, <1>17, <1>18, <1>19, <1>20, <1>21, <1>22 DEF PairsInv

\* A pair takes the request of the answer.
LEMMA PairIsMeant ==
  ASSUME PairsInv, QueueInv, PeersInv, ClientInv, Plain, refused = "none", spar \in PairsIn,
         AddCommand(spar), UNCHANGED <<answers, asked, parsed, greedy>>
  PROVE  /\ cmds' = Append(cmds, [req |-> Len(cmds), res |-> Len(cmds)])
         /\ PairDetected(Len(cmds), spar, Len(cmds) + 1)
         /\ Len(cmds') = Len(answers') /\ Len(cmds') = Len(cmds) + 1
         /\ Gone' = Len(cmds)
         /\ \A i \in 1..Len(cmds') : cmds'[i] = [req |-> i - 1, res |-> i - 1]
<1>. DEFINE n == Len(cmds)
            r == IF requests = <<>> THEN 0 ELSE Head(requests)
<1>1. /\ cmds' = Append(cmds, [req |-> r, res |-> Len(answers) - 1])
      /\ requests' = IF requests = <<>> THEN <<>> ELSE Tail(requests)
      /\ PairDetected(r, spar, n + 1)
  BY DEF AddCommand
<1>2. /\ n \in Nat /\ Len(requests) \in Nat /\ Len(answers) \in Nat /\ parsed \in Nat
      /\ requests \in Seq(Nat) /\ cmds \in Seq(PairType) /\ Len(requests) <= parsed
      /\ \A i \in 1..Len(requests) : requests[i] = Gone + i
  BY LenProperties DEF QueueInv, Types, QueueInOrder
<1>3. n = Len(answers) - 1
  BY DEF PairsInv
<1>4. r = n /\ Gone' = n
  <2>1. CASE cmds = <<>>
    <3>1. asked = <<>> /\ n = 0
      BY <1>2, <2>1, EmptySeq DEF PairsInv
    <3>2. Len(asked) = 0 /\ crest = <<>> /\ Len(crest) = 0
      BY <3>1 DEF PeersInv
    <3>3. parsed = 0
      <4>1. parsed = Len(asked) - Len(crest)
        BY DEF ClientInv, Plain
      <4>. QED  BY <3>2, <4>1
    <3>4. requests = <<>>
      BY <1>2, <3>3, EmptySeq
    <3>5. r = 0 /\ requests' = <<>> /\ parsed' = 0
      BY <1>1, <3>3, <3>4
    <3>6. Len(requests') = 0
      BY <3>5
    <3>7. Gone' = parsed' - Len(requests')
      BY DEF Gone
    <3>. HIDE DEF r
    <3>8. Gone' = 0
      BY <3>5, <3>6, <3>7
    <3>. QED  BY <3>1, <3>5, <3>8
  <2>2. CASE cmds # <<>>
    <3>1. n >= 1 /\ Gone = n - 1
      BY <1>2, <2>2, EmptySeq DEF PairsInv
    <3>2. parsed = Len(asked) - Len(crest) /\ Len(answers) + Len(crest) <= Len(asked) + 1
          /\ Len(crest) \in Nat /\ Len(asked) \in Nat
      BY CrestLength, LenProperties DEF ClientInv, Plain, PeersInv
    <3>3. Len(answers) <= parsed + 1
      BY <1>2, <3>2
    <3>4. Len(requests) = parsed - (n - 1)
      BY <1>2, <3>1 DEF Gone
    <3>5. Len(requests) >= 1
      BY <1>2, <1>3, <3>3, <3>4
    <3>6. requests # <<>> /\ Head(requests) = requests[1] /\ 1 \in 1..Len(requests)
          /\ Len(Tail(requests)) = Len(requests) - 1
      BY <1>2, <3>5, EmptySeq, HeadTailProperties
    <3>7. r = n
      BY <1>2, <3>1, <3>6
    <3>8. Gone' = n
      BY <1>1, <1>2, <3>4, <3>6 DEF Gone
    <3>. QED  BY <3>7, <3>8
  <2>. QED  BY <2>1, <2>2
<1>. HIDE DEF r
<1>5. cmds' = Append(cmds, [req |-> n, res |-> n]) /\ PairDetected(n, spar, n + 1)
  BY <1>1, <1>3, <1>4
<1>. DEFINE pair == [req |-> n, res |-> n]
<1>6. pair \in PairType
  BY <1>2 DEF PairType
<1>7. pair = [req |-> (n + 1) - 1, res |-> (n + 1) - 1]
  BY <1>2
<1>. HIDE DEF pair
<1>8. /\ Len(cmds') = n + 1
      /\ \A i \in 1..n : cmds'[i] = cmds[i]
      /\ cmds'[n + 1] = pair
  <2>1. cmds' = Append(cmds, pair)
    BY <1>5 DEF pair
  <2>. QED  BY <1>2, <1>6, <2>1, AppendProperties
<1>9. \A i \in 1..Len(cmds') : cmds'[i] = [req |-> i - 1, res |-> i - 1]
  <2>. SUFFICES ASSUME NEW i \in 1..Len(cmds')
                PROVE  cmds'[i] = [req |-> i - 1, res |-> i - 1]
    OBVIOUS
  <2>1. CASE i \in 1..n
    BY <1>8, <2>1 DEF PairsInv, PairedAsMeant
  <2>2. CASE i = n + 1
    BY <1>7, <1>8, <2>2
  <2>. QED  BY <1>2, <1>8, <2>1, <2>2
<1>10. Len(cmds') = Len(answers') /\ Len(cmds') = Len(cmds) + 1
  BY <1>2, <1>3, <1>8
<1>11. Gone' = Len(cmds)
  BY <1>4
<1>. HIDE DEF n
<1>12. n = Len(cmds)
  BY DEF n
<1>. QED  BY <1>5, <1>9, <1>10, <1>11, <1>12, Zenon

\* What a piece of an answer does in a plain session.
MoreDone ==
  \/ spar \notin PairsIn /\ UNCHANGED <<cmds, requests, known>>
  \/ spar \in PairsIn /\ AddCommand(spar)

LEMMA MoreParses ==
  ASSUME PairsInv, DecoderInv, Plain, MoreAnswer
  PROVE  /\ MoreDone
         /\ spar' \notin PairsIn
         /\ refused' = "server" => spar' = "list"
         /\ refused' # "server" => Where(slex', spar', srest')
<1>. DEFINE q == srest
            t == Token(slex, Head(q))
<1>1. /\ ParseServer(Got("server", Head(q)), Head(q))
      /\ srest' = Tail(q) /\ refused = "none" /\ q # <<>> /\ q \in Seq(Pieces)
  BY DEF MoreAnswer, Live, Open, DecoderInv
<1>2. ~greedy /\ Got("server", Head(q)) = Head(q)
  BY DEF Plain, Got
<1>3. Where(slex, spar, q)
  BY <1>1 DEF PairsInv
<1>4. GoesOn(slex, spar, q)
  BY <1>1, <1>3, WhereGoesOn
<1>5. Head(q) # "nothing"
  <2>1. Head(q) \in Pieces
    BY <1>1, TailAt
  <2>. QED  BY <2>1 DEF Pieces
<1>6. CASE t = "eaten"
  <2>1. slex' = slex /\ UNCHANGED <<spar, cmds, requests, known, refused>>
    BY <1>1, <1>2, <1>6 DEF ParseServer, LexNext
  <2>2. spar \notin PairsIn /\ Where(slex, spar, Tail(q))
    BY <1>4, <1>6 DEF GoesOn
  <2>. QED  BY <1>1, <2>1, <2>2 DEF MoreDone
<1>7. CASE t # "eaten"
  <2>1. slex' = LexAfter(slex, Head(q)) /\ PushServer(t)
    BY <1>1, <1>2, <1>5, <1>7 DEF ParseServer, LexNext
  <2>2. /\ spar \in PairsIn => Takes(spar, t)
        /\ Takes(spar, t) => /\ Goto[spar][t] \notin PairsIn
                             /\ Where(LexAfter(slex, Head(q)), Goto[spar][t], Tail(q))
    BY <1>4, <1>7 DEF GoesOn
  <2>. HIDE DEF t
  <2>3. MoreDone
    BY <2>1 DEF MoreDone, PushServer
  <2>4. CASE Takes(spar, t)
    <3>1. spar' = Goto[spar][t] /\ refused' = refused
      BY <2>1, <2>4 DEF PushServer
    <3>. QED  BY <1>1, <2>1, <2>2, <2>3, <2>4, <3>1
  <2>5. CASE ~Takes(spar, t)
    <3>1. spar' = "list" /\ refused' = "server"
      BY <2>1, <2>5 DEF PushServer
    <3>2. "list" \notin PairsIn
      BY DEF PairsIn
    <3>. QED  BY <2>3, <3>1, <3>2
  <2>. QED  BY <2>4, <2>5
<1>. QED  BY <1>6, <1>7

LEMMA MoreKeepsPairs ==
  ASSUME PairsInv, QueueInv, PeersInv, ClientInv, DecoderInv, Plain' => Plain, MoreAnswer
  PROVE  PairsInv'
<1>. SUFFICES ASSUME Plain, Plain' PROVE PairsInv'
  BY DEF PairsInv
<1>1. UNCHANGED <<asked, answers, parsed, greedy>> /\ refused = "none"
  BY DEF MoreAnswer, Live, Open
<1>2. /\ MoreDone
      /\ spar' \notin PairsIn
      /\ refused' = "server" => spar' = "list"
      /\ refused' # "server" => Where(slex', spar', srest')
  BY MoreParses
<1>3. CASE spar \notin PairsIn /\ UNCHANGED <<cmds, requests>>
  <2>1. Gone' = Gone
    BY <1>1, <1>3 DEF Gone
  <2>2. Len(cmds') = Len(answers')
    BY <1>1, <1>3 DEF PairsInv
  <2>. QED  BY <1>1, <1>2, <1>3, <2>1, <2>2 DEF PairsInv, PairedAsMeant
<1>4. CASE spar \in PairsIn /\ AddCommand(spar)
  <2>1. /\ Len(cmds') = Len(answers') /\ Len(cmds') = Len(cmds) + 1
        /\ Gone' = Len(cmds)
        /\ \A i \in 1..Len(cmds') : cmds'[i] = [req |-> i - 1, res |-> i - 1]
    BY <1>1, <1>4, PairIsMeant
  <2>2. Len(cmds) \in Nat
    BY LenProperties DEF QueueInv, Types
  <2>3. Len(cmds') >= 1 /\ Gone' = Len(cmds') - 1
    BY <2>1, <2>2
  <2>4. cmds' # <<>>
    BY <2>3, EmptySeq
  <2>. QED  BY <1>2, <2>1, <2>3, <2>4 DEF PairsInv, PairedAsMeant
<1>. QED  BY <1>2, <1>3, <1>4 DEF MoreDone

LEMMA PairsStep ==
  ASSUME PairsInv, QueueInv, PeersInv, ClientInv, DecoderInv, [Next]_vars
  PROVE  PairsInv'
<1>0. /\ answers \in Seq(AnswerType) /\ asked \in Seq(AskType) /\ cmds \in Seq(PairType)
      /\ Types
  BY DEF QueueInv, Types, PeersInv
<1>1. Plain' => Plain
  BY <1>0, PlainBefore
<1>2. CASE \E code \in Commands, weak \in BOOLEAN : AskCommand(code, weak)
  BY <1>0, <1>1, <1>2, AskKeepsPairs
<1>3. CASE EndLine \/ CutClient
  <2>1. UNCHANGED <<answers, srest, slex, spar, cmds, refused, asked>>
    BY <1>3 DEF EndLine, CutClient, serverSide, peers
  <2>2. AddRequest \/ UNCHANGED <<parsed, requests>>
    BY <1>3 DEF EndLine, CutClient, ParseClient
  <2>3. Gone' = Gone
    BY <1>0, <2>2, RequestKeepsGone DEF Gone
  <2>. QED  BY <1>1, <2>1, <2>3, PairsUnchanged
<1>4. CASE EndClient
  <2>1. /\ UNCHANGED <<answers, srest, slex, spar, cmds, asked>>
        /\ refused = "none" /\ refused' \in {"none", "client"}
    BY <1>4 DEF EndClient, serverSide, peers, Live, Open
  <2>2. AddRequest \/ UNCHANGED <<parsed, requests>>
    BY <1>4 DEF EndClient
  <2>3. Gone' = Gone
    BY <1>0, <2>2, RequestKeepsGone DEF Gone
  <2>. QED  BY <1>1, <2>1, <2>3, PairsUnchanged
<1>5. CASE \E status \in {"ok", "err"}, body \in Bodies \cup {NoBody}, said \in BOOLEAN :
             Answer(status, body, said)
  BY <1>0, <1>1, <1>5, AnswerKeepsPairs
<1>6. CASE MoreAnswer
  BY <1>1, <1>6, MoreKeepsPairs
<1>7. CASE CutServer
  <2>. SUFFICES ASSUME Plain, Plain' PROVE PairsInv'
    BY <1>1 DEF PairsInv
  <2>1. /\ slex' = LexCut(slex, Head(srest)) /\ refused = "none"
        /\ UNCHANGED <<spar, cmds, requests, refused, answers, asked, srest, parsed>>
        /\ srest # <<>> /\ srest \in Seq(Pieces)
    BY <1>7 DEF CutServer, Plain, peers, Live, Open, DecoderInv
  <2>2. Where(slex', spar', srest')
    BY <2>1, WhereCut DEF PairsInv
  <2>3. Gone' = Gone
    BY <2>1 DEF Gone
  <2>. QED  BY <2>1, <2>2, <2>3 DEF PairsInv, PairedAsMeant
<1>8. CASE EndServer
  <2>. SUFFICES ASSUME Plain, Plain' PROVE PairsInv'
    BY <1>1 DEF PairsInv
  <2>1. /\ ParseServer("nothing", "nothing") /\ ~greedy
        /\ UNCHANGED <<answers, asked, srest, parsed>>
    BY <1>8 DEF EndServer, Plain, peers, DecoderInv
  <2>2. UNCHANGED <<slex, spar, cmds, requests, refused>>
    BY <2>1 DEF ParseServer, LexNext
  <2>3. Gone' = Gone
    BY <2>1, <2>2 DEF Gone
  <2>. QED  BY <1>1, <2>1, <2>2, <2>3, PairsUnchanged
<1>9. CASE UNCHANGED vars
  <2>1. UNCHANGED <<answers, srest, slex, spar, cmds, refused, asked, parsed, requests>>
    BY <1>9 DEF vars, peers, serverSide
  <2>2. Gone' = Gone
    BY <2>1 DEF Gone
  <2>. QED  BY <1>1, <2>1, <2>2, PairsUnchanged
<1>. QED  BY <1>2, <1>3, <1>4, <1>5, <1>6, <1>7, <1>8, <1>9 DEF Next

-----------------------------------------------------------------------------
(* What the signatures know of a plain session.                            *)

AlarmsIn == \A a \in alarms : a[1] = "state" => a[2] \in 1..parsed

KnownInv == SessionTrue /\ AlarmsJust /\ AlarmsIn

\* The failed passwords among the first n answers.
FailedTo(n) == {i \in 1..n : Code(i - 1) = "PASS" /\ answers[i].status = "err"}

Facts == QueueInv /\ PeersInv /\ ClientInv /\ PairsInv /\ DecoderInv /\ KnownInv

LEMMA PlainLengths ==
  ASSUME Facts, Plain
  PROVE  /\ Len(cmds) \in Nat /\ Len(answers) \in Nat /\ Len(asked) \in Nat /\ parsed \in Nat
         /\ Len(cmds) <= Len(answers)
         /\ Len(answers) <= Len(asked) + 1
         /\ parsed <= Len(asked)
<1>1. Len(cmds) \in Nat /\ Len(answers) \in Nat /\ parsed \in Nat /\ Len(asked) \in Nat
  BY LenProperties DEF Facts, QueueInv, Types, PeersInv
<1>2. Len(cmds) <= Len(answers)
  BY <1>1 DEF Facts, PairsInv
<1>3. Len(crest) \in Nat
  BY CrestLength DEF Facts
<1>4. Len(answers) <= Len(asked) + 1
  BY <1>1, <1>3 DEF Facts, PeersInv
<1>5. parsed = Len(asked) \/ parsed = Len(asked) - Len(crest)
  BY DEF Facts, ClientInv, Plain
<1>6. parsed <= Len(asked)
  BY <1>1, <1>3, <1>5
<1>. QED  BY <1>1, <1>2, <1>4, <1>6

\* A step by which the signatures learn nothing.
LEMMA KnownUnchanged ==
  ASSUME Facts, Plain' => Plain, UNCHANGED <<cmds, parsed, known>>,
         \A i \in 1..Len(asked) : asked'[i] = asked[i],
         \A i \in 1..Len(answers) : answers'[i] = answers[i]
  PROVE  KnownInv'
<1>1. AlarmsIn'
  BY DEF Facts, KnownInv, AlarmsIn, known
<1>2. SUFFICES ASSUME Plain PROVE SessionTrue' /\ AlarmsJust'
  BY <1>1 DEF KnownInv, SessionTrue, AlarmsJust
<1>3. /\ Len(cmds) \in Nat /\ Len(answers) \in Nat /\ Len(asked) \in Nat /\ parsed \in Nat
      /\ Len(cmds) <= Len(answers)
      /\ Len(answers) <= Len(asked) + 1
      /\ parsed <= Len(asked)
  BY <1>2, PlainLengths
<1>4. DOMAIN cmds = 1..Len(cmds) /\ UNCHANGED <<cmds, parsed, session, authFailed, alarms>>
  BY LenProperties DEF Facts, QueueInv, Types, known
<1>5. \A i \in 1..Len(cmds) : answers'[i] = answers[i] /\ Code(i - 1)' = Code(i - 1)
  <2>. SUFFICES ASSUME NEW i \in 1..Len(cmds)
                PROVE  answers'[i] = answers[i] /\ Code(i - 1)' = Code(i - 1)
    OBVIOUS
  <2>1. i \in 1..Len(answers) /\ (i - 1 = 0 \/ i - 1 \in 1..Len(asked))
    BY <1>3
  <2>. QED  BY <2>1 DEF Code
<1>6. WeakFound' <=> WeakFound
  BY <1>4 DEF WeakFound
<1>7. SessionTrue'
  <2>1. /\ authFailed = Cardinality({i \in DOMAIN cmds :
              Code(i - 1) = "PASS" /\ answers[i].status = "err"})
        /\ WeakFound \/ session = StatePaired
    BY <1>2 DEF Facts, KnownInv, SessionTrue
  <2>2. {i \in DOMAIN cmds : Code(i - 1) = "PASS" /\ answers[i].status = "err"}
        = {i \in DOMAIN cmds : Code(i - 1)' = "PASS" /\ answers'[i].status = "err"}
    BY <1>4, <1>5
  <2>3. StatePaired' = StatePaired
    <3>1. CASE cmds = <<>>
      BY <1>4, <3>1 DEF StatePaired
    <3>2. CASE cmds # <<>>
      <4>1. Len(cmds) \in 1..Len(cmds)
        BY <1>3, <3>2, EmptySeq DEF Facts, QueueInv, Types
      <4>. QED  BY <1>4, <1>5, <3>2, <4>1 DEF StatePaired
    <3>. QED  BY <3>1, <3>2
  <2>4. authFailed' = Cardinality({i \in DOMAIN cmds' :
              Code(i - 1)' = "PASS" /\ answers'[i].status = "err"})
    BY <1>4, <2>1, <2>2
  <2>. QED  BY <1>4, <1>6, <2>1, <2>3, <2>4 DEF SessionTrue
<1>8. AlarmsJust'
  <2>. SUFFICES ASSUME ~WeakFound, NEW r \in 1..parsed, asked'[r].waited
                PROVE  (<<"state", r>> \in alarms) <=>
                         asked'[r].code \notin Admitted[answers'[r].after]
    BY <1>4, <1>6 DEF AlarmsJust
  <2>1. r \in 1..Len(asked) /\ asked'[r] = asked[r]
    BY <1>3
  <2>2. r <= Len(answers)
    BY <2>1 DEF Facts, PeersInv
  <2>3. answers'[r] = answers[r]
    BY <1>3, <2>2
  <2>. QED  BY <1>2, <2>1, <2>3 DEF Facts, KnownInv, AlarmsJust
<1>. QED  BY <1>7, <1>8

\* The check of a request: it is made against the state of the answer that
\* came before, if the client has waited for that.
LEMMA RequestKeepsKnown ==
  ASSUME Facts, Plain' => Plain, AddRequest, refused = "none", reading \/ crest # <<>>,
         UNCHANGED <<cmds, asked, answers>>
  PROVE  KnownInv'
<1>1. /\ parsed' = parsed + 1 /\ UNCHANGED <<session, authFailed>>
      /\ alarms' = alarms \cup
           (IF Code(parsed + 1) \in Admitted[session] THEN {} ELSE {<<"state", parsed + 1>>})
      /\ parsed \in Nat
  BY DEF AddRequest, CheckRequest, Facts, QueueInv, Types
<1>2. /\ \A r \in 1..parsed : <<"state", r>> \in alarms' <=> <<"state", r>> \in alarms
      /\ \A n : <<"weak", n>> \in alarms' <=> <<"weak", n>> \in alarms
  BY <1>1
<1>3. AlarmsIn'
  BY <1>1 DEF Facts, KnownInv, AlarmsIn
<1>4. WeakFound' <=> WeakFound
  BY <1>2 DEF WeakFound
<1>5. SessionTrue'
  <2>1. \A i : Code(i)' = Code(i)
    BY DEF Code
  <2>2. StatePaired' = StatePaired
    BY DEF StatePaired
  <2>. SUFFICES ASSUME Plain
                PROVE  /\ authFailed' = Cardinality({i \in DOMAIN cmds' :
                             Code(i - 1)' = "PASS" /\ answers'[i].status = "err"})
                       /\ WeakFound' \/ session' = StatePaired'
    BY DEF SessionTrue
  <2>3. /\ authFailed = Cardinality({i \in DOMAIN cmds :
              Code(i - 1) = "PASS" /\ answers[i].status = "err"})
        /\ WeakFound \/ session = StatePaired
    BY DEF Facts, KnownInv, SessionTrue
  <2>4. {i \in DOMAIN cmds : Code(i - 1) = "PASS" /\ answers[i].status = "err"}
        = {i \in DOMAIN cmds' : Code(i - 1)' = "PASS" /\ answers'[i].status = "err"}
    BY <2>1
  <2>. QED  BY <1>1, <1>4, <2>2, <2>3, <2>4
<1>6. AlarmsJust'
  <2>. SUFFICES ASSUME Plain, ~WeakFound, NEW r \in 1..(parsed + 1), asked[r].waited
                PROVE  (<<"state", r>> \in alarms') <=>
                         asked[r].code \notin Admitted[answers[r].after]
    BY <1>1, <1>4 DEF AlarmsJust
  <2>1. CASE r \in 1..parsed
    BY <1>2, <2>1 DEF Facts, KnownInv, AlarmsJust
  <2>2. CASE r = parsed + 1
    <3>1. crest # <<>>
      BY DEF Facts, ClientInv, Plain
    <3>2. Len(asked) = parsed + 1
      <4>1. parsed = Len(asked) - Len(crest) /\ Len(asked) \in Nat
        BY LenProperties DEF Facts, ClientInv, PeersInv, Plain
      <4>2. Len(crest) = 1
        BY <3>1, CrestLength DEF Facts
      <4>. QED  BY <1>1, <4>1, <4>2
    <3>3. srest = <<>> /\ Len(answers) = parsed + 1
      BY <2>2, <3>1, <3>2 DEF Facts, PeersInv
    <3>4. spar \notin PairsIn
      <4>1. Where(slex, spar, <<>>)
        BY <3>3 DEF Facts, PairsInv
      <4>2. spar \in {"list", "head"}
        BY <4>1, WhereBetween
      <4>. QED  BY <4>2 DEF PairsIn
    <3>5. Len(cmds) = parsed + 1
      <4>1. Len(cmds) = Len(answers)
        BY <3>4 DEF Facts, PairsInv
      <4>. QED  BY <3>3, <4>1
    <3>6. session = answers[parsed + 1].after
      <4>1. cmds # <<>>
        BY <1>1, <3>5
      <4>2. session = StatePaired
        BY DEF Facts, KnownInv, SessionTrue
      <4>. QED  BY <3>5, <4>1, <4>2 DEF StatePaired
    <3>7. Code(parsed + 1) = asked[r].code
      BY <1>1, <2>2 DEF Code
    <3>8. <<"state", r>> \notin alarms
      <4>. SUFFICES ASSUME <<"state", r>> \in alarms PROVE FALSE
        OBVIOUS
      <4>1. r \in 1..parsed
        <5>. DEFINE a == <<"state", r>>
        <5>1. a \in alarms /\ a[1] = "state" /\ a[2] = r
          OBVIOUS
        <5>. HIDE DEF a
        <5>. QED  BY <5>1 DEF Facts, KnownInv, AlarmsIn
      <4>. QED  BY <1>1, <2>2, <4>1
    <3>. QED  BY <1>1, <2>2, <3>6, <3>7, <3>8
  <2>. QED  BY <1>1, <2>1, <2>2
<1>. QED  BY <1>3, <1>5, <1>6 DEF KnownInv

\* The detection of a pair.
LEMMA PairKeepsKnown ==
  ASSUME Facts, Plain' => Plain, refused = "none", spar \in PairsIn,
         AddCommand(spar), UNCHANGED <<answers, asked, parsed, greedy>>
  PROVE  KnownInv'
<1>. DEFINE n == Len(cmds)
            failed == Code(n) = "PASS" /\ spar = "err"
            brute  == failed /\ authFailed + 1 >= MaxAuthFailed
            weak   == Code(n) = "PASS" /\ spar = "ok" /\ asked[n].weak
<1>0. AlarmsIn'
  <2>1. PICK r, k : PairDetected(r, spar, k)
    BY DEF AddCommand
  <2>2. \A a \in alarms' : a \in alarms \/ a[1] = "brute" \/ a[1] = "weak"
    BY <2>1 DEF PairDetected
  <2>. QED  BY <2>2 DEF Facts, KnownInv, AlarmsIn
<1>. SUFFICES ASSUME Plain PROVE SessionTrue' /\ AlarmsJust'
  BY <1>0 DEF KnownInv, SessionTrue, AlarmsJust
<1>1. /\ PairDetected(n, spar, n + 1)
      /\ Len(cmds') = Len(answers') /\ Len(cmds') = n + 1
  BY PairIsMeant DEF Facts
<1>2. /\ authFailed' = IF failed THEN authFailed + 1 ELSE authFailed
      /\ alarms' = alarms \cup (IF brute THEN {<<"brute", n + 1>>} ELSE {})
                          \cup (IF weak THEN {<<"weak", n + 1>>} ELSE {})
      /\ session' = IF brute \/ weak THEN session ELSE StateAfter(session, Code(n), spar)
  BY <1>1 DEF PairDetected
<1>3. /\ n \in Nat /\ Len(answers) = n + 1 /\ spar = answers[n + 1].status
      /\ cmds' \in Seq(PairType) /\ DOMAIN cmds' = 1..(n + 1) /\ DOMAIN cmds = 1..n
      /\ cmds' # <<>>
  <2>1. /\ n \in Nat /\ Len(answers) = n + 1 /\ DOMAIN cmds = 1..n
    BY <1>1, LenProperties DEF Facts, QueueInv, Types
  <2>2. spar = answers[n + 1].status
    BY <2>1 DEF Facts, PairsInv
  <2>3. cmds' \in Seq(PairType)
    <3>1. QueueInv'
      BY AddCommandKeeps DEF Facts, QueueInv, Types
    <3>. QED  BY <3>1 DEF QueueInv, Types
  <2>4. DOMAIN cmds' = 1..(n + 1)
    BY <1>1, <2>3, LenProperties
  <2>5. cmds' # <<>>
    BY <1>1, <2>1, <2>3, EmptySeq
  <2>. QED  BY <2>1, <2>2, <2>3, <2>4, <2>5
<1>4. \A i : Code(i)' = Code(i)
  BY DEF Code
<1>5. WeakFound => WeakFound'
  <2>1. alarms \subseteq alarms' /\ DOMAIN cmds \subseteq DOMAIN cmds'
    BY <1>2, <1>3
  <2>. QED  BY <2>1 DEF WeakFound
<1>6. weak => WeakFound'
  <2>. SUFFICES ASSUME weak PROVE WeakFound'
    OBVIOUS
  <2>1. <<"weak", n + 1>> \in alarms' /\ n + 1 \in DOMAIN cmds'
    BY <1>2, <1>3
  <2>. QED  BY <2>1 DEF WeakFound
<1>7. answers[n + 1].after = StateAfter(Before(n + 1), Code(n), spar)
  <2>1. n + 1 \in 1..Len(answers) /\ (n + 1) - 1 = n
    BY <1>3
  <2>2. answers[n + 1].after = StateAfter(Before(n + 1), Code((n + 1) - 1), answers[n + 1].status)
    BY <2>1 DEF Facts, PeersInv
  <2>. QED  BY <1>3, <2>1, <2>2
<1>8. StatePaired = Before(n + 1) /\ StatePaired' = answers[n + 1].after
  <2>1. n = 0 <=> cmds = <<>>
    BY EmptySeq DEF Facts, QueueInv, Types
  <2>2. StatePaired = Before(n + 1)
    BY <1>3, <2>1 DEF StatePaired, Before
  <2>3. StatePaired' = answers[n + 1].after
    BY <1>1, <1>3 DEF StatePaired
  <2>. QED  BY <2>2, <2>3
<1>9. WeakFound' \/ session' = StatePaired'
  <2>. SUFFICES ASSUME ~weak, session = StatePaired PROVE session' = StatePaired'
    BY <1>5, <1>6 DEF Facts, KnownInv, SessionTrue
  <2>1. CASE brute
    <3>1. spar # "ok" /\ session' = session
      BY <1>2, <2>1
    <3>. QED  BY <1>7, <1>8, <3>1 DEF StateAfter
  <2>2. CASE ~brute
    <3>1. session' = StateAfter(session, Code(n), spar)
      BY <1>2, <2>2
    <3>. QED  BY <1>7, <1>8, <3>1
  <2>. QED  BY <2>1, <2>2
<1>10. authFailed' = Cardinality({i \in DOMAIN cmds' :
              Code(i - 1)' = "PASS" /\ answers'[i].status = "err"})
  <2>. DEFINE S == FailedTo(n)
              W == FailedTo(n + 1)
  <2>1. authFailed = Cardinality(S)
    <3>1. authFailed = Cardinality({i \in DOMAIN cmds :
              Code(i - 1) = "PASS" /\ answers[i].status = "err"})
      BY DEF Facts, KnownInv, SessionTrue
    <3>. QED  BY <1>3, <3>1 DEF FailedTo
  <2>2. {i \in DOMAIN cmds' : Code(i - 1)' = "PASS" /\ answers'[i].status = "err"} = W
    <3>1. answers' = answers
      OBVIOUS
    <3>. QED  BY <1>3, <1>4, <3>1 DEF FailedTo
  <2>3. IsFiniteSet(S) /\ n + 1 \notin S
    <3>1. S \subseteq 1..n /\ IsFiniteSet(1..n)
      BY <1>3, FS_Interval DEF FailedTo
    <3>2. IsFiniteSet(S)
      BY <3>1, FS_Subset
    <3>. QED  BY <1>3, <3>1, <3>2
  <2>4. W = IF failed THEN S \cup {n + 1} ELSE S
    <3>1. \A i \in 1..(n + 1) : i \in 1..n \/ i = n + 1
      BY <1>3
    <3>2. 1..n \subseteq 1..(n + 1) /\ n + 1 \in 1..(n + 1) /\ (n + 1) - 1 = n
      BY <1>3
    <3>3. n + 1 \in W <=> failed
      BY <1>3, <3>2 DEF FailedTo
    <3>4. \A i \in 1..n : i \in W <=> i \in S
      BY <3>2 DEF FailedTo
    <3>5. W \subseteq 1..(n + 1) /\ S \subseteq 1..n
      BY DEF FailedTo
    <3>. HIDE DEF W, S, failed
    <3>6. \A i : i \in W <=> i \in S \/ (failed /\ i = n + 1)
      BY <2>3, <3>1, <3>3, <3>4, <3>5
    <3>. QED  BY <3>6
  <2>. HIDE DEF S, W, failed
  <2>5. CASE failed
    <3>1. W = S \cup {n + 1}
      BY <2>4, <2>5
    <3>2. Cardinality(W) = Cardinality(S) + 1
      BY <2>3, <3>1, FS_AddElement
    <3>. QED  BY <1>2, <2>1, <2>2, <2>5, <3>2
  <2>6. CASE ~failed
    BY <1>2, <2>1, <2>2, <2>4, <2>6
  <2>. QED  BY <2>5, <2>6
<1>11. SessionTrue'
  BY <1>9, <1>10 DEF SessionTrue
<1>12. AlarmsJust'
  <2>. SUFFICES ASSUME ~WeakFound', NEW r \in 1..parsed, asked[r].waited
                PROVE  (<<"state", r>> \in alarms') <=>
                         asked[r].code \notin Admitted[answers[r].after]
    BY DEF AlarmsJust
  <2>1. <<"state", r>> \in alarms' <=> <<"state", r>> \in alarms
    BY <1>2
  <2>. QED  BY <1>5, <2>1 DEF Facts, KnownInv, AlarmsJust
<1>. QED  BY <1>11, <1>12

\* The ways in which a step moves the queue.
LEMMA QueueMoves ==
  ASSUME [Next]_vars
  PROVE  \/ AddRequest /\ UNCHANGED cmds
         \/ AddCommand(spar) /\ UNCHANGED parsed
         \/ UNCHANGED <<parsed, requests, cmds, known>>
<1>1. ASSUME NEW piece, ParseClient(piece), UNCHANGED cmds
      PROVE  \/ AddRequest /\ UNCHANGED cmds
             \/ UNCHANGED <<parsed, requests, cmds, known>>
  BY <1>1 DEF ParseClient
<1>2. ASSUME NEW piece, NEW next, ParseServer(piece, next), UNCHANGED parsed
      PROVE  \/ AddCommand(spar) /\ UNCHANGED parsed
             \/ UNCHANGED <<parsed, requests, cmds, known>>
  BY <1>2 DEF ParseServer, PushServer
<1>3. CASE \E code \in Commands, weak \in BOOLEAN : AskCommand(code, weak)
  BY <1>1, <1>3 DEF AskCommand, serverSide
<1>4. CASE EndLine
  BY <1>1, <1>4 DEF EndLine, serverSide
<1>5. CASE CutClient
  BY <1>1, <1>5 DEF CutClient, serverSide
<1>6. CASE EndClient
  BY <1>6 DEF EndClient, serverSide
<1>7. CASE \E status \in {"ok", "err"}, body \in Bodies \cup {NoBody}, said \in BOOLEAN :
             Answer(status, body, said)
  BY <1>2, <1>7 DEF Answer
<1>8. CASE MoreAnswer
  BY <1>2, <1>8 DEF MoreAnswer
<1>9. CASE CutServer
  BY <1>2, <1>9 DEF CutServer
<1>10. CASE EndServer
  BY <1>2, <1>10 DEF EndServer
<1>11. CASE UNCHANGED vars
  BY <1>11 DEF vars, serverSide
<1>. QED  BY <1>3, <1>4, <1>5, <1>6, <1>7, <1>8, <1>9, <1>10, <1>11 DEF Next

LEMMA AlarmsStep ==
  ASSUME AlarmsIn, parsed \in Nat, [Next]_vars
  PROVE  AlarmsIn'
<1>1. CASE AddRequest
  <2>1. /\ parsed' = parsed + 1
        /\ \A a \in alarms' : a \in alarms \/ a = <<"state", parsed + 1>>
    BY <1>1 DEF AddRequest, CheckRequest
  <2>. QED  BY <2>1 DEF AlarmsIn
<1>2. CASE AddCommand(spar) /\ UNCHANGED parsed
  <2>1. PICK r, k : PairDetected(r, spar, k)
    BY <1>2 DEF AddCommand
  <2>2. \A a \in alarms' : a \in alarms \/ a[1] = "brute" \/ a[1] = "weak"
    BY <2>1 DEF PairDetected
  <2>. QED  BY <1>2, <2>2 DEF AlarmsIn
<1>3. CASE UNCHANGED <<parsed, requests, cmds, known>>
  BY <1>3 DEF AlarmsIn, known
<1>. QED  BY <1>1, <1>2, <1>3, QueueMoves

\* One case per action of the session.
LEMMA KnownStep ==
  ASSUME Facts, [Next]_vars
  PROVE  KnownInv'
<1>0. /\ answers \in Seq(AnswerType) /\ asked \in Seq(AskType) /\ parsed \in Nat
      /\ KnownInv
  BY DEF Facts, QueueInv, Types, PeersInv
<1>1. Plain' => Plain
  BY <1>0, PlainBefore
<1>2. AlarmsIn'
  BY <1>0, AlarmsStep DEF KnownInv
<1>. SUFFICES ASSUME Plain, Plain' PROVE KnownInv'
  BY <1>1, <1>2 DEF KnownInv, SessionTrue, AlarmsJust
<1>3. ~greedy
  BY DEF Plain
<1>4. CASE UNCHANGED <<cmds, parsed, known, asked, answers>>
  BY <1>4, KnownUnchanged
<1>5. ASSUME NEW code \in Commands, NEW weak \in BOOLEAN, AskCommand(code, weak)
      PROVE  KnownInv'
  <2>. DEFINE ask == [code |-> code, weak |-> weak, waited |-> Waited]
  <2>1. /\ asked' = Append(asked, ask) /\ ParseClient("key")
        /\ UNCHANGED <<answers, cmds>>
    BY <1>3, <1>5 DEF AskCommand, serverSide, Got
  <2>2. ask \in AskType
    BY <1>5 DEF AskType, Waited
  <2>. HIDE DEF ask
  <2>3. \A i \in 1..Len(asked) : asked'[i] = asked[i]
    BY <1>0, <2>1, <2>2, AppendProperties
  <2>4. UNCHANGED <<parsed, known>>
    BY <2>1 DEF ParseClient
  <2>. QED  BY <2>1, <2>3, <2>4, KnownUnchanged
<1>6. CASE EndLine
  <2>1. /\ UNCHANGED <<cmds, asked, answers>> /\ refused = "none" /\ crest # <<>>
        /\ ParseClient("nl")
    BY <1>3, <1>6 DEF EndLine, serverSide, Live, Open, Got
  <2>. QED  BY <1>4, <2>1, RequestKeepsKnown DEF ParseClient
<1>7. CASE CutClient
  BY <1>3, <1>7 DEF CutClient
<1>8. CASE EndClient
  <2>1. /\ UNCHANGED <<cmds, asked, answers>> /\ refused = "none"
        /\ IF reading THEN AddRequest ELSE UNCHANGED <<parsed, requests, known>>
    BY <1>3, <1>8 DEF EndClient, serverSide, peers, Live, Open, Facts, DecoderInv
  <2>. QED  BY <1>4, <2>1, RequestKeepsKnown
<1>9. ASSUME NEW status \in {"ok", "err"}, NEW body \in Bodies \cup {NoBody},
             NEW said \in BOOLEAN, Answer(status, body, said)
      PROVE  KnownInv'
  <2>. DEFINE ans == [status |-> status, body |-> body,
                      after |-> IF status = "ok"
                                THEN Transfer(ServerState, Code(Len(answers)))
                                ELSE ServerState]
  <2>1. answers' = Append(answers, ans) /\ UNCHANGED <<asked, parsed>>
    BY <1>9 DEF Answer
  <2>. HIDE DEF ans
  <2>2. \A i \in 1..Len(answers) : answers'[i] = answers[i]
    BY <1>0, <2>1, LenProperties
  <2>3. UNCHANGED <<cmds, requests, known>>
    BY <1>0, <1>9, AnswerKeepsPairs DEF Facts
  <2>. QED  BY <2>1, <2>2, <2>3, KnownUnchanged
<1>10. CASE MoreAnswer
  <2>1. UNCHANGED <<asked, answers, parsed, greedy>> /\ refused = "none"
    BY <1>10 DEF MoreAnswer, Live, Open
  <2>2. MoreDone
    BY <1>10, MoreParses DEF Facts
  <2>. QED  BY <1>4, <2>1, <2>2, PairKeepsKnown DEF MoreDone
<1>11. CASE CutServer
  BY <1>3, <1>4, <1>11 DEF CutServer, peers
<1>12. CASE EndServer
  <2>1. UNCHANGED <<asked, answers, parsed>> /\ ParseServer("nothing", "nothing")
    BY <1>3, <1>12 DEF EndServer, peers, Facts, DecoderInv
  <2>. QED  BY <1>4, <2>1 DEF ParseServer
<1>13. CASE UNCHANGED vars
  BY <1>4, <1>13 DEF vars, peers, serverSide
<1>. QED  BY <1>5, <1>6, <1>7, <1>8, <1>9, <1>10, <1>11, <1>12, <1>13 DEF Next

-----------------------------------------------------------------------------
(* The invariant and what follows from it.                                 *)

Inv == Facts /\ RefusalInv

LEMMA InvStep ==
  ASSUME Inv, [Next]_vars
  PROVE  Inv'
<1>1. /\ QueueInv /\ PeersInv /\ ClientInv /\ PairsInv /\ DecoderInv /\ KnownInv /\ RefusalInv
      /\ answers \in Seq(AnswerType)
  BY DEF Inv, Facts, QueueInv, Types
<1>2. QueueInv'
  BY <1>1, QueueStep
<1>3. PeersInv' /\ ClientInv'
  BY <1>1, PeersStep, ClientStep
<1>4. DecoderInv' /\ RefusalInv'
  BY <1>1, DecoderStep, RefusalStep
<1>5. PairsInv'
  BY <1>1, PairsStep
<1>6. KnownInv'
  BY KnownStep DEF Inv
<1>. QED  BY <1>2, <1>3, <1>4, <1>5, <1>6 DEF Inv, Facts

LEMMA InvInit == Init => Inv
<1>. SUFFICES ASSUME Init PROVE Inv
  OBVIOUS
<1>1. /\ asked = <<>> /\ crest = <<>> /\ answers = <<>> /\ srest = <<>>
      /\ greedy \in BOOLEAN /\ held = [d \in {"client", "server"} |-> "nothing"]
      /\ reading = FALSE /\ parsed = 0 /\ requests = <<>> /\ cmds = <<>>
      /\ slex = "initial" /\ spar = "list" /\ refused = "none"
      /\ session = "init" /\ authFailed = 0 /\ alarms = {}
  BY DEF Init
<1>2. Len(<<>>) = 0 /\ DOMAIN <<>> = {} /\ <<>> \in Seq(Pieces) /\ <<>> \in Seq(AskType)
  OBVIOUS
<1>3. held["server"] = "nothing" /\ held["client"] = "nothing"
      /\ held \in [Directions -> Pieces \cup {"key", "nothing"}]
  BY <1>1 DEF Directions
<1>4. QueueInv
  BY QueueInit
<1>5. PeersInv
  BY <1>1, <1>2 DEF PeersInv
<1>6. ClientInv
  BY <1>1, <1>2 DEF ClientInv
<1>7. DecoderInv
  BY <1>1, <1>2, <1>3 DEF DecoderInv
<1>8. spar \notin PairsIn
  BY <1>1 DEF PairsIn
<1>9. PairsInv
  <2>1. Where(slex, spar, srest)
    BY <1>1 DEF Where, TameEnd
  <2>2. Gone = 0
    <3>1. Len(requests) = 0
      BY <1>1, <1>2
    <3>2. Gone = parsed - Len(requests) /\ parsed = 0
      BY <1>1 DEF Gone
    <3>. QED  BY <3>1, <3>2
  <2>3. PairedAsMeant
    BY <1>1, <1>2 DEF PairedAsMeant
  <2>. QED  BY <1>1, <1>2, <1>8, <2>1, <2>2, <2>3 DEF PairsInv
<1>10. KnownInv
  <2>1. {i \in DOMAIN cmds : Code(i - 1) = "PASS" /\ answers[i].status = "err"} = {}
    BY <1>1, <1>2
  <2>2. SessionTrue
    BY <1>1, <2>1, FS_EmptySet DEF SessionTrue, StatePaired
  <2>. QED  BY <1>1, <2>2 DEF KnownInv, AlarmsIn, AlarmsJust
<1>11. RefusalInv
  <2>1. Pend = <<>>
    BY <1>1, <1>3 DEF Pend
  <2>. QED  BY <1>1, <2>1 DEF RefusalInv, Stage
<1>. QED  BY <1>4, <1>5, <1>6, <1>7, <1>9, <1>10, <1>11 DEF Inv, Facts

LEMMA InvAlways == Spec => []Inv
<1>1. Inv /\ [Next]_vars => Inv'
  BY InvStep
<1>. QED  BY <1>1, InvInit, PTL DEF Spec

(***************************************************************************)
(* In every session no request is lost, duplicated or overtaken: every one *)
(* that pop3_client.y has parsed is in the queue or in one pair, in order. *)
(***************************************************************************)
THEOREM QueueIsInOrder == Spec => []QueueInOrder
<1>1. Inv => QueueInOrder
  BY DEF Inv, Facts, QueueInv
<1>. QED  BY <1>1, InvAlways, PTL

(***************************************************************************)
(* In a plain session, however long and however it is cut, pop3_add_command *)
(* pairs answer i with request i and the greeting with none.               *)
(***************************************************************************)
THEOREM PairsAlwaysAsMeant == Spec => []PairedAsMeant
<1>1. Inv => PairedAsMeant
  BY DEF Inv, Facts, PairsInv, PairedAsMeant
<1>. QED  BY <1>1, InvAlways, PTL

(***************************************************************************)
(* In a plain session signatures 4 and 8 keep the session of the server,   *)
(* up to the first weak password.                                          *)
(***************************************************************************)
THEOREM SessionAlwaysTrue == Spec => []SessionTrue
<1>1. Inv => SessionTrue
  BY DEF Inv, Facts, KnownInv
<1>. QED  BY <1>1, InvAlways, PTL

(***************************************************************************)
(* In a plain session signature 7 raises an alarm for a request of a       *)
(* client that waits exactly when the server's state does not admit it.    *)
(***************************************************************************)
THEOREM AlarmsAlwaysJust == Spec => []AlarmsJust
<1>1. Inv => AlarmsJust
  BY DEF Inv, Facts, KnownInv
<1>. QED  BY <1>1, InvAlways, PTL

(***************************************************************************)
(* Of an honest server the decoder refuses, greedy or not and however the  *)
(* stream is cut, only the bodies that are known to be refused; of an      *)
(* honest client, only a stream that ends within a line.                   *)
(***************************************************************************)
THEOREM RefusalsAlwaysKnown == Spec => []RefusalsKnown
<1>1. Inv => RefusalsKnown
  BY DEF Inv, Facts, RefusalInv, NoRefusable, DecoderInv, RefusalsKnown
<1>. QED  BY <1>1, InvAlways, PTL
=============================================================================
