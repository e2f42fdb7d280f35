------------------------------ MODULE HttpProof ------------------------------
(***************************************************************************)
(* What the HTTP decoder makes of a connection, for any honest messages,   *)
(* any cuts and any number of requests: FramingClean, BodiesAsSent,        *)
(* RefusalsKnown and TransactionsAsMeant of HttpSession.                   *)
(*                                                                         *)
(* The heart of it is Reads: where a stream is within the message that is  *)
(* being sent, as a relation between the stream, the message and the       *)
(* pieces of it that are still to come.  FeedReads shows that any next     *)
(* piece, or any part of it, keeps the stream on its way, completes the    *)
(* message as Decoded says, or meets what the decoder cannot read.         *)
(* SidesInv says it of the two sides of a connection with the line that a  *)
(* greedy parser holds; TurnKeeps shows that every step, as the turn of    *)
(* one side, keeps it.  The last two sections draw the properties of the   *)
(* messages told and of the lists from it.                                 *)
(***************************************************************************)
EXTENDS HttpSession, SequenceTheorems, FiniteSetTheorems, WellFoundedInduction, TLAPS

-----------------------------------------------------------------------------
(* Types, framing, and what a piece leads to.                              *)

Runs == Seq({"quiet", "loud", "line"})
Piece ==
  [kind : {"nothing", "blank", "field"}]
    \cup [kind : {"head"}, length : Nat, chunked : BOOLEAN, encoding : Encodings]
    \cup [kind : {"size"}, n : Nat, ext : BOOLEAN]
    \cup [kind : {"bytes"}, outs : Runs]

\* The pieces after a head.
BodyPiece == {p \in Piece : p.kind \in {"blank", "field", "size", "bytes"}}

Unopened(s) == s.body = "none" /\ s.label = "none" /\ s.unzip = "none" /\ s.size = 0

Framed(s) ==
  /\ s.lex = "initial" => s.length = 0 /\ ~s.chunked /\ s.encoding = "none" /\ Unopened(s)
  /\ s.lex = "normal" => ~s.chunked /\ s.length > 0
  /\ s.lex \in {"size", "chunk", "tail"} => s.chunked
  /\ s.fresh => s.lex = "initial"

\* What a decoder makes of a message, and what a piece leads to.
Told == [transfer : Transfers, encoding : Encodings, size : Nat]
Effect == [stream : Stream, out : {"more", "accepted", "refused", "gunzip"},
           init : BOOLEAN, done : Seq(Told)]

\* What a piece leads to keeps the framing unless the call fails.
Good(f) ==
  /\ f \in Effect
  /\ f.out \in {"more", "accepted"} => Framed(f.stream)

LEMMA OnType ==
  ASSUME NEW s \in Stream
  PROVE  /\ On(s) \in Effect /\ On(s).stream = s /\ On(s).out = "more"
         /\ Framed(s) => Good(On(s))
BY EmptySeq DEF Good, On, Effect

LEMMA FailsGood ==
  ASSUME NEW s \in Stream
  PROVE  Good(Fails(s))
<1>1. Fails(s) \in Effect /\ Fails(s).out = "refused"
  BY OnType DEF Fails, Effect
<1>. QED  BY <1>1 DEF Good

\* The end of a body leaves a clean stream if no length and no flag is left.
LEMMA EndBodyGood ==
  ASSUME NEW s \in Stream
  PROVE  /\ EndBody(s) \in Effect /\ EndBody(s).out = "more"
         /\ EndBody(s).stream.lex = "initial"
         /\ s.length = 0 /\ ~s.chunked => Good(EndBody(s))
<1>. DEFINE e == [s EXCEPT !.lex = "initial", !.encoding = "none", !.unzip = "none",
                           !.size = 0, !.body = "none", !.label = "none"]
            d == <<[transfer |-> s.body, encoding |-> s.label, size |-> s.size]>>
<1>1. e \in Stream /\ e.lex = "initial"
  BY DEF Stream, LexStates, Encodings, Transfers
<1>2. s.length = 0 /\ ~s.chunked => Framed(e)
  BY DEF Framed, Unopened, Stream
<1>3. d \in Seq(Told)
  BY DEF Stream, Told
<1>4. EndBody(s) = [On(e) EXCEPT !.done = d]
  BY DEF EndBody
<1>. HIDE DEF e, d
<1>. QED  BY <1>1, <1>2, <1>3, <1>4, OnType DEF Good, Effect

\* So does the end of the input, unless it is refused.
LEMMA EndInputGood ==
  ASSUME NEW s \in Stream
  PROVE  EndInput(s) \in Effect /\ (Framed(s) => Good(EndInput(s)))
<1>1. CASE s.lex = "initial"
  <2>. DEFINE e == [s EXCEPT !.fresh = TRUE]
  <2>1. EndInput(s) = [On(e) EXCEPT !.out = "accepted", !.init = s.fresh]
    BY <1>1 DEF EndInput
  <2>2. e \in Stream /\ (Framed(s) => Framed(e))
    BY <1>1 DEF Stream, Framed, Unopened
  <2>3. s.fresh \in BOOLEAN
    BY DEF Stream
  <2>. HIDE DEF e
  <2>. QED  BY <2>1, <2>2, <2>3, OnType, ZenonT(30) DEF Good, Effect
<1>2. CASE s.lex \in {"size", "chunk", "tail"} /\ s.body # "none"
  <2>1. EndInput(s) = [EndBody(s) EXCEPT !.out = "refused"]
    BY <1>2 DEF EndInput
  <2>. QED  BY <2>1, EndBodyGood DEF Good, Effect
<1>3. CASE s.lex # "initial" /\ ~(s.lex \in {"size", "chunk", "tail"} /\ s.body # "none")
  <2>1. EndInput(s) = Fails(s)
    BY <1>3 DEF EndInput
  <2>. QED  BY <2>1, FailsGood DEF Good
<1>. QED  BY <1>1, <1>2, <1>3

LEMMA LoudType ==
  ASSUME NEW outs \in Runs
  PROVE  Loud(outs) \in Nat
<1>1. IsFiniteSet(DOMAIN outs)
  BY LenProperties, FS_Interval DEF Runs
<1>2. IsFiniteSet({i \in DOMAIN outs : outs[i] = "loud"})
  BY <1>1, FS_Subset
<1>. QED  BY <1>2, FS_CardinalityType DEF Loud

\* The first part of a body changes nothing that framing depends on.
LEMMA BeginBodyType ==
  ASSUME NEW s \in Stream, NEW transfer \in Transfers
  PROVE  /\ BeginBody(s, transfer) \in Stream
         /\ BeginBody(s, transfer).lex = s.lex
         /\ BeginBody(s, transfer).length = s.length
         /\ BeginBody(s, transfer).chunked = s.chunked
         /\ BeginBody(s, transfer).fresh = s.fresh
BY DEF BeginBody, Stream, Encodings

LEMMA BodyPartType ==
  ASSUME NEW s \in Stream, NEW outs \in Runs
  PROVE  /\ BodyPart(s, outs) \in Effect
         /\ BodyPart(s, outs).out \in {"more", "refused", "gunzip"}
         /\ BodyPart(s, outs).out = "more" =>
              /\ BodyPart(s, outs).stream.lex = s.lex
              /\ BodyPart(s, outs).stream.length = s.length
              /\ BodyPart(s, outs).stream.chunked = s.chunked
              /\ BodyPart(s, outs).stream.fresh = s.fresh
<1>0. s.unzip \in {"none", "deflate", "gzip"} /\ s.size \in Nat
  BY DEF Stream, Encodings
<1>1. CASE s.unzip = "none"
  <2>. DEFINE e == [s EXCEPT !.size = @ + Len(outs)]
  <2>1. e \in Stream /\ e.lex = s.lex /\ e.length = s.length /\ e.chunked = s.chunked
         /\ e.fresh = s.fresh
    BY LenProperties DEF Stream, Runs
  <2>2. BodyPart(s, outs) = On(e)
    BY <1>1 DEF BodyPart
  <2>. QED  BY <2>1, <2>2, OnType
<1>2. CASE s.unzip = "deflate" /\ Inflates(outs)
  <2>. DEFINE e == [s EXCEPT !.size = @ + Loud(outs)]
  <2>1. e \in Stream /\ e.lex = s.lex /\ e.length = s.length /\ e.chunked = s.chunked
         /\ e.fresh = s.fresh
    BY LoudType DEF Stream
  <2>2. BodyPart(s, outs) = On(e)
    BY <1>2 DEF BodyPart
  <2>. QED  BY <2>1, <2>2, OnType
<1>3. CASE s.unzip = "deflate" /\ ~Inflates(outs)
  <2>1. BodyPart(s, outs) = Fails(s)
    BY <1>3 DEF BodyPart
  <2>. QED  BY <2>1, OnType DEF Fails, Effect
<1>4. CASE s.unzip = "gzip"
  <2>1. BodyPart(s, outs) = [Fails(s) EXCEPT !.out = "gunzip"]
    BY <1>4 DEF BodyPart
  <2>. QED  BY <2>1, FailsGood DEF Good, Effect
<1>. QED  BY <1>0, <1>1, <1>2, <1>3, <1>4

\* Bytes of a body, and beyond it.
LEMMA BodyBytesGood ==
  ASSUME NEW s \in Stream, Framed(s), BodyMode(s), NEW outs \in Runs
  PROVE  Good(BodyBytes(s, outs))
<1>. DEFINE read == IF Len(outs) > s.length THEN s.length ELSE Len(outs)
            left == [s EXCEPT !.length = s.length - read]
            begun == [BeginBody(s, "normal") EXCEPT !.length = s.length - read]
            part == BodyPart(begun, SubSeq(outs, 1, read))
            next == IF s.lex = "normal" /\ part.stream.length = 0
                    THEN EndBody(part.stream) ELSE part
<1>1. Len(outs) \in Nat /\ s.length \in Nat /\ read \in 0..Len(outs)
      /\ s.length - read \in Nat
  BY LenProperties DEF Runs, Stream
<1>2. SubSeq(outs, 1, read) \in Runs
  BY <1>1, SubSeqProperties DEF Runs
<1>3. /\ begun \in Stream /\ begun.lex = s.lex /\ begun.chunked = s.chunked
      /\ begun.length = s.length - read /\ begun.fresh = s.fresh
  BY <1>1, BeginBodyType DEF Stream, Transfers
<1>4. /\ part \in Effect /\ part.out \in {"more", "refused", "gunzip"}
      /\ part.out = "more" => /\ part.stream.lex = s.lex
                              /\ part.stream.length = s.length - read
                              /\ part.stream.chunked = s.chunked
                              /\ part.stream.fresh = s.fresh
  <2>. HIDE DEF begun, read
  <2>. QED  BY <1>2, <1>3, BodyPartType
<1>5. BodyBytes(s, outs) =
        CASE part.out # "more" -> part
          [] part.out = "more" /\ Len(outs) = read -> next
          [] part.out = "more" /\ Len(outs) > read ->
               [EndInput(next.stream) EXCEPT !.done = next.done \o @]
  BY DEF BodyBytes
<1>6. s.lex = "normal" \/ s.lex = "chunk"
  BY DEF BodyMode
<1>. HIDE DEF read, begun, part
<1>7. CASE part.out # "more"
  BY <1>4, <1>5, <1>7 DEF Good
<1>8. CASE part.out = "more"
  <2>1. Good(next) /\ next.out = "more"
    <3>1. part.stream \in Stream
      BY <1>4 DEF Effect
    <3>2. CASE s.lex = "normal" /\ part.stream.length = 0
      BY <1>4, <1>8, <3>1, <3>2, EndBodyGood DEF Framed
    <3>3. CASE s.lex = "normal" /\ part.stream.length # 0
      <4>1. part.stream.length > 0
        BY <1>1, <1>4, <1>8, <3>3
      <4>. QED  BY <1>4, <1>8, <3>3, <4>1 DEF Good, Framed
    <3>4. CASE s.lex = "chunk"
      BY <1>4, <1>8, <3>4 DEF Good, Framed
    <3>. QED  BY <1>6, <3>2, <3>3, <3>4
  <2>. HIDE DEF next
  <2>2. next.stream \in Stream /\ Framed(next.stream)
    BY <2>1 DEF Good, Effect
  <2>3. Good([EndInput(next.stream) EXCEPT !.done = next.done \o @])
    <3>1. EndInput(next.stream) \in Effect /\ next \in Effect
      BY <2>1, <2>2, EndInputGood DEF Good
    <3>2. next.done \o EndInput(next.stream).done
            \in Seq(Told)
      BY <3>1, ConcatProperties DEF Effect
    <3>. QED  BY <3>1, <3>2, <2>2, EndInputGood DEF Good, Effect
  <2>4. Len(outs) = read \/ Len(outs) > read
    BY <1>1
  <2>. QED  BY <1>5, <1>8, <2>1, <2>3, <2>4
<1>. QED  BY <1>7, <1>8

LEMMA HeadFieldsGood ==
  ASSUME NEW s \in Stream, NEW p \in Piece, p.kind = "head"
  PROVE  Good(HeadFields(s, p))
<1>. DEFINE e == [s EXCEPT !.lex = "header", !.fresh = FALSE,
                           !.length = IF p.length > 0 THEN p.length ELSE @,
                           !.chunked = @ \/ p.chunked,
                           !.encoding = IF p.encoding # "none" THEN p.encoding ELSE @]
<1>1. p.length \in Nat /\ p.chunked \in BOOLEAN /\ p.encoding \in Encodings
  BY DEF Piece
<1>2. e \in Stream /\ e.lex = "header"
  BY <1>1 DEF Stream, LexStates
<1>3. Framed(e)
  BY <1>2 DEF Framed
<1>4. HeadFields(s, p) = [On(e) EXCEPT !.init = s.fresh]
  BY DEF HeadFields
<1>5. s.fresh \in BOOLEAN
  BY DEF Stream
<1>. HIDE DEF e
<1>. QED  BY <1>2, <1>3, <1>4, <1>5, OnType DEF Good, Effect

LEMMA HeadEndGood ==
  ASSUME NEW s \in Stream, Framed(s), s.lex = "header"
  PROVE  Good(HeadEnd(s))
<1>1. CASE s.chunked
  <2>. DEFINE e == [s EXCEPT !.lex = "size"]
  <2>1. e \in Stream /\ Framed(e)
    BY <1>1 DEF Stream, Framed, LexStates
  <2>2. HeadEnd(s) = On(e)
    BY <1>1 DEF HeadEnd
  <2>. QED  BY <2>1, <2>2, OnType
<1>2. CASE ~s.chunked /\ s.length > 0
  <2>. DEFINE e == [s EXCEPT !.lex = "normal"]
  <2>1. e \in Stream /\ Framed(e)
    BY <1>2 DEF Stream, Framed, LexStates
  <2>2. HeadEnd(s) = On(e)
    BY <1>2 DEF HeadEnd
  <2>. QED  BY <2>1, <2>2, OnType
<1>3. CASE ~s.chunked /\ ~(s.length > 0)
  <2>1. s.length = 0
    BY <1>3 DEF Stream
  <2>2. HeadEnd(s) = EndBody(s)
    BY <1>3 DEF HeadEnd
  <2>. QED  BY <1>3, <2>1, <2>2, EndBodyGood
<1>. QED  BY <1>1, <1>2, <1>3

LEMMA ChunkHeaderGood ==
  ASSUME NEW s \in Stream, Framed(s), s.lex = "size", NEW p \in Piece, p.kind = "size"
  PROVE  Good(ChunkHeader(s, p))
<1>1. CASE p.ext
  <2>1. ChunkHeader(s, p) = Fails(s)
    BY <1>1 DEF ChunkHeader
  <2>. QED  BY <2>1, FailsGood
<1>2. CASE ~p.ext
  <2>. DEFINE b == BeginBody(s, "chunked")
              e == [b EXCEPT !.length = p.n, !.lex = IF p.n > 0 THEN "chunk" ELSE "tail"]
  <2>1. b \in Stream /\ b.chunked /\ ~b.fresh
    <3>1. s.chunked /\ ~s.fresh /\ s.fresh \in BOOLEAN
      BY DEF Framed, Stream
    <3>. QED  BY <3>1, BeginBodyType DEF Transfers
  <2>2. p.n \in Nat
    BY DEF Piece
  <2>3. ChunkHeader(s, p) = On(e)
    BY <1>2 DEF ChunkHeader
  <2>. HIDE DEF b
  <2>4. e \in Stream /\ Framed(e)
    BY <2>1, <2>2 DEF Stream, Framed, LexStates
  <2>. QED  BY <2>3, <2>4, OnType
<1>. QED  BY <1>1, <1>2

LEMMA TailEndGood ==
  ASSUME NEW s \in Stream
  PROVE  Good(TailEnd(s))
<1>. DEFINE e == [s EXCEPT !.length = 0, !.chunked = FALSE]
<1>1. e \in Stream /\ e.length = 0 /\ ~e.chunked
  BY DEF Stream
<1>. QED  BY <1>1, EndBodyGood DEF TailEnd

\* A piece in a stream keeps the framing, or the call fails.
LEMMA FeedGood ==
  ASSUME NEW s \in Stream, Framed(s), NEW p \in Piece
  PROVE  Good(Feed(s, p))
<1>1. CASE BodyMode(s)
  <2>. DEFINE outs == IF p.kind = "bytes" THEN p.outs ELSE <<"line">>
  <2>1. p.kind = "bytes" => p.outs \in Runs
    BY DEF Piece
  <2>2. <<"line">> \in Runs
    BY DEF Runs
  <2>3. outs \in Runs
    BY <2>1, <2>2
  <2>4. Feed(s, p) = BodyBytes(s, outs)
    BY <1>1 DEF Feed, BodyMode
  <2>. HIDE DEF outs
  <2>. QED  BY <1>1, <2>3, <2>4, BodyBytesGood
<1>2. CASE ~BodyMode(s)
  <2>1. CASE s.lex = "initial" /\ p.kind = "head"
    BY <1>2, <2>1, HeadFieldsGood DEF Feed
  <2>2. CASE s.lex = "header" /\ p.kind = "blank"
    BY <1>2, <2>2, HeadEndGood DEF Feed
  <2>3. CASE s.lex = "size" /\ p.kind = "size"
    BY <1>2, <2>3, ChunkHeaderGood DEF Feed, Framed
  <2>4. CASE s.lex = "chunk" /\ s.length = 0 /\ p.kind = "blank"
    <3>. DEFINE e == [s EXCEPT !.lex = "size"]
    <3>1. e \in Stream /\ Framed(e)
      BY <2>4 DEF Stream, Framed, LexStates
    <3>2. Feed(s, p) = On(e)
      BY <1>2, <2>4 DEF Feed
    <3>. QED  BY <3>1, <3>2, OnType
  <2>5. CASE s.lex = "tail" /\ p.kind = "field"
    BY <1>2, <2>5, OnType DEF Feed
  <2>6. CASE s.lex = "tail" /\ p.kind = "blank"
    BY <1>2, <2>6, TailEndGood DEF Feed
  <2>7. CASE /\ ~(s.lex = "initial" /\ p.kind = "head")
             /\ ~(s.lex = "header" /\ p.kind = "blank")
             /\ ~(s.lex = "size" /\ p.kind = "size")
             /\ ~(s.lex = "chunk" /\ s.length = 0 /\ p.kind = "blank")
             /\ ~(s.lex = "tail" /\ p.kind = "field")
             /\ ~(s.lex = "tail" /\ p.kind = "blank")
    <3>1. Feed(s, p) = EndInput(s)
      BY <1>2, <2>7 DEF Feed
    <3>. QED  BY <3>1, EndInputGood
  <2>. QED  BY <2>1, <2>2, <2>3, <2>4, <2>5, <2>6, <2>7
<1>. QED  BY <1>1, <1>2

LEMMA LastGood ==
  ASSUME NEW s \in Stream, Framed(s)
  PROVE  Good(Last(s))
BY OnType, EndInputGood DEF Last

-----------------------------------------------------------------------------
(* Recursive functions.                                                    *)

\* What holds of 0 and passes from n to n + 1 holds of every number.
LEMMA SetInduction ==
  ASSUME NEW T \in SUBSET Nat, 0 \in T, \A n \in T : n + 1 \in T
  PROVE  T = Nat
<1> SUFFICES ASSUME Nat \ T # {} PROVE FALSE
  OBVIOUS
<1>1. IsWellFoundedOn(OpToRel(<, Nat), Nat)
  BY NatLessThanWellFounded
<1>2. PICK x \in Nat \ T : \A y \in Nat \ T : ~(<<y, x>> \in OpToRel(<, Nat))
  <2>1. Nat \ T \subseteq Nat OBVIOUS
  <2> QED BY <1>1, <2>1, WFMin, Zenon
<1>3. x # 0 /\ x - 1 \in Nat
  OBVIOUS
<1>4. x - 1 \in Nat \ T
  BY <1>3
<1>5. <<x - 1, x>> \in OpToRel(<, Nat)
  <2>1. x - 1 < x BY <1>3
  <2> QED BY <2>1, <1>3, Zenon DEF OpToRel
<1> QED BY <1>2, <1>4, <1>5

\* f has the value b at m, and from there on what g makes of the value before.
Recursive(f, b, g, m, n) == f[m] = b /\ \A i \in m + 1 .. n : f[i] = g[<<i, f[i - 1]>>]

LEMMA RecursionExists ==
  ASSUME NEW S, NEW b \in S, NEW m \in Int, NEW n \in Nat,
         NEW g \in [Int \X S -> S]
  PROVE  \E f \in [m..m + n -> S] : Recursive(f, b, g, m, m + n)
<1> DEFINE T == {k \in Nat : \E f \in [m..m + k -> S] : Recursive(f, b, g, m, m + k)}
<1>1. 0 \in T
  <2> DEFINE f == [i \in m..m + 0 |-> b]
  <2>1. f \in [m..m + 0 -> S] /\ Recursive(f, b, g, m, m + 0)
    BY DEF Recursive
  <2> QED BY <2>1, Zenon
<1>2. ASSUME NEW k \in T PROVE k + 1 \in T
  <2>1. PICK f \in [m..m + k -> S] : Recursive(f, b, g, m, m + k)
    OBVIOUS
  <2> DEFINE h == [i \in m..m + (k + 1) |->
                     IF i <= m + k THEN f[i] ELSE g[<<i, f[i - 1]>>]]
  <2>2. h \in [m..m + (k + 1) -> S]
    <3> SUFFICES ASSUME NEW i \in m..m + (k + 1)
                 PROVE  (IF i <= m + k THEN f[i] ELSE g[<<i, f[i - 1]>>]) \in S
      OBVIOUS
    <3>1. CASE i <= m + k  BY <3>1
    <3>2. CASE i = m + (k + 1)
      <4>1. i - 1 \in m..m + k BY <3>2
      <4>2. f[i - 1] \in S BY <4>1
      <4> QED BY <3>2, <4>2
    <3> QED BY <3>1, <3>2
  <2>3. Recursive(h, b, g, m, m + (k + 1))
    <3>1. h[m] = b BY <2>1 DEF Recursive
    <3>2. ASSUME NEW i \in m + 1 .. m + (k + 1) PROVE h[i] = g[<<i, h[i - 1]>>]
      <4>1. i - 1 \in m..m + k /\ i - 1 <= m + k /\ i - 1 \in m..m + (k + 1) OBVIOUS
      <4>2. h[i - 1] = f[i - 1] BY <4>1
      <4>3. CASE i <= m + k
        <5>1. i \in m + 1 .. m + k /\ h[i] = f[i] BY <4>3
        <5> QED BY <4>2, <5>1, <2>1 DEF Recursive
      <4>4. CASE i = m + (k + 1)
        <5>1. h[i] = g[<<i, f[i - 1]>>] BY <4>4
        <5> QED BY <5>1, <4>2
      <4> QED BY <4>3, <4>4
    <3> QED BY <3>1, <3>2 DEF Recursive
  <2>4. k + 1 \in Nat OBVIOUS
  <2> HIDE DEF h
  <2> QED BY <2>2, <2>3, <2>4, Zenon
<1> HIDE DEF T
<1>3. T = Nat
  <2>1. T \in SUBSET Nat BY DEF T
  <2> QED BY <1>1, <1>2, <2>1, SetInduction
<1>4. n \in T
  BY <1>3
<1> QED BY <1>4 DEF T

-----------------------------------------------------------------------------
(* Bodies.                                                                 *)

Byte == {"quiet", "loud"}
Chunks == Seq(Seq(Byte))

\* The body up to a chunk, by recursion.
LEMMA BodyToStep ==
  ASSUME NEW m, m.chunks \in Chunks
  PROVE  /\ BodyTo(m, 0) = <<>>
         /\ \A n \in 1..Len(m.chunks) : BodyTo(m, n) = BodyTo(m, n - 1) \o m.chunks[n]
         /\ \A n \in 0..Len(m.chunks) : BodyTo(m, n) \in Seq(Byte)
<1> DEFINE N == Len(m.chunks)
           Eq(w) == w = [i \in 0..Len(m.chunks) |->
                           IF i = 0 THEN <<>> ELSE w[i - 1] \o m.chunks[i]]
           all == CHOOSE w : Eq(w)
           g == [p \in Int \X Seq(Byte) |->
                   IF p[1] \in 1..N THEN p[2] \o m.chunks[p[1]] ELSE p[2]]
<1>0. \A i \in 1..N : m.chunks[i] \in Seq(Byte)
  BY ElementOfSeq DEF Chunks
<1>1. g \in [Int \X Seq(Byte) -> Seq(Byte)]
  BY <1>0
<1>2. N \in Nat /\ 0 \in Int /\ <<>> \in Seq(Byte)
  BY LenProperties DEF Chunks
<1> HIDE DEF g
<1>3. PICK f \in [0..0 + N -> Seq(Byte)] : Recursive(f, <<>>, g, 0, 0 + N)
  BY <1>1, <1>2, RecursionExists
<1>4. Eq(f)
  <2>1. ASSUME NEW k \in 0..N
        PROVE  f[k] = IF k = 0 THEN <<>> ELSE f[k - 1] \o m.chunks[k]
    <3>1. CASE k = 0
      BY <1>3, <3>1 DEF Recursive
    <3>2. CASE k # 0
      <4>1. k \in 0 + 1 .. 0 + N /\ k \in 1..N /\ k - 1 \in 0..0 + N
        BY <1>2, <3>2
      <4>2. f[k] = g[<<k, f[k - 1]>>]
        BY <1>3, <4>1 DEF Recursive
      <4>3. f[k - 1] \in Seq(Byte) /\ k \in Int
        BY <1>3, <4>1
      <4>4. g[<<k, f[k - 1]>>] = f[k - 1] \o m.chunks[k]
        BY <4>1, <4>3 DEF g
      <4>. QED  BY <3>2, <4>2, <4>4
    <3>. QED  BY <3>1, <3>2
  <2>2. f \in [0..N -> Seq(Byte)]
    <3>1. 0 + N = N
      BY <1>2
    <3>. QED  BY <1>3, <3>1
  <2>. QED  BY <2>1, <2>2
<1>5. Eq(all)
  <2> HIDE DEF Eq
  <2>. QED  BY <1>4, Zenon
<1>6. \A n : BodyTo(m, n) = all[n]
  BY Zenon DEF BodyTo
<1> HIDE DEF all
<1>7. BodyTo(m, 0) = <<>>
  <2>1. 0 \in 0..N /\ all[0] = <<>>
    BY <1>2, <1>5
  <2>. QED  BY <1>6, <2>1
<1>8. ASSUME NEW n \in 1..N
      PROVE  BodyTo(m, n) = BodyTo(m, n - 1) \o m.chunks[n]
  <2>1. n \in 0..N /\ n # 0
    BY <1>2
  <2>2. all[n] = all[n - 1] \o m.chunks[n]
    BY <1>5, <2>1
  <2>. QED  BY <1>6, <2>2
<1>9. \A n \in 0..N : BodyTo(m, n) \in Seq(Byte)
  <2> DEFINE T == {n \in Nat : n <= N => BodyTo(m, n) \in Seq(Byte)}
  <2>1. 0 \in T
    BY <1>2, <1>7
  <2>2. ASSUME NEW n \in T PROVE n + 1 \in T
    <3> SUFFICES ASSUME n + 1 <= N PROVE BodyTo(m, n + 1) \in Seq(Byte)
      OBVIOUS
    <3>1. n + 1 \in 1..N /\ (n + 1) - 1 = n /\ n <= N
      BY <1>2
    <3>2. BodyTo(m, n) \in Seq(Byte) /\ m.chunks[n + 1] \in Seq(Byte)
      BY <1>0, <3>1
    <3>3. BodyTo(m, n + 1) = BodyTo(m, n) \o m.chunks[n + 1]
      BY <1>8, <3>1
    <3>. QED  BY <3>2, <3>3, ConcatProperties, ZenonT(30)
  <2> HIDE DEF T
  <2>3. T = Nat
    <3>1. T \in SUBSET Nat
      BY DEF T
    <3>. QED  BY <2>1, <2>2, <3>1, SetInduction
  <2>. QED  BY <1>2, <2>3 DEF T
<1>. QED  BY <1>7, <1>8, <1>9

LEMMA BytesAssociate ==
  ASSUME NEW a \in Seq(Byte), NEW b \in Seq(Byte), NEW c \in Seq(Byte)
  PROVE  (a \o b) \o c = a \o (b \o c)
OBVIOUS

LEMMA PiecesAssociate ==
  ASSUME NEW a \in Seq(Piece), NEW b \in Seq(Piece), NEW c \in Seq(Piece)
  PROVE  (a \o b) \o c = a \o (b \o c)
OBVIOUS

\* What is loud in two runs of bytes is loud in one of them.
LEMMA LoudConcat ==
  ASSUME NEW a \in Seq(Byte), NEW b \in Seq(Byte)
  PROVE  Loud(a \o b) = Loud(a) + Loud(b)
<1> DEFINE k == Len(a)
           n == Len(b)
           A == {i \in 1..k : a[i] = "loud"}
           B == {i \in 1..n : b[i] = "loud"}
           C == {i \in k + 1 .. k + n : b[i - k] = "loud"}
           s == a \o b
           f == [i \in B |-> i + k]
<1>1. /\ k \in Nat /\ n \in Nat /\ DOMAIN a = 1..k /\ DOMAIN b = 1..n
      /\ s \in Seq(Byte) /\ Len(s) = k + n
      /\ \A i \in 1..k + n : s[i] = IF i <= k THEN a[i] ELSE b[i - k]
  BY LenProperties, ConcatProperties
<1>2. DOMAIN s = 1..k + n
  BY <1>1, LenProperties
<1>3. Loud(a) = Cardinality(A) /\ Loud(b) = Cardinality(B)
  BY <1>1 DEF Loud
<1> HIDE DEF s, k, n
<1>4. {i \in 1..k + n : s[i] = "loud"} = A \cup C
  BY <1>1
<1>5. Loud(s) = Cardinality(A \cup C)
  BY <1>2, <1>4 DEF Loud
<1>6. f \in Bijection(B, C)
  <2>1. f \in [B -> C]
    BY <1>1
  <2>2. \A i, j \in B : f[i] = f[j] => i = j
    BY <1>1
  <2>3. \A j \in C : \E i \in B : f[i] = j
    <3> SUFFICES ASSUME NEW j \in C PROVE \E i \in B : f[i] = j
      OBVIOUS
    <3>1. j - k \in B /\ (j - k) + k = j
      BY <1>1
    <3>. QED  BY <3>1
  <2> HIDE DEF f, B, C
  <2>. QED  BY <2>1, <2>2, <2>3 DEF Bijection, Injection, Surjection, IsInjective
<1>7. IsFiniteSet(A) /\ IsFiniteSet(B)
  <2>1. IsFiniteSet(1..k) /\ IsFiniteSet(1..n)
    BY <1>1, FS_Interval
  <2>2. A \in SUBSET (1..k) /\ B \in SUBSET (1..n)
    OBVIOUS
  <2> HIDE DEF A, B
  <2>. QED  BY <2>1, <2>2, FS_Subset
<1>8. IsFiniteSet(C) /\ Cardinality(C) = Cardinality(B)
  BY <1>6, <1>7, FS_Bijection DEF ExistsBijection
<1>9. A \cap C = {}
  BY <1>1
<1> HIDE DEF A, C, B
<1>10. Cardinality(A \cup C) = Cardinality(A) + Cardinality(C)
  <2>1. Cardinality(A) \in Nat /\ Cardinality(C) \in Nat /\ Cardinality({}) = 0
    BY <1>7, <1>8, FS_CardinalityType, FS_EmptySet
  <2>2. Cardinality(A \cup C) = Cardinality(A) + Cardinality(C) - Cardinality(A \cap C)
    BY <1>7, <1>8, FS_Union
  <2>3. Cardinality(A \cap C) = 0
    BY <1>9, <2>1, Zenon
  <2>. QED  BY <2>1, <2>2, <2>3
<1>. QED  BY <1>3, <1>5, <1>8, <1>10 DEF s

-----------------------------------------------------------------------------
(* The pieces of a message.                                                *)

Sendable == Requests \cup Responses

LEMMA Honest ==
  ASSUME NEW m \in Sendable
  PROVE  /\ m \in Message /\ m.chunks \in Chunks /\ Len(m.chunks) \in Nat
         /\ \A i \in 1..Len(m.chunks) : m.chunks[i] \in Seq(Byte) /\ m.chunks[i] # <<>>
         /\ m.framing \in {"length", "close"} => Len(m.chunks) = 1
         /\ m.framing = "length" => m.declared = Len(m.chunks[1])
         /\ m.framing \in {"none", "close"} => m.declared = 0
<1>1. m \in Message /\ m.chunks \in Chunks
  BY SessionAssumption DEF Sendable, Message, Chunks, Byte
<1>2. Len(m.chunks) \in Nat /\ DOMAIN m.chunks = 1..Len(m.chunks)
  BY <1>1, LenProperties DEF Chunks
<1>3. \A i \in 1..Len(m.chunks) : m.chunks[i] \in Seq(Byte)
  BY <1>1, ElementOfSeq DEF Chunks
<1>. QED  BY <1>1, <1>2, <1>3, SessionAssumption DEF Sendable

FieldPiece == [kind |-> "field"]
Extra(m) == IF m.extra THEN <<Blank>> ELSE <<>>
TailPieces(m) ==
  IF m.trailer THEN <<FieldPiece>> \o (<<Blank>> \o Extra(m)) ELSE <<Blank>> \o Extra(m)
ChunkPieces(m) ==
  [i \in 1..3 * Len(m.chunks) |-> Chunk(m, (i + 2) \div 3)[((i + 2) % 3) + 1]]

\* The pieces from chunk i on, the last chunk included.
ChunksFrom(m, i) ==
  SubSeq(ChunkPieces(m), 3 * i - 2, 3 * Len(m.chunks))
    \o (<<Size(0, m.ext)>> \o TailPieces(m))

\* What comes after the blank line of the head.
BodyFrom(m) ==
  CASE m.framing \in {"none", "bodiless"} -> Extra(m)
    [] m.framing \in {"length", "close"}  -> <<Bytes(m.chunks[1])>> \o Extra(m)
    [] m.framing = "chunked"              -> ChunksFrom(m, 1)

LEMMA PieceTypes ==
  ASSUME NEW m \in Sendable
  PROVE  /\ Blank \in Piece /\ FieldPiece \in Piece /\ HeadOf(m) \in Piece
         /\ \A k \in Nat : Size(k, m.ext) \in Piece
         /\ \A b \in Seq(Byte) : Bytes(b) \in Piece
         /\ Blank \in BodyPiece /\ FieldPiece \in BodyPiece
         /\ \A k \in Nat : Size(k, m.ext) \in BodyPiece
         /\ \A b \in Seq(Byte) : Bytes(b) \in BodyPiece
         /\ Extra(m) \in Seq(Piece) /\ TailPieces(m) \in Seq(Piece)
<1>1. m.ext \in BOOLEAN /\ m.declared \in Nat /\ m.encoding \in Encodings
  BY Honest DEF Message
<1>2. /\ Blank \in Piece /\ FieldPiece \in Piece /\ HeadOf(m) \in Piece
      /\ \A k \in Nat : Size(k, m.ext) \in Piece
  BY <1>1 DEF Blank, FieldPiece, HeadOf, Size, Piece
<1>3. ASSUME NEW b \in Seq(Byte) PROVE Bytes(b) \in Piece
  BY DEF Bytes, Piece, Runs, Byte
<1>4. Extra(m) \in Seq(Piece)
  BY <1>2 DEF Extra
<1>5. <<Blank>> \in Seq(Piece) /\ <<FieldPiece>> \in Seq(Piece)
  BY <1>2
<1>6. TailPieces(m) \in Seq(Piece)
  BY <1>4, <1>5, ConcatProperties DEF TailPieces
<1>7. /\ Blank \in BodyPiece /\ FieldPiece \in BodyPiece
      /\ \A k \in Nat : Size(k, m.ext) \in BodyPiece
      /\ \A b \in Seq(Byte) : Bytes(b) \in BodyPiece
  BY <1>2, <1>3 DEF BodyPiece, Blank, FieldPiece, Size, Bytes
<1>. QED  BY <1>2, <1>3, <1>4, <1>6, <1>7

LEMMA BodyPiecesArePieces == Seq(BodyPiece) \subseteq Seq(Piece)
<1>1. BodyPiece \subseteq Piece
  BY DEF BodyPiece
<1>. QED  BY <1>1

LEMMA ChunkPiecesType ==
  ASSUME NEW m \in Sendable
  PROVE  /\ ChunkPieces(m) \in Seq(BodyPiece) /\ Len(ChunkPieces(m)) = 3 * Len(m.chunks)
         /\ \A i \in 1..Len(m.chunks) :
              /\ ChunkPieces(m)[3 * i - 2] = Size(Len(m.chunks[i]), m.ext)
              /\ ChunkPieces(m)[3 * i - 1] = Bytes(m.chunks[i])
              /\ ChunkPieces(m)[3 * i] = Blank
<1> DEFINE n == Len(m.chunks)
<1>1. n \in Nat
  BY Honest
<1>2. ASSUME NEW k \in 1..n
      PROVE  /\ Chunk(m, k)[1] = Size(Len(m.chunks[k]), m.ext) /\ Chunk(m, k)[1] \in BodyPiece
             /\ Chunk(m, k)[2] = Bytes(m.chunks[k]) /\ Chunk(m, k)[2] \in BodyPiece
             /\ Chunk(m, k)[3] = Blank /\ Chunk(m, k)[3] \in BodyPiece
  <2>1. m.chunks[k] \in Seq(Byte)
    BY Honest
  <2>2. Len(m.chunks[k]) \in Nat
    BY <2>1, LenProperties
  <2>3. /\ Size(Len(m.chunks[k]), m.ext) \in BodyPiece /\ Bytes(m.chunks[k]) \in BodyPiece
        /\ Blank \in BodyPiece
    BY <2>1, <2>2, PieceTypes
  <2>. QED  BY <2>3 DEF Chunk
<1> HIDE DEF n
<1>3. ASSUME NEW i \in 1..3 * n
      PROVE  Chunk(m, (i + 2) \div 3)[((i + 2) % 3) + 1] \in BodyPiece
  <2> DEFINE k == (i + 2) \div 3
             j == (i + 2) % 3
  <2>1. k \in 1..n /\ j \in 0..2
    BY <1>1, SMTT(30)
  <2> HIDE DEF k, j
  <2>2. j + 1 = 1 \/ j + 1 = 2 \/ j + 1 = 3
    BY <2>1
  <2>3. Chunk(m, k)[j + 1] \in BodyPiece
    BY <1>2, <2>1, <2>2
  <2>. QED  BY <2>3 DEF k, j
<1>4. ChunkPieces(m) = [i \in 1..3 * n |-> Chunk(m, (i + 2) \div 3)[((i + 2) % 3) + 1]]
  BY DEF ChunkPieces, n
<1>5. ChunkPieces(m) \in Seq(BodyPiece) /\ Len(ChunkPieces(m)) = 3 * n
  <2>1. 3 * n \in Nat
    BY <1>1
  <2>. QED  BY <1>3, <1>4, <2>1
<1>6. ASSUME NEW i \in 1..n
      PROVE  /\ ChunkPieces(m)[3 * i - 2] = Chunk(m, i)[1]
             /\ ChunkPieces(m)[3 * i - 1] = Chunk(m, i)[2]
             /\ ChunkPieces(m)[3 * i] = Chunk(m, i)[3]
  <2>1. 3 * i - 2 \in 1..3 * n /\ 3 * i - 1 \in 1..3 * n /\ 3 * i \in 1..3 * n
    BY <1>1
  <2>2. /\ ((3 * i - 2) + 2) \div 3 = i /\ (((3 * i - 2) + 2) % 3) + 1 = 1
        /\ ((3 * i - 1) + 2) \div 3 = i /\ (((3 * i - 1) + 2) % 3) + 1 = 2
        /\ (3 * i + 2) \div 3 = i /\ ((3 * i + 2) % 3) + 1 = 3
    BY <1>1, SMTT(30)
  <2>. QED  BY <1>4, <2>1, <2>2
<1>. QED  BY <1>2, <1>5, <1>6 DEF n

LEMMA Singles ==
  ASSUME NEW S, NEW x \in S, NEW s \in Seq(S)
  PROVE  /\ <<x>> \o s \in Seq(S) /\ <<x>> \o s # <<>>
         /\ Head(<<x>> \o s) = x /\ Tail(<<x>> \o s) = s
<1>1. <<x>> \in Seq(S) /\ Len(<<x>>) = 1
  OBVIOUS
<1>2. /\ <<x>> \o s \in Seq(S) /\ Len(<<x>> \o s) = 1 + Len(s) /\ Len(s) \in Nat
      /\ \A i \in 1..1 + Len(s) : (<<x>> \o s)[i] = IF i <= 1 THEN x ELSE s[i - 1]
  <2>1. <<x>>[1] = x
    OBVIOUS
  <2>. QED  BY <1>1, <2>1, ConcatProperties, LenProperties
<1>3. <<x>> \o s # <<>>
  BY <1>2, EmptySeq
<1> DEFINE q == <<x>> \o s
<1>4. Head(q) = q[1] /\ q[1] = x
  BY <1>2, <1>3
<1>5. Tail(q) = s
  <2>1. /\ Tail(q) \in Seq(S) /\ Len(Tail(q)) = Len(q) - 1
        /\ \A i \in 1..Len(Tail(q)) : Tail(q)[i] = q[i + 1]
    BY <1>2, <1>3, HeadTailProperties
  <2>2. Len(Tail(q)) = Len(s)
    BY <1>2, <2>1
  <2>3. ASSUME NEW i \in 1..Len(s) PROVE Tail(q)[i] = s[i]
    <3>1. i + 1 \in 1..1 + Len(s) /\ ~(i + 1 <= 1) /\ (i + 1) - 1 = i
      BY <1>2
    <3>. QED  BY <1>2, <2>1, <2>2, <3>1
  <2> HIDE DEF q
  <2>. QED  BY <2>1, <2>2, <2>3, SeqEqual
<1>. QED  BY <1>2, <1>3, <1>4, <1>5

LEMMA HeadAndTail ==
  ASSUME NEW S, NEW q \in Seq(S), q # <<>>
  PROVE  <<Head(q)>> \o Tail(q) = q
<1> DEFINE t == <<Head(q)>> \o Tail(q)
<1>1. /\ Head(q) \in S /\ Tail(q) \in Seq(S) /\ Len(Tail(q)) = Len(q) - 1
      /\ \A i \in 1..Len(Tail(q)) : Tail(q)[i] = q[i + 1]
      /\ Len(q) \in Nat \ {0} /\ Head(q) = q[1]
  BY HeadTailProperties, LenProperties, EmptySeq
<1>2. <<Head(q)>> \in Seq(S) /\ Len(<<Head(q)>>) = 1 /\ <<Head(q)>>[1] = Head(q)
  BY <1>1
<1>3. /\ t \in Seq(S) /\ Len(t) = 1 + Len(Tail(q))
      /\ \A i \in 1..1 + Len(Tail(q)) :
           t[i] = IF i <= 1 THEN <<Head(q)>>[i] ELSE Tail(q)[i - 1]
  BY <1>1, <1>2, ConcatProperties
<1> HIDE DEF t
<1>4. Len(t) = Len(q)
  BY <1>1, <1>3
<1>5. ASSUME NEW i \in 1..Len(t) PROVE t[i] = q[i]
  <2>1. CASE i = 1
    BY <1>1, <1>2, <1>3, <2>1
  <2>2. CASE i # 1
    <3>1. /\ i \in 1..1 + Len(Tail(q)) /\ ~(i <= 1) /\ i - 1 \in 1..Len(Tail(q))
          /\ (i - 1) + 1 = i
      BY <1>1, <1>4, <2>2
    <3>2. t[i] = Tail(q)[i - 1]
      BY <1>3, <3>1
    <3>. QED  BY <1>1, <3>1, <3>2
  <2>. QED  BY <2>1, <2>2
<1>6. t = q
  BY <1>3, <1>4, <1>5, SeqEqual
<1>. QED  BY <1>6 DEF t

LEMMA Layout ==
  ASSUME NEW m \in Sendable
  PROVE  /\ BodyPieces(m) = <<Blank>> \o BodyFrom(m) /\ BodyFrom(m) \in Seq(Piece)
         /\ \A i \in 1..Len(m.chunks) + 1 : ChunksFrom(m, i) \in Seq(Piece)
         /\ \A i \in 1..Len(m.chunks) : ChunksFrom(m, i) =
              <<Size(Len(m.chunks[i]), m.ext)>>
                \o (<<Bytes(m.chunks[i])>> \o (<<Blank>> \o ChunksFrom(m, i + 1)))
         /\ ChunksFrom(m, Len(m.chunks) + 1) = <<Size(0, m.ext)>> \o TailPieces(m)
<1> DEFINE n == Len(m.chunks)
           C == ChunkPieces(m)
           T == <<Size(0, m.ext)>> \o TailPieces(m)
<1>1. n \in Nat /\ 0 \in Nat
  BY Honest
<1>2. /\ Blank \in Piece /\ FieldPiece \in Piece /\ Size(0, m.ext) \in Piece
      /\ Extra(m) \in Seq(Piece) /\ TailPieces(m) \in Seq(Piece)
  BY PieceTypes
<1>3. T \in Seq(Piece)
  BY <1>2, Singles
<1>4. C \in Seq(Piece) /\ Len(C) = 3 * n
  <2>1. C \in Seq(BodyPiece) /\ Len(C) = 3 * n
    BY ChunkPiecesType
  <2> HIDE DEF C, n
  <2>. QED  BY <2>1, BodyPiecesArePieces
<1>5. \A i : ChunksFrom(m, i) = SubSeq(C, 3 * i - 2, 3 * n) \o T
  BY DEF ChunksFrom
<1> HIDE DEF C, T, n
<1>6. \A i \in 1..n + 1 : SubSeq(C, 3 * i - 2, 3 * n) \in Seq(Piece)
  <2> SUFFICES ASSUME NEW i \in 1..n + 1 PROVE SubSeq(C, 3 * i - 2, 3 * n) \in Seq(Piece)
    OBVIOUS
  <2>1. 3 * i - 2 \in Int /\ 3 * n \in Int /\ \A k \in 3 * i - 2 .. 3 * n : k \in 1..Len(C)
    BY <1>1, <1>4
  <2>2. \A k \in 3 * i - 2 .. 3 * n : C[k] \in Piece
    BY <1>4, <2>1, ElementOfSeq
  <2>. QED  BY <2>1, <2>2, SubSeqProperties
<1>7. \A i \in 1..n + 1 : ChunksFrom(m, i) \in Seq(Piece)
  BY <1>3, <1>5, <1>6, ConcatProperties
<1>8. ASSUME NEW i \in 1..n
      PROVE  ChunksFrom(m, i) =
               <<Size(Len(m.chunks[i]), m.ext)>>
                 \o (<<Bytes(m.chunks[i])>> \o (<<Blank>> \o ChunksFrom(m, i + 1)))
  <2> DEFINE j == 3 * i - 2
             N == 3 * n
             R == SubSeq(C, j + 3, N)
  <2>1. /\ j \in 1..Len(C) /\ N \in j..Len(C) /\ j + 1 \in 1..Len(C) /\ N \in j + 1..Len(C)
        /\ j + 2 \in 1..Len(C) /\ N \in j + 2..Len(C)
        /\ (j + 1) + 1 = j + 2 /\ (j + 2) + 1 = j + 3 /\ 3 * (i + 1) - 2 = j + 3
        /\ i + 1 \in 1..n + 1 /\ 3 * i - 1 = j + 1 /\ 3 * i = j + 2
    BY <1>1, <1>4
  <2>2. /\ C[j] = Size(Len(m.chunks[i]), m.ext) /\ C[j + 1] = Bytes(m.chunks[i])
        /\ C[j + 2] = Blank
    BY <2>1, ChunkPiecesType DEF C, n
  <2>3. R \in Seq(Piece)
    BY <1>6, <2>1
  <2>4. C[j] \in Piece /\ C[j + 1] \in Piece /\ C[j + 2] \in Piece
    BY <1>4, <2>1, ElementOfSeq
  <2> HIDE DEF j, N
  <2> DEFINE c1 == <<C[j]>>
             c2 == <<C[j + 1]>>
             c3 == <<C[j + 2]>>
  <2>5. SubSeq(C, j, N) = c1 \o SubSeq(C, j + 1, N)
    BY <1>4, <2>1, SubSeqRecursiveFirst
  <2>6. SubSeq(C, j + 1, N) = c2 \o SubSeq(C, j + 2, N)
    BY <1>4, <2>1, SubSeqRecursiveFirst
  <2>7. SubSeq(C, j + 2, N) = c3 \o R
    BY <1>4, <2>1, SubSeqRecursiveFirst
  <2>8. ChunksFrom(m, i + 1) = R \o T
    BY <1>5, <2>1 DEF N, j
  <2>9. ChunksFrom(m, i) = SubSeq(C, j, N) \o T
    BY <1>5 DEF N, j
  <2>10. c1 \in Seq(Piece) /\ c2 \in Seq(Piece) /\ c3 \in Seq(Piece)
    BY <2>4
  <2> HIDE DEF R, c1, c2, c3
  <2> DEFINE r3 == c3 \o R
             r2 == c2 \o r3
  <2>11. r3 \in Seq(Piece)
    BY <2>3, <2>10, ConcatProperties
  <2>12. r3 \o T = c3 \o (R \o T)
    BY <1>3, <2>3, <2>10, SMTT(20)
  <2> HIDE DEF r3
  <2>13. r2 \in Seq(Piece)
    BY <2>10, <2>11, ConcatProperties
  <2>14. r2 \o T = c2 \o (r3 \o T)
    BY <1>3, <2>10, <2>11
  <2> HIDE DEF r2
  <2>15. (c1 \o r2) \o T = c1 \o (r2 \o T)
    BY <1>3, <2>10, <2>13
  <2>16. SubSeq(C, j, N) = c1 \o r2
    BY <2>5, <2>6, <2>7 DEF r2, r3
  <2>17. ChunksFrom(m, i) = c1 \o (c2 \o (c3 \o ChunksFrom(m, i + 1)))
    BY <2>8, <2>9, <2>12, <2>14, <2>15, <2>16
  <2>. QED  BY <2>2, <2>17 DEF c1, c2, c3
<1>9. ChunksFrom(m, n + 1) = T
  <2>1. 3 * (n + 1) - 2 \in Int /\ 3 * n \in Int /\ 3 * n < 3 * (n + 1) - 2
    BY <1>1
  <2>2. SubSeq(C, 3 * (n + 1) - 2, 3 * n) = <<>>
    BY <2>1, SubSeqEmpty
  <2>. QED  BY <1>3, <1>5, <2>2, ConcatEmptySeq
<1> DEFINE trailer == IF m.trailer THEN <<FieldPiece>> ELSE <<>>
           body == CASE m.framing \in {"none", "bodiless"} -> <<>>
                     [] m.framing \in {"length", "close"}  -> <<Bytes(m.chunks[1])>>
                     [] m.framing = "chunked" ->
                          C \o <<Size(0, m.ext)>> \o trailer \o <<Blank>>
<1>10. BodyPieces(m) = <<Blank>> \o body \o Extra(m)
  BY DEF BodyPieces, C, ChunkPieces, n, FieldPiece, Extra
<1>11. body \in Seq(Piece) /\ body \o Extra(m) = BodyFrom(m)
  <2>1. CASE m.framing \in {"none", "bodiless"}
    <3>1. body = <<>> /\ BodyFrom(m) = Extra(m)
      BY <2>1 DEF BodyFrom
    <3>2. <<>> \in Seq(Piece) /\ <<>> \o Extra(m) = Extra(m)
      BY <1>2, ConcatEmptySeq
    <3>. QED  BY <3>1, <3>2
  <2>2. CASE m.framing \in {"length", "close"}
    <3>1. body = <<Bytes(m.chunks[1])>> /\ BodyFrom(m) = <<Bytes(m.chunks[1])>> \o Extra(m)
      BY <2>2 DEF BodyFrom
    <3>2. m.chunks[1] \in Seq(Byte)
      BY <2>2, Honest
    <3>3. Bytes(m.chunks[1]) \in Piece
      BY <3>2, PieceTypes
    <3> HIDE DEF body
    <3>4. <<Bytes(m.chunks[1])>> \in Seq(Piece)
      BY <3>3
    <3>. QED  BY <3>1, <3>4
  <2>3. CASE m.framing = "chunked"
    <3>1. body = ((C \o <<Size(0, m.ext)>>) \o trailer) \o <<Blank>>
      BY <2>3
    <3>2. BodyFrom(m) = C \o T
      <4>1. BodyFrom(m) = ChunksFrom(m, 1) /\ 3 * 1 - 2 = 1
        BY <2>3 DEF BodyFrom
      <4>2. SubSeq(C, 1, 3 * n) = C
        BY <1>4, SubSeqFull
      <4>. QED  BY <1>5, <4>1, <4>2
    <3> DEFINE z == <<Size(0, m.ext)>>
               e == Extra(m)
               b == <<Blank>>
    <3>3. z \in Seq(Piece) /\ trailer \in Seq(Piece) /\ b \in Seq(Piece) /\ e \in Seq(Piece)
      BY <1>2
    <3>4. TailPieces(m) = trailer \o (b \o e)
      <4>1. b \o e \in Seq(Piece)
        BY <3>3, ConcatProperties
      <4>. QED  BY <4>1, ConcatEmptySeq DEF TailPieces
    <3>5. T = z \o (trailer \o (b \o e))
      BY <3>4 DEF T
    <3> HIDE DEF z, trailer, b, e, body
    <3> DEFINE be == b \o e
               r == trailer \o be
               p == C \o z
               u == p \o trailer
    <3>6. /\ p \in Seq(Piece) /\ be \in Seq(Piece)
      BY <1>4, <3>3, ConcatProperties
    <3>7. (C \o z) \o r = C \o (z \o r)
      <4>1. r \in Seq(Piece)
        BY <3>3, <3>6, ConcatProperties
      <4> HIDE DEF r, p
      <4>. QED  BY <1>4, <3>3, <4>1, PiecesAssociate, ZenonT(30)
    <3>8. p \o r = C \o (z \o r)
      BY <3>7 DEF p
    <3> HIDE DEF p
    <3>11. (p \o trailer) \o be = p \o (trailer \o be)
      <4>1. p \in Seq(Piece) /\ trailer \in Seq(Piece) /\ be \in Seq(Piece)
        BY <3>3, <3>6
      <4> HIDE DEF be, r, u
      <4>. QED  BY <4>1, PiecesAssociate, Zenon
    <3>12. (u \o b) \o e = u \o (b \o e)
      <4>1. u \in Seq(Piece)
        BY <3>3, <3>6, ConcatProperties
      <4> HIDE DEF u
      <4>. QED  BY <3>3, <4>1, PiecesAssociate, Zenon
    <3>9. body = ((C \o z) \o trailer) \o b
      BY <3>1 DEF z, b
    <3>10. body \in Seq(Piece)
      BY <1>4, <3>3, <3>9, ConcatProperties
    <3>. QED  BY <3>2, <3>5, <3>8, <3>9, <3>10, <3>11, <3>12 DEF e, be, r, p, u
  <2>. QED  BY <2>1, <2>2, <2>3, Honest DEF Message, Framings
<1>12. BodyPieces(m) = <<Blank>> \o BodyFrom(m)
  <2> HIDE DEF body
  <2>1. (<<Blank>> \o body) \o Extra(m) = <<Blank>> \o (body \o Extra(m))
    <3> DEFINE b == <<Blank>>
               e == Extra(m)
    <3>1. b \in Seq(Piece) /\ e \in Seq(Piece)
      BY <1>2
    <3> HIDE DEF b, e
    <3>2. (b \o body) \o e = b \o (body \o e)
      BY <1>11, <3>1, PiecesAssociate
    <3>. QED  BY <3>2 DEF b, e
  <2>. QED  BY <1>10, <1>11, <2>1
<1>13. BodyFrom(m) \in Seq(Piece)
  <2> HIDE DEF body
  <2>. QED  BY <1>2, <1>11, ConcatProperties
<1>. QED  BY <1>7, <1>8, <1>9, <1>12, <1>13 DEF n, T

LEMMA BodyComes ==
  ASSUME NEW m \in Sendable
  PROVE  BodyPieces(m) \in Seq(BodyPiece)
<1> DEFINE C == ChunkPieces(m)
           trailer == IF m.trailer THEN <<FieldPiece>> ELSE <<>>
           body == CASE m.framing \in {"none", "bodiless"} -> <<>>
                     [] m.framing \in {"length", "close"}  -> <<Bytes(m.chunks[1])>>
                     [] m.framing = "chunked" ->
                          C \o <<Size(0, m.ext)>> \o trailer \o <<Blank>>
<1>1. /\ C \in Seq(BodyPiece) /\ Blank \in BodyPiece /\ FieldPiece \in BodyPiece
      /\ Size(0, m.ext) \in BodyPiece
  BY ChunkPiecesType, PieceTypes
<1>2. Extra(m) \in Seq(BodyPiece) /\ trailer \in Seq(BodyPiece)
  BY <1>1 DEF Extra
<1>3. BodyPieces(m) = <<Blank>> \o body \o Extra(m)
  BY DEF BodyPieces, C, ChunkPieces, FieldPiece, Extra
<1> HIDE DEF C, trailer
<1>4. body \in Seq(BodyPiece)
  <2>1. CASE m.framing \in {"none", "bodiless"}
    BY <2>1
  <2>2. CASE m.framing \in {"length", "close"}
    <3>1. m.chunks[1] \in Seq(Byte)
      BY <2>2, Honest
    <3>2. Bytes(m.chunks[1]) \in BodyPiece
      BY <3>1, PieceTypes
    <3>3. body = <<Bytes(m.chunks[1])>>
      BY <2>2
    <3> HIDE DEF body
    <3>. QED  BY <3>2, <3>3
  <2>3. CASE m.framing = "chunked"
    <3>1. body = C \o <<Size(0, m.ext)>> \o trailer \o <<Blank>>
      BY <2>3
    <3> HIDE DEF body
    <3>. QED  BY <1>1, <1>2, <3>1, ConcatProperties
  <2>. QED  BY <2>1, <2>2, <2>3, Honest DEF Message, Framings
<1> HIDE DEF body
<1>. QED  BY <1>1, <1>2, <1>3, <1>4, ConcatProperties

-----------------------------------------------------------------------------
(* How far a stream has read a message.                                    *)

\* What a body counts as.
Measure(m, c) == IF m.encoding = "none" THEN Len(c) ELSE Loud(c)

\* The fields of the head are read, the body c is read as one of the transfer t.
Headed(s, m) == (s.chunked <=> m.framing = "chunked") /\ s.encoding = m.encoding
Opened(s, m, t, c) ==
  s.body = t /\ s.label = m.encoding /\ s.unzip = m.encoding /\ s.size = Measure(m, c)

\* Bytes b to come, if any, and then t.
Left(b, t) == IF b = <<>> THEN t ELSE <<Bytes(b)>> \o t

AtHead(s, m, q) == s.lex = "initial" /\ q = <<HeadOf(m)>> \o BodyPieces(m)
AtBlank(s, m, q) ==
  /\ s.lex = "header" /\ Headed(s, m) /\ s.length = m.declared /\ Unopened(s)
  /\ q = BodyPieces(m)
InBody(s, m, q, a, b) ==
  /\ m.framing = "length" /\ s.lex = "normal" /\ Headed(s, m)
  /\ a \o b = m.chunks[1] /\ b # <<>> /\ s.length = Len(b)
  /\ q = <<Bytes(b)>> \o Extra(m)
  /\ IF a = <<>> THEN Unopened(s) ELSE Opened(s, m, "normal", a)
AtSize(s, m, q, i) ==
  /\ m.framing = "chunked" /\ s.lex = "size" /\ Headed(s, m)
  /\ q = ChunksFrom(m, i)
  /\ IF i = 1 THEN Unopened(s) ELSE Opened(s, m, "chunked", BodyTo(m, i - 1))
InChunk(s, m, q, i, a, b) ==
  /\ m.framing = "chunked" /\ s.lex = "chunk" /\ Headed(s, m)
  /\ a \o b = m.chunks[i] /\ s.length = Len(b)
  /\ q = Left(b, <<Blank>> \o ChunksFrom(m, i + 1))
  /\ Opened(s, m, "chunked", BodyTo(m, i - 1) \o a)
AtTail(s, m, q) ==
  /\ m.framing = "chunked" /\ s.lex = "tail" /\ Headed(s, m)
  /\ q \in {<<Blank>> \o Extra(m), <<FieldPiece>> \o (<<Blank>> \o Extra(m))}
  /\ Opened(s, m, "chunked", BodyOf(m))

\* Stream s reads message m and the pieces q of it are still to come.
Reads(s, m, q) ==
  \/ AtHead(s, m, q) \/ AtBlank(s, m, q)
  \/ \E a, b \in Seq(Byte) : InBody(s, m, q, a, b)
  \/ \E i \in 1..Len(m.chunks) + 1 : AtSize(s, m, q, i)
  \/ \E i \in 1..Len(m.chunks), a, b \in Seq(Byte) : InChunk(s, m, q, i, a, b)
  \/ AtTail(s, m, q)

\* The pieces q deliver p, some of the bytes if they are bytes, and leave r.
Delivers(q, p, r) ==
  /\ q # <<>>
  /\ \/ p = Head(q) /\ r = Tail(q)
     \/ /\ Head(q).kind = "bytes"
        /\ \E k \in 1..Len(Head(q).outs) :
             /\ p = Bytes(SubSeq(Head(q).outs, 1, k))
             /\ r = IF k = Len(Head(q).outs) THEN Tail(q)
                    ELSE <<Bytes(SubSeq(Head(q).outs, k + 1, Len(Head(q).outs)))>> \o Tail(q)

LEMMA DeliversOther ==
  ASSUME NEW x \in Piece, x.kind # "bytes", NEW t \in Seq(Piece),
         NEW p, NEW r, Delivers(<<x>> \o t, p, r)
  PROVE  p = x /\ r = t
BY Singles DEF Delivers

\* Bytes b are cut: p has some of them, the others and t are left.
Splits(b, t, p, r) ==
  \E c, e \in Seq(Byte) :
    /\ c # <<>> /\ c \o e = b /\ Len(b) = Len(c) + Len(e)
    /\ p = Bytes(c) /\ r = Left(e, t)

LEMMA DeliversBytes ==
  ASSUME NEW b \in Seq(Byte), b # <<>>, NEW t \in Seq(Piece), NEW p, NEW r,
         Delivers(<<Bytes(b)>> \o t, p, r)
  PROVE  Splits(b, t, p, r)
<1> DEFINE q == <<Bytes(b)>> \o t
<1>1. Bytes(b) \in Piece
  BY DEF Bytes, Piece, Runs, Byte
<1>2. Head(q) = Bytes(b) /\ Tail(q) = t
  BY <1>1, Singles
<1>3. Head(q).kind = "bytes" /\ Head(q).outs = b
  BY <1>2 DEF Bytes
<1>4. Len(b) \in Nat \ {0} /\ <<>> \in Seq(Byte) /\ b \o <<>> = b /\ Len(<<>>) = 0
  BY EmptySeq, ConcatEmptySeq
<1> HIDE DEF q
<1>5. CASE p = Head(q) /\ r = Tail(q)
  <2>1. Left(<<>>, t) = t
    BY DEF Left
  <2>2. /\ <<>> \in Seq(Byte) /\ b \o <<>> = b /\ Len(b) = Len(b) + Len(<<>>)
        /\ p = Bytes(b) /\ r = Left(<<>>, t)
    BY <1>2, <1>4, <1>5, <2>1
  <2>. QED  BY <2>2 DEF Splits
<1>6. ASSUME NEW k \in 1..Len(b),
             p = Bytes(SubSeq(b, 1, k)),
             r = IF k = Len(b) THEN t ELSE <<Bytes(SubSeq(b, k + 1, Len(b)))>> \o t
      PROVE  Splits(b, t, p, r)
  <2> DEFINE c == SubSeq(b, 1, k)
             e == SubSeq(b, k + 1, Len(b))
  <2>1. \A i \in 1..Len(b) : b[i] \in Byte
    BY ElementOfSeq
  <2>2. c \in Seq(Byte) /\ Len(c) = k
    <3>1. 1 \in Int /\ k \in Int /\ \A i \in 1..k : b[i] \in Byte
      BY <1>4, <2>1
    <3>2. 1 <= k /\ k - 1 + 1 = k
      OBVIOUS
    <3>. QED  BY <3>1, <3>2, SubSeqProperties
  <2>3. e \in Seq(Byte) /\ Len(e) = Len(b) - k
    <3>1. k + 1 \in Int /\ Len(b) \in Int /\ \A i \in k + 1..Len(b) : b[i] \in Byte
      BY <1>4, <2>1
    <3>2. Len(e) = IF k + 1 <= Len(b) THEN Len(b) - (k + 1) + 1 ELSE 0
      BY <3>1, SubSeqProperties
    <3>. QED  BY <1>4, <3>1, <3>2, SubSeqProperties
  <2>4. c \o e = b
    <3>1. SubSeq(b, 1, k) \o SubSeq(b, k + 1, Len(b)) = SubSeq(b, 1, Len(b))
      BY <1>4, ConcatAdjacentSubSeq
    <3>. QED  BY <3>1, SubSeqFull
  <2>5. c # <<>> /\ (e = <<>> <=> k = Len(b))
    <3>1. Len(c) # 0 /\ (Len(e) = 0 <=> k = Len(b))
      BY <1>4, <2>2, <2>3
    <3>2. (c = <<>> <=> Len(c) = 0) /\ (e = <<>> <=> Len(e) = 0)
      <4> HIDE DEF c, e
      <4>. QED  BY <2>2, <2>3, EmptySeq
    <3>. QED  BY <3>1, <3>2
  <2>6. Len(b) = Len(c) + Len(e)
    BY <1>4, <2>2, <2>3
  <2>7. p = Bytes(c) /\ r = Left(e, t)
    BY <1>6, <2>5 DEF Left
  <2>. QED  BY <2>2, <2>3, <2>4, <2>5, <2>6, <2>7 DEF Splits
<1>. QED  BY <1>2, <1>3, <1>5, <1>6 DEF Delivers, q

\* What a piece of message m leads to when the pieces r of it are left.
Outcome(f, m, r) ==
  /\ f.out \in {"more", "refused", "gunzip"}
  /\ f.out # "more" => Unreadable(m) /\ f.done = <<>>
  /\ f.out = "more" /\ f.done = <<>> => Reads(f.stream, m, r)
  /\ f.out = "more" /\ f.done # <<>> =>
       /\ f.stream.lex = "initial"
       /\ m.framing # "close" => f.done = <<Decoded(m)>> /\ r = Extra(m)

LEMMA OnIs ==
  ASSUME NEW s
  PROVE  On(s).stream = s /\ On(s).out = "more" /\ On(s).init = FALSE /\ On(s).done = <<>>
BY DEF On

LEMMA OnReads ==
  ASSUME NEW s, NEW m, NEW r, Reads(s, m, r)
  PROVE  Outcome(On(s), m, r)
BY OnIs DEF Outcome

LEMMA FailsOutcome ==
  ASSUME NEW s, NEW m, NEW r, Unreadable(m)
  PROVE  Outcome(Fails(s), m, r)
<1>1. Fails(s).out = "refused" /\ Fails(s).done = <<>>
  BY DEF Fails, On
<1>. QED  BY <1>1 DEF Outcome

LEMMA EndBodyIs ==
  ASSUME NEW s \in Stream
  PROVE  /\ EndBody(s).out = "more" /\ EndBody(s).stream.lex = "initial"
         /\ EndBody(s).done = <<[transfer |-> s.body, encoding |-> s.label, size |-> s.size]>>
         /\ EndBody(s).done # <<>>
BY DEF EndBody, On, Stream

LEMMA EndOutcome ==
  ASSUME NEW s \in Stream, NEW m, NEW r,
         m.framing # "close" =>
           /\ [transfer |-> s.body, encoding |-> s.label, size |-> s.size] = Decoded(m)
           /\ r = Extra(m)
  PROVE  Outcome(EndBody(s), m, r)
BY EndBodyIs DEF Outcome

LEMMA ReadHead ==
  ASSUME NEW s \in Stream, Framed(s), NEW m \in Sendable, NEW q, AtHead(s, m, q),
         NEW p, NEW r, Delivers(q, p, r)
  PROVE  Outcome(Feed(s, p), m, r)
<1>1. HeadOf(m) \in Piece /\ BodyPieces(m) \in Seq(Piece)
  BY PieceTypes, Layout, Singles, ZenonT(30)
<1>2. HeadOf(m).kind = "head"
  BY DEF HeadOf
<1>3. p = HeadOf(m) /\ r = BodyPieces(m)
  BY <1>1, <1>2, DeliversOther DEF AtHead
<1>4. /\ p.length = m.declared /\ (p.chunked <=> m.framing = "chunked")
      /\ p.encoding = m.encoding /\ m.declared \in Nat /\ m.encoding \in Encodings
  BY <1>3, Honest DEF HeadOf, Message
<1>5. Feed(s, p) = HeadFields(s, p)
  BY <1>2, <1>3 DEF Feed, BodyMode, AtHead
<1> DEFINE e == [s EXCEPT !.lex = "header", !.fresh = FALSE,
                          !.length = IF p.length > 0 THEN p.length ELSE @,
                          !.chunked = @ \/ p.chunked,
                          !.encoding = IF p.encoding # "none" THEN p.encoding ELSE @]
           f == HeadFields(s, p)
<1>6. f = [On(e) EXCEPT !.init = s.fresh]
  BY DEF HeadFields
<1>7. AtBlank(e, m, r)
  <2>1. s.length = 0 /\ ~s.chunked /\ s.encoding = "none" /\ Unopened(s)
    BY DEF AtHead, Framed
  <2>2. /\ e.lex = "header" /\ e.body = s.body /\ e.label = s.label
        /\ e.unzip = s.unzip /\ e.size = s.size
        /\ e.length = IF p.length > 0 THEN p.length ELSE s.length
        /\ e.chunked = (s.chunked \/ p.chunked)
        /\ e.encoding = IF p.encoding # "none" THEN p.encoding ELSE s.encoding
    BY DEF Stream
  <2> HIDE DEF e
  <2>3. e.length = m.declared
    BY <1>4, <2>1, <2>2
  <2>4. Headed(e, m)
    BY <1>4, <2>1, <2>2 DEF Headed
  <2>5. Unopened(e)
    BY <2>1, <2>2 DEF Unopened
  <2>. QED  BY <1>3, <2>2, <2>3, <2>4, <2>5 DEF AtBlank
<1> HIDE DEF e
<1>8. f.out = "more" /\ f.done = <<>> /\ f.stream = e
  BY <1>6 DEF On
<1> HIDE DEF f
<1>. QED  BY <1>5, <1>7, <1>8 DEF Outcome, Reads, f

LEMMA ReadBlank ==
  ASSUME NEW s \in Stream, Framed(s), NEW m \in Sendable, m.framing # "bodiless",
         NEW q, AtBlank(s, m, q), NEW p, NEW r, Delivers(q, p, r)
  PROVE  Outcome(Feed(s, p), m, r)
<1>1. Blank \in Piece /\ Blank.kind = "blank" /\ BodyFrom(m) \in Seq(Piece)
  BY PieceTypes, Layout DEF Blank
<1>2. q = <<Blank>> \o BodyFrom(m)
  BY Layout DEF AtBlank
<1>3. p = Blank /\ r = BodyFrom(m)
  BY <1>1, <1>2, DeliversOther
<1>4. Feed(s, p) = HeadEnd(s)
  BY <1>1, <1>3 DEF Feed, BodyMode, AtBlank
<1>5. m.framing \in Framings
  BY Honest DEF Message
<1>6. CASE m.framing = "chunked"
  <2> DEFINE e == [s EXCEPT !.lex = "size"]
  <2>1. HeadEnd(s) = On(e)
    BY <1>6 DEF HeadEnd, AtBlank, Headed
  <2>2. r = ChunksFrom(m, 1)
    BY <1>3, <1>6 DEF BodyFrom
  <2>3. AtSize(e, m, r, 1)
    BY <1>6, <2>2 DEF AtSize, AtBlank, Headed, Unopened, Stream
  <2>4. 1 \in 1..Len(m.chunks) + 1
    BY Honest
  <2> HIDE DEF e
  <2>5. Reads(e, m, r)
    BY <2>3, <2>4 DEF Reads
  <2>. QED  BY <1>4, <2>1, <2>5, OnReads
<1>7. CASE m.framing = "length"
  <2> DEFINE e == [s EXCEPT !.lex = "normal"]
             b == m.chunks[1]
  <2>1. b \in Seq(Byte) /\ b # <<>> /\ m.declared = Len(b) /\ <<>> \o b = b /\ <<>> \in Seq(Byte)
    BY <1>7, Honest, ConcatEmptySeq, EmptySeq
  <2>2. Len(b) > 0
    BY <2>1, EmptySeq
  <2>3. HeadEnd(s) = On(e)
    BY <1>7, <2>1, <2>2 DEF HeadEnd, AtBlank, Headed
  <2>4. r = <<Bytes(b)>> \o Extra(m)
    BY <1>3, <1>7 DEF BodyFrom
  <2>5. e.lex = "normal" /\ Headed(e, m) /\ Unopened(e) /\ e.length = Len(b)
    BY <2>1 DEF AtBlank, Headed, Unopened, Stream
  <2>6. InBody(e, m, r, <<>>, b)
    BY <1>7, <2>1, <2>4, <2>5 DEF InBody
  <2> HIDE DEF e, b
  <2>7. Reads(e, m, r)
    BY <2>1, <2>6 DEF Reads
  <2>. QED  BY <1>4, <2>3, <2>7, OnReads
<1>8. CASE m.framing \in {"none", "close"}
  <2>1. HeadEnd(s) = EndBody(s)
    BY <1>8, Honest DEF HeadEnd, AtBlank, Headed
  <2>2. [transfer |-> s.body, encoding |-> s.label, size |-> s.size]
           = [transfer |-> "none", encoding |-> "none", size |-> 0]
    BY DEF AtBlank, Unopened
  <2>3. m.framing # "close" =>
          /\ [transfer |-> s.body, encoding |-> s.label, size |-> s.size] = Decoded(m)
          /\ r = Extra(m)
    BY <1>3, <1>8, <2>2 DEF Decoded, BodyFrom
  <2>. QED  BY <1>4, <2>1, <2>3, EndOutcome
<1>. QED  BY <1>5, <1>6, <1>7, <1>8 DEF Framings

-----------------------------------------------------------------------------
(* Parts of a body.                                                        *)

LEMMA MeasureSum ==
  ASSUME NEW m, NEW c \in Seq(Byte), NEW o \in Seq(Byte)
  PROVE  /\ Measure(m, c) \in Nat /\ Measure(m, <<>>) = 0
         /\ Measure(m, c \o o) = Measure(m, c) + Measure(m, o)
<1>1. Len(c \o o) = Len(c) + Len(o) /\ Len(c) \in Nat /\ Len(<<>>) = 0
  BY ConcatProperties, LenProperties, EmptySeq
<1>2. Loud(c \o o) = Loud(c) + Loud(o)
  BY LoudConcat
<1>3. Loud(c) \in Nat
  <2>1. IsFiniteSet(DOMAIN c)
    BY LenProperties, FS_Interval
  <2>2. IsFiniteSet({i \in DOMAIN c : c[i] = "loud"})
    BY <2>1, FS_Subset
  <2>. QED  BY <2>2, FS_CardinalityType DEF Loud
<1>4. Loud(<<>>) = 0
  <2>1. {i \in DOMAIN <<>> : <<>>[i] = "loud"} = {}
    OBVIOUS
  <2>. QED  BY <2>1, FS_EmptySet, Zenon DEF Loud
<1>. QED  BY <1>1, <1>2, <1>3, <1>4 DEF Measure

LEMMA Begun ==
  ASSUME NEW s \in Stream, NEW m, NEW t \in {"normal", "chunked"}, s.encoding = m.encoding
  PROVE  /\ BeginBody(s, t) \in Stream
         /\ BeginBody(s, t).lex = s.lex /\ BeginBody(s, t).length = s.length
         /\ BeginBody(s, t).chunked = s.chunked /\ BeginBody(s, t).encoding = s.encoding
         /\ Unopened(s) => Opened(BeginBody(s, t), m, t, <<>>)
         /\ \A u \in {"normal", "chunked"} : \A c : Opened(s, m, u, c) => BeginBody(s, t) = s
<1>1. CASE s.body # "none"
  BY <1>1 DEF BeginBody, Unopened
<1>2. CASE s.body = "none"
  <2> DEFINE e == [s EXCEPT !.body = t, !.label = s.encoding, !.size = 0,
                            !.unzip = s.encoding]
  <2>1. BeginBody(s, t) = e
    BY <1>2 DEF BeginBody
  <2>2. /\ e \in Stream /\ e.lex = s.lex /\ e.length = s.length /\ e.chunked = s.chunked
        /\ e.encoding = s.encoding /\ e.body = t /\ e.label = s.encoding
        /\ e.unzip = s.encoding /\ e.size = 0
    BY DEF Stream, Encodings, Transfers
  <2>3. Measure(m, <<>>) = 0
    <3>1. <<>> \in Seq(Byte)
      OBVIOUS
    <3>. QED  BY <3>1, MeasureSum
  <2> HIDE DEF e
  <2>. QED  BY <1>2, <2>1, <2>2, <2>3 DEF Opened
<1>. QED  BY <1>1, <1>2

LEMMA PartOpens ==
  ASSUME NEW s \in Stream, NEW m, NEW t, NEW c \in Seq(Byte), Opened(s, m, t, c),
         NEW o \in Seq(Byte)
  PROVE  \/ /\ BodyPart(s, o).out \in {"refused", "gunzip"} /\ m.encoding # "none"
            /\ BodyPart(s, o).done = <<>>
         \/ \E u \in Stream :
              /\ BodyPart(s, o) = On(u) /\ Opened(u, m, t, c \o o)
              /\ u.lex = s.lex /\ u.length = s.length /\ u.chunked = s.chunked
              /\ u.encoding = s.encoding
<1>1. s.unzip \in {"none", "deflate", "gzip"} /\ s.unzip = m.encoding /\ s.size \in Nat
  BY DEF Stream, Encodings, Opened
<1>2. /\ s.size = Measure(m, c) /\ Measure(m, o) \in Nat
      /\ Measure(m, c \o o) = s.size + Measure(m, o)
  BY MeasureSum DEF Opened
<1> DEFINE e == [s EXCEPT !.size = s.size + Measure(m, o)]
<1>3. /\ e \in Stream /\ e.lex = s.lex /\ e.length = s.length /\ e.chunked = s.chunked
      /\ e.encoding = s.encoding /\ e.body = s.body /\ e.label = s.label
      /\ e.unzip = s.unzip /\ e.size = s.size + Measure(m, o)
  BY <1>1, <1>2 DEF Stream
<1>4. m.encoding = "none" => BodyPart(s, o) = On(e)
  BY <1>1 DEF BodyPart, Measure
<1>5. m.encoding = "deflate" /\ Inflates(o) => BodyPart(s, o) = On(e)
  BY <1>1 DEF BodyPart, Measure
<1>6. m.encoding = "deflate" /\ ~Inflates(o) => BodyPart(s, o) = Fails(s)
  BY <1>1 DEF BodyPart
<1>7. m.encoding = "gzip" => BodyPart(s, o) = [Fails(s) EXCEPT !.out = "gunzip"]
  BY <1>1 DEF BodyPart
<1>8. Fails(s).out = "refused" /\ Fails(s).done = <<>>
  BY DEF Fails, On
<1>9. /\ [Fails(s) EXCEPT !.out = "gunzip"].out = "gunzip"
      /\ [Fails(s) EXCEPT !.out = "gunzip"].done = <<>>
  BY DEF Fails, On
<1> HIDE DEF e
<1>10. Opened(e, m, t, c \o o)
  BY <1>2, <1>3 DEF Opened
<1>11. CASE BodyPart(s, o) = On(e)
  BY <1>3, <1>10, <1>11
<1>12. CASE m.encoding # "none" /\ BodyPart(s, o) \in {Fails(s), [Fails(s) EXCEPT !.out = "gunzip"]}
  <2>1. BodyPart(s, o).out \in {"refused", "gunzip"} /\ BodyPart(s, o).done = <<>>
    BY <1>8, <1>9, <1>12
  <2>. QED  BY <1>12, <2>1
<1>13. CASE m.encoding = "none"
  BY <1>4, <1>11, <1>13
<1>14. CASE m.encoding # "none"
  BY <1>1, <1>5, <1>6, <1>7, <1>11, <1>12, <1>14
<1>. QED  BY <1>13, <1>14

\* Some of the bytes that a body or chunk still lacks.
LEMMA BytesRead ==
  ASSUME NEW s \in Stream, BodyMode(s), NEW m, NEW t \in {"normal", "chunked"},
         NEW a \in Seq(Byte), NEW c \in Seq(Byte), NEW e \in Seq(Byte),
         s.length = Len(c) + Len(e), s.encoding = m.encoding,
         Opened(s, m, t, a) \/ (Unopened(s) /\ t = "normal" /\ a = <<>>)
  PROVE  \/ /\ Feed(s, Bytes(c)).out \in {"refused", "gunzip"} /\ m.encoding # "none"
            /\ Feed(s, Bytes(c)).done = <<>>
         \/ \E u \in Stream :
              /\ Opened(u, m, t, a \o c)
              /\ u.lex = s.lex /\ u.length = Len(e) /\ u.chunked = s.chunked
              /\ u.encoding = s.encoding
              /\ Feed(s, Bytes(c)) =
                   IF s.lex = "normal" /\ Len(e) = 0 THEN EndBody(u) ELSE On(u)
<1> DEFINE begun == BeginBody(s, "normal")
           b == [begun EXCEPT !.length = Len(e)]
           part == BodyPart(b, c)
           next == IF s.lex = "normal" /\ part.stream.length = 0
                   THEN EndBody(part.stream) ELSE part
<1>1. Len(c) \in Nat /\ Len(e) \in Nat /\ s.length - Len(c) = Len(e) /\ ~(Len(c) > s.length)
  BY LenProperties
<1>2. SubSeq(c, 1, Len(c)) = c
  BY SubSeqFull
<1>3. Feed(s, Bytes(c)) = BodyBytes(s, c)
  <2>1. Bytes(c).kind = "bytes" /\ Bytes(c).outs = c
    BY DEF Bytes
  <2>. QED  BY <2>1 DEF Feed, BodyMode
<1>4. BodyBytes(s, c) = IF part.out # "more" THEN part ELSE next
  <2> DEFINE read == IF Len(c) > s.length THEN s.length ELSE Len(c)
             part0 == BodyPart([begun EXCEPT !.length = s.length - read], SubSeq(c, 1, read))
             next0 == IF s.lex = "normal" /\ part0.stream.length = 0
                      THEN EndBody(part0.stream) ELSE part0
  <2>1. BodyBytes(s, c) =
          CASE part0.out # "more" -> part0
            [] part0.out = "more" /\ Len(c) = read -> next0
            [] part0.out = "more" /\ Len(c) > read ->
                 [EndInput(next0.stream) EXCEPT !.done = next0.done \o @]
    BY DEF BodyBytes
  <2>2. read = Len(c)
    BY <1>1
  <2> HIDE DEF read, begun
  <2>3. part0 = part
    BY <1>1, <1>2, <2>2
  <2> HIDE DEF part0, part
  <2>. QED  BY <2>1, <2>2, <2>3
<1>5. /\ begun \in Stream /\ begun.lex = s.lex /\ begun.chunked = s.chunked
      /\ begun.encoding = s.encoding /\ Opened(begun, m, t, a)
  <2>1. CASE Opened(s, m, t, a)
    <3>1. \A u \in {"normal", "chunked"} : \A x : Opened(s, m, u, x) => BeginBody(s, "normal") = s
      <4>1. "normal" \in {"normal", "chunked"}
        OBVIOUS
      <4>. QED  BY <4>1, Begun, Zenon
    <3>2. BeginBody(s, "normal") = s
      BY <2>1, <3>1, Zenon
    <3>. QED  BY <2>1, <3>2
  <2>2. CASE Unopened(s) /\ t = "normal" /\ a = <<>>
    BY <2>2, Begun
  <2>. QED  BY <2>1, <2>2
<1> HIDE DEF begun
<1>6. /\ b \in Stream /\ b.lex = s.lex /\ b.chunked = s.chunked /\ b.length = Len(e)
      /\ b.encoding = s.encoding /\ b.body = begun.body /\ b.label = begun.label
      /\ b.unzip = begun.unzip /\ b.size = begun.size
  BY <1>1, <1>5 DEF Stream
<1> HIDE DEF b
<1>7. Opened(b, m, t, a)
  BY <1>5, <1>6 DEF Opened
<1>8. \/ /\ part.out \in {"refused", "gunzip"} /\ m.encoding # "none" /\ part.done = <<>>
      \/ \E u \in Stream :
           /\ part = On(u) /\ Opened(u, m, t, a \o c)
           /\ u.lex = b.lex /\ u.length = b.length /\ u.chunked = b.chunked
           /\ u.encoding = b.encoding
  BY <1>6, <1>7, PartOpens
<1> HIDE DEF part
<1>9. CASE part.out \in {"refused", "gunzip"} /\ m.encoding # "none" /\ part.done = <<>>
  <2>1. Feed(s, Bytes(c)) = part
    BY <1>3, <1>4, <1>9
  <2>. QED  BY <1>9, <2>1
<1>10. ASSUME NEW u \in Stream,
              part = On(u), Opened(u, m, t, a \o c),
              u.lex = b.lex, u.length = b.length, u.chunked = b.chunked,
              u.encoding = b.encoding
       PROVE  /\ Opened(u, m, t, a \o c)
              /\ u.lex = s.lex /\ u.length = Len(e) /\ u.chunked = s.chunked
              /\ u.encoding = s.encoding
              /\ Feed(s, Bytes(c)) =
                   IF s.lex = "normal" /\ Len(e) = 0 THEN EndBody(u) ELSE On(u)
  <2>1. part.out = "more" /\ part.stream = u
    BY <1>10, OnIs
  <2>2. Feed(s, Bytes(c)) = next
    BY <1>3, <1>4, <2>1
  <2>. QED  BY <1>6, <1>10, <2>1, <2>2
<1>. QED  BY <1>8, <1>9, <1>10

LEMMA PartRefused ==
  ASSUME NEW f, NEW m, m.framing \in {"length", "chunked"}, NEW r,
         f.out \in {"refused", "gunzip"}, m.encoding # "none", f.done = <<>>
  PROVE  Outcome(f, m, r)
BY DEF Outcome, Unreadable

LEMMA ReadBody ==
  ASSUME NEW s \in Stream, NEW m \in Sendable, NEW q,
         NEW a \in Seq(Byte), NEW b \in Seq(Byte), InBody(s, m, q, a, b),
         NEW p, NEW r, Delivers(q, p, r)
  PROVE  Outcome(Feed(s, p), m, r)
<1>1. /\ m.framing = "length" /\ s.lex = "normal" /\ Headed(s, m)
      /\ a \o b = m.chunks[1] /\ b # <<>> /\ s.length = Len(b)
      /\ q = <<Bytes(b)>> \o Extra(m)
      /\ Opened(s, m, "normal", a) \/ (Unopened(s) /\ "normal" = "normal" /\ a = <<>>)
  BY DEF InBody
<1>2. Extra(m) \in Seq(Piece)
  BY PieceTypes
<1>3. PICK c, e \in Seq(Byte) :
        /\ c # <<>> /\ c \o e = b /\ Len(b) = Len(c) + Len(e)
        /\ p = Bytes(c) /\ r = Left(e, Extra(m))
  <2>1. Delivers(<<Bytes(b)>> \o Extra(m), p, r) /\ b # <<>>
    BY <1>1
  <2>2. Splits(b, Extra(m), p, r)
    BY <1>2, <2>1, DeliversBytes
  <2>. QED  BY <2>2 DEF Splits
<1>4. s.encoding = m.encoding /\ BodyMode(s) /\ s.length = Len(c) + Len(e)
  BY <1>1, <1>3 DEF Headed, BodyMode
<1> DEFINE f == Feed(s, p)
<1>5. \/ f.out \in {"refused", "gunzip"} /\ m.encoding # "none" /\ f.done = <<>>
      \/ \E u \in Stream :
           /\ Opened(u, m, "normal", a \o c)
           /\ u.lex = s.lex /\ u.length = Len(e) /\ u.chunked = s.chunked
           /\ u.encoding = s.encoding
           /\ f = IF s.lex = "normal" /\ Len(e) = 0 THEN EndBody(u) ELSE On(u)
  <2>1. Opened(s, m, "normal", a) \/ (Unopened(s) /\ "normal" = "normal" /\ a = <<>>)
    BY <1>1
  <2>2. "normal" \in {"normal", "chunked"}
    OBVIOUS
  <2>3. f = Feed(s, Bytes(c))
    BY <1>3
  <2> HIDE DEF f
  <2>. QED  BY <1>4, <2>1, <2>2, <2>3, BytesRead
<1> HIDE DEF f
<1>6. CASE f.out \in {"refused", "gunzip"} /\ m.encoding # "none" /\ f.done = <<>>
  BY <1>1, <1>6, PartRefused DEF f
<1>7. ASSUME NEW u \in Stream,
             Opened(u, m, "normal", a \o c),
             u.lex = s.lex, u.length = Len(e), u.chunked = s.chunked,
             u.encoding = s.encoding,
             f = IF s.lex = "normal" /\ Len(e) = 0 THEN EndBody(u) ELSE On(u)
      PROVE  Outcome(f, m, r)
  <2>1. a \o c \in Seq(Byte) /\ (a \o c) \o e = m.chunks[1]
    <3>1. a \o c \in Seq(Byte)
      BY ConcatProperties
    <3>2. (a \o c) \o e = a \o (c \o e)
      OBVIOUS
    <3>. QED  BY <1>1, <1>3, <3>1, <3>2
  <2>2. Len(e) = 0 <=> e = <<>>
    BY EmptySeq
  <2>3. CASE e = <<>>
    <3>1. f = EndBody(u)
      BY <1>1, <1>7, <2>2, <2>3
    <3>2. r = Extra(m)
      BY <1>3, <2>3 DEF Left
    <3>3. a \o c = m.chunks[1]
      BY <2>1, <2>3, ConcatEmptySeq
    <3>4. BodyOf(m) = m.chunks[1]
      <4>1. Len(m.chunks) = 1 /\ m.chunks \in Chunks /\ m.chunks[1] \in Seq(Byte)
        BY <1>1, Honest
      <4>2. BodyTo(m, 0) = <<>> /\ BodyTo(m, 1) = BodyTo(m, 1 - 1) \o m.chunks[1]
        <5>1. 1 \in 1..Len(m.chunks)
          BY <4>1
        <5>. QED  BY <4>1, <5>1, BodyToStep
      <4>3. 1 - 1 = 0 /\ <<>> \o m.chunks[1] = m.chunks[1]
        BY <4>1, ConcatEmptySeq
      <4>. QED  BY <4>1, <4>2, <4>3 DEF BodyOf
    <3>5. [transfer |-> u.body, encoding |-> u.label, size |-> u.size] = Decoded(m)
      BY <1>1, <1>7, <3>3, <3>4 DEF Opened, Decoded, Measure
    <3>. QED  BY <3>1, <3>2, <3>5, EndOutcome
  <2>4. CASE e # <<>>
    <3>1. f = On(u)
      BY <1>7, <2>2, <2>4
    <3>2. r = <<Bytes(e)>> \o Extra(m)
      BY <1>3, <2>4 DEF Left
    <3>3. a \o c # <<>>
      <4>1. Len(a \o c) = Len(a) + Len(c) /\ Len(a) \in Nat /\ Len(c) \in Nat /\ Len(c) # 0
        BY <1>3, ConcatProperties, LenProperties, EmptySeq
      <4>2. Len(a \o c) # 0
        BY <4>1
      <4>. QED  BY <4>2, EmptySeq
    <3>4. Headed(u, m)
      BY <1>1, <1>7 DEF Headed
    <3>5. InBody(u, m, r, a \o c, e)
      BY <1>1, <1>7, <2>1, <2>4, <3>2, <3>3, <3>4 DEF InBody
    <3>6. Reads(u, m, r)
      BY <2>1, <3>5 DEF Reads
    <3>. QED  BY <3>1, <3>6, OnReads
  <2>. QED  BY <2>3, <2>4
<1>. QED  BY <1>5, <1>6, <1>7 DEF f

LEMMA ReadSize ==
  ASSUME NEW s \in Stream, NEW m \in Sendable, NEW q,
         NEW i \in 1..Len(m.chunks) + 1, AtSize(s, m, q, i),
         NEW p, NEW r, Delivers(q, p, r)
  PROVE  Outcome(Feed(s, p), m, r)
<1> DEFINE n == Len(m.chunks)
<1>1. /\ m.framing = "chunked" /\ s.lex = "size" /\ s.chunked /\ s.encoding = m.encoding
      /\ q = ChunksFrom(m, i)
      /\ IF i = 1 THEN Unopened(s) ELSE Opened(s, m, "chunked", BodyTo(m, i - 1))
  BY DEF AtSize, Headed
<1>2. n \in Nat /\ m.chunks \in Chunks
  BY Honest
<1> DEFINE k == IF i = n + 1 THEN 0 ELSE Len(m.chunks[i])
           t == IF i = n + 1 THEN TailPieces(m)
                ELSE <<Bytes(m.chunks[i])>> \o (<<Blank>> \o ChunksFrom(m, i + 1))
<1>3. i # n + 1 => /\ i \in 1..n /\ m.chunks[i] \in Seq(Byte) /\ m.chunks[i] # <<>>
                   /\ Len(m.chunks[i]) \in Nat \ {0}
  <2> SUFFICES ASSUME i # n + 1
               PROVE  /\ i \in 1..n /\ m.chunks[i] \in Seq(Byte) /\ m.chunks[i] # <<>>
                      /\ Len(m.chunks[i]) \in Nat \ {0}
    OBVIOUS
  <2>1. i \in 1..n
    BY <1>2
  <2>2. m.chunks[i] \in Seq(Byte) /\ m.chunks[i] # <<>>
    BY <2>1, Honest
  <2>. QED  BY <2>1, <2>2, LenProperties, EmptySeq
<1>4. k \in Nat
  BY <1>3
<1>5. q = <<Size(k, m.ext)>> \o t
  BY <1>1, <1>3, Layout
<1>6. t \in Seq(Piece)
  <2>1. CASE i = n + 1
    BY <2>1, PieceTypes
  <2>2. CASE i # n + 1
    <3>1. i + 1 \in 1..n + 1
      BY <1>2, <1>3, <2>2
    <3>2. ChunksFrom(m, i + 1) \in Seq(Piece)
      BY <3>1, Layout
    <3>3. Blank \in Piece /\ Bytes(m.chunks[i]) \in Piece
      BY <1>3, <2>2, PieceTypes
    <3>. QED  BY <2>2, <3>2, <3>3, Singles
  <2>. QED  BY <2>1, <2>2
<1> HIDE DEF k, t, n
<1>7. /\ Size(k, m.ext) \in Piece /\ Size(k, m.ext).kind = "size"
      /\ Size(k, m.ext).n = k /\ Size(k, m.ext).ext = m.ext
  BY <1>4, PieceTypes DEF Size
<1>8. p = Size(k, m.ext) /\ r = t
  BY <1>5, <1>6, <1>7, DeliversOther
<1>9. Feed(s, p) = ChunkHeader(s, p)
  BY <1>1, <1>7, <1>8 DEF Feed, BodyMode
<1>10. CASE m.ext
  <2>1. Feed(s, p) = Fails(s) /\ Unreadable(m)
    BY <1>1, <1>7, <1>8, <1>9, <1>10 DEF ChunkHeader, Unreadable
  <2>. QED  BY <2>1, FailsOutcome
<1>11. CASE ~m.ext
  <2> DEFINE b == BeginBody(s, "chunked")
             e == [b EXCEPT !.length = k, !.lex = IF k > 0 THEN "chunk" ELSE "tail"]
             c == BodyTo(m, i - 1)
  <2>1. Feed(s, p) = On(e)
    BY <1>7, <1>8, <1>9, <1>11 DEF ChunkHeader
  <2>2. c \in Seq(Byte) /\ (i = 1 => c = <<>>)
    <3>1. i - 1 \in 0..n /\ (i = 1 => i - 1 = 0)
      BY <1>2 DEF n
    <3>. QED  BY <1>2, <3>1, BodyToStep DEF n
  <2> HIDE DEF c
  <2>3. /\ b \in Stream /\ b.chunked = s.chunked /\ b.encoding = s.encoding
        /\ Opened(b, m, "chunked", c)
    <3>1. /\ b \in Stream /\ b.chunked = s.chunked /\ b.encoding = s.encoding
          /\ Unopened(s) => Opened(b, m, "chunked", <<>>)
          /\ \A u \in {"normal", "chunked"} : \A x : Opened(s, m, u, x) => b = s
      BY <1>1, Begun
    <3> HIDE DEF b
    <3>2. CASE i = 1
      BY <1>1, <2>2, <3>1, <3>2
    <3>3. CASE i # 1
      <4>1. Opened(s, m, "chunked", c) /\ "chunked" \in {"normal", "chunked"}
        BY <1>1, <3>3 DEF c
      <4>2. b = s
        BY <3>1, <4>1, Zenon
      <4>. QED  BY <3>1, <4>1, <4>2
    <3>. QED  BY <3>2, <3>3
  <2> HIDE DEF b
  <2>4. /\ e.lex = IF k > 0 THEN "chunk" ELSE "tail"
        /\ e.length = k /\ e.chunked = b.chunked /\ e.encoding = b.encoding
        /\ e.body = b.body /\ e.label = b.label /\ e.unzip = b.unzip /\ e.size = b.size
    BY <2>3 DEF Stream
  <2> HIDE DEF e
  <2>5. Headed(e, m) /\ Opened(e, m, "chunked", c)
    BY <1>1, <2>3, <2>4 DEF Headed, Opened
  <2>6. CASE i = n + 1
    <3>1. e.lex = "tail" /\ r = TailPieces(m)
      BY <1>8, <2>4, <2>6 DEF k, t
    <3>2. c = BodyOf(m)
      <4>1. i - 1 = n
        BY <1>2, <2>6
      <4>. QED  BY <4>1 DEF c, BodyOf, n
    <3>3. r \in {<<Blank>> \o Extra(m), <<FieldPiece>> \o (<<Blank>> \o Extra(m))}
      BY <3>1 DEF TailPieces
    <3>4. AtTail(e, m, r)
      BY <1>1, <2>5, <3>1, <3>2, <3>3 DEF AtTail
    <3>5. Reads(e, m, r)
      BY <3>4 DEF Reads
    <3>. QED  BY <2>1, <3>5, OnReads
  <2>7. CASE i # n + 1
    <3> DEFINE x == m.chunks[i]
    <3>1. /\ i \in 1..n /\ x \in Seq(Byte) /\ x # <<>> /\ k = Len(x) /\ k > 0
      BY <1>3, <2>7 DEF k
    <3>2. e.lex = "chunk" /\ e.length = Len(x)
      BY <2>4, <3>1
    <3>3. <<>> \in Seq(Byte) /\ <<>> \o x = x /\ c \o <<>> = c
      BY <2>2, <3>1, ConcatEmptySeq
    <3>4. r = Left(x, <<Blank>> \o ChunksFrom(m, i + 1))
      BY <1>8, <2>7, <3>1 DEF t, Left
    <3>5. Opened(e, m, "chunked", BodyTo(m, i - 1) \o <<>>)
      BY <2>5, <3>3 DEF c
    <3>6. InChunk(e, m, r, i, <<>>, x)
      BY <1>1, <2>5, <3>2, <3>3, <3>4, <3>5 DEF InChunk
    <3>7. Reads(e, m, r)
      <4> HIDE DEF x
      <4>. QED  BY <3>1, <3>3, <3>6 DEF Reads, n
    <3>. QED  BY <2>1, <3>7, OnReads
  <2>. QED  BY <2>6, <2>7
<1>. QED  BY <1>10, <1>11

LEMMA ReadChunk ==
  ASSUME NEW s \in Stream, NEW m \in Sendable, NEW q, NEW i \in 1..Len(m.chunks),
         NEW a \in Seq(Byte), NEW b \in Seq(Byte), InChunk(s, m, q, i, a, b),
         NEW p, NEW r, Delivers(q, p, r)
  PROVE  Outcome(Feed(s, p), m, r)
<1> DEFINE n == Len(m.chunks)
           c0 == BodyTo(m, i - 1)
           t == <<Blank>> \o ChunksFrom(m, i + 1)
<1>1. /\ m.framing = "chunked" /\ s.lex = "chunk" /\ Headed(s, m)
      /\ a \o b = m.chunks[i] /\ s.length = Len(b)
      /\ q = Left(b, t) /\ Opened(s, m, "chunked", c0 \o a)
  BY DEF InChunk
<1>2. n \in Nat /\ m.chunks \in Chunks
  BY Honest
<1>3. c0 \in Seq(Byte) /\ BodyTo(m, i) = c0 \o m.chunks[i]
  <2>1. i - 1 \in 0..n /\ i \in 1..n
    BY <1>2
  <2>. QED  BY <1>2, <2>1, BodyToStep
<1>4. ChunksFrom(m, i + 1) \in Seq(Piece) /\ t \in Seq(Piece) /\ Blank \in Piece
  <2>1. i + 1 \in 1..n + 1
    BY <1>2
  <2>2. ChunksFrom(m, i + 1) \in Seq(Piece) /\ Blank \in Piece
    BY <2>1, Layout, PieceTypes
  <2>. QED  BY <2>2, Singles
<1> HIDE DEF c0, n
<1>5. CASE b = <<>>
  <2>1. q = <<Blank>> \o ChunksFrom(m, i + 1) /\ Blank.kind = "blank"
    BY <1>1, <1>5 DEF Left, Blank
  <2>2. p = Blank /\ r = ChunksFrom(m, i + 1)
    BY <1>4, <2>1, DeliversOther
  <2>3. s.length = 0
    BY <1>1, <1>5
  <2> DEFINE e == [s EXCEPT !.lex = "size"]
  <2>4. Feed(s, p) = On(e)
    BY <1>1, <2>1, <2>2, <2>3 DEF Feed, BodyMode
  <2>5. i + 1 \in 1..n + 1 /\ i + 1 # 1 /\ (i + 1) - 1 = i
    BY <1>2 DEF n
  <2>6. BodyTo(m, i) = c0 \o a
    BY <1>1, <1>3, <1>5, ConcatEmptySeq
  <2>7. e.lex = "size" /\ Headed(e, m) /\ Opened(e, m, "chunked", c0 \o a)
    BY <1>1 DEF Headed, Opened, Stream
  <2> HIDE DEF e
  <2>8. AtSize(e, m, r, i + 1)
    BY <1>1, <2>2, <2>5, <2>6, <2>7 DEF AtSize
  <2>9. Reads(e, m, r)
    BY <2>5, <2>8 DEF Reads, n
  <2>. QED  BY <2>4, <2>9, OnReads
<1>6. CASE b # <<>>
  <2>1. q = <<Bytes(b)>> \o t
    BY <1>1, <1>6 DEF Left
  <2> HIDE DEF t
  <2>2. PICK c, e \in Seq(Byte) :
          /\ c # <<>> /\ c \o e = b /\ Len(b) = Len(c) + Len(e)
          /\ p = Bytes(c) /\ r = Left(e, t)
    <3>1. Delivers(<<Bytes(b)>> \o t, p, r) /\ t \in Seq(Piece)
      BY <1>4, <2>1 DEF t
    <3>2. Splits(b, t, p, r)
      BY <1>6, <3>1, DeliversBytes
    <3>. QED  BY <3>2 DEF Splits
  <2>3. BodyMode(s) /\ s.length = Len(c) + Len(e) /\ s.encoding = m.encoding
    <3>1. Len(b) \in Nat /\ Len(b) # 0
      BY <1>6, LenProperties, EmptySeq
    <3>. QED  BY <1>1, <2>2, <3>1 DEF BodyMode, Headed
  <2> DEFINE f == Feed(s, p)
             A == c0 \o a
  <2>4. A \in Seq(Byte)
    BY <1>3, ConcatProperties
  <2>5. Opened(s, m, "chunked", A)
    BY <1>1
  <2> HIDE DEF A
  <2>6. \/ f.out \in {"refused", "gunzip"} /\ m.encoding # "none" /\ f.done = <<>>
        \/ \E u \in Stream :
             /\ Opened(u, m, "chunked", A \o c)
             /\ u.lex = s.lex /\ u.length = Len(e) /\ u.chunked = s.chunked
             /\ u.encoding = s.encoding
             /\ f = IF s.lex = "normal" /\ Len(e) = 0 THEN EndBody(u) ELSE On(u)
    BY <2>2, <2>3, <2>4, <2>5, BytesRead
  <2> HIDE DEF f
  <2>7. CASE f.out \in {"refused", "gunzip"} /\ m.encoding # "none" /\ f.done = <<>>
    BY <1>1, <2>7, PartRefused DEF f
  <2>8. ASSUME NEW u \in Stream,
               Opened(u, m, "chunked", A \o c),
               u.lex = s.lex, u.length = Len(e), u.chunked = s.chunked,
               u.encoding = s.encoding,
               f = IF s.lex = "normal" /\ Len(e) = 0 THEN EndBody(u) ELSE On(u)
        PROVE  Outcome(f, m, r)
    <3>1. f = On(u)
      BY <1>1, <2>8
    <3>2. a \o c \in Seq(Byte) /\ (a \o c) \o e = m.chunks[i]
      <4>1. a \o c \in Seq(Byte)
        BY ConcatProperties
      <4>2. (a \o c) \o e = a \o (c \o e)
        OBVIOUS
      <4>. QED  BY <1>1, <2>2, <4>1, <4>2
    <3>3. A \o c = c0 \o (a \o c)
      <4>1. c0 \in Seq(Byte)
        BY <1>3
      <4>2. (c0 \o a) \o c = c0 \o (a \o c)
        BY <4>1, BytesAssociate, Zenon
      <4>. QED  BY <4>2 DEF A
    <3>4. Headed(u, m)
      BY <1>1, <2>8 DEF Headed
    <3>5. Opened(u, m, "chunked", c0 \o (a \o c))
      BY <2>8, <3>3
    <3>6. InChunk(u, m, r, i, a \o c, e)
      BY <1>1, <2>2, <2>8, <3>2, <3>4, <3>5 DEF InChunk, t, c0
    <3>7. Reads(u, m, r)
      BY <3>2, <3>6 DEF Reads
    <3>. QED  BY <3>1, <3>7, OnReads
  <2>. QED  BY <2>6, <2>7, <2>8 DEF f
<1>. QED  BY <1>5, <1>6

LEMMA ReadTail ==
  ASSUME NEW s \in Stream, NEW m \in Sendable, NEW q, AtTail(s, m, q),
         NEW p, NEW r, Delivers(q, p, r)
  PROVE  Outcome(Feed(s, p), m, r)
<1>1. /\ Blank \in Piece /\ FieldPiece \in Piece /\ Extra(m) \in Seq(Piece)
      /\ Blank.kind = "blank" /\ FieldPiece.kind = "field"
  BY PieceTypes DEF Blank, FieldPiece
<1>2. /\ m.framing = "chunked" /\ s.lex = "tail" /\ Headed(s, m)
      /\ Opened(s, m, "chunked", BodyOf(m))
  BY DEF AtTail
<1>3. CASE q = <<Blank>> \o Extra(m)
  <2>1. p = Blank /\ r = Extra(m)
    BY <1>1, <1>3, DeliversOther
  <2> DEFINE e == [s EXCEPT !.length = 0, !.chunked = FALSE]
  <2>2. Feed(s, p) = EndBody(e)
    BY <1>1, <1>2, <2>1 DEF Feed, BodyMode, TailEnd
  <2>3. /\ e \in Stream /\ e.body = s.body /\ e.label = s.label /\ e.size = s.size
    BY DEF Stream
  <2> HIDE DEF e
  <2>4. [transfer |-> e.body, encoding |-> e.label, size |-> e.size] = Decoded(m)
    BY <1>2, <2>3 DEF Decoded, Opened, Measure
  <2>. QED  BY <2>1, <2>2, <2>3, <2>4, EndOutcome
<1>4. CASE q = <<FieldPiece>> \o (<<Blank>> \o Extra(m))
  <2>1. <<Blank>> \o Extra(m) \in Seq(Piece)
    BY <1>1, Singles
  <2>2. p = FieldPiece /\ r = <<Blank>> \o Extra(m)
    BY <1>1, <1>4, <2>1, DeliversOther
  <2>3. Feed(s, p) = On(s)
    BY <1>1, <1>2, <2>2 DEF Feed, BodyMode
  <2>4. Reads(s, m, r)
    BY <1>2, <2>2 DEF AtTail, Reads
  <2>. QED  BY <2>3, <2>4, OnReads
<1>. QED  BY <1>3, <1>4 DEF AtTail

\* What a stream does with the next piece of the message that it reads.
LEMMA FeedReads ==
  ASSUME NEW s \in Stream, Framed(s), NEW m \in Sendable, m.framing # "bodiless",
         NEW q, Reads(s, m, q), NEW p, NEW r, Delivers(q, p, r)
  PROVE  Outcome(Feed(s, p), m, r)
BY ReadHead, ReadBlank, ReadBody, ReadSize, ReadChunk, ReadTail DEF Reads

-----------------------------------------------------------------------------
(* What any piece leads to.                                                *)

Gzips(s) == "gzip" \in {s.encoding, s.unzip}

\* A piece completes one message at most, and then its stream is between
\* messages; only a fresh parser initialises its list, and only gzip hangs.
Tidy(s, f) ==
  /\ Len(f.done) \in {0, 1}
  /\ f.init => s.fresh
  /\ f.out = "accepted" => f.stream.lex = "initial"
  /\ s.lex = "initial" => f.done = <<>>
  /\ f.out = "more" /\ f.done # <<>> => f.stream.lex = "initial"
  /\ f.out = "gunzip" => Gzips(s)

LEMMA OnTidy ==
  ASSUME NEW s, NEW e
  PROVE  Tidy(s, On(e)) /\ Tidy(s, Fails(e))
BY DEF Tidy, On, Fails

LEMMA EndInputTidy ==
  ASSUME NEW s \in Stream
  PROVE  /\ Tidy(s, EndInput(s))
         /\ EndInput(s).out \in {"accepted", "refused"}
         /\ s.lex = "initial" => /\ EndInput(s).out = "accepted"
                                 /\ EndInput(s).stream.lex = "initial"
         /\ EndInput(s).done # <<>> => EndInput(s).out = "refused"
         /\ EndInput(s).out = "accepted" /\ Gzips(EndInput(s).stream) => Gzips(s)
<1>1. CASE s.lex = "initial"
  <2>. DEFINE e == [s EXCEPT !.fresh = TRUE]
  <2>1. EndInput(s) = [On(e) EXCEPT !.out = "accepted", !.init = s.fresh]
    BY <1>1 DEF EndInput
  <2>2. e.lex = "initial" /\ e.encoding = s.encoding /\ e.unzip = s.unzip
    BY <1>1 DEF Stream
  <2>. HIDE DEF e
  <2>3. /\ EndInput(s).stream = e /\ EndInput(s).out = "accepted"
        /\ EndInput(s).init = s.fresh /\ EndInput(s).done = <<>>
    BY <2>1 DEF On
  <2>. QED  BY <2>2, <2>3 DEF Tidy, Gzips
<1>2. CASE s.lex \in {"size", "chunk", "tail"} /\ s.body # "none"
  <2>1. EndInput(s) = [EndBody(s) EXCEPT !.out = "refused"]
    BY <1>2 DEF EndInput
  <2>2. /\ EndInput(s).out = "refused" /\ EndInput(s).init = FALSE
        /\ EndInput(s).done = <<[transfer |-> s.body, encoding |-> s.label, size |-> s.size]>>
    BY <2>1 DEF EndBody, On
  <2>. QED  BY <1>2, <2>2 DEF Tidy
<1>3. CASE s.lex # "initial" /\ ~(s.lex \in {"size", "chunk", "tail"} /\ s.body # "none")
  <2>1. EndInput(s) = Fails(s)
    BY <1>3 DEF EndInput
  <2>2. Fails(s).out = "refused" /\ Fails(s).done = <<>>
    BY DEF Fails, On
  <2>. QED  BY <1>3, <2>1, <2>2, OnTidy
<1>. QED  BY <1>1, <1>2, <1>3

LEMMA EndBodyTidy ==
  ASSUME NEW s, s.lex # "initial", NEW e \in Stream
  PROVE  /\ Tidy(s, EndBody(e)) /\ ~Gzips(EndBody(e).stream) /\ EndBody(e).init = FALSE
         /\ EndBody(e).stream \in Stream /\ EndBody(e).stream.fresh = e.fresh
         /\ EndBody(e).stream.lex = "initial" /\ EndBody(e).out = "more"
         /\ Len(EndBody(e).done) = 1
<1>. DEFINE x == [e EXCEPT !.lex = "initial", !.encoding = "none", !.unzip = "none",
                           !.size = 0, !.body = "none", !.label = "none"]
<1>1. /\ x \in Stream /\ x.encoding = "none" /\ x.unzip = "none" /\ x.fresh = e.fresh
      /\ x.lex = "initial"
  BY DEF Stream, LexStates, Encodings, Transfers
<1>2. /\ EndBody(e).stream = x /\ EndBody(e).out = "more" /\ EndBody(e).init = FALSE
      /\ EndBody(e).done = <<[transfer |-> e.body, encoding |-> e.label, size |-> e.size]>>
  BY DEF EndBody, On
<1>. HIDE DEF x
<1>. QED  BY <1>1, <1>2 DEF Tidy, Gzips

LEMMA PartIs ==
  ASSUME NEW s \in Stream, NEW outs \in Runs
  PROVE  \E u \in Stream :
           /\ u.lex = s.lex /\ u.fresh = s.fresh /\ u.encoding = s.encoding
           /\ u.unzip = s.unzip
           /\ \/ BodyPart(s, outs) \in {On(u), Fails(u)}
              \/ s.unzip = "gzip" /\ BodyPart(s, outs) = [Fails(u) EXCEPT !.out = "gunzip"]
<1>0. /\ s.unzip \in {"none", "deflate", "gzip"} /\ s.size \in Nat
      /\ Len(outs) \in Nat /\ Loud(outs) \in Nat
  BY LoudType, LenProperties DEF Stream, Encodings, Runs
<1>1. ASSUME NEW k \in Nat, BodyPart(s, outs) = On([s EXCEPT !.size = @ + k])
      PROVE  \E u \in Stream :
               /\ u.lex = s.lex /\ u.fresh = s.fresh /\ u.encoding = s.encoding
               /\ u.unzip = s.unzip /\ BodyPart(s, outs) = On(u)
  <2>. DEFINE e == [s EXCEPT !.size = @ + k]
  <2>1. /\ e \in Stream /\ e.lex = s.lex /\ e.fresh = s.fresh /\ e.encoding = s.encoding
        /\ e.unzip = s.unzip
    BY <1>0 DEF Stream
  <2>2. BodyPart(s, outs) = On(e)
    BY <1>1
  <2>. HIDE DEF e
  <2>. QED  BY <2>1, <2>2
<1>2. CASE s.unzip = "none"
  BY <1>0, <1>1, <1>2 DEF BodyPart
<1>3. CASE s.unzip = "deflate" /\ Inflates(outs)
  BY <1>0, <1>1, <1>3 DEF BodyPart
<1>4. CASE s.unzip = "deflate" /\ ~Inflates(outs)
  BY <1>4 DEF BodyPart
<1>5. CASE s.unzip = "gzip"
  BY <1>5 DEF BodyPart
<1>. QED  BY <1>0, <1>2, <1>3, <1>4, <1>5

LEMMA BodyBytesTidy ==
  ASSUME NEW s \in Stream, Framed(s), BodyMode(s), NEW outs \in Runs
  PROVE  /\ Tidy(s, BodyBytes(s, outs))
         /\ BodyBytes(s, outs).out = "more" => ~BodyBytes(s, outs).stream.fresh
         /\ BodyBytes(s, outs).out \in {"more", "accepted"} /\ Gzips(BodyBytes(s, outs).stream)
              => Gzips(s)
<1>. DEFINE read == IF Len(outs) > s.length THEN s.length ELSE Len(outs)
            begun == BeginBody(s, "normal")
            b == [begun EXCEPT !.length = s.length - read]
            part == BodyPart(b, SubSeq(outs, 1, read))
            next == IF s.lex = "normal" /\ part.stream.length = 0
                    THEN EndBody(part.stream) ELSE part
            over == [EndInput(next.stream) EXCEPT !.done = next.done \o @]
            f == BodyBytes(s, outs)
<1>1. Len(outs) \in Nat /\ s.length \in Nat /\ read \in 0..Len(outs)
      /\ s.length - read \in Nat
  BY LenProperties DEF Runs, Stream
<1>2. SubSeq(outs, 1, read) \in Runs
  BY <1>1, SubSeqProperties DEF Runs
<1>3. f = CASE part.out # "more" -> part
            [] part.out = "more" /\ Len(outs) = read -> next
            [] part.out = "more" /\ Len(outs) > read -> over
  BY DEF BodyBytes
<1>4. Len(outs) = read \/ Len(outs) > read
  BY <1>1
<1>5. ~s.fresh /\ s.lex # "initial" /\ s.fresh \in BOOLEAN
  BY DEF Framed, BodyMode, Stream
<1>6. /\ begun \in Stream /\ begun.lex = s.lex /\ begun.fresh = s.fresh
      /\ begun.encoding = s.encoding /\ begun.unzip \in {s.unzip, s.encoding}
  BY DEF BeginBody, Stream, Encodings, Transfers
<1>. HIDE DEF read, begun
<1>7. /\ b \in Stream /\ b.lex = s.lex /\ b.fresh = s.fresh
      /\ b.encoding = s.encoding /\ b.unzip \in {s.unzip, s.encoding}
  BY <1>1, <1>6 DEF Stream
<1>. HIDE DEF b
<1>8. PICK u \in Stream :
        /\ u.lex = s.lex /\ u.fresh = s.fresh /\ u.encoding = s.encoding
        /\ u.unzip \in {s.unzip, s.encoding}
        /\ \/ part \in {On(u), Fails(u)}
           \/ b.unzip = "gzip" /\ part = [Fails(u) EXCEPT !.out = "gunzip"]
  <2>1. PICK u \in Stream :
          /\ u.lex = b.lex /\ u.fresh = b.fresh /\ u.encoding = b.encoding
          /\ u.unzip = b.unzip
          /\ \/ part \in {On(u), Fails(u)}
             \/ b.unzip = "gzip" /\ part = [Fails(u) EXCEPT !.out = "gunzip"]
    BY <1>2, <1>7, PartIs
  <2>. HIDE DEF part
  <2>. QED  BY <1>7, <2>1
<1>. HIDE DEF part
<1>9. (Gzips(u) => Gzips(s)) /\ (b.unzip = "gzip" => Gzips(s)) /\ ~u.fresh
  BY <1>5, <1>7, <1>8 DEF Gzips
<1>. HIDE DEF next, over, f
<1>10. CASE part = Fails(u)
  <2>1. Fails(u).out = "refused"
    BY DEF Fails, On
  <2>. QED  BY <1>3, <1>10, <2>1, OnTidy DEF f
<1>11. CASE b.unzip = "gzip" /\ part = [Fails(u) EXCEPT !.out = "gunzip"]
  <2>1. part.out = "gunzip" /\ part.init = FALSE /\ part.done = <<>>
    BY <1>11 DEF Fails, On
  <2>2. f = part
    BY <1>3, <2>1
  <2>. QED  BY <1>9, <1>11, <2>1, <2>2 DEF Tidy, f
<1>12. CASE part = On(u)
  <2>1. part.out = "more" /\ part.stream = u /\ part.done = <<>>
    BY <1>12, OnIs
  <2>2. /\ Tidy(s, next) /\ next.out = "more" /\ next.stream \in Stream
        /\ ~next.stream.fresh /\ (Gzips(next.stream) => Gzips(s))
        /\ \/ next.done = <<>>
           \/ /\ Len(next.done) = 1 /\ next.stream.lex = "initial"
              /\ next.done \in Seq(Told)
    <3>1. CASE s.lex = "normal" /\ part.stream.length = 0
      <4>1. next = EndBody(u)
        BY <2>1, <3>1 DEF next
      <4>2. EndBody(u) \in Effect
        BY EndBodyGood
      <4>. QED  BY <1>5, <1>9, <4>1, <4>2, EndBodyTidy DEF Effect
    <3>2. CASE ~(s.lex = "normal" /\ part.stream.length = 0)
      <4>1. next = On(u)
        BY <1>12, <3>2 DEF next
      <4>. QED  BY <1>9, <2>1, <1>12, <4>1, OnTidy
    <3>. QED  BY <3>1, <3>2
  <2>. DEFINE e == EndInput(next.stream)
  <2>3. /\ Tidy(next.stream, e) /\ e.out \in {"accepted", "refused"} /\ e \in Effect
        /\ e.out = "accepted" /\ Gzips(e.stream) => Gzips(next.stream)
        /\ e.done # <<>> => e.out = "refused"
    BY <2>2, EndInputTidy, EndInputGood
  <2>4. over = [e EXCEPT !.done = next.done \o e.done]
    BY DEF over
  <2>. HIDE DEF e
  <2>5. /\ over.done = next.done \o e.done /\ over.out = e.out
        /\ over.init = e.init /\ over.stream = e.stream
    BY <2>3, <2>4 DEF Effect
  <2>6. Len(over.done) \in {0, 1}
    <3>1. CASE next.done = <<>>
      <4>1. e.done \in Seq(Told)
        BY <2>3 DEF Effect
      <4>2. over.done = e.done
        BY <2>5, <3>1, <4>1, ConcatEmptySeq
      <4>. QED  BY <2>3, <4>2 DEF Tidy
    <3>2. CASE /\ Len(next.done) = 1 /\ next.stream.lex = "initial"
               /\ next.done \in Seq(Told)
      <4>1. e.done = <<>> /\ next.done \in Seq(Told)
        BY <2>3, <3>2 DEF Tidy
      <4>2. over.done = next.done
        BY <2>5, <4>1, ConcatEmptySeq
      <4>. QED  BY <3>2, <4>2
    <3>. QED  BY <2>2, <3>1, <3>2
  <2>8. Tidy(s, over)
    BY <1>5, <2>2, <2>3, <2>5, <2>6 DEF Tidy
  <2>9. f = next \/ f = over
    BY <1>3, <1>4, <2>1
  <2>. QED  BY <2>2, <2>3, <2>5, <2>8, <2>9 DEF f
<1>. QED  BY <1>8, <1>10, <1>11, <1>12

LEMMA HeadFieldsTidy ==
  ASSUME NEW s \in Stream, NEW p \in Piece, p.kind = "head"
  PROVE  /\ Tidy(s, HeadFields(s, p)) /\ HeadFields(s, p).out = "more"
         /\ HeadFields(s, p).done = <<>>
         /\ ~HeadFields(s, p).stream.fresh
         /\ Gzips(HeadFields(s, p).stream) => Gzips(s) \/ p.encoding = "gzip"
<1>. DEFINE e == [s EXCEPT !.lex = "header", !.fresh = FALSE,
                           !.length = IF p.length > 0 THEN p.length ELSE @,
                           !.chunked = @ \/ p.chunked,
                           !.encoding = IF p.encoding # "none" THEN p.encoding ELSE @]
<1>1. /\ ~e.fresh /\ e.unzip = s.unzip /\ e.encoding \in {p.encoding, s.encoding}
  BY DEF Stream
<1>2. HeadFields(s, p) = [On(e) EXCEPT !.init = s.fresh]
  BY DEF HeadFields
<1>. HIDE DEF e
<1>3. /\ HeadFields(s, p).stream = e /\ HeadFields(s, p).out = "more"
      /\ HeadFields(s, p).init = s.fresh /\ HeadFields(s, p).done = <<>>
  BY <1>2 DEF On
<1>. QED  BY <1>1, <1>3 DEF Tidy, Gzips

\* All of it for a piece in any stream.
Feeds(s, p, f) ==
  /\ Tidy(s, f)
  /\ f.out = "more" => ~f.stream.fresh
  /\ f.out \in {"more", "accepted"} /\ Gzips(f.stream) =>
       Gzips(s) \/ (p.kind = "head" /\ p.encoding = "gzip")

LEMMA FeedTidy ==
  ASSUME NEW s \in Stream, Framed(s), NEW p \in Piece
  PROVE  /\ Feeds(s, p, Feed(s, p))
         /\ s.lex = "initial" /\ p.kind # "head" => Feed(s, p) = EndInput(s)
         /\ s.lex = "initial" /\ p.kind = "head" =>
              Feed(s, p).out = "more" /\ Feed(s, p).done = <<>>
<1>0. s.lex # "initial" => ~s.fresh
  BY DEF Framed, Stream
<1>1. CASE BodyMode(s)
  <2>. DEFINE outs == IF p.kind = "bytes" THEN p.outs ELSE <<"line">>
  <2>1. p.kind = "bytes" => p.outs \in Runs
    BY DEF Piece
  <2>2. <<"line">> \in Runs
    BY DEF Runs
  <2>3. outs \in Runs
    BY <2>1, <2>2
  <2>4. Feed(s, p) = BodyBytes(s, outs) /\ s.lex # "initial"
    BY <1>1 DEF Feed, BodyMode
  <2>. HIDE DEF outs
  <2>. QED  BY <1>1, <2>3, <2>4, BodyBytesTidy DEF Feeds
<1>2. ASSUME ~BodyMode(s), s.lex = "initial", p.kind = "head"
      PROVE  /\ Feeds(s, p, Feed(s, p))
             /\ Feed(s, p).out = "more" /\ Feed(s, p).done = <<>>
  <2>1. Feed(s, p) = HeadFields(s, p)
    BY <1>2 DEF Feed
  <2>. QED  BY <1>2, <2>1, HeadFieldsTidy DEF Feeds
<1>3. ASSUME s.lex # "initial", NEW e \in Stream, Feed(s, p) = On(e), ~e.fresh,
             Gzips(e) => Gzips(s)
      PROVE  Feeds(s, p, Feed(s, p))
  BY <1>3, OnTidy, OnIs DEF Feeds
<1>4. ASSUME s.lex # "initial", NEW e \in Stream, Feed(s, p) = EndBody(e), ~e.fresh
      PROVE  Feeds(s, p, Feed(s, p))
  <2>. DEFINE f == EndBody(e)
  <2>1. Tidy(s, f) /\ ~Gzips(f.stream) /\ f.stream.fresh = e.fresh
    BY <1>4, EndBodyTidy
  <2>2. f = Feed(s, p)
    BY <1>4
  <2>. HIDE DEF f
  <2>3. Feeds(s, p, f)
    BY <1>4, <2>1 DEF Feeds
  <2>. QED  BY <2>2, <2>3
<1>5. ASSUME Feed(s, p) = EndInput(s) PROVE Feeds(s, p, Feed(s, p))
  <2>. DEFINE f == EndInput(s)
  <2>1. /\ Tidy(s, f) /\ f.out \in {"accepted", "refused"}
        /\ f.out = "accepted" /\ Gzips(f.stream) => Gzips(s)
    BY EndInputTidy
  <2>2. f = Feed(s, p)
    BY <1>5
  <2>. HIDE DEF f
  <2>3. Feeds(s, p, f)
    BY <2>1 DEF Feeds
  <2>. QED  BY <2>2, <2>3
<1>6. CASE ~BodyMode(s) /\ s.lex = "header" /\ p.kind = "blank"
  <2>1. Feed(s, p) = HeadEnd(s)
    BY <1>6 DEF Feed
  <2>2. CASE HeadEnd(s) = EndBody(s)
    BY <1>0, <1>4, <1>6, <2>1, <2>2
  <2>3. ASSUME NEW l \in LexStates, HeadEnd(s) = On([s EXCEPT !.lex = l])
        PROVE  Feeds(s, p, Feed(s, p))
    <3>. DEFINE e == [s EXCEPT !.lex = l]
    <3>1. e \in Stream /\ e.fresh = s.fresh /\ e.encoding = s.encoding /\ e.unzip = s.unzip
      BY DEF Stream
    <3>2. Feed(s, p) = On(e)
      BY <2>1, <2>3
    <3>. HIDE DEF e
    <3>. QED  BY <1>0, <1>3, <1>6, <3>1, <3>2 DEF Gzips
  <2>4. "size" \in LexStates /\ "normal" \in LexStates
    BY DEF LexStates
  <2>. QED  BY <1>6, <2>2, <2>3, <2>4 DEF HeadEnd
<1>7. CASE ~BodyMode(s) /\ s.lex = "size" /\ p.kind = "size"
  <2>1. Feed(s, p) = ChunkHeader(s, p)
    BY <1>7 DEF Feed
  <2>2. CASE p.ext
    <3>1. Feed(s, p) = Fails(s) /\ Fails(s).out = "refused"
      BY <2>1, <2>2 DEF ChunkHeader, Fails, On
    <3>. QED  BY <1>7, <3>1, OnTidy DEF Feeds
  <2>3. CASE ~p.ext
    <3>. DEFINE b == BeginBody(s, "chunked")
                e == [b EXCEPT !.length = p.n, !.lex = IF p.n > 0 THEN "chunk" ELSE "tail"]
    <3>1. /\ b \in Stream /\ b.fresh = s.fresh /\ b.encoding = s.encoding
          /\ b.unzip \in {s.unzip, s.encoding}
      BY DEF BeginBody, Stream, Encodings, Transfers
    <3>2. p.n \in Nat
      BY <1>7 DEF Piece
    <3>3. Feed(s, p) = On(e)
      BY <2>1, <2>3 DEF ChunkHeader
    <3>. HIDE DEF b
    <3>4. e \in Stream /\ e.fresh = s.fresh /\ e.encoding = s.encoding /\ e.unzip = b.unzip
      BY <3>1, <3>2 DEF Stream, LexStates
    <3>. HIDE DEF e
    <3>. QED  BY <1>0, <1>3, <1>7, <3>1, <3>3, <3>4 DEF Gzips
  <2>. QED  BY <2>2, <2>3
<1>8. CASE ~BodyMode(s) /\ s.lex = "chunk" /\ s.length = 0 /\ p.kind = "blank"
  <2>. DEFINE e == [s EXCEPT !.lex = "size"]
  <2>1. /\ e \in Stream /\ e.fresh = s.fresh /\ e.encoding = s.encoding
        /\ e.unzip = s.unzip
    BY DEF Stream, LexStates
  <2>2. Feed(s, p) = On(e)
    BY <1>8 DEF Feed
  <2>. HIDE DEF e
  <2>. QED  BY <1>0, <1>3, <1>8, <2>1, <2>2 DEF Gzips
<1>9. CASE ~BodyMode(s) /\ s.lex = "tail" /\ p.kind = "field"
  <2>1. Feed(s, p) = On(s)
    BY <1>9 DEF Feed
  <2>. QED  BY <1>0, <1>3, <1>9, <2>1
<1>10. CASE ~BodyMode(s) /\ s.lex = "tail" /\ p.kind = "blank"
  <2>. DEFINE e == [s EXCEPT !.length = 0, !.chunked = FALSE]
  <2>1. Feed(s, p) = EndBody(e)
    BY <1>10 DEF Feed, TailEnd
  <2>2. e \in Stream /\ e.fresh = s.fresh
    BY DEF Stream
  <2>. HIDE DEF e
  <2>. QED  BY <1>0, <1>4, <1>10, <2>1, <2>2
<1>11. ASSUME ~BodyMode(s),
              ~(s.lex = "initial" /\ p.kind = "head"),
              ~(s.lex = "header" /\ p.kind = "blank"),
              ~(s.lex = "size" /\ p.kind = "size"),
              ~(s.lex = "chunk" /\ s.length = 0 /\ p.kind = "blank"),
              ~(s.lex = "tail" /\ p.kind = "field"),
              ~(s.lex = "tail" /\ p.kind = "blank")
       PROVE  Feeds(s, p, Feed(s, p))
  <2>1. Feed(s, p) = EndInput(s)
    BY <1>11 DEF Feed
  <2>. QED  BY <1>5, <2>1
<1>12. Feeds(s, p, Feed(s, p))
  BY <1>1, <1>2, <1>6, <1>7, <1>8, <1>9, <1>10, <1>11
<1>13. s.lex = "initial" /\ p.kind # "head" => Feed(s, p) = EndInput(s)
  BY DEF Feed, BodyMode
<1>14. s.lex = "initial" => ~BodyMode(s)
  BY DEF BodyMode
<1>. QED  BY <1>2, <1>12, <1>13, <1>14

-----------------------------------------------------------------------------
(* One side of a connection: its stream s, the line k that it holds, the   *)
(* pieces q to come, the messages S sent, the number n of those decoded,   *)
(* whether the rest of a buffer is dropped (b).                            *)

NoBodiless(S) == \A i \in DOMAIN S : S[i].framing # "bodiless"
Bordered(S) ==
  \A i \in DOMAIN S : S[i].framing \notin {"close", "bodiless"} /\ ~S[i].extra

Pending(k, q) == IF k = Nothing THEN q ELSE <<k>> \o q
Following(s, k, q, S) == S # <<>> /\ Reads(s, S[Len(S)], Pending(k, q))
Waits(s, k) == s.lex = "initial" /\ k.kind # "head"

\* Without bodies that are not sent the stream reads the last message or waits
\* for one; with borders it has told each message before.
Tracks(s, k, q, S, n, b) ==
  /\ NoBodiless(S) => Following(s, k, q, S) \/ Waits(s, k)
  /\ Bordered(S) =>
       /\ ~b
       /\ \/ Following(s, k, q, S) /\ n + 1 = Len(S)
          \/ Waits(s, k) /\ k = Nothing /\ q = <<>> /\ n = Len(S)

\* What is packed with gzip has been sent.
Gzipped(S) == \E i \in DOMAIN S : S[i].encoding = "gzip"
Packs(s, k) == Gzips(s) \/ (k.kind = "head" /\ k.encoding = "gzip")

Side(s, k, q, S, n, b) ==
  /\ s \in Stream /\ Framed(s) /\ k \in Piece /\ q \in Seq(BodyPiece)
  /\ S \in Seq(Sendable) /\ n \in Nat
  /\ Packs(s, k) => Gzipped(S)
  /\ b => s.lex = "initial" /\ k = Nothing
  /\ Tracks(s, k, q, S, n, b)

\* What a call makes of a side.
Tells(h, S, n) ==
  Bordered(S) /\ h.done # <<>> =>
    n + 1 \in DOMAIN S /\ (h.out # "refused" => h.done = <<Decoded(S[n + 1])>>)
Result(h, k, q, S, n) ==
  /\ h.out \in {"more", "accepted"} =>
       Tracks(h.stream, k, q, S, n + Len(h.done), h.out = "accepted")
  /\ h.out \in {"refused", "gunzip"} /\ NoBodiless(S) => \E i \in DOMAIN S : Unreadable(S[i])
  /\ Tells(h, S, n)

\* What the line held leads to.
After(s, k) == IF k = Nothing THEN On(s) ELSE Feed(s, k)
Stuck(f, S) ==
  f.out \in {"refused", "gunzip"} /\ f.done = <<>> /\ S # <<>> /\ Unreadable(S[Len(S)])
Within(f, q, S, n) ==
  /\ f.out = "more" /\ f.done = <<>> /\ S # <<>> /\ Reads(f.stream, S[Len(S)], q)
  /\ Bordered(S) => n + 1 = Len(S)
Between(f, q, S, n) ==
  /\ f.out = "more" /\ f.stream.lex = "initial"
  /\ Bordered(S) =>
       /\ q = <<>>
       /\ f.done = <<>> => n = Len(S)
       /\ f.done # <<>> => S # <<>> /\ n + 1 = Len(S) /\ f.done = <<Decoded(S[Len(S)])>>
Over(f, S) ==
  f.out = "accepted" /\ f.done = <<>> /\ f.stream.lex = "initial" /\ ~Bordered(S)

LEMMA LastOne ==
  ASSUME NEW S \in Seq(Sendable), S # <<>>
  PROVE  /\ Len(S) \in DOMAIN S /\ S[Len(S)] \in Sendable
         /\ NoBodiless(S) => S[Len(S)].framing # "bodiless"
         /\ Bordered(S) => /\ NoBodiless(S) /\ S[Len(S)].framing # "close"
                           /\ Extra(S[Len(S)]) = <<>>
<1>1. Len(S) \in Nat /\ Len(S) # 0 /\ DOMAIN S = 1..Len(S)
  BY LenProperties, EmptySeq
<1>2. Len(S) \in DOMAIN S
  BY <1>1
<1>3. S[Len(S)] \in Sendable
  BY <1>1, <1>2, ElementOfSeq
<1>. QED  BY <1>2, <1>3 DEF NoBodiless, Bordered, Extra

LEMMA EffectTypes ==
  ASSUME NEW f \in Effect
  PROVE  /\ f.stream \in Stream /\ f.done \in Seq(Told) /\ Len(f.done) \in Nat
         /\ f.done = <<>> <=> Len(f.done) = 0
         /\ f.out \in {"more", "accepted", "refused", "gunzip"}
<1>1. f.done \in Seq(Told)
  BY DEF Effect
<1>. QED  BY <1>1, LenProperties, EmptySeq DEF Effect

LEMMA ReadsMore ==
  ASSUME NEW s, NEW m \in Sendable, NEW q, Reads(s, m, q)
  PROVE  q # <<>>
<1>1. /\ Blank \in Piece /\ FieldPiece \in Piece /\ HeadOf(m) \in Piece
      /\ Extra(m) \in Seq(Piece)
  BY PieceTypes
<1>2. /\ BodyPieces(m) = <<Blank>> \o BodyFrom(m) /\ BodyFrom(m) \in Seq(Piece)
  BY Layout
<1>3. BodyPieces(m) # <<>> /\ BodyPieces(m) \in Seq(Piece)
  BY <1>1, <1>2, Singles
<1>4. CASE AtHead(s, m, q)
  BY <1>1, <1>3, <1>4, Singles DEF AtHead
<1>5. CASE AtBlank(s, m, q)
  BY <1>3, <1>5 DEF AtBlank
<1>6. ASSUME NEW a \in Seq(Byte), NEW b \in Seq(Byte), InBody(s, m, q, a, b)
      PROVE  q # <<>>
  <2>1. Bytes(b) \in Piece
    BY PieceTypes
  <2>. QED  BY <1>1, <1>6, <2>1, Singles DEF InBody
<1>7. ASSUME NEW i \in 1..Len(m.chunks) + 1, AtSize(s, m, q, i)
      PROVE  q # <<>>
  <2>1. CASE i = Len(m.chunks) + 1
    <3>1. Size(0, m.ext) \in Piece /\ TailPieces(m) \in Seq(Piece)
      BY PieceTypes
    <3>2. q = <<Size(0, m.ext)>> \o TailPieces(m)
      BY <1>7, <2>1, Layout DEF AtSize
    <3>. QED  BY <3>1, <3>2, Singles
  <2>2. CASE i # Len(m.chunks) + 1
    <3> DEFINE x == m.chunks[i]
               t == <<Bytes(x)>> \o (<<Blank>> \o ChunksFrom(m, i + 1))
    <3>1. i \in 1..Len(m.chunks) /\ i + 1 \in 1..Len(m.chunks) + 1
      BY <2>2, Honest
    <3>2. x \in Seq(Byte) /\ Len(x) \in Nat
      BY <3>1, Honest, LenProperties
    <3>3. Size(Len(x), m.ext) \in Piece /\ Bytes(x) \in Piece
      BY <3>2, PieceTypes
    <3>4. ChunksFrom(m, i + 1) \in Seq(Piece)
      BY <3>1, Layout
    <3>5. t \in Seq(Piece)
      BY <1>1, <3>3, <3>4, Singles
    <3>6. q = <<Size(Len(x), m.ext)>> \o t
      BY <1>7, <3>1, Layout DEF AtSize
    <3> HIDE DEF t
    <3>. QED  BY <3>3, <3>5, <3>6, Singles
  <2>. QED  BY <2>1, <2>2
<1>8. ASSUME NEW i \in 1..Len(m.chunks), NEW a \in Seq(Byte), NEW b \in Seq(Byte),
             InChunk(s, m, q, i, a, b)
      PROVE  q # <<>>
  <2> DEFINE t == <<Blank>> \o ChunksFrom(m, i + 1)
  <2>1. i + 1 \in 1..Len(m.chunks) + 1
    BY Honest
  <2>2. ChunksFrom(m, i + 1) \in Seq(Piece)
    BY <2>1, Layout
  <2>3. t \in Seq(Piece) /\ t # <<>>
    BY <1>1, <2>2, Singles
  <2>4. q = Left(b, t)
    BY <1>8 DEF InChunk
  <2> HIDE DEF t
  <2>5. Bytes(b) \in Piece
    BY PieceTypes
  <2>. QED  BY <2>3, <2>4, <2>5, Singles DEF Left
<1>9. CASE AtTail(s, m, q)
  <2>1. <<Blank>> \o Extra(m) \in Seq(Piece) /\ <<Blank>> \o Extra(m) # <<>>
    BY <1>1, Singles
  <2>2. <<FieldPiece>> \o (<<Blank>> \o Extra(m)) # <<>>
    BY <1>1, <2>1, Singles
  <2>. QED  BY <1>9, <2>1, <2>2 DEF AtTail
<1>. QED  BY <1>4, <1>5, <1>6, <1>7, <1>8, <1>9 DEF Reads

\* Bytes of a body come in a body mode only.
LEMMA ReadsBytes ==
  ASSUME NEW s \in Stream, NEW m \in Sendable, NEW q, Reads(s, m, q), Head(q).kind = "bytes"
  PROVE  BodyMode(s)
<1>1. /\ Blank \in Piece /\ FieldPiece \in Piece /\ HeadOf(m) \in Piece
      /\ Extra(m) \in Seq(Piece)
      /\ Blank.kind = "blank" /\ FieldPiece.kind = "field" /\ HeadOf(m).kind = "head"
  BY PieceTypes DEF Blank, FieldPiece, HeadOf
<1>2. /\ BodyPieces(m) = <<Blank>> \o BodyFrom(m) /\ BodyFrom(m) \in Seq(Piece)
  BY Layout
<1>3. Head(BodyPieces(m)) = Blank /\ BodyPieces(m) \in Seq(Piece)
  BY <1>1, <1>2, Singles
<1>4. ~AtHead(s, m, q)
  <2>1. Head(<<HeadOf(m)>> \o BodyPieces(m)) = HeadOf(m)
    BY <1>1, <1>3, Singles
  <2>. QED  BY <1>1, <2>1 DEF AtHead
<1>5. ~AtBlank(s, m, q)
  BY <1>1, <1>3 DEF AtBlank
<1>6. ASSUME NEW a \in Seq(Byte), NEW b \in Seq(Byte), InBody(s, m, q, a, b)
      PROVE  BodyMode(s)
  BY <1>6 DEF InBody, BodyMode
<1>7. ASSUME NEW i \in 1..Len(m.chunks) + 1, AtSize(s, m, q, i)
      PROVE  FALSE
  <2>1. CASE i = Len(m.chunks) + 1
    <3>1. Size(0, m.ext) \in Piece /\ TailPieces(m) \in Seq(Piece)
      BY PieceTypes
    <3>2. q = <<Size(0, m.ext)>> \o TailPieces(m)
      BY <1>7, <2>1, Layout DEF AtSize
    <3>3. Head(q) = Size(0, m.ext)
      BY <3>1, <3>2, Singles
    <3>. QED  BY <3>3 DEF Size
  <2>2. CASE i # Len(m.chunks) + 1
    <3> DEFINE x == m.chunks[i]
               t == <<Bytes(x)>> \o (<<Blank>> \o ChunksFrom(m, i + 1))
    <3>1. i \in 1..Len(m.chunks) /\ i + 1 \in 1..Len(m.chunks) + 1
      BY <2>2, Honest
    <3>2. x \in Seq(Byte) /\ Len(x) \in Nat
      BY <3>1, Honest, LenProperties
    <3>3. Size(Len(x), m.ext) \in Piece /\ Bytes(x) \in Piece
      BY <3>2, PieceTypes
    <3>4. ChunksFrom(m, i + 1) \in Seq(Piece)
      BY <3>1, Layout
    <3>5. t \in Seq(Piece)
      BY <1>1, <3>3, <3>4, Singles
    <3>6. q = <<Size(Len(x), m.ext)>> \o t
      BY <1>7, <3>1, Layout DEF AtSize
    <3> HIDE DEF t
    <3>7. Head(q) = Size(Len(x), m.ext)
      BY <3>3, <3>5, <3>6, Singles
    <3>. QED  BY <3>7 DEF Size
  <2>. QED  BY <2>1, <2>2
<1>8. ASSUME NEW i \in 1..Len(m.chunks), NEW a \in Seq(Byte), NEW b \in Seq(Byte),
             InChunk(s, m, q, i, a, b)
      PROVE  BodyMode(s)
  <2>1. i + 1 \in 1..Len(m.chunks) + 1
    BY Honest
  <2>2. ChunksFrom(m, i + 1) \in Seq(Piece)
    BY <2>1, Layout
  <2>3. Head(<<Blank>> \o ChunksFrom(m, i + 1)) = Blank
    BY <1>1, <2>2, Singles
  <2>4. b # <<>>
    BY <1>1, <1>8, <2>3 DEF InChunk, Left
  <2>5. Len(b) \in Nat /\ Len(b) # 0
    BY <2>4, LenProperties, EmptySeq
  <2>. QED  BY <1>8, <2>5 DEF InChunk, BodyMode
<1>9. ~AtTail(s, m, q)
  <2>1. /\ <<Blank>> \o Extra(m) \in Seq(Piece)
        /\ Head(<<Blank>> \o Extra(m)) = Blank
    BY <1>1, Singles
  <2>2. Head(<<FieldPiece>> \o (<<Blank>> \o Extra(m))) = FieldPiece
    BY <1>1, <2>1, Singles
  <2>. QED  BY <1>1, <2>1, <2>2 DEF AtTail
<1>. QED  BY <1>4, <1>5, <1>6, <1>7, <1>8, <1>9 DEF Reads

\* Where a side is once the line that it held is decoded.
LEMMA HeldReads ==
  ASSUME NEW s, NEW k, NEW q, NEW S, NEW n, NEW b, Side(s, k, q, S, n, b), NoBodiless(S)
  PROVE  LET f == After(s, k) IN
         \/ Stuck(f, S) \/ Within(f, q, S, n) \/ Between(f, q, S, n) \/ Over(f, S)
<1> DEFINE f == After(s, k)
           m == S[Len(S)]
<1>1. /\ s \in Stream /\ Framed(s) /\ k \in Piece /\ q \in Seq(Piece)
      /\ S \in Seq(Sendable) /\ n \in Nat /\ Tracks(s, k, q, S, n, b)
  BY BodyPiecesArePieces DEF Side
<1> HIDE DEF f
<1>2. CASE Following(s, k, q, S) /\ (Bordered(S) => n + 1 = Len(S))
  <2>1. S # <<>> /\ Reads(s, m, Pending(k, q))
    BY <1>2 DEF Following
  <2>2. /\ m \in Sendable /\ m.framing # "bodiless"
        /\ Bordered(S) => m.framing # "close" /\ Extra(m) = <<>>
    BY <1>1, <2>1, LastOne
  <2> HIDE DEF m
  <2>3. Outcome(f, m, q)
    <3>1. CASE k = Nothing
      <4>1. f = On(s) /\ Reads(s, m, q)
        BY <2>1, <3>1 DEF f, After, Pending
      <4>. QED  BY <4>1, OnReads
    <3>2. CASE k # Nothing
      <4>1. f = Feed(s, k) /\ Reads(s, m, <<k>> \o q)
        BY <2>1, <3>2 DEF f, After, Pending
      <4>2. Delivers(<<k>> \o q, k, q)
        BY <1>1, Singles DEF Delivers
      <4>. QED  BY <1>1, <2>2, <4>1, <4>2, FeedReads
    <3>. QED  BY <3>1, <3>2
  <2>4. CASE f.out # "more"
    <3>1. Stuck(f, S)
      BY <2>1, <2>3, <2>4 DEF Outcome, Stuck, m
    <3>. QED  BY <3>1 DEF f
  <2>5. CASE f.out = "more" /\ f.done = <<>>
    <3>1. Within(f, q, S, n)
      BY <1>2, <2>1, <2>3, <2>5 DEF Outcome, Within, m
    <3>. QED  BY <3>1 DEF f
  <2>6. CASE f.out = "more" /\ f.done # <<>>
    <3>1. Between(f, q, S, n)
      BY <1>2, <2>1, <2>2, <2>3, <2>6 DEF Outcome, Between, m
    <3>. QED  BY <3>1 DEF f
  <2>. QED  BY <2>4, <2>5, <2>6
<1>3. CASE Waits(s, k) /\ (Bordered(S) => k = Nothing /\ q = <<>> /\ n = Len(S))
  <2>1. CASE k = Nothing
    <3>1. f.out = "more" /\ f.stream = s /\ f.done = <<>>
      BY <2>1, OnIs DEF f, After
    <3>2. Between(f, q, S, n)
      BY <1>3, <3>1 DEF Between, Waits
    <3>. QED  BY <3>2 DEF f
  <2>2. CASE k # Nothing
    <3>1. f = EndInput(s) /\ s.lex = "initial"
      BY <1>1, <1>3, <2>2, FeedTidy DEF f, After, Waits
    <3>2. f.out = "accepted" /\ f.stream.lex = "initial" /\ f.done = <<>>
      BY <1>1, <3>1, EndInputTidy DEF Tidy
    <3>3. Over(f, S)
      BY <1>3, <2>2, <3>2 DEF Over
    <3>. QED  BY <3>3 DEF f
  <2>. QED  BY <2>1, <2>2
<1>. QED  BY <1>1, <1>2, <1>3 DEF Tracks

LEMMA AfterGood ==
  ASSUME NEW s \in Stream, Framed(s), NEW k \in Piece
  PROVE  /\ Good(After(s, k)) /\ Tidy(s, After(s, k))
         /\ After(s, k).out = "more" =>
              /\ After(s, k).stream \in Stream /\ Framed(After(s, k).stream)
              /\ After(s, k).stream.fresh => s.fresh /\ k = Nothing
         /\ After(s, k).out \in {"more", "accepted"} /\ Gzips(After(s, k).stream) =>
              Packs(s, k)
<1>1. CASE k = Nothing
  <2>1. After(s, k) = On(s)
    BY <1>1 DEF After
  <2>2. Tidy(s, On(s)) /\ Good(On(s)) /\ On(s).out = "more" /\ On(s).stream = s
    BY OnTidy, OnType
  <2>. QED  BY <1>1, <2>1, <2>2 DEF Packs
<1>2. CASE k # Nothing
  <2>1. After(s, k) = Feed(s, k)
    BY <1>2 DEF After
  <2>2. Good(Feed(s, k)) /\ Feeds(s, k, Feed(s, k))
    BY FeedGood, FeedTidy
  <2>3. Feed(s, k).stream \in Stream
    BY <2>2 DEF Good, Effect
  <2>. QED  BY <2>1, <2>2, <2>3 DEF Good, Feeds, Packs
<1>. QED  BY <1>1, <1>2

\* The next piece of the last message.
LEMMA LineTracks ==
  ASSUME NEW s, NEW k, NEW q, NEW S, NEW n, NEW b, Side(s, k, q, S, n, b), NoBodiless(S),
         q # <<>>, NEW p \in Piece, NEW r \in Seq(Piece), Delivers(q, p, r)
  PROVE  LET f == After(s, k)
             g == Feed(f.stream, p)
         IN  /\ b => Tracks(s, k, r, S, n, b)
             /\ f.out # "more" => Result(f, Nothing, r, S, n)
             /\ f.out = "more" /\ Keeps(f.stream, p) => Result(Starts(f, p), p, r, S, n)
             /\ f.out = "more" => Result(Both(f, g), Nothing, r, S, n)
<1> DEFINE f == After(s, k)
           g == Feed(f.stream, p)
           m == S[Len(S)]
<1>1. /\ s \in Stream /\ Framed(s) /\ k \in Piece /\ q \in Seq(Piece) /\ q # <<>>
      /\ S \in Seq(Sendable) /\ n \in Nat /\ Tracks(s, k, q, S, n, b)
      /\ Head(q).kind \in {"blank", "field", "size", "bytes"}
      /\ b => s.lex = "initial" /\ k = Nothing
  <2>1. q \in Seq(Piece) /\ \A i \in DOMAIN q : q[i].kind \in {"blank", "field", "size", "bytes"}
    <3>1. q \in Seq(BodyPiece)
      BY DEF Side
    <3>2. \A i \in DOMAIN q : q[i] \in BodyPiece
      BY <3>1, ElementOfSeq, LenProperties
    <3>. QED  BY <3>1, <3>2, BodyPiecesArePieces DEF BodyPiece
  <2>2. Len(q) \in Nat /\ Len(q) # 0 /\ DOMAIN q = 1..Len(q)
    BY <2>1, LenProperties, EmptySeq
  <2>3. 1 \in DOMAIN q /\ Head(q) = q[1]
    BY <2>2
  <2>. QED  BY <2>1, <2>3 DEF Side
<1>2. /\ Good(f) /\ Tidy(s, f)
      /\ f.out = "more" => f.stream \in Stream /\ Framed(f.stream)
  BY <1>1, AfterGood
<1>3. f \in Effect
  BY <1>2 DEF Good
<1>4. \/ Stuck(f, S) \/ Within(f, q, S, n) \/ Between(f, q, S, n) \/ Over(f, S)
  BY HeldReads
<1>5. p.kind \in {"blank", "field", "size", "bytes"} /\ (p.kind # "bytes" => p = Head(q) /\ r = Tail(q))
  <2>1. \A o : Bytes(o).kind = "bytes"
    BY DEF Bytes
  <2>. QED  BY <1>1, <2>1 DEF Delivers
<1>6. p # Nothing
  BY <1>5 DEF Nothing
<1> HIDE DEF f
<1>7. f.stream \in Stream /\ Len(f.done) \in Nat /\ (f.done = <<>> <=> Len(f.done) = 0)
      /\ f.done \in Seq(Told)
  BY <1>3, EffectTypes
<1>8. b => Tracks(s, k, r, S, n, b)
  <2> SUFFICES ASSUME b PROVE Tracks(s, k, r, S, n, b)
    OBVIOUS
  <2>1. s.lex = "initial" /\ k.kind # "head"
    BY <1>1 DEF Nothing
  <2>2. ~Bordered(S)
    BY <1>1 DEF Tracks
  <2>. QED  BY <2>1, <2>2 DEF Tracks, Waits
<1>9. CASE Stuck(f, S)
  <2>1. \E i \in DOMAIN S : Unreadable(S[i])
    BY <1>1, <1>9, LastOne DEF Stuck
  <2>2. Result(f, Nothing, r, S, n)
    BY <1>9, <2>1 DEF Stuck, Result, Tells
  <2>. QED  BY <1>8, <1>9, <2>2 DEF Stuck, f
<1>10. CASE Over(f, S)
  <2>1. Nothing.kind # "head"
    BY DEF Nothing
  <2>2. Result(f, Nothing, r, S, n)
    BY <1>10, <2>1 DEF Over, Result, Tells, Tracks, Waits
  <2>. QED  BY <1>8, <1>10, <2>2 DEF Over, f
<1>11. CASE Within(f, q, S, n)
  <2>0. f.out = "more" /\ f.done = <<>> /\ Len(f.done) = 0 /\ S # <<>> /\ Reads(f.stream, m, q)
        /\ (Bordered(S) => n + 1 = Len(S))
    BY <1>11, <1>7 DEF Within
  <2>1. /\ m \in Sendable /\ m.framing # "bodiless" /\ Len(S) \in DOMAIN S
        /\ Bordered(S) => m.framing # "close" /\ Extra(m) = <<>>
    BY <1>1, <2>0, LastOne
  <2> HIDE DEF m
  <2>2. ASSUME Keeps(f.stream, p)
        PROVE  Result(Starts(f, p), p, r, S, n)
    <3>1. p.kind # "bytes"
      <4>1. CASE Head(q).kind = "bytes"
        BY <1>7, <2>0, <2>1, <2>2, <4>1, ReadsBytes DEF Keeps
      <4>2. CASE Head(q).kind # "bytes"
        BY <4>2 DEF Delivers
      <4>. QED  BY <4>1, <4>2
    <3>2. Starts(f, p) = f
      BY <1>5 DEF Starts
    <3>3. <<p>> \o r = q
      BY <1>1, <1>5, <3>1, HeadAndTail
    <3>4. Following(f.stream, p, r, S)
      BY <1>6, <2>0, <3>3 DEF Following, Pending, m
    <3>5. n + Len(f.done) = n
      BY <1>1, <2>0
    <3>6. Tracks(f.stream, p, r, S, n, FALSE)
      BY <2>0, <3>4 DEF Tracks
    <3>7. (f.out = "accepted") = FALSE
      BY <2>0
    <3>. QED  BY <2>0, <3>2, <3>5, <3>6, <3>7 DEF Result, Tells
  <2>3. Result(Both(f, g), Nothing, r, S, n)
    <3>1. Outcome(g, m, r)
      BY <1>2, <2>0, <2>1, FeedReads
    <3>2. Good(g) /\ Feeds(f.stream, p, g)
      BY <1>2, <2>0, FeedGood, FeedTidy
    <3>3. g \in Effect
      BY <3>2 DEF Good
    <3> DEFINE h == Both(f, g)
    <3>4. h.stream = g.stream /\ h.out = g.out /\ h.done = g.done
      <4>1. h.stream = g.stream /\ h.out = g.out /\ h.done = f.done \o g.done
        BY <3>3 DEF Both, Effect
      <4>2. f.done \o g.done = g.done
        BY <2>0, <3>3, EffectTypes, ConcatEmptySeq
      <4>. QED  BY <4>1, <4>2
    <3>5. Len(g.done) \in Nat /\ (g.done = <<>> <=> Len(g.done) = 0) /\ Len(g.done) \in {0, 1}
      BY <3>2, <3>3, EffectTypes DEF Feeds, Tidy
    <3> HIDE DEF g, h
    <3>6. Nothing.kind # "head"
      BY DEF Nothing
    <3>7. CASE g.out # "more"
      <4>1. \E i \in DOMAIN S : Unreadable(S[i])
        BY <2>1, <3>1, <3>7 DEF Outcome, m
      <4>2. g.done = <<>> /\ g.out \in {"refused", "gunzip"}
        BY <3>1, <3>7 DEF Outcome
      <4>3. Result(h, Nothing, r, S, n)
        BY <3>4, <4>1, <4>2 DEF Result, Tells
      <4>. QED  BY <4>3 DEF h
    <3>8. CASE g.out = "more" /\ g.done = <<>>
      <4>1. Reads(g.stream, m, r)
        BY <3>1, <3>8 DEF Outcome
      <4>2. Following(g.stream, Nothing, r, S)
        BY <2>0, <4>1 DEF Following, Pending, m
      <4>3. n + Len(h.done) = n
        BY <1>1, <3>4, <3>5, <3>8
      <4>4. Tracks(g.stream, Nothing, r, S, n, FALSE)
        BY <2>0, <4>2 DEF Tracks
      <4>5. (h.out = "accepted") = FALSE
        BY <3>4, <3>8
      <4>6. Result(h, Nothing, r, S, n)
        BY <3>4, <3>8, <4>3, <4>4, <4>5 DEF Result, Tells
      <4>. QED  BY <4>6 DEF h
    <3>9. CASE g.out = "more" /\ g.done # <<>>
      <4>1. /\ g.stream.lex = "initial"
            /\ m.framing # "close" => g.done = <<Decoded(m)>> /\ r = Extra(m)
        BY <3>1, <3>9 DEF Outcome
      <4>2. n + Len(h.done) = n + 1
        BY <1>1, <3>4, <3>5, <3>9
      <4>3. Waits(g.stream, Nothing)
        BY <3>6, <4>1 DEF Waits
      <4>4. Bordered(S) => r = <<>> /\ n + 1 = Len(S) /\ g.done = <<Decoded(S[n + 1])>>
        BY <2>0, <2>1, <4>1 DEF m
      <4>5. Tracks(g.stream, Nothing, r, S, n + 1, FALSE)
        BY <4>3, <4>4 DEF Tracks
      <4>6. (h.out = "accepted") = FALSE
        BY <3>4, <3>9
      <4>7. Bordered(S) => n + 1 \in DOMAIN S
        BY <2>1, <4>4
      <4>8. Result(h, Nothing, r, S, n)
        BY <3>4, <3>9, <4>2, <4>4, <4>5, <4>6, <4>7 DEF Result, Tells
      <4>. QED  BY <4>8 DEF h
    <3>. QED  BY <3>7, <3>8, <3>9
  <2>. QED  BY <1>8, <2>0, <2>2, <2>3 DEF f
<1>12. CASE Between(f, q, S, n)
  <2>0. f.out = "more" /\ f.stream.lex = "initial" /\ ~Bordered(S)
    BY <1>1, <1>12 DEF Between
  <2>2. ASSUME Keeps(f.stream, p)
        PROVE  Result(Starts(f, p), p, r, S, n)
    <3>1. Starts(f, p) = f /\ p.kind # "head"
      BY <1>5 DEF Starts
    <3>2. Waits(f.stream, p)
      BY <2>0, <3>1 DEF Waits
    <3>. QED  BY <2>0, <3>1, <3>2 DEF Result, Tells, Tracks
  <2>3. Result(Both(f, g), Nothing, r, S, n)
    <3>1. g = EndInput(f.stream)
      BY <1>2, <1>5, <2>0, FeedTidy
    <3>2. g.out = "accepted" /\ g.stream.lex = "initial" /\ g \in Effect
      BY <1>2, <2>0, <3>1, EndInputTidy, EndInputGood
    <3>3. Both(f, g).stream = g.stream /\ Both(f, g).out = g.out
      BY <3>2 DEF Both, Effect
    <3>4. Waits(g.stream, Nothing)
      BY <3>2 DEF Waits, Nothing
    <3> HIDE DEF g
    <3>. QED  BY <2>0, <3>2, <3>3, <3>4 DEF Result, Tells, Tracks
  <2>. QED  BY <1>8, <2>0, <2>2, <2>3 DEF f
<1>. QED  BY <1>4, <1>9, <1>10, <1>11, <1>12

LEMMA AppendOne ==
  ASSUME NEW S \in Seq(Sendable), NEW m \in Sendable
  PROVE  LET T == Append(S, m) IN
         /\ T \in Seq(Sendable) /\ T # <<>> /\ Len(T) = Len(S) + 1 /\ T[Len(T)] = m
         /\ \A i \in DOMAIN S : i \in DOMAIN T /\ T[i] = S[i]
         /\ NoBodiless(T) => NoBodiless(S) /\ m.framing # "bodiless"
         /\ Bordered(T) => Bordered(S)
<1> DEFINE T == Append(S, m)
<1>1. /\ T \in Seq(Sendable) /\ Len(T) = Len(S) + 1 /\ T[Len(S) + 1] = m /\ Len(S) \in Nat
      /\ \A i \in 1..Len(S) : T[i] = S[i]
  BY AppendProperties, LenProperties
<1>2. DOMAIN T = 1..Len(S) + 1 /\ DOMAIN S = 1..Len(S)
  BY <1>1, LenProperties
<1> HIDE DEF T
<1>3. T # <<>> /\ Len(S) + 1 \in DOMAIN T
  BY <1>1, <1>2, EmptySeq
<1>4. \A i \in DOMAIN S : i \in DOMAIN T /\ T[i] = S[i]
  BY <1>1, <1>2
<1>5. NoBodiless(T) => NoBodiless(S) /\ m.framing # "bodiless"
  BY <1>1, <1>3, <1>4 DEF NoBodiless
<1>6. Bordered(T) => Bordered(S)
  BY <1>4 DEF Bordered
<1>. QED  BY <1>1, <1>3, <1>4, <1>5, <1>6 DEF T

\* The head of the next message.
LEMMA HeadTracks ==
  ASSUME NEW s, NEW k, NEW S, NEW n, NEW b, Side(s, k, <<>>, S, n, b),
         NEW m \in Sendable, NoBodiless(Append(S, m))
  PROVE  LET f == After(s, k)
             p == HeadOf(m)
             r == BodyPieces(m)
             T == Append(S, m)
             g == Feed(f.stream, p)
         IN  /\ b => Tracks(s, k, r, T, n, b)
             /\ f.out # "more" => Result(f, Nothing, r, T, n)
             /\ f.out = "more" => Result(Starts(f, p), p, r, T, n)
             /\ f.out = "more" => Result(Both(f, g), Nothing, r, T, n)
<1> DEFINE f == After(s, k)
           p == HeadOf(m)
           r == BodyPieces(m)
           T == Append(S, m)
           g == Feed(f.stream, p)
<1>1. /\ s \in Stream /\ Framed(s) /\ k \in Piece /\ S \in Seq(Sendable) /\ n \in Nat
      /\ Tracks(s, k, <<>>, S, n, b) /\ (b => s.lex = "initial" /\ k = Nothing)
  BY DEF Side
<1>2. /\ Good(f) /\ Tidy(s, f)
      /\ f.out = "more" => f.stream \in Stream /\ Framed(f.stream)
  BY <1>1, AfterGood
<1>3. /\ T \in Seq(Sendable) /\ T # <<>> /\ Len(T) = Len(S) + 1 /\ T[Len(T)] = m
      /\ \A i \in DOMAIN S : i \in DOMAIN T /\ T[i] = S[i]
      /\ NoBodiless(S) /\ m.framing # "bodiless" /\ NoBodiless(T)
      /\ Bordered(T) => Bordered(S)
  BY <1>1, AppendOne
<1>4. \/ Stuck(f, S) \/ Within(f, <<>>, S, n) \/ Between(f, <<>>, S, n) \/ Over(f, S)
  BY <1>3, HeldReads
<1>5. /\ p \in Piece /\ r \in Seq(Piece) /\ p.kind = "head" /\ p # Nothing
      /\ Nothing.kind # "head"
  <2>1. Blank \in Piece /\ HeadOf(m) \in Piece /\ BodyFrom(m) \in Seq(Piece)
        /\ BodyPieces(m) = <<Blank>> \o BodyFrom(m)
    BY PieceTypes, Layout
  <2>2. BodyPieces(m) \in Seq(Piece)
    BY <2>1, Singles
  <2>3. HeadOf(m).kind = "head" /\ Nothing.kind = "nothing"
    BY DEF HeadOf, Nothing
  <2>. QED  BY <2>1, <2>2, <2>3
<1>6. f \in Effect
  BY <1>2 DEF Good
<1> HIDE DEF f, T
<1>7. f.stream \in Stream /\ Len(f.done) \in Nat /\ (f.done = <<>> <=> Len(f.done) = 0)
      /\ f.done \in Seq(Told) /\ Len(f.done) \in {0, 1}
  BY <1>2, <1>6, EffectTypes DEF Tidy
<1>8. b => Tracks(s, k, r, T, n, b)
  BY <1>1, <1>3, <1>5 DEF Tracks, Waits
<1>9. CASE Stuck(f, S)
  <2>1. \E i \in DOMAIN T : Unreadable(T[i])
    BY <1>1, <1>3, <1>9, LastOne DEF Stuck
  <2>2. Result(f, Nothing, r, T, n)
    BY <1>9, <2>1 DEF Stuck, Result, Tells
  <2>. QED  BY <1>8, <1>9, <2>2 DEF Stuck, f, T
<1>10. CASE Over(f, S)
  <2>1. Result(f, Nothing, r, T, n)
    BY <1>3, <1>5, <1>10 DEF Over, Result, Tells, Tracks, Waits
  <2>. QED  BY <1>8, <1>10, <2>1 DEF Over, f, T
<1>11. CASE Within(f, <<>>, S, n)
  BY <1>1, <1>11, LastOne, ReadsMore DEF Within
<1>12. CASE Between(f, <<>>, S, n)
  <2>0. f.out = "more" /\ f.stream.lex = "initial" /\ f.stream \in Stream /\ Framed(f.stream)
    BY <1>2, <1>12 DEF Between
  <2>1. /\ n + Len(f.done) \in Nat
        /\ Bordered(T) => (n + Len(f.done)) + 1 = Len(T)
    <3>1. Bordered(T) => n + Len(f.done) = Len(S)
      <4>1. CASE f.done = <<>>
        <5>1. Len(f.done) = 0 /\ (Bordered(T) => n = Len(S))
          BY <1>3, <1>7, <1>12, <4>1 DEF Between
        <5>. QED  BY <1>1, <5>1
      <4>2. CASE f.done # <<>>
        <5>1. Len(f.done) = 1 /\ (Bordered(T) => n + 1 = Len(S))
          BY <1>3, <1>7, <1>12, <4>2 DEF Between
        <5>. QED  BY <5>1
      <4>. QED  BY <4>1, <4>2
    <3>. QED  BY <1>1, <1>3, <1>7, <3>1
  <2>2. Tells(f, T, n)
    <3> SUFFICES ASSUME Bordered(T), f.done # <<>>
                 PROVE  n + 1 \in DOMAIN T /\ f.done = <<Decoded(T[n + 1])>>
      BY DEF Tells
    <3>1. S # <<>> /\ n + 1 = Len(S) /\ f.done = <<Decoded(S[Len(S)])>>
      BY <1>3, <1>12 DEF Between
    <3>2. Len(S) \in DOMAIN S
      BY <1>1, <3>1, LastOne
    <3>. QED  BY <1>3, <3>1, <3>2
  <2>3. <<p>> \o r = <<HeadOf(m)>> \o BodyPieces(m)
    OBVIOUS
  <2> DEFINE h == Starts(f, p)
             e == [f.stream EXCEPT !.fresh = FALSE]
  <2>4. h.stream = e /\ h.out = "more" /\ h.done = f.done
    BY <1>5, <1>6, <2>0 DEF Starts, Effect
  <2>5. e.lex = "initial"
    BY <2>0 DEF Stream
  <2> HIDE DEF h, e, p, r
  <2>6. Result(h, p, r, T, n)
    <3>1. Reads(e, m, <<p>> \o r)
      BY <2>3, <2>5 DEF Reads, AtHead
    <3>2. Following(e, p, r, T)
      BY <1>3, <1>5, <3>1 DEF Following, Pending
    <3>3. Tracks(e, p, r, T, n + Len(f.done), FALSE)
      BY <2>1, <3>2 DEF Tracks
    <3>4. (h.out = "accepted") = FALSE
      BY <2>4
    <3>. QED  BY <2>0, <2>2, <2>4, <3>3, <3>4 DEF Result, Tells
  <2>7. Result(Both(f, g), Nothing, r, T, n)
    <3>1. AtHead(f.stream, m, <<p>> \o r) /\ Delivers(<<p>> \o r, p, r)
      <4>1. Delivers(<<p>> \o r, p, r)
        BY <1>5, Singles DEF Delivers
      <4>. QED  BY <2>0, <2>3, <4>1 DEF AtHead
    <3>2. Outcome(g, m, r)
      BY <2>0, <3>1, ReadHead
    <3>3. g.out = "more" /\ g.done = <<>> /\ g \in Effect
      BY <1>5, <2>0, FeedTidy, FeedGood DEF Good
    <3> HIDE DEF g
    <3>4. /\ Both(f, g).stream = g.stream /\ Both(f, g).out = "more"
          /\ Both(f, g).done = f.done
      <4>1. Both(f, g).done = f.done \o g.done /\ Both(f, g).stream = g.stream
            /\ Both(f, g).out = g.out
        BY <3>3 DEF Both, Effect
      <4>. QED  BY <1>7, <3>3, <4>1, ConcatEmptySeq
    <3>5. Reads(g.stream, m, r)
      BY <3>2, <3>3 DEF Outcome
    <3>6. Following(g.stream, Nothing, r, T)
      BY <1>3, <3>5 DEF Following, Pending
    <3>7. Tracks(g.stream, Nothing, r, T, n + Len(f.done), FALSE)
      BY <2>1, <3>6 DEF Tracks
    <3>8. (Both(f, g).out = "accepted") = FALSE
      BY <3>4
    <3>. QED  BY <2>0, <2>2, <3>4, <3>7, <3>8 DEF Result, Tells
  <2>. QED  BY <1>8, <2>0, <2>6, <2>7 DEF f, T, h, p, r
<1>. QED  BY <1>4, <1>9, <1>10, <1>11, <1>12

\* A buffer that ends within the next line.
LEMMA CutTracks ==
  ASSUME NEW s, NEW k, NEW q, NEW S, NEW n, NEW b, Side(s, k, q, S, n, b), NoBodiless(S)
  PROVE  Result(After(s, k), Nothing, q, S, n)
<1> DEFINE f == After(s, k)
<1>1. /\ s \in Stream /\ Framed(s) /\ k \in Piece /\ S \in Seq(Sendable) /\ n \in Nat
  BY DEF Side
<1>2. Good(f) /\ Tidy(s, f) /\ f \in Effect
  BY <1>1, AfterGood DEF Good
<1>3. \/ Stuck(f, S) \/ Within(f, q, S, n) \/ Between(f, q, S, n) \/ Over(f, S)
  BY HeldReads
<1> HIDE DEF f
<1>4. Len(f.done) \in {0, 1} /\ (f.done = <<>> <=> Len(f.done) = 0)
  BY <1>2, EffectTypes DEF Tidy
<1>5. Nothing.kind # "head"
  BY DEF Nothing
<1>6. CASE Stuck(f, S)
  <2>1. \E i \in DOMAIN S : Unreadable(S[i])
    BY <1>1, <1>6, LastOne DEF Stuck
  <2>. QED  BY <1>6, <2>1 DEF Stuck, Result, Tells, f
<1>7. CASE Over(f, S)
  BY <1>5, <1>7 DEF Over, Result, Tells, Tracks, Waits, f
<1>8. CASE Within(f, q, S, n)
  <2>1. n + Len(f.done) = n /\ f.out = "more" /\ f.done = <<>>
    BY <1>1, <1>4, <1>8 DEF Within
  <2>2. Following(f.stream, Nothing, q, S) /\ (Bordered(S) => n + 1 = Len(S))
    BY <1>8 DEF Within, Following, Pending
  <2>3. Tracks(f.stream, Nothing, q, S, n, FALSE)
    BY <2>2 DEF Tracks
  <2>4. (f.out = "accepted") = FALSE
    BY <2>1
  <2>. QED  BY <2>1, <2>3, <2>4 DEF Result, Tells, f
<1>9. CASE Between(f, q, S, n)
  <2>1. f.out = "more" /\ Waits(f.stream, Nothing)
    BY <1>5, <1>9 DEF Between, Waits
  <2>2. Bordered(S) => q = <<>> /\ n + Len(f.done) = Len(S)
    <3>1. CASE f.done = <<>>
      <4>1. Len(f.done) = 0 /\ (Bordered(S) => q = <<>> /\ n = Len(S))
        BY <1>4, <1>9, <3>1 DEF Between
      <4>. QED  BY <1>1, <4>1
    <3>2. CASE f.done # <<>>
      <4>1. Len(f.done) = 1 /\ (Bordered(S) => q = <<>> /\ n + 1 = Len(S))
        BY <1>4, <1>9, <3>2 DEF Between
      <4>. QED  BY <4>1
    <3>. QED  BY <3>1, <3>2
  <2>3. Tracks(f.stream, Nothing, q, S, n + Len(f.done), FALSE)
    BY <2>1, <2>2 DEF Tracks
  <2>4. (f.out = "accepted") = FALSE
    BY <2>1
  <2>5. Tells(f, S, n)
    <3> SUFFICES ASSUME Bordered(S), f.done # <<>>
                 PROVE  n + 1 \in DOMAIN S /\ f.done = <<Decoded(S[n + 1])>>
      BY DEF Tells
    <3>1. S # <<>> /\ n + 1 = Len(S) /\ f.done = <<Decoded(S[Len(S)])>>
      BY <1>9 DEF Between
    <3>. QED  BY <1>1, <3>1, LastOne
  <2>. QED  BY <2>1, <2>3, <2>4, <2>5 DEF Result, f
<1>. QED  BY <1>3, <1>6, <1>7, <1>8, <1>9

\* The last fragment: what is left of a side that ends.
Ended(h, q, S) ==
  /\ h.out \in {"more", "accepted"} =>
       \/ h.stream.lex = "initial"
       \/ BodyMode(h.stream) /\ (Bordered(S) => q # <<>>)
  /\ h.out \in {"refused", "gunzip"} /\ NoBodiless(S) =>
       q # <<>> \/ \E i \in DOMAIN S : Unreadable(S[i])

Finish(s, k) ==
  LET f == After(s, k) IN IF f.out = "more" THEN Both(f, Last(f.stream)) ELSE f

LEMMA LastTidy ==
  ASSUME NEW s \in Stream, Framed(s)
  PROVE  /\ Good(Last(s)) /\ Tidy(s, Last(s))
         /\ Last(s).out = "more" => BodyMode(Last(s).stream) /\ BodyMode(s)
         /\ Last(s).out \in {"more", "accepted", "refused"}
         /\ Last(s).done # <<>> => Last(s).out = "refused"
         /\ Last(s).out = "more" => ~Last(s).stream.fresh /\ Last(s).done = <<>>
         /\ s.lex = "initial" => Last(s).out = "accepted"
         /\ Last(s).out \in {"more", "accepted"} /\ Gzips(Last(s).stream) => Gzips(s)
<1>1. CASE BodyMode(s)
  <2>1. Last(s) = On(s) /\ ~s.fresh /\ s.lex # "initial"
    BY <1>1 DEF Last, Framed, BodyMode, Stream
  <2>. QED  BY <1>1, <2>1, OnType, OnTidy, OnIs, ZenonT(30)
<1>2. CASE ~BodyMode(s)
  <2> DEFINE f == EndInput(s)
  <2>1. Last(s) = f
    BY <1>2 DEF Last
  <2>2. Good(f) /\ Tidy(s, f) /\ f.out \in {"accepted", "refused"}
        /\ (f.done # <<>> => f.out = "refused")
        /\ (s.lex = "initial" => f.out = "accepted")
        /\ (f.out = "accepted" /\ Gzips(f.stream) => Gzips(s))
    BY EndInputGood, EndInputTidy
  <2> HIDE DEF f
  <2>. QED  BY <2>1, <2>2
<1>. QED  BY <1>1, <1>2

LEMMA FinishTracks ==
  ASSUME NEW s, NEW k, NEW q, NEW S, NEW n, NEW b, Side(s, k, q, S, n, b)
  PROVE  Ended(Finish(s, k), q, S) /\ Tells(Finish(s, k), S, n)
<1> DEFINE f == After(s, k)
           g == Last(f.stream)
           h == Finish(s, k)
<1>1. /\ s \in Stream /\ Framed(s) /\ k \in Piece /\ S \in Seq(Sendable) /\ n \in Nat
  BY DEF Side
<1>2. Good(f) /\ Tidy(s, f) /\ f \in Effect
      /\ (f.out = "more" => f.stream \in Stream /\ Framed(f.stream))
  BY <1>1, AfterGood DEF Good
<1>3. NoBodiless(S) =>
        \/ Stuck(f, S) \/ Within(f, q, S, n) \/ Between(f, q, S, n) \/ Over(f, S)
  BY HeldReads
<1>4. h = IF f.out = "more" THEN Both(f, g) ELSE f
  BY DEF Finish
<1>5. Bordered(S) => NoBodiless(S)
  BY DEF Bordered, NoBodiless
<1> HIDE DEF f, h
<1>6. /\ f.out \in {"more", "accepted", "refused", "gunzip"} /\ f.done \in Seq(Told)
      /\ f.out = "accepted" => f.stream.lex = "initial"
  BY <1>2, EffectTypes DEF Tidy
<1>7. CASE f.out # "more"
  <2>1. h = f
    BY <1>4, <1>7
  <2>2. NoBodiless(S) => Stuck(f, S) \/ Over(f, S)
    BY <1>3, <1>7 DEF Within, Between
  <2>3. Bordered(S) => Stuck(f, S) /\ f.done = <<>>
    BY <1>5, <2>2 DEF Over, Stuck
  <2>4. NoBodiless(S) /\ f.out \in {"refused", "gunzip"} => \E i \in DOMAIN S : Unreadable(S[i])
    BY <1>1, <2>2, LastOne DEF Stuck, Over
  <2>. QED  BY <1>6, <1>7, <2>1, <2>3, <2>4 DEF Ended, Tells, h
<1>8. CASE f.out = "more"
  <2>1. /\ Good(g) /\ Tidy(f.stream, g) /\ (g.out = "more" => BodyMode(g.stream))
        /\ g.out \in {"more", "accepted", "refused"}
        /\ g.done # <<>> => g.out = "refused"
        /\ (f.stream.lex = "initial" => g.out = "accepted")
        /\ g \in Effect
    BY <1>2, <1>8, LastTidy DEF Good
  <2>2. h = Both(f, g)
    BY <1>4, <1>8
  <2> HIDE DEF g
  <2>3. h.out = g.out /\ h.stream = g.stream /\ h.done = f.done \o g.done
    BY <2>1, <2>2 DEF Both, Effect
  <2>4. NoBodiless(S) => Within(f, q, S, n) \/ Between(f, q, S, n)
    BY <1>3, <1>8 DEF Stuck, Over
  <2>5. NoBodiless(S) => q # <<>> \/ f.stream.lex = "initial"
    BY <1>1, <2>4, LastOne, ReadsMore DEF Within, Between
  <2>6. Ended(h, q, S)
    <3>1. h.out = "accepted" => h.stream.lex = "initial"
      BY <2>1, <2>3 DEF Tidy
    <3>2. h.out = "more" => BodyMode(h.stream) /\ (Bordered(S) => q # <<>>)
      BY <1>5, <2>1, <2>3, <2>5
    <3>3. h.out \in {"refused", "gunzip"} /\ NoBodiless(S) => q # <<>>
      BY <2>1, <2>3, <2>5
    <3>. QED  BY <3>1, <3>2, <3>3 DEF Ended
  <2>7. Tells(h, S, n)
    <3> SUFFICES ASSUME Bordered(S), h.done # <<>>
                 PROVE  n + 1 \in DOMAIN S
                        /\ (h.out # "refused" => h.done = <<Decoded(S[n + 1])>>)
      BY DEF Tells
    <3>1. g.done \in Seq(Told)
      BY <2>1, EffectTypes
    <3>2. CASE Within(f, q, S, n)
      <4>1. h.done = g.done /\ S # <<>> /\ n + 1 = Len(S)
        BY <2>3, <3>1, <3>2, ConcatEmptySeq DEF Within
      <4>. QED  BY <1>1, <2>1, <2>3, <4>1, LastOne
    <3>3. CASE Between(f, q, S, n)
      <4>1. g.done = <<>>
        BY <2>1, <3>3 DEF Between
      <4>2. h.done = f.done
        BY <1>6, <2>3, <4>1, ConcatEmptySeq
      <4>3. S # <<>> /\ n + 1 = Len(S) /\ f.done = <<Decoded(S[Len(S)])>>
        BY <3>3, <4>2 DEF Between
      <4>. QED  BY <1>1, <4>2, <4>3, LastOne
    <3>. QED  BY <1>5, <2>4, <3>2, <3>3
  <2>. QED  BY <2>6, <2>7 DEF h
<1>. QED  BY <1>7, <1>8

-----------------------------------------------------------------------------
(* A connection.                                                           *)

Types ==
  /\ streams \in [Sides -> Stream] /\ held \in [Sides -> Piece]
  /\ rest \in [Sides -> Seq(BodyPiece)] /\ sent \in [Sides -> Seq(Sendable)]
  /\ parsed \in [Sides -> Seq(Told)] /\ dropping \in [Sides -> BOOLEAN]
  /\ greedy \in BOOLEAN /\ ended \subseteq Sides
  /\ refused \in {"none", "client", "server", "hangs"}

SideOf(d) == Side(streams[d], held[d], rest[d], sent[d], Len(parsed[d]), dropping[d])

\* Until a call fails every side is where its messages have brought it.
SidesInv ==
  /\ Types
  /\ refused = "none" => \A d \in Sides :
       /\ Framed(streams[d])
       /\ d \notin ended => SideOf(d)
       /\ ~greedy => held[d] = Nothing

Extends(S, T) == Len(S) <= Len(T) /\ \A i \in DOMAIN S : i \in DOMAIN T /\ T[i] = S[i]

\* What h, which takes a side from its stream s and its line k to the line l,
\* with the messages T sent by then, may do besides.
Sound(s, k, h, l, T) ==
  /\ Good(h) /\ Len(h.done) \in {0, 1}
  /\ h.init => s.fresh
  /\ h.out = "more" /\ h.stream.fresh => s.fresh /\ h.done = <<>>
  /\ h.out = "accepted" => h.stream.lex = "initial" /\ l = Nothing
  /\ h.out = "gunzip" \/ (h.out \in {"more", "accepted"} /\ Packs(h.stream, l)) => Gzipped(T)

Moves(d, r, T) ==
  /\ sent' = [sent EXCEPT ![d] = T] /\ rest' = [rest EXCEPT ![d] = r]
  /\ T \in Seq(Sendable) /\ r \in Seq(BodyPiece) /\ Extends(sent[d], T)

\* A call of a side: its buffer is dropped, or h is what it leads to.
Drops(d, r, T) ==
  /\ Moves(d, r, T) /\ UNCHANGED <<decoder, greedy, ended>>
  /\ Tracks(streams[d], held[d], r, T, Len(parsed[d]), dropping[d])
Takes(d, h, l, r, T) ==
  /\ Moves(d, r, T) /\ UNCHANGED <<greedy, ended>>
  /\ Decode(d, h) /\ held' = [held EXCEPT ![d] = l]
  /\ l \in Piece /\ (~greedy => l = Nothing)
  /\ Sound(streams[d], held[d], h, l, T)
  /\ Result(h, l, r, T, Len(parsed[d]))
Ends(d, h) ==
  /\ UNCHANGED <<peers, greedy>> /\ ended' = ended \cup {d}
  /\ Decode(d, h) /\ held' = [held EXCEPT ![d] = Nothing]
  /\ Sound(streams[d], held[d], h, Nothing, sent[d])
  /\ Ended(h, rest[d], sent[d]) /\ Tells(h, sent[d], Len(parsed[d]))
  /\ ~greedy /\ h.out # "refused" => h.done = <<>>

\* What a step of the connection is for the side d.
Turn(d) ==
  /\ d \in Sides /\ d \notin ended /\ refused = "none"
  /\ \/ \E r, T : Drops(d, r, T)
     \/ \E h, l, r, T : Takes(d, h, l, r, T)
     \/ \E h : Ends(d, h)

LEMMA GzippedGrows ==
  ASSUME NEW S, NEW T, Extends(S, T)
  PROVE  /\ Gzipped(S) => Gzipped(T)
         /\ Bordered(T) => Bordered(S)
<1>1. Gzipped(S) => Gzipped(T)
  BY DEF Extends, Gzipped
<1>2. Bordered(T) => Bordered(S)
  BY DEF Extends, Bordered
<1>. QED  BY <1>1, <1>2

LEMMA BodilessAnything ==
  ASSUME NEW S, ~NoBodiless(S)
  PROVE  /\ ~Bordered(S) /\ \E i \in DOMAIN S : Unreadable(S[i])
         /\ \A s, k, q, n, b : Tracks(s, k, q, S, n, b)
         /\ \A h, k, q, n : Result(h, k, q, S, n)
<1>1. ~Bordered(S)
  BY DEF Bordered, NoBodiless
<1>2. \E i \in DOMAIN S : Unreadable(S[i])
  BY DEF NoBodiless, Unreadable
<1>3. ASSUME NEW s, NEW k, NEW q, NEW n, NEW b
      PROVE  Tracks(s, k, q, S, n, b)
  BY <1>1 DEF Tracks
<1>4. ASSUME NEW h, NEW k, NEW q, NEW n
      PROVE  Result(h, k, q, S, n)
  BY <1>1, <1>3 DEF Result, Tells
<1>. QED  BY <1>1, <1>2, <1>3, <1>4

\* What the line that was held leads to, alone.
LEMMA HeldSound ==
  ASSUME NEW s, NEW k, NEW q, NEW S, NEW n, NEW b, Side(s, k, q, S, n, b),
         NEW T, Extends(S, T)
  PROVE  LET f == After(s, k) IN
         /\ Sound(s, k, f, Nothing, T)
         /\ f.out = "more" => \A p \in Piece :
              (p.kind = "head" /\ p.encoding = "gzip" => Gzipped(T))
                => Sound(s, k, Starts(f, p), p, T)
<1> DEFINE f == After(s, k)
<1>1. /\ s \in Stream /\ Framed(s) /\ k \in Piece /\ (Packs(s, k) => Gzipped(T))
  BY GzippedGrows DEF Side
<1>2. /\ Good(f) /\ Tidy(s, f)
      /\ f.out = "more" => f.stream \in Stream /\ Framed(f.stream)
                           /\ (f.stream.fresh => s.fresh /\ k = Nothing)
      /\ f.out \in {"more", "accepted"} /\ Gzips(f.stream) => Packs(s, k)
  BY <1>1, AfterGood
<1>3. k = Nothing => f.done = <<>>
  BY OnIs DEF f, After
<1>4. f \in Effect
  BY <1>2 DEF Good
<1> HIDE DEF f
<1>5. ~Packs(f.stream, Nothing) \/ Gzips(f.stream)
  BY DEF Packs, Nothing
<1>6. Sound(s, k, f, Nothing, T)
  BY <1>1, <1>2, <1>3, <1>5 DEF Sound, Tidy, Packs
<1>7. ASSUME f.out = "more", NEW p \in Piece,
             p.kind = "head" /\ p.encoding = "gzip" => Gzipped(T)
      PROVE  Sound(s, k, Starts(f, p), p, T)
  <2>1. Packs(f.stream, p) => Gzipped(T)
    BY <1>1, <1>2, <1>7 DEF Packs
  <2>2. CASE p.kind # "head"
    <3>1. Starts(f, p) = f
      BY <2>2 DEF Starts
    <3>. QED  BY <1>2, <1>3, <1>7, <2>1, <3>1 DEF Sound, Tidy
  <2>3. CASE p.kind = "head"
    <3> DEFINE e == [f.stream EXCEPT !.fresh = FALSE]
               h == Starts(f, p)
    <3>1. /\ h.stream = e /\ h.out = "more" /\ h.done = f.done
          /\ h.init = (f.init \/ f.stream.fresh) /\ h \in Effect
      BY <1>2, <1>4, <1>7, <2>3 DEF Starts, Effect, Stream
    <3>2. ~e.fresh /\ Framed(e) /\ e.encoding = f.stream.encoding /\ e.unzip = f.stream.unzip
      BY <1>2, <1>7 DEF Stream, Framed, Unopened
    <3> HIDE DEF e, h
    <3>3. Packs(e, p) => Gzipped(T)
      BY <2>1, <3>2 DEF Packs, Gzips
    <3>4. Sound(s, k, h, p, T)
      BY <1>2, <1>7, <3>1, <3>2, <3>3 DEF Sound, Tidy, Good
    <3>. QED  BY <3>4 DEF h
  <2>. QED  BY <2>2, <2>3
<1>. QED  BY <1>6, <1>7 DEF f

\* What the line that was held and then g lead to.
LEMMA PairSound ==
  ASSUME NEW s, NEW k, NEW q, NEW S, NEW n, NEW b, Side(s, k, q, S, n, b),
         NEW T, Extends(S, T), After(s, k).out = "more",
         NEW g, Good(g), Tidy(After(s, k).stream, g), g.out = "more" => ~g.stream.fresh,
         g.out \in {"more", "accepted"} /\ Gzips(g.stream)
           => Gzips(After(s, k).stream) \/ Gzipped(T)
  PROVE  Sound(s, k, Both(After(s, k), g), Nothing, T)
<1> DEFINE f == After(s, k)
           h == Both(f, g)
<1>1. /\ s \in Stream /\ Framed(s) /\ k \in Piece /\ (Packs(s, k) => Gzipped(T))
  BY GzippedGrows DEF Side
<1>2. /\ Good(f) /\ Tidy(s, f) /\ f.out = "more"
      /\ f.stream.fresh => s.fresh
      /\ Gzips(f.stream) => Packs(s, k)
      /\ f \in Effect
  BY <1>1, AfterGood DEF Good
<1>3. g \in Effect /\ Tidy(f.stream, g)
  BY DEF Good
<1> HIDE DEF f
<1>4. /\ f.done \in Seq(Told) /\ (f.done = <<>> <=> Len(f.done) = 0)
      /\ g.done \in Seq(Told) /\ (g.done = <<>> <=> Len(g.done) = 0)
      /\ f.init \in BOOLEAN /\ g.init \in BOOLEAN
  BY <1>2, <1>3, EffectTypes DEF Effect
<1>5. f.done \o g.done \in Seq(Told) /\ Len(f.done \o g.done) \in {0, 1}
  <2>1. CASE f.done = <<>>
    <3>1. f.done \o g.done = g.done
      BY <1>4, <2>1, ConcatEmptySeq
    <3>. QED  BY <1>3, <1>4, <3>1 DEF Tidy
  <2>2. CASE f.done # <<>>
    <3>1. g.done = <<>>
      BY <1>2, <1>3, <2>2 DEF Tidy
    <3>2. f.done \o g.done = f.done
      BY <1>4, <3>1, ConcatEmptySeq
    <3>. QED  BY <1>2, <1>4, <3>2 DEF Tidy
  <2>. QED  BY <2>1, <2>2
<1>6. /\ h.stream = g.stream /\ h.out = g.out /\ h.done = f.done \o g.done
      /\ h.init = (f.init \/ g.init)
  BY <1>3 DEF Both, Effect
<1>7. h \in Effect
  BY <1>3, <1>4, <1>5 DEF Both, Effect
<1> HIDE DEF h
<1>8. Good(h)
  BY <1>6, <1>7 DEF Good
<1>9. h.init => s.fresh
  BY <1>2, <1>3, <1>6 DEF Tidy
<1>10. ~Packs(h.stream, Nothing) \/ Gzips(g.stream)
  BY <1>6 DEF Packs, Nothing
<1>11. h.out = "gunzip" => Gzipped(T)
  BY <1>1, <1>2, <1>3, <1>6 DEF Tidy
<1>12. h.out \in {"more", "accepted"} /\ Packs(h.stream, Nothing) => Gzipped(T)
  BY <1>1, <1>2, <1>6, <1>10 DEF f
<1>13. Sound(s, k, h, Nothing, T)
  BY <1>3, <1>5, <1>6, <1>8, <1>9, <1>11, <1>12 DEF Sound, Tidy
<1>. QED  BY <1>13 DEF f, h

\* The call of a piece p, when what it reads does not depend on whether the
\* line that was held is decoded now or was before.
LEMMA CallTurns ==
  ASSUME SidesInv, refused = "none", NEW d \in Sides, d \notin ended,
         NEW p \in Piece, NEW r, NEW T, Moves(d, r, T), UNCHANGED <<greedy, ended>>,
         p.kind = "head" /\ p.encoding = "gzip" => Gzipped(T),
         dropping[d] => Tracks(streams[d], held[d], r, T, Len(parsed[d]), dropping[d]),
         After(streams[d], held[d]).out # "more" =>
           Result(After(streams[d], held[d]), Nothing, r, T, Len(parsed[d])),
         After(streams[d], held[d]).out = "more" /\ Keeps(After(streams[d], held[d]).stream, p) =>
           Result(Starts(After(streams[d], held[d]), p), p, r, T, Len(parsed[d])),
         After(streams[d], held[d]).out = "more" =>
           Result(Both(After(streams[d], held[d]), Feed(After(streams[d], held[d]).stream, p)),
                  Nothing, r, T, Len(parsed[d])),
         Call(d, p)
  PROVE  Turn(d)
<1> DEFINE s == streams[d]
           k == held[d]
           f == After(s, k)
           g == Feed(f.stream, p)
           n == Len(parsed[d])
<1>1. /\ Side(s, k, rest[d], sent[d], n, dropping[d]) /\ Extends(sent[d], T)
      /\ Nothing \in Piece
  BY DEF SidesInv, SideOf, Moves, Nothing, Piece
<1>2. /\ Sound(s, k, f, Nothing, T)
      /\ f.out = "more" => Sound(s, k, Starts(f, p), p, T)
  BY <1>1, HeldSound
<1>3. f.out = "more" => Sound(s, k, Both(f, g), Nothing, T)
  <2> SUFFICES ASSUME f.out = "more" PROVE Sound(s, k, Both(f, g), Nothing, T)
    OBVIOUS
  <2>1. f.stream \in Stream /\ Framed(f.stream)
    <3>1. s \in Stream /\ Framed(s) /\ k \in Piece
      BY <1>1 DEF Side
    <3>. QED  BY <3>1, AfterGood
  <2>2. Good(g) /\ Feeds(f.stream, p, g)
    BY <2>1, FeedGood, FeedTidy
  <2>3. /\ Tidy(f.stream, g) /\ (g.out = "more" => ~g.stream.fresh)
        /\ g.out \in {"more", "accepted"} /\ Gzips(g.stream) => Gzips(f.stream) \/ Gzipped(T)
    BY <2>2 DEF Feeds
  <2> HIDE DEF g
  <2>. QED  BY <1>1, <2>2, <2>3, PairSound
<1>4. FeedHeld(d) = f
  BY DEF FeedHeld, After
<1>5. \/ dropping[d] /\ UNCHANGED decoder
      \/ f.out # "more" /\ Decode(d, f) /\ held' = [held EXCEPT ![d] = Nothing]
      \/ /\ f.out = "more" /\ Keeps(f.stream, p)
         /\ Decode(d, Starts(f, p)) /\ held' = [held EXCEPT ![d] = p]
      \/ f.out = "more" /\ Decode(d, Both(f, g)) /\ held' = [held EXCEPT ![d] = Nothing]
  BY <1>4 DEF Call
<1>6. /\ f.out # "more" => Result(f, Nothing, r, T, n)
      /\ f.out = "more" /\ Keeps(f.stream, p) => Result(Starts(f, p), p, r, T, n)
      /\ f.out = "more" => Result(Both(f, g), Nothing, r, T, n)
      /\ dropping[d] => Tracks(s, k, r, T, n, dropping[d])
  OBVIOUS
<1> HIDE DEF f, g
<1>7. CASE dropping[d] /\ UNCHANGED decoder
  <2>1. Drops(d, r, T)
    BY <1>6, <1>7 DEF Drops, s, k, n
  <2>. QED  BY <2>1 DEF Turn
<1>8. CASE f.out # "more" /\ Decode(d, f) /\ held' = [held EXCEPT ![d] = Nothing]
  <2>1. Takes(d, f, Nothing, r, T)
    BY <1>1, <1>2, <1>6, <1>8 DEF Takes, s, k, n
  <2>. QED  BY <2>1 DEF Turn
<1>9. CASE /\ f.out = "more" /\ Keeps(f.stream, p)
           /\ Decode(d, Starts(f, p)) /\ held' = [held EXCEPT ![d] = p]
  <2>1. greedy
    BY <1>9 DEF Keeps
  <2>2. Takes(d, Starts(f, p), p, r, T)
    BY <1>1, <1>2, <1>6, <1>9, <2>1 DEF Takes, s, k, n
  <2>. QED  BY <2>2 DEF Turn
<1>10. CASE f.out = "more" /\ Decode(d, Both(f, g)) /\ held' = [held EXCEPT ![d] = Nothing]
  <2>1. Takes(d, Both(f, g), Nothing, r, T)
    BY <1>1, <1>3, <1>6, <1>10 DEF Takes, s, k, n
  <2>. QED  BY <2>1 DEF Turn
<1>. QED  BY <1>5, <1>7, <1>8, <1>9, <1>10

LEMMA BeginTurns ==
  ASSUME SidesInv, NEW d \in Sides, NEW m \in Sendable, Begin(d, m)
  PROVE  Turn(d)
<1> DEFINE s == streams[d]
           k == held[d]
           S == sent[d]
           T == Append(S, m)
           p == HeadOf(m)
           r == BodyPieces(m)
           n == Len(parsed[d])
           f == After(s, k)
           g == Feed(f.stream, p)
<1>1. /\ refused = "none" /\ d \notin ended /\ rest[d] = <<>>
      /\ sent' = [sent EXCEPT ![d] = T] /\ rest' = [rest EXCEPT ![d] = r]
      /\ Call(d, p) /\ UNCHANGED <<greedy, ended>>
  BY DEF Begin, Live
<1>2. Side(s, k, <<>>, S, n, dropping[d])
  BY <1>1 DEF SidesInv, SideOf
<1>3. S \in Seq(Sendable) /\ p \in Piece /\ r \in Seq(BodyPiece)
  BY <1>2, PieceTypes, BodyComes DEF Side
<1>4. /\ T \in Seq(Sendable) /\ T # <<>> /\ T[Len(T)] = m /\ Len(T) = Len(S) + 1
      /\ \A i \in DOMAIN S : i \in DOMAIN T /\ T[i] = S[i]
  BY <1>3, AppendOne
<1>5. Len(S) \in Nat /\ Len(T) \in DOMAIN T
  BY <1>3, <1>4, LastOne, LenProperties
<1> HIDE DEF T, r, p
<1>6. Moves(d, r, T)
  BY <1>1, <1>3, <1>4, <1>5 DEF Moves, Extends
<1>7. p.kind = "head" /\ p.encoding = "gzip" => Gzipped(T)
  <2>1. p.encoding = m.encoding
    BY DEF p, HeadOf
  <2>. QED  BY <1>4, <1>5, <2>1 DEF Gzipped
<1>8. /\ dropping[d] => Tracks(s, k, r, T, n, dropping[d])
      /\ f.out # "more" => Result(f, Nothing, r, T, n)
      /\ f.out = "more" => Result(Starts(f, p), p, r, T, n)
      /\ f.out = "more" => Result(Both(f, g), Nothing, r, T, n)
  <2>1. CASE NoBodiless(T)
    BY <1>2, <2>1, HeadTracks DEF T, p, r
  <2>2. CASE ~NoBodiless(T)
    BY <2>2, BodilessAnything
  <2>. QED  BY <2>1, <2>2
<1>. QED  BY <1>1, <1>3, <1>6, <1>7, <1>8, CallTurns

LEMMA LineTurns ==
  ASSUME SidesInv, NEW d \in Sides, refused = "none", d \notin ended, rest[d] # <<>>,
         NEW p, NEW r, Delivers(rest[d], p, r), rest' = [rest EXCEPT ![d] = r],
         UNCHANGED <<sent, greedy, ended>>, Call(d, p)
  PROVE  Turn(d)
<1> DEFINE s == streams[d]
           k == held[d]
           S == sent[d]
           q == rest[d]
           n == Len(parsed[d])
           f == After(s, k)
           g == Feed(f.stream, p)
<1>1. Side(s, k, q, S, n, dropping[d])
  BY DEF SidesInv, SideOf
<1>2. S \in Seq(Sendable) /\ q \in Seq(BodyPiece) /\ q # <<>> /\ Len(S) \in Nat
  BY <1>1, LenProperties DEF Side
<1>3. p \in BodyPiece /\ r \in Seq(BodyPiece)
  <2>1. Head(q) \in BodyPiece /\ Tail(q) \in Seq(BodyPiece)
    BY <1>2, HeadTailProperties
  <2>2. CASE p = Head(q) /\ r = Tail(q)
    BY <2>1, <2>2
  <2>3. ASSUME Head(q).kind = "bytes", NEW j \in 1..Len(Head(q).outs),
               p = Bytes(SubSeq(Head(q).outs, 1, j)),
               r = IF j = Len(Head(q).outs) THEN Tail(q)
                   ELSE <<Bytes(SubSeq(Head(q).outs, j + 1, Len(Head(q).outs)))>> \o Tail(q)
        PROVE  p \in BodyPiece /\ r \in Seq(BodyPiece)
    <3> DEFINE o == Head(q).outs
    <3>1. o \in Runs /\ Len(o) \in Nat
      BY <2>1, <2>3, LenProperties DEF BodyPiece, Piece, Runs
    <3> HIDE DEF o
    <3>2. SubSeq(o, 1, j) \in Runs /\ (j # Len(o) => SubSeq(o, j + 1, Len(o)) \in Runs)
      BY <2>3, <3>1, SubSeqProperties DEF Runs, o
    <3>3. \A x \in Runs : Bytes(x) \in BodyPiece
      BY DEF Bytes, BodyPiece, Piece
    <3>4. p \in BodyPiece
      BY <2>3, <3>2, <3>3 DEF o
    <3>5. CASE j = Len(o)
      BY <2>1, <2>3, <3>4, <3>5 DEF o
    <3>6. CASE j # Len(o)
      <4> DEFINE y == Bytes(SubSeq(o, j + 1, Len(o)))
      <4>1. y \in BodyPiece /\ r = <<y>> \o Tail(q)
        BY <2>3, <3>2, <3>3, <3>6 DEF o
      <4> HIDE DEF y
      <4>. QED  BY <2>1, <3>4, <4>1
    <3>. QED  BY <3>5, <3>6
  <2>. QED  BY <2>2, <2>3 DEF Delivers
<1>4. Extends(S, S) /\ sent' = [sent EXCEPT ![d] = S]
  BY <1>2 DEF Extends, SidesInv, Types
<1>5. Moves(d, r, S)
  BY <1>2, <1>3, <1>4 DEF Moves
<1>6. p \in Piece /\ p.kind # "head"
  BY <1>3 DEF BodyPiece
<1>7. r \in Seq(Piece)
  BY <1>3, BodyPiecesArePieces
<1>8. /\ dropping[d] => Tracks(s, k, r, S, n, dropping[d])
      /\ f.out # "more" => Result(f, Nothing, r, S, n)
      /\ f.out = "more" /\ Keeps(f.stream, p) => Result(Starts(f, p), p, r, S, n)
      /\ f.out = "more" => Result(Both(f, g), Nothing, r, S, n)
  <2>1. CASE NoBodiless(S)
    BY <1>1, <1>2, <1>6, <1>7, <2>1, LineTracks
  <2>2. CASE ~NoBodiless(S)
    BY <2>2, BodilessAnything
  <2>. QED  BY <2>1, <2>2
<1>. QED  BY <1>5, <1>6, <1>8, CallTurns

LEMMA MoreTurns ==
  ASSUME SidesInv, NEW d \in Sides, More(d)
  PROVE  Turn(d)
<1>1. /\ refused = "none" /\ d \notin ended /\ rest[d] # <<>>
      /\ UNCHANGED <<sent, greedy, ended>>
  BY DEF More, Live
<1> DEFINE q == rest[d]
           p == Head(q)
<1>2. CASE p.kind # "bytes" /\ rest' = [rest EXCEPT ![d] = Tail(@)] /\ Call(d, p)
  <2>1. Delivers(q, p, Tail(q)) /\ rest' = [rest EXCEPT ![d] = Tail(q)]
    BY <1>1, <1>2 DEF Delivers
  <2>. QED  BY <1>1, <1>2, <2>1, LineTurns
<1>3. ASSUME p.kind = "bytes", NEW k \in 1..Len(p.outs),
             Call(d, Bytes(SubSeq(p.outs, 1, k))),
             rest' = [rest EXCEPT ![d] =
               IF k = Len(p.outs) THEN Tail(@)
               ELSE <<Bytes(SubSeq(p.outs, k + 1, Len(p.outs)))>> \o Tail(@)]
      PROVE  Turn(d)
  <2> DEFINE b == Bytes(SubSeq(p.outs, 1, k))
             r == IF k = Len(p.outs) THEN Tail(q)
                  ELSE <<Bytes(SubSeq(p.outs, k + 1, Len(p.outs)))>> \o Tail(q)
  <2>1. Delivers(q, b, r) /\ rest' = [rest EXCEPT ![d] = r]
    BY <1>1, <1>3 DEF Delivers
  <2>2. Call(d, b)
    BY <1>3
  <2> HIDE DEF b, r
  <2>. QED  BY <1>1, <2>1, <2>2, LineTurns
<1>. QED  BY <1>2, <1>3 DEF More

LEMMA CutTurns ==
  ASSUME SidesInv, NEW d \in Sides, Cut(d)
  PROVE  Turn(d)
<1> DEFINE s == streams[d]
           k == held[d]
           S == sent[d]
           q == rest[d]
           n == Len(parsed[d])
           f == After(s, k)
<1>1. /\ refused = "none" /\ d \notin ended /\ Decode(d, FeedHeld(d))
      /\ held' = [held EXCEPT ![d] = Nothing] /\ UNCHANGED <<peers, greedy, ended>>
  BY DEF Cut, Live
<1>2. Side(s, k, q, S, n, dropping[d])
  BY <1>1 DEF SidesInv, SideOf
<1>3. S \in Seq(Sendable) /\ q \in Seq(BodyPiece) /\ Len(S) \in Nat
  BY <1>2, LenProperties DEF Side
<1>4. Extends(S, S) /\ sent' = [sent EXCEPT ![d] = S] /\ rest' = [rest EXCEPT ![d] = q]
  BY <1>1, <1>3 DEF Extends, SidesInv, Types, peers
<1>5. Moves(d, q, S)
  BY <1>3, <1>4 DEF Moves
<1>6. Sound(s, k, f, Nothing, S)
  BY <1>2, <1>4, HeldSound
<1>7. Result(f, Nothing, q, S, n)
  <2>1. CASE NoBodiless(S)
    BY <1>2, <2>1, CutTracks
  <2>2. CASE ~NoBodiless(S)
    BY <2>2, BodilessAnything
  <2>. QED  BY <2>1, <2>2
<1>8. FeedHeld(d) = f /\ Nothing \in Piece
  BY DEF FeedHeld, After, Nothing, Piece
<1> HIDE DEF f
<1>9. Takes(d, f, Nothing, q, S)
  BY <1>1, <1>5, <1>6, <1>7, <1>8 DEF Takes
<1>. QED  BY <1>1, <1>9 DEF Turn

LEMMA EndTurns ==
  ASSUME SidesInv, NEW d \in Sides, End(d)
  PROVE  Turn(d)
<1> DEFINE s == streams[d]
           k == held[d]
           S == sent[d]
           q == rest[d]
           n == Len(parsed[d])
           f == After(s, k)
           g == Last(f.stream)
           h == Finish(s, k)
<1>1. /\ refused = "none" /\ d \notin ended
      /\ Decode(d, IF FeedHeld(d).out = "more"
                   THEN Both(FeedHeld(d), Last(FeedHeld(d).stream)) ELSE FeedHeld(d))
      /\ held' = [held EXCEPT ![d] = Nothing] /\ UNCHANGED <<peers, greedy>>
      /\ ended' = ended \cup {d}
  BY DEF End, Live
<1>2. Side(s, k, q, S, n, dropping[d]) /\ (~greedy => k = Nothing)
  BY <1>1 DEF SidesInv, SideOf
<1>3. S \in Seq(Sendable) /\ Len(S) \in Nat /\ s \in Stream /\ Framed(s) /\ k \in Piece
  BY <1>2, LenProperties DEF Side
<1>4. Extends(S, S)
  BY <1>3 DEF Extends
<1>5. Ended(h, q, S) /\ Tells(h, S, n)
  BY <1>2, FinishTracks
<1>6. FeedHeld(d) = f
  BY DEF FeedHeld, After
<1>7. h = IF f.out = "more" THEN Both(f, g) ELSE f
  BY DEF Finish
<1>8. f.out = "more" =>
        /\ Good(g) /\ Tidy(f.stream, g) /\ (g.out = "more" => ~g.stream.fresh)
        /\ g.out \in {"more", "accepted"} /\ Gzips(g.stream) => Gzips(f.stream)
        /\ g.done # <<>> => g.out = "refused"
  BY <1>3, AfterGood, LastTidy
<1>9. k = Nothing => f.out = "more" /\ f.done = <<>>
  BY OnIs DEF f, After
<1>10. Decode(d, h)
  BY <1>1, <1>6, <1>7
<1> HIDE DEF h, g
<1>11. /\ f.out = "more" => /\ Sound(s, k, Both(f, g), Nothing, S)
                            /\ Both(f, g).out = g.out
                            /\ Both(f, g).done = f.done \o g.done
       /\ Sound(s, k, f, Nothing, S)
  <2>1. Sound(s, k, f, Nothing, S)
    BY <1>2, <1>4, HeldSound
  <2>2. f.out = "more" => /\ Sound(s, k, Both(f, g), Nothing, S)
                          /\ Both(f, g).out = g.out
                          /\ Both(f, g).done = f.done \o g.done
    <3> SUFFICES ASSUME f.out = "more"
                 PROVE  /\ Sound(s, k, Both(f, g), Nothing, S)
                        /\ Both(f, g).out = g.out
                        /\ Both(f, g).done = f.done \o g.done
      OBVIOUS
    <3>1. /\ Good(g) /\ Tidy(f.stream, g) /\ (g.out = "more" => ~g.stream.fresh)
          /\ g.out \in {"more", "accepted"} /\ Gzips(g.stream)
               => Gzips(f.stream) \/ Gzipped(S)
      BY <1>8
    <3>2. Side(s, k, q, S, n, dropping[d]) /\ Extends(S, S)
      BY <1>2, <1>4
    <3> HIDE DEF s, k, q, S, n
    <3>3. f = After(s, k) /\ f.out = "more"
      OBVIOUS
    <3> HIDE DEF f
    <3>4. Sound(s, k, Both(f, g), Nothing, S)
      BY <3>1, <3>2, <3>3, PairSound
    <3>5. Both(f, g).out = g.out /\ Both(f, g).done = f.done \o g.done
      BY <3>1 DEF Both, Good, Effect
    <3>. QED  BY <3>4, <3>5
  <2>. QED  BY <2>1, <2>2
<1> HIDE DEF f
<1>12. Sound(s, k, h, Nothing, S)
  BY <1>7, <1>11
<1>13. ~greedy /\ h.out # "refused" => h.done = <<>>
  <2>1. k = Nothing /\ h.out # "refused" => h.done = <<>> \o <<>>
    BY <1>7, <1>8, <1>9, <1>11
  <2>2. <<>> \o <<>> = <<>>
    OBVIOUS
  <2>. QED  BY <1>2, <2>1, <2>2
<1>14. Ends(d, h)
  BY <1>1, <1>5, <1>10, <1>12, <1>13 DEF Ends
<1>. QED  BY <1>1, <1>14 DEF Turn

\* Every step is the turn of one side.
LEMMA NextTurns ==
  ASSUME SidesInv, Next
  PROVE  \E d \in Sides : Turn(d)
<1>0. "client" \in Sides /\ "server" \in Sides
  BY DEF Sides
<1>1. ASSUME NEW m \in Requests, Request(m) PROVE Turn("client")
  BY <1>0, <1>1, BeginTurns DEF Request, Sendable
<1>2. ASSUME NEW m \in Responses, NEW interim \in BOOLEAN, Response(m, interim)
      PROVE  Turn("server")
  BY <1>0, <1>2, BeginTurns DEF Response, Sendable
<1>. QED  BY <1>0, <1>1, <1>2, MoreTurns, CutTurns, EndTurns DEF Next

\* What a call changes on its side and elsewhere.
LEMMA DecodeIs ==
  ASSUME Types, NEW d \in Sides, NEW h, Good(h), Decode(d, h)
  PROVE  /\ streams' \in [Sides -> Stream] /\ parsed' \in [Sides -> Seq(Told)]
         /\ dropping' \in [Sides -> BOOLEAN]
         /\ streams'[d] = h.stream /\ parsed'[d] = parsed[d] \o h.done
         /\ Len(parsed'[d]) = Len(parsed[d]) + Len(h.done)
         /\ dropping'[d] = (h.out = "accepted")
         /\ \A e \in Sides \ {d} : /\ streams'[e] = streams[e] /\ parsed'[e] = parsed[e]
                                   /\ dropping'[e] = dropping[e]
         /\ h.out \in {"more", "accepted"} => refused' = refused
         /\ h.out = "refused" => refused' = d
         /\ h.out = "gunzip" => refused' \in {d, "hangs"}
         /\ h.out \in {"more", "accepted", "refused", "gunzip"}
<1>1. h \in Effect
  BY DEF Good
<1>2. h.stream \in Stream /\ h.done \in Seq(Told) /\ h.out \in {"more", "accepted", "refused", "gunzip"}
  BY <1>1, EffectTypes
<1>3. parsed[d] \in Seq(Told)
  BY DEF Types
<1>4. /\ parsed[d] \o h.done \in Seq(Told)
      /\ Len(parsed[d] \o h.done) = Len(parsed[d]) + Len(h.done)
  BY <1>2, <1>3, ConcatProperties
<1>5. /\ streams' = [streams EXCEPT ![d] = h.stream]
      /\ parsed' = [parsed EXCEPT ![d] = @ \o h.done]
      /\ dropping' = [dropping EXCEPT ![d] = h.out = "accepted"]
  BY DEF Decode, Complete
<1>6. /\ streams \in [Sides -> Stream] /\ parsed \in [Sides -> Seq(Told)]
      /\ dropping \in [Sides -> BOOLEAN]
  BY DEF Types
<1>7. /\ h.out \in {"more", "accepted"} => refused' = refused
      /\ h.out = "refused" => refused' = d
      /\ h.out = "gunzip" => refused' \in {d, "hangs"}
  BY DEF Decode
<1>8. /\ streams' \in [Sides -> Stream] /\ streams'[d] = h.stream
      /\ \A e \in Sides \ {d} : streams'[e] = streams[e]
  BY <1>2, <1>5, <1>6
<1>9. /\ parsed' \in [Sides -> Seq(Told)] /\ parsed'[d] = parsed[d] \o h.done
      /\ \A e \in Sides \ {d} : parsed'[e] = parsed[e]
  BY <1>4, <1>5, <1>6
<1>10. /\ dropping' \in [Sides -> BOOLEAN] /\ dropping'[d] = (h.out = "accepted")
       /\ \A e \in Sides \ {d} : dropping'[e] = dropping[e]
  BY <1>5, <1>6
<1>. QED  BY <1>2, <1>4, <1>7, <1>8, <1>9, <1>10

LEMMA MovesIs ==
  ASSUME Types, NEW d \in Sides, NEW r, NEW T, Moves(d, r, T)
  PROVE  /\ sent' \in [Sides -> Seq(Sendable)] /\ rest' \in [Sides -> Seq(BodyPiece)]
         /\ sent'[d] = T /\ rest'[d] = r /\ Extends(sent[d], sent'[d])
         /\ \A e \in Sides \ {d} : sent'[e] = sent[e] /\ rest'[e] = rest[e]
BY DEF Types, Moves

\* The stream that a call leaves is where the messages sent by then bring it.
LEMMA SoundSide ==
  ASSUME NEW s, NEW k, NEW h, NEW l \in Piece, NEW T \in Seq(Sendable),
         NEW r \in Seq(BodyPiece), NEW n \in Nat,
         Sound(s, k, h, l, T), Result(h, l, r, T, n), h.out \in {"more", "accepted"}
  PROVE  Side(h.stream, l, r, T, n + Len(h.done), h.out = "accepted")
<1>1. h.stream \in Stream /\ Framed(h.stream) /\ Len(h.done) \in Nat
  BY EffectTypes DEF Sound, Good
<1>. QED  BY <1>1 DEF Sound, Result, Side

LEMMA TurnTypes ==
  ASSUME SidesInv, NEW d \in Sides, Turn(d)
  PROVE  /\ Types' /\ (ended' = ended \/ ended' = ended \cup {d})
         /\ \A e \in Sides : Extends(sent[e], sent'[e])
         /\ \A e \in Sides \ {d} : /\ streams'[e] = streams[e] /\ parsed'[e] = parsed[e]
                                   /\ dropping'[e] = dropping[e] /\ sent'[e] = sent[e]
                                   /\ rest'[e] = rest[e] /\ held'[e] = held[e]
         /\ greedy' = greedy
<1>0. Types /\ refused = "none" /\ d \in {"client", "server"} /\ Nothing \in Piece
  BY DEF SidesInv, Turn, Sides, Nothing, Piece
<1>1. \A e \in Sides : Extends(sent[e], sent[e])
  <2> SUFFICES ASSUME NEW e \in Sides PROVE Extends(sent[e], sent[e])
    OBVIOUS
  <2>1. Len(sent[e]) \in Nat
    BY <1>0, LenProperties DEF Types
  <2>. QED  BY <2>1 DEF Extends
<1>2. ASSUME NEW r, NEW T, Drops(d, r, T)
      PROVE  /\ Types' /\ ended' = ended
             /\ \A e \in Sides : Extends(sent[e], sent'[e])
             /\ \A e \in Sides \ {d} : /\ streams'[e] = streams[e] /\ parsed'[e] = parsed[e]
                                       /\ dropping'[e] = dropping[e] /\ sent'[e] = sent[e]
                                       /\ rest'[e] = rest[e] /\ held'[e] = held[e]
             /\ greedy' = greedy
  <2>1. Moves(d, r, T) /\ UNCHANGED <<decoder, greedy, ended>>
    BY <1>2 DEF Drops
  <2>. QED  BY <1>0, <1>1, <2>1, MovesIs DEF Types, decoder
<1>3. ASSUME NEW h, NEW l, NEW r, NEW T, Takes(d, h, l, r, T)
      PROVE  /\ Types' /\ ended' = ended
             /\ \A e \in Sides : Extends(sent[e], sent'[e])
             /\ \A e \in Sides \ {d} : /\ streams'[e] = streams[e] /\ parsed'[e] = parsed[e]
                                       /\ dropping'[e] = dropping[e] /\ sent'[e] = sent[e]
                                       /\ rest'[e] = rest[e] /\ held'[e] = held[e]
             /\ greedy' = greedy
  <2>1. /\ Moves(d, r, T) /\ UNCHANGED <<greedy, ended>> /\ Decode(d, h) /\ Good(h)
        /\ held' = [held EXCEPT ![d] = l] /\ l \in Piece
    BY <1>3 DEF Takes, Sound
  <2>2. held' \in [Sides -> Piece] /\ \A e \in Sides \ {d} : held'[e] = held[e]
    BY <1>0, <2>1 DEF Types
  <2>3. refused' \in {"none", "client", "server", "hangs"}
    BY <1>0, <2>1, DecodeIs
  <2>4. /\ sent' \in [Sides -> Seq(Sendable)] /\ rest' \in [Sides -> Seq(BodyPiece)]
        /\ Extends(sent[d], sent'[d])
        /\ \A e \in Sides \ {d} : sent'[e] = sent[e] /\ rest'[e] = rest[e]
    BY <1>0, <2>1, MovesIs
  <2>5. /\ streams' \in [Sides -> Stream] /\ parsed' \in [Sides -> Seq(Told)]
        /\ dropping' \in [Sides -> BOOLEAN]
        /\ \A e \in Sides \ {d} : /\ streams'[e] = streams[e] /\ parsed'[e] = parsed[e]
                                  /\ dropping'[e] = dropping[e]
    BY <1>0, <2>1, DecodeIs
  <2>. QED  BY <1>0, <1>1, <2>1, <2>2, <2>3, <2>4, <2>5 DEF Types
<1>4. ASSUME NEW h, Ends(d, h)
      PROVE  /\ Types' /\ ended' = ended \cup {d}
             /\ \A e \in Sides : Extends(sent[e], sent'[e])
             /\ \A e \in Sides \ {d} : /\ streams'[e] = streams[e] /\ parsed'[e] = parsed[e]
                                       /\ dropping'[e] = dropping[e] /\ sent'[e] = sent[e]
                                       /\ rest'[e] = rest[e] /\ held'[e] = held[e]
             /\ greedy' = greedy
  <2>1. /\ UNCHANGED <<peers, greedy>> /\ ended' = ended \cup {d} /\ Decode(d, h) /\ Good(h)
        /\ held' = [held EXCEPT ![d] = Nothing]
    BY <1>4 DEF Ends, Sound
  <2>2. held' \in [Sides -> Piece] /\ \A e \in Sides \ {d} : held'[e] = held[e]
    BY <1>0, <2>1 DEF Types
  <2>3. refused' \in {"none", "client", "server", "hangs"}
    BY <1>0, <2>1, DecodeIs
  <2>4. sent' = sent /\ rest' = rest
    BY <2>1 DEF peers
  <2>. QED  BY <1>0, <1>1, <2>1, <2>2, <2>3, <2>4, DecodeIs DEF Types
<1>. QED  BY <1>2, <1>3, <1>4 DEF Turn

LEMMA TurnSide ==
  ASSUME SidesInv, NEW d \in Sides, Turn(d), refused' = "none"
  PROVE  /\ Framed(streams'[d]) /\ (d \notin ended' => SideOf(d)')
         /\ ~greedy => held'[d] = Nothing
<1>0. /\ Types /\ refused = "none" /\ d \in {"client", "server"} /\ d \notin ended
      /\ Framed(streams[d]) /\ SideOf(d) /\ (~greedy => held[d] = Nothing)
  BY DEF SidesInv, Turn, Sides
<1>1. parsed[d] \in Seq(Told) /\ Len(parsed[d]) \in Nat
  BY <1>0, LenProperties DEF Types
<1>2. ASSUME NEW r, NEW T, Drops(d, r, T)
      PROVE  Framed(streams'[d]) /\ SideOf(d)' /\ (~greedy => held'[d] = Nothing)
  <2>1. /\ Moves(d, r, T) /\ UNCHANGED <<decoder, greedy, ended>>
        /\ Tracks(streams[d], held[d], r, T, Len(parsed[d]), dropping[d])
    BY <1>2 DEF Drops
  <2>2. /\ sent'[d] = T /\ rest'[d] = r /\ streams' = streams /\ held' = held
        /\ parsed' = parsed /\ dropping' = dropping
        /\ T \in Seq(Sendable) /\ r \in Seq(BodyPiece) /\ Extends(sent[d], T)
    BY <1>0, <2>1, MovesIs DEF decoder, Moves
  <2>3. Gzipped(sent[d]) => Gzipped(T)
    BY <2>2, GzippedGrows
  <2>4. Side(streams[d], held[d], r, T, Len(parsed[d]), dropping[d])
    BY <1>0, <2>1, <2>2, <2>3 DEF SideOf, Side
  <2>5. SideOf(d)'
    BY <2>2, <2>4 DEF SideOf
  <2>. QED  BY <1>0, <2>2, <2>5
<1>3. ASSUME NEW h, NEW l, NEW r, NEW T, Takes(d, h, l, r, T)
      PROVE  Framed(streams'[d]) /\ SideOf(d)' /\ (~greedy => held'[d] = Nothing)
  <2>1. /\ Moves(d, r, T) /\ Decode(d, h) /\ Good(h) /\ held'[d] = l
        /\ l \in Piece /\ Sound(streams[d], held[d], h, l, T)
        /\ Result(h, l, r, T, Len(parsed[d])) /\ (~greedy => l = Nothing)
    BY <1>0, <1>3 DEF Takes, Sound, Types
  <2>2. /\ sent'[d] = T /\ rest'[d] = r /\ T \in Seq(Sendable) /\ r \in Seq(BodyPiece)
    BY <1>0, <2>1, MovesIs DEF Moves
  <2>3. /\ streams'[d] = h.stream /\ Len(parsed'[d]) = Len(parsed[d]) + Len(h.done)
        /\ dropping'[d] = (h.out = "accepted") /\ h.out \in {"more", "accepted"}
    BY <1>0, <2>1, DecodeIs
  <2>4. Side(h.stream, l, r, T, Len(parsed[d]) + Len(h.done), h.out = "accepted")
    BY <1>1, <2>1, <2>2, <2>3, SoundSide
  <2>5. SideOf(d)'
    BY <2>1, <2>2, <2>3, <2>4 DEF SideOf
  <2>6. Framed(h.stream)
    BY <2>1, <2>3 DEF Good
  <2>. QED  BY <2>1, <2>3, <2>5, <2>6
<1>4. ASSUME NEW h, Ends(d, h)
      PROVE  Framed(streams'[d]) /\ d \in ended' /\ held'[d] = Nothing
  <2>1. /\ ended' = ended \cup {d} /\ Decode(d, h) /\ Good(h)
        /\ held'[d] = Nothing
    BY <1>0, <1>4 DEF Ends, Sound, Types
  <2>2. streams'[d] = h.stream /\ h.out \in {"more", "accepted"}
    BY <1>0, <2>1, DecodeIs
  <2>. QED  BY <2>1, <2>2 DEF Good
<1>. QED  BY <1>2, <1>3, <1>4 DEF Turn

LEMMA TurnKeeps ==
  ASSUME SidesInv, NEW d \in Sides, Turn(d)
  PROVE  SidesInv'
<1>1. /\ Types' /\ (ended' = ended \/ ended' = ended \cup {d})
      /\ \A e \in Sides \ {d} : /\ streams'[e] = streams[e] /\ parsed'[e] = parsed[e]
                                /\ dropping'[e] = dropping[e] /\ sent'[e] = sent[e]
                                /\ rest'[e] = rest[e] /\ held'[e] = held[e]
      /\ greedy' = greedy
  BY TurnTypes
<1>2. refused = "none"
  BY DEF Turn
<1>3. ASSUME refused' = "none", NEW e \in Sides
      PROVE  /\ Framed(streams'[e]) /\ (e \notin ended' => SideOf(e)')
             /\ ~greedy' => held'[e] = Nothing
  <2>1. CASE e = d
    BY <1>1, <1>3, <2>1, TurnSide
  <2>2. CASE e # d
    <3>1. /\ streams'[e] = streams[e] /\ parsed'[e] = parsed[e]
          /\ dropping'[e] = dropping[e] /\ sent'[e] = sent[e]
          /\ rest'[e] = rest[e] /\ held'[e] = held[e] /\ (e \notin ended' => e \notin ended)
      BY <1>1, <2>2
    <3>2. /\ Framed(streams[e]) /\ (e \notin ended => SideOf(e))
          /\ ~greedy => held[e] = Nothing
      BY <1>2 DEF SidesInv
    <3>3. SideOf(e) => SideOf(e)'
      BY <3>1 DEF SideOf
    <3>. QED  BY <1>1, <3>1, <3>2, <3>3
  <2>. QED  BY <2>1, <2>2
<1>. QED  BY <1>1, <1>3 DEF SidesInv

LEMMA SidesInit == Init => SidesInv
<1> SUFFICES ASSUME Init PROVE SidesInv
  OBVIOUS
<1> DEFINE c == [Clean EXCEPT !.fresh = TRUE]
<1>1. c \in Stream /\ Framed(c) /\ c.lex = "initial" /\ ~Gzips(c)
  BY DEF Clean, Stream, LexStates, Encodings, Transfers, Framed, Unopened, Gzips
<1>2. Nothing \in Piece /\ Nothing.kind # "head"
  BY DEF Nothing, Piece
<1>3. /\ streams = [d \in Sides |-> c] /\ held = [d \in Sides |-> Nothing]
      /\ rest = [d \in Sides |-> <<>>] /\ sent = [d \in Sides |-> <<>>]
      /\ parsed = [d \in Sides |-> <<>>] /\ dropping = [d \in Sides |-> FALSE]
      /\ greedy \in BOOLEAN /\ ended = {} /\ refused = "none"
  BY DEF Init
<1> HIDE DEF c
<1>4. /\ <<>> \in Seq(Sendable) /\ <<>> \in Seq(BodyPiece) /\ <<>> \in Seq(Told)
      /\ Len(<<>>) = 0
  BY EmptySeq
<1>5. Types
  BY <1>1, <1>2, <1>3, <1>4 DEF Types
<1>6. Tracks(c, Nothing, <<>>, <<>>, 0, FALSE)
  BY <1>1, <1>2, <1>4 DEF Tracks, Waits
<1>7. Side(c, Nothing, <<>>, <<>>, 0, FALSE)
  BY <1>1, <1>2, <1>4, <1>6 DEF Side, Packs
<1>8. \A d \in Sides : SideOf(d)
  BY <1>3, <1>4, <1>7 DEF SideOf
<1>. QED  BY <1>1, <1>3, <1>5, <1>8 DEF SidesInv

LEMMA SidesStep == SidesInv /\ [Next]_vars => SidesInv'
<1> SUFFICES ASSUME SidesInv, [Next]_vars PROVE SidesInv'
  OBVIOUS
<1>1. CASE Next
  BY <1>1, NextTurns, TurnKeeps
<1>2. CASE UNCHANGED vars
  BY <1>2 DEF SidesInv, Types, SideOf, vars, peers, decoder
<1>. QED  BY <1>1, <1>2

-----------------------------------------------------------------------------
(* What has been told of the messages, and what has been refused.          *)

ToldInv ==
  \A d \in Sides : Bordered(sent[d]) =>
    /\ Len(parsed[d]) <= Len(sent[d])
    /\ refused # d => \A i \in DOMAIN parsed[d] : parsed[d][i] = Decoded(sent[d][i])

\* A turn tells the next message, or nothing.
LEMMA TurnTells ==
  ASSUME SidesInv, NEW d \in Sides, Turn(d), Bordered(sent'[d])
  PROVE  \/ parsed'[d] = parsed[d]
         \/ /\ Len(parsed[d]) + 1 \in DOMAIN sent'[d]
            /\ Len(parsed'[d]) = Len(parsed[d]) + 1
            /\ refused' # d =>
                 parsed'[d] = parsed[d] \o <<Decoded(sent'[d][Len(parsed[d]) + 1])>>
<1>0. Types /\ parsed[d] \in Seq(Told) /\ Len(parsed[d]) \in Nat
  BY LenProperties DEF SidesInv, Types
<1>1. ASSUME NEW h, Good(h), Decode(d, h), Len(h.done) \in {0, 1},
             Tells(h, sent'[d], Len(parsed[d]))
      PROVE  \/ parsed'[d] = parsed[d]
             \/ /\ Len(parsed[d]) + 1 \in DOMAIN sent'[d]
                /\ Len(parsed'[d]) = Len(parsed[d]) + 1
                /\ refused' # d =>
                     parsed'[d] = parsed[d] \o <<Decoded(sent'[d][Len(parsed[d]) + 1])>>
  <2>1. /\ parsed'[d] = parsed[d] \o h.done
        /\ Len(parsed'[d]) = Len(parsed[d]) + Len(h.done)
        /\ h.out = "refused" => refused' = d
    BY <1>0, <1>1, DecodeIs
  <2>2. h.done = <<>> <=> Len(h.done) = 0
    BY <1>1, EffectTypes DEF Good
  <2>3. CASE h.done = <<>>
    BY <1>0, <2>1, <2>3, ConcatEmptySeq
  <2>4. CASE h.done # <<>>
    <3>1. /\ Len(parsed[d]) + 1 \in DOMAIN sent'[d]
          /\ h.out # "refused" => h.done = <<Decoded(sent'[d][Len(parsed[d]) + 1])>>
      BY <1>1, <2>4 DEF Tells
    <3>2. Len(h.done) = 1
      BY <1>1, <2>2, <2>4
    <3>. QED  BY <2>1, <3>1, <3>2
  <2>. QED  BY <2>3, <2>4
<1>2. ASSUME NEW r, NEW T, Drops(d, r, T)
      PROVE  parsed'[d] = parsed[d]
  BY <1>2 DEF Drops, decoder
<1>3. ASSUME NEW h, NEW l, NEW r, NEW T, Takes(d, h, l, r, T)
      PROVE  Good(h) /\ Decode(d, h) /\ Len(h.done) \in {0, 1}
             /\ Tells(h, sent'[d], Len(parsed[d]))
  <2>1. sent'[d] = T
    BY <1>0, <1>3, MovesIs DEF Takes
  <2>. QED  BY <1>3, <2>1 DEF Takes, Sound, Result
<1>4. ASSUME NEW h, Ends(d, h)
      PROVE  Good(h) /\ Decode(d, h) /\ Len(h.done) \in {0, 1}
             /\ Tells(h, sent'[d], Len(parsed[d]))
  BY <1>4 DEF Ends, Sound, peers
<1>. QED  BY <1>1, <1>2, <1>3, <1>4 DEF Turn

LEMMA ToldTurn ==
  ASSUME SidesInv, ToldInv, NEW d \in Sides, Turn(d)
  PROVE  ToldInv'
<1>0. /\ Types /\ refused = "none" /\ "none" \notin Sides
      /\ \A e \in Sides : Extends(sent[e], sent'[e])
      /\ \A e \in Sides \ {d} : parsed'[e] = parsed[e] /\ sent'[e] = sent[e]
  BY TurnTypes DEF SidesInv, Turn, Sides
<1> SUFFICES ASSUME NEW e \in Sides, Bordered(sent'[e])
             PROVE  /\ Len(parsed'[e]) <= Len(sent'[e])
                    /\ refused' # e => \A i \in DOMAIN parsed'[e] :
                                         parsed'[e][i] = Decoded(sent'[e][i])
  BY DEF ToldInv
<1>1. Extends(sent[e], sent'[e]) /\ Bordered(sent[e]) /\ refused # e
  BY <1>0, GzippedGrows
<1>2. /\ Len(parsed[e]) <= Len(sent[e])
      /\ \A i \in DOMAIN parsed[e] : parsed[e][i] = Decoded(sent[e][i])
  BY <1>1 DEF ToldInv
<1>3. /\ parsed[e] \in Seq(Told) /\ Len(parsed[e]) \in Nat
      /\ sent[e] \in Seq(Sendable) /\ Len(sent[e]) \in Nat
      /\ sent'[e] \in Seq(Sendable) /\ Len(sent'[e]) \in Nat
      /\ DOMAIN parsed[e] = 1..Len(parsed[e]) /\ DOMAIN sent[e] = 1..Len(sent[e])
      /\ DOMAIN sent'[e] = 1..Len(sent'[e])
  <2>1. sent' \in [Sides -> Seq(Sendable)]
    BY TurnTypes DEF Types
  <2>. QED  BY <1>0, <2>1, LenProperties DEF Types
<1>4. Len(sent[e]) <= Len(sent'[e]) /\ \A i \in DOMAIN sent[e] : sent'[e][i] = sent[e][i]
  BY <1>1 DEF Extends
<1>5. \A i \in DOMAIN parsed[e] : parsed[e][i] = Decoded(sent'[e][i])
  BY <1>2, <1>3, <1>4
<1>6. CASE parsed'[e] = parsed[e]
  BY <1>2, <1>3, <1>4, <1>5, <1>6, SMTT(20)
<1>7. CASE parsed'[e] # parsed[e]
  <2>1. e = d
    BY <1>0, <1>7
  <2>2. /\ Len(parsed[e]) + 1 \in DOMAIN sent'[e]
        /\ Len(parsed'[e]) = Len(parsed[e]) + 1
        /\ refused' # e =>
             parsed'[e] = parsed[e] \o <<Decoded(sent'[e][Len(parsed[e]) + 1])>>
    BY <1>7, <2>1, TurnTells
  <2>3. Len(parsed'[e]) <= Len(sent'[e])
    BY <1>3, <2>2
  <2>4. ASSUME refused' # e
        PROVE  \A i \in DOMAIN parsed'[e] : parsed'[e][i] = Decoded(sent'[e][i])
    <3> DEFINE x == Decoded(sent'[e][Len(parsed[e]) + 1])
               u == parsed[e] \o <<x>>
    <3>1. parsed'[e] = u
      BY <2>2, <2>4
    <3>2. /\ parsed[e] \in Seq(Told \cup {x}) /\ <<x>> \in Seq(Told \cup {x})
          /\ Len(<<x>>) = 1 /\ <<x>>[1] = x
      BY <1>3
    <3> HIDE DEF x
    <3>3. /\ Len(u) = Len(parsed[e]) + 1 /\ DOMAIN u = 1..Len(parsed[e]) + 1
          /\ \A i \in 1..Len(parsed[e]) + 1 :
               u[i] = IF i <= Len(parsed[e]) THEN parsed[e][i] ELSE <<x>>[i - Len(parsed[e])]
      BY <3>2, ConcatProperties, LenProperties
    <3> HIDE DEF u
    <3> SUFFICES ASSUME NEW i \in 1..Len(parsed[e]) + 1
                 PROVE  u[i] = Decoded(sent'[e][i])
      BY <3>1, <3>3
    <3>4. CASE i <= Len(parsed[e])
      <4>1. i \in DOMAIN parsed[e] /\ u[i] = parsed[e][i]
        BY <1>3, <3>3, <3>4
      <4>. QED  BY <1>5, <4>1
    <3>5. CASE ~(i <= Len(parsed[e]))
      <4>1. i = Len(parsed[e]) + 1 /\ i - Len(parsed[e]) = 1
        BY <1>3, <3>5
      <4>2. u[i] = x
        BY <3>2, <3>3, <3>5, <4>1
      <4>. QED  BY <4>1, <4>2 DEF x
    <3>. QED  BY <3>4, <3>5
  <2>. QED  BY <2>3, <2>4
<1>. QED  BY <1>6, <1>7

LEMMA ToldStep == SidesInv /\ ToldInv /\ [Next]_vars => ToldInv'
<1> SUFFICES ASSUME SidesInv, ToldInv, [Next]_vars PROVE ToldInv'
  OBVIOUS
<1>1. CASE Next
  BY <1>1, NextTurns, ToldTurn
<1>2. CASE UNCHANGED vars
  BY <1>2 DEF ToldInv, vars, peers, decoder
<1>. QED  BY <1>1, <1>2

\* What a turn refuses, and what it leaves of a side that ends.
LEMMA TurnRefuses ==
  ASSUME SidesInv, NEW d \in Sides, Turn(d)
  PROVE  /\ refused' \in {"none", d, "hangs"}
         /\ refused' = d => \/ \E i \in DOMAIN sent'[d] : Unreadable(sent'[d][i])
                            \/ d \in ended' /\ rest'[d] # <<>>
         /\ refused' = "hangs" => Gzipped(sent'[d])
         /\ d \in ended' /\ refused' = "none" =>
              \/ streams'[d].lex = "initial"
              \/ BodyMode(streams'[d]) /\ (Bordered(sent'[d]) => rest'[d] # <<>>)
<1>0. Types /\ refused = "none" /\ d \notin ended /\ d # "none" /\ d # "hangs"
  BY DEF SidesInv, Turn, Sides
<1>1. ASSUME NEW r, NEW T, Drops(d, r, T)
      PROVE  refused' = "none" /\ d \notin ended'
  BY <1>0, <1>1 DEF Drops, decoder
<1>2. ASSUME NEW h, NEW l, NEW r, NEW T, Takes(d, h, l, r, T)
      PROVE  /\ refused' \in {"none", d, "hangs"} /\ d \notin ended'
             /\ refused' = d => \E i \in DOMAIN sent'[d] : Unreadable(sent'[d][i])
             /\ refused' = "hangs" => Gzipped(sent'[d])
  <2>1. /\ Moves(d, r, T) /\ Good(h) /\ Decode(d, h) /\ d \notin ended'
        /\ h.out = "gunzip" => Gzipped(T)
        /\ Result(h, l, r, T, Len(parsed[d]))
    BY <1>0, <1>2 DEF Takes, Sound
  <2>2. sent'[d] = T
    BY <1>0, <2>1, MovesIs
  <2>3. /\ h.out \in {"more", "accepted"} => refused' = "none"
        /\ h.out = "refused" => refused' = d
        /\ h.out = "gunzip" => refused' \in {d, "hangs"}
        /\ h.out \in {"more", "accepted", "refused", "gunzip"}
    BY <1>0, <2>1, DecodeIs
  <2>4. h.out \in {"refused", "gunzip"} => \E i \in DOMAIN T : Unreadable(T[i])
    BY <2>1, BodilessAnything DEF Result
  <2>. QED  BY <1>0, <2>1, <2>2, <2>3, <2>4
<1>3. ASSUME NEW h, Ends(d, h)
      PROVE  /\ refused' \in {"none", d, "hangs"} /\ d \in ended'
             /\ refused' = d => \/ \E i \in DOMAIN sent'[d] : Unreadable(sent'[d][i])
                                \/ rest'[d] # <<>>
             /\ refused' = "hangs" => Gzipped(sent'[d])
             /\ refused' = "none" =>
                  \/ streams'[d].lex = "initial"
                  \/ BodyMode(streams'[d]) /\ (Bordered(sent'[d]) => rest'[d] # <<>>)
  <2>1. /\ Good(h) /\ Decode(d, h) /\ d \in ended' /\ sent' = sent /\ rest' = rest
        /\ h.out = "gunzip" => Gzipped(sent[d])
        /\ Ended(h, rest[d], sent[d])
    BY <1>0, <1>3 DEF Ends, Sound, peers
  <2>2. /\ h.out \in {"more", "accepted"} => refused' = "none"
        /\ h.out = "refused" => refused' = d
        /\ h.out = "gunzip" => refused' \in {d, "hangs"}
        /\ h.out \in {"more", "accepted", "refused", "gunzip"}
        /\ streams'[d] = h.stream
    BY <1>0, <2>1, DecodeIs
  <2>3. h.out \in {"refused", "gunzip"} =>
          rest[d] # <<>> \/ \E i \in DOMAIN sent[d] : Unreadable(sent[d][i])
    BY <2>1, BodilessAnything DEF Ended
  <2>. QED  BY <1>0, <2>1, <2>2, <2>3 DEF Ended
<1>. QED  BY <1>0, <1>1, <1>2, <1>3 DEF Turn

LEMMA RefusalsTurn ==
  ASSUME SidesInv, RefusalsKnown, NEW d \in Sides, Turn(d)
  PROVE  RefusalsKnown'
<1>0. /\ refused = "none" /\ d \notin ended
      /\ (ended' = ended \/ ended' = ended \cup {d}) /\ ended \subseteq Sides
      /\ \A e \in Sides \ {d} : /\ streams'[e] = streams[e] /\ sent'[e] = sent[e]
                                /\ rest'[e] = rest[e]
  BY TurnTypes DEF SidesInv, Turn, Types
<1>1. /\ refused' \in {"none", d, "hangs"} /\ "none" \notin Sides /\ "hangs" \notin Sides
      /\ refused' = d => \/ \E i \in DOMAIN sent'[d] : Unreadable(sent'[d][i])
                         \/ d \in ended' /\ rest'[d] # <<>>
      /\ refused' = "hangs" => Gzipped(sent'[d])
      /\ d \in ended' /\ refused' = "none" =>
           \/ streams'[d].lex = "initial"
           \/ BodyMode(streams'[d]) /\ (Bordered(sent'[d]) => rest'[d] # <<>>)
  BY TurnRefuses DEF Sides
<1>2. \A e \in Sides : refused' = e =>
        \/ \E i \in DOMAIN sent'[e] : Unreadable(sent'[e][i])
        \/ e \in ended' /\ rest'[e] # <<>>
  BY <1>1
<1>3. refused' = "hangs" => \E e \in Sides : \E i \in DOMAIN sent'[e] : sent'[e][i].encoding = "gzip"
  BY <1>1 DEF Gzipped
<1>4. ASSUME NEW e \in ended', refused' = "none"
      PROVE  \/ streams'[e].lex = "initial"
             \/ BodyMode(streams'[e]) /\ (Delimited(e)' => rest'[e] # <<>>)
  <2>1. CASE e = d
    BY <1>1, <1>4, <2>1 DEF Delimited, Bordered
  <2>2. CASE e # d
    <3>1. e \in ended /\ e \in Sides
      BY <1>0, <1>4, <2>2
    <3>2. /\ streams'[e] = streams[e] /\ sent'[e] = sent[e] /\ rest'[e] = rest[e]
      BY <1>0, <2>2, <3>1
    <3>3. Delimited(e)' => Delimited(e)
      BY <3>2 DEF Delimited
    <3>. QED  BY <1>0, <3>1, <3>2, <3>3 DEF RefusalsKnown
  <2>. QED  BY <2>1, <2>2
<1>. QED  BY <1>2, <1>3, <1>4 DEF RefusalsKnown

LEMMA RefusalsStep == SidesInv /\ RefusalsKnown /\ [Next]_vars => RefusalsKnown'
<1> SUFFICES ASSUME SidesInv, RefusalsKnown, [Next]_vars PROVE RefusalsKnown'
  OBVIOUS
<1>1. CASE Next
  BY <1>1, NextTurns, RefusalsTurn
<1>2. CASE UNCHANGED vars
  <2>1. \A d : Delimited(d)' <=> Delimited(d)
    BY <1>2 DEF Delimited, vars, peers
  <2>. QED  BY <1>2, <2>1 DEF RefusalsKnown, vars, peers, decoder
<1>. QED  BY <1>1, <1>2

(***************************************************************************)
(* On every connection, between two messages of a side its declared length *)
(* is used up, and its chunked flag, encoding, unpacker and body are as    *)
(* after http_parser_t's initialisation, whatever the messages were and    *)
(* however the stream was cut.                                             *)
(***************************************************************************)
THEOREM FramingIsClean == Spec => []FramingClean
<1>1. SidesInv => FramingClean
  BY DEF SidesInv, FramingClean, Framed, Unopened
<1>. QED  BY <1>1, SidesInit, SidesStep, PTL DEF Spec

(***************************************************************************)
(* Whatever the messages are, however their bytes are cut into calls and   *)
(* whether the parser keeps lines back or not: the messages that a side    *)
(* has decoded are the first messages that were sent, each with the size,  *)
(* the encoding and the transfer of its body (request_body, response_body).*)
(***************************************************************************)
THEOREM BodiesAlwaysAsSent == Spec => []BodiesAsSent
<1>1. Init => ToldInv
  BY EmptySeq DEF Init, ToldInv
<1>2. ToldInv => BodiesAsSent
  BY DEF ToldInv, BodiesAsSent, Delimited, Bordered
<1>. QED  BY <1>1, <1>2, SidesInit, SidesStep, ToldStep, PTL DEF Spec

(***************************************************************************)
(* Whatever the messages are and however they are cut, a call fails only   *)
(* for a message the decoder cannot read or at an end within a message, it *)
(* hangs in a gzip body only, and an end it accepts is one between two     *)
(* messages or one that lacks bytes of a body (the grammars, do_gunzip).   *)
(***************************************************************************)
THEOREM RefusalsAlwaysKnown == Spec => []RefusalsKnown
<1>1. Init => RefusalsKnown
  BY DEF Init, RefusalsKnown, Sides
<1>. QED  BY <1>1, SidesInit, SidesStep, RefusalsStep, PTL DEF Spec

-----------------------------------------------------------------------------
(* The requests that wait and the transactions.                            *)

Transaction == [req : Nat, res : Nat]

\* Of p requests the last ones wait in R, and X has had the others in order.
Queue(R, X, p) ==
  /\ Len(R) <= p
  /\ \A i \in DOMAIN R : R[i] = (p - Len(R)) + i
  /\ \A n \in DOMAIN X : X[n].req \in 0..(p - Len(R))
  /\ \A r \in 1..(p - Len(R)) : \E n \in DOMAIN X : X[n].req = r
  /\ \A m, n \in DOMAIN X :
       m < n /\ X[m].req # 0 /\ X[n].req # 0 => X[m].req < X[n].req

LEMMA QueuePut ==
  ASSUME NEW R \in Seq(Nat), NEW X, NEW p \in Nat, Queue(R, X, p)
  PROVE  Queue(Append(R, p + 1), X, p + 1)
<1> DEFINE W == Append(R, p + 1)
<1>1. /\ Len(W) = Len(R) + 1 /\ DOMAIN W = 1..Len(R) + 1 /\ DOMAIN R = 1..Len(R)
      /\ Len(R) \in Nat /\ W[Len(R) + 1] = p + 1
      /\ \A i \in 1..Len(R) : W[i] = R[i]
  BY AppendProperties, LenProperties
<1> HIDE DEF W
<1>2. (p + 1) - Len(W) = p - Len(R) /\ Len(W) <= p + 1
  BY <1>1 DEF Queue
<1>3. ASSUME NEW i \in DOMAIN W PROVE W[i] = (p - Len(R)) + i
  <2>1. CASE i = Len(R) + 1
    <3>1. W[i] = p + 1
      BY <1>1, <2>1
    <3>. QED  BY <1>1, <2>1, <3>1
  <2>2. CASE i # Len(R) + 1
    <3>1. i \in DOMAIN R /\ W[i] = R[i]
      BY <1>1, <2>2
    <3>. QED  BY <3>1 DEF Queue
  <2>. QED  BY <2>1, <2>2
<1>. QED  BY <1>2, <1>3 DEF Queue, W

LEMMA QueueTake ==
  ASSUME NEW R \in Seq(Nat), R # <<>>, NEW X \in Seq(Transaction), NEW p \in Nat,
         Queue(R, X, p), NEW x \in Transaction, x.req = Head(R)
  PROVE  /\ Queue(Tail(R), Append(X, x), p)
         /\ x.req = (p - Len(R)) + 1
<1> DEFINE W == Tail(R)
           Y == Append(X, x)
           k == p - Len(R)
<1>1. /\ Len(R) \in Nat \ {0} /\ DOMAIN R = 1..Len(R) /\ W \in Seq(Nat)
      /\ Len(W) = Len(R) - 1 /\ DOMAIN W = 1..Len(R) - 1
      /\ \A i \in 1..Len(W) : W[i] = R[i + 1]
      /\ Head(R) = R[1]
  BY HeadTailProperties, LenProperties, EmptySeq
<1>2. /\ Y \in Seq(Transaction) /\ Len(Y) = Len(X) + 1 /\ DOMAIN Y = 1..Len(X) + 1
      /\ DOMAIN X = 1..Len(X) /\ Len(X) \in Nat /\ Y[Len(X) + 1] = x
      /\ \A i \in 1..Len(X) : Y[i] = X[i]
  BY AppendProperties, LenProperties
<1>3. k \in Nat /\ Len(W) <= p /\ p - Len(W) = k + 1
  BY <1>1 DEF Queue
<1>4. x.req = k + 1
  <2>1. 1 \in DOMAIN R
    BY <1>1
  <2>2. R[1] = (p - Len(R)) + 1
    BY <2>1 DEF Queue
  <2>. QED  BY <1>1, <2>2
<1> HIDE DEF W, Y
<1>5. \A i \in DOMAIN W : W[i] = (p - Len(W)) + i
  <2> SUFFICES ASSUME NEW i \in 1..Len(R) - 1 PROVE W[i] = (k + 1) + i
    BY <1>1, <1>3
  <2>1. i + 1 \in DOMAIN R /\ W[i] = R[i + 1]
    BY <1>1
  <2>2. R[i + 1] = k + (i + 1)
    BY <2>1 DEF Queue
  <2>. QED  BY <1>3, <2>1, <2>2
<1>6. \A n \in DOMAIN X : X[n].req \in 0..k
  BY DEF Queue
<1> HIDE DEF k
<1>7. \A n \in DOMAIN Y : Y[n].req \in 0..(k + 1)
  <2> SUFFICES ASSUME NEW n \in 1..Len(X) + 1 PROVE Y[n].req \in 0..(k + 1)
    BY <1>2
  <2>1. CASE n = Len(X) + 1
    BY <1>2, <1>3, <1>4, <2>1
  <2>2. CASE n # Len(X) + 1
    <3>1. n \in DOMAIN X /\ Y[n] = X[n]
      BY <1>2, <2>2
    <3>. QED  BY <1>3, <1>6, <3>1
  <2>. QED  BY <2>1, <2>2
<1>8. \A r \in 1..(k + 1) : \E n \in DOMAIN Y : Y[n].req = r
  <2> SUFFICES ASSUME NEW r \in 1..(k + 1) PROVE \E n \in DOMAIN Y : Y[n].req = r
    OBVIOUS
  <2>1. CASE r = k + 1
    BY <1>2, <1>4, <2>1
  <2>2. CASE r # k + 1
    <3>1. r \in 1..k
      BY <1>3, <2>2
    <3>2. PICK n \in DOMAIN X : X[n].req = r
      BY <3>1 DEF Queue, k
    <3>3. n \in DOMAIN Y /\ Y[n] = X[n]
      BY <1>2
    <3>. QED  BY <3>2, <3>3
  <2>. QED  BY <2>1, <2>2
<1>9. ASSUME NEW m \in DOMAIN Y, NEW n \in DOMAIN Y, m < n, Y[m].req # 0, Y[n].req # 0
      PROVE  Y[m].req < Y[n].req
  <2>1. m \in DOMAIN X /\ Y[m] = X[m]
    BY <1>2, <1>9
  <2>2. CASE n = Len(X) + 1
    <3>1. Y[n].req = k + 1 /\ Y[m].req \in 0..k
      BY <1>2, <1>4, <1>6, <2>1, <2>2
    <3>. QED  BY <1>3, <3>1
  <2>3. CASE n # Len(X) + 1
    <3>1. n \in DOMAIN X /\ Y[n] = X[n]
      BY <1>2, <2>3
    <3>. QED  BY <1>9, <2>1, <3>1 DEF Queue
  <2>. QED  BY <2>2, <2>3
<1>. QED  BY <1>3, <1>4, <1>5, <1>7, <1>8, <1>9 DEF Queue, W, Y, k

LEMMA QueueNone ==
  ASSUME NEW X \in Seq(Transaction), NEW p \in Nat, Queue(<<>>, X, p),
         NEW x \in Transaction, x.req = 0
  PROVE  Queue(<<>>, Append(X, x), p)
<1> DEFINE Y == Append(X, x)
           k == p - Len(<<>>)
<1>1. /\ Y \in Seq(Transaction) /\ Len(Y) = Len(X) + 1 /\ DOMAIN Y = 1..Len(X) + 1
      /\ DOMAIN X = 1..Len(X) /\ Len(X) \in Nat /\ Y[Len(X) + 1] = x
      /\ \A i \in 1..Len(X) : Y[i] = X[i]
  BY AppendProperties, LenProperties
<1>2. k \in Nat
  BY EmptySeq
<1>3. /\ \A n \in DOMAIN X : X[n].req \in 0..k
      /\ \A r \in 1..k : \E n \in DOMAIN X : X[n].req = r
  BY DEF Queue
<1> HIDE DEF Y, k
<1>4. \A n \in DOMAIN Y : Y[n].req # 0 => n \in DOMAIN X /\ Y[n] = X[n]
  BY <1>1
<1>5. \A n \in DOMAIN Y : Y[n].req \in 0..k
  BY <1>2, <1>3, <1>4
<1>6. \A r \in 1..k : \E n \in DOMAIN Y : Y[n].req = r
  <2> SUFFICES ASSUME NEW r \in 1..k PROVE \E n \in DOMAIN Y : Y[n].req = r
    OBVIOUS
  <2>1. PICK n \in DOMAIN X : X[n].req = r
    BY <1>3
  <2>. QED  BY <1>1, <2>1
<1>7. ASSUME NEW m \in DOMAIN Y, NEW n \in DOMAIN Y, m < n, Y[m].req # 0, Y[n].req # 0
      PROVE  Y[m].req < Y[n].req
  BY <1>4, <1>7 DEF Queue
<1>. QED  BY <1>5, <1>6, <1>7 DEF Queue, Y, k

\* Every one of p requests waits or has been had.
WaitsOrHad(R, X, p) ==
  \A r \in 1..p : (\E i \in DOMAIN R : R[i] = r) <=> ~(\E n \in DOMAIN X : X[n].req = r)

LEMMA QueueMeans ==
  ASSUME NEW R \in Seq(Nat), NEW X \in Seq(Transaction), NEW p \in Nat, Queue(R, X, p)
  PROVE  WaitsOrHad(R, X, p)
<1> DEFINE k == p - Len(R)
<1>1. Len(R) \in Nat /\ DOMAIN R = 1..Len(R) /\ k \in Nat
  BY LenProperties DEF Queue
<1> SUFFICES ASSUME NEW r \in 1..p
             PROVE  (\E i \in DOMAIN R : R[i] = r) <=> ~(\E n \in DOMAIN X : X[n].req = r)
  BY DEF WaitsOrHad
<1>2. CASE r <= k
  <2>1. \E n \in DOMAIN X : X[n].req = r
    <3>1. r \in 1..k
      BY <1>1, <1>2
    <3>. QED  BY <3>1 DEF Queue
  <2>2. ASSUME NEW i \in DOMAIN R PROVE R[i] # r
    <3>1. R[i] = k + i
      BY DEF Queue
    <3> HIDE DEF k
    <3>. QED  BY <1>1, <1>2, <3>1
  <2>. QED  BY <2>1, <2>2
<1>3. CASE ~(r <= k)
  <2>1. \A n \in DOMAIN X : X[n].req # r
    BY <1>1, <1>3 DEF Queue
  <2>2. r - k \in DOMAIN R
    BY <1>1, <1>3
  <2>3. R[r - k] = r
    <3>1. R[r - k] = k + (r - k)
      BY <2>2 DEF Queue
    <3> HIDE DEF k
    <3>. QED  BY <1>1, <3>1
  <2>. QED  BY <2>1, <2>2, <2>3
<1>. QED  BY <1>2, <1>3

\* If each transaction has the request of its own number, the queue has given
\* as many requests as there are transactions.
LEMMA QueueCount ==
  ASSUME NEW R \in Seq(Nat), NEW X \in Seq(Transaction), NEW p \in Nat, Queue(R, X, p),
         \A n \in DOMAIN X : X[n].req = n
  PROVE  p - Len(R) = Len(X)
<1> DEFINE k == p - Len(R)
<1>1. /\ k \in Nat /\ Len(X) \in Nat /\ DOMAIN X = 1..Len(X)
      /\ \A n \in DOMAIN X : X[n].req \in 0..k
      /\ \A r \in 1..k : \E n \in DOMAIN X : X[n].req = r
  BY LenProperties DEF Queue
<1> HIDE DEF k
<1>2. Len(X) <= k
  <2>1. CASE Len(X) = 0
    BY <1>1, <2>1
  <2>2. CASE Len(X) # 0
    <3>1. Len(X) \in DOMAIN X
      BY <1>1, <2>2
    <3>2. X[Len(X)].req = Len(X) /\ X[Len(X)].req \in 0..k
      BY <1>1, <3>1
    <3>. QED  BY <1>1, <3>2
  <2>. QED  BY <2>1, <2>2
<1>3. k <= Len(X)
  <2>1. CASE k = 0
    BY <1>1, <2>1
  <2>2. CASE k # 0
    <3>1. k \in 1..k
      BY <1>1, <2>2
    <3>2. PICK n \in DOMAIN X : X[n].req = k
      BY <1>1, <3>1
    <3>. QED  BY <1>1, <3>2
  <2>. QED  BY <2>1, <2>2
<1>4. k = Len(X)
  <2>1. k \in Nat /\ Len(X) \in Nat
    BY <1>1
  <2>. QED  BY <1>2, <1>3, <2>1
<1>. QED  BY <1>4 DEF k

ListsInv ==
  /\ requests \in Seq(Nat) /\ transactions \in Seq(Transaction)
  /\ Len(transactions) = Len(parsed["server"])
  /\ \A n \in DOMAIN transactions : transactions[n].res = n
  /\ Bordered(sent["client"]) =>
       /\ Queue(requests, transactions, Len(parsed["client"]))
       /\ refused = "none" /\ "client" \notin ended /\ streams["client"].fresh =>
            requests = <<>>

\* What a turn does to the lists, W being what waits after a fresh parser has
\* initialised its list.
Lists(d, W) ==
  /\ W = requests \/ (d = "client" /\ streams[d].fresh /\ W = <<>>)
  /\ \/ /\ Len(parsed'[d]) = Len(parsed[d])
        /\ requests' = W /\ transactions' = transactions
     \/ /\ d = "server" /\ Len(parsed'[d]) = Len(parsed[d]) + 1
        /\ W = requests /\ AddTransaction
     \/ /\ d = "client" /\ Len(parsed'[d]) = Len(parsed[d]) + 1
        /\ requests' = Append(W, Len(parsed[d]) + 1) /\ transactions' = transactions

LEMMA DecodeLists ==
  ASSUME Types, NEW d \in Sides, NEW h, Good(h), Len(h.done) \in {0, 1}, Decode(d, h),
         h.init => streams[d].fresh
  PROVE  /\ \E W : Lists(d, W)
         /\ h.done = <<>> => Len(parsed'[d]) = Len(parsed[d])
<1>1. Len(parsed'[d]) = Len(parsed[d]) + Len(h.done) /\ Len(parsed[d]) \in Nat
  BY DecodeIs, LenProperties DEF Types
<1>2. h.done = <<>> <=> Len(h.done) = 0
  BY EffectTypes DEF Good
<1>3. Complete(d, h)
  BY DEF Decode
<1> DEFINE W == Waiting(d, h.init)
<1>4. W = requests \/ (d = "client" /\ streams[d].fresh /\ W = <<>>)
  BY DEF Waiting
<1>5. d = "server" => W = requests
  BY DEF Waiting
<1>6. CASE h.done = <<>>
  <2>1. requests' = W /\ transactions' = transactions
    BY <1>3, <1>6 DEF Complete
  <2>2. Len(parsed'[d]) = Len(parsed[d])
    BY <1>1, <1>2, <1>6
  <2> HIDE DEF W
  <2>. QED  BY <1>4, <2>1, <2>2 DEF Lists
<1>7. CASE h.done # <<>>
  <2>1. Len(parsed'[d]) = Len(parsed[d]) + 1
    BY <1>1, <1>2, <1>7
  <2>2. CASE d = "server"
    <3>1. AddTransaction
      BY <1>3, <1>7, <2>2 DEF Complete
    <3> HIDE DEF W
    <3>. QED  BY <1>4, <1>5, <1>7, <2>1, <2>2, <3>1 DEF Lists
  <2>3. CASE d = "client"
    <3>1. requests' = Append(W, Len(parsed[d]) + 1) /\ transactions' = transactions
      BY <1>3, <1>7, <2>3 DEF Complete
    <3> HIDE DEF W
    <3>. QED  BY <1>4, <1>7, <2>1, <2>3, <3>1 DEF Lists
  <2>. QED  BY <2>2, <2>3 DEF Sides
<1>. QED  BY <1>6, <1>7

LEMMA TurnLists ==
  ASSUME SidesInv, NEW d \in Sides, Turn(d)
  PROVE  /\ \E W : Lists(d, W)
         /\ Bordered(sent'[d]) /\ refused' = "none" /\ d \notin ended' /\ streams'[d].fresh =>
              streams[d].fresh /\ Len(parsed'[d]) = Len(parsed[d])
<1>0. Types /\ d \notin ended /\ refused = "none"
  BY DEF SidesInv, Turn
<1>1. ASSUME NEW r, NEW T, Drops(d, r, T)
      PROVE  Lists(d, requests) /\ streams' = streams /\ parsed' = parsed
  BY <1>1 DEF Drops, Lists, decoder
<1>2. ASSUME NEW h, NEW l, NEW r, NEW T, Takes(d, h, l, r, T)
      PROVE  /\ \E W : Lists(d, W)
             /\ Bordered(sent'[d]) /\ refused' = "none" /\ streams'[d].fresh =>
                  streams[d].fresh /\ Len(parsed'[d]) = Len(parsed[d])
  <2>1. /\ Moves(d, r, T) /\ Good(h) /\ Decode(d, h) /\ Len(h.done) \in {0, 1}
        /\ h.init => streams[d].fresh
        /\ h.out = "more" /\ h.stream.fresh => streams[d].fresh /\ h.done = <<>>
        /\ Result(h, l, r, T, Len(parsed[d]))
    BY <1>2 DEF Takes, Sound
  <2>2. /\ \E W : Lists(d, W)
        /\ h.done = <<>> => Len(parsed'[d]) = Len(parsed[d])
    BY <1>0, <2>1, DecodeLists
  <2>3. /\ sent'[d] = T /\ streams'[d] = h.stream
        /\ refused' = "none" => h.out \in {"more", "accepted"}
    <3>1. d # "none"
      BY DEF Sides
    <3>2. sent'[d] = T
      BY <1>0, <2>1, MovesIs
    <3>3. /\ streams'[d] = h.stream
          /\ h.out \in {"more", "accepted", "refused", "gunzip"}
          /\ h.out = "refused" => refused' = d
          /\ h.out = "gunzip" => refused' \in {d, "hangs"}
      BY <1>0, <2>1, DecodeIs
    <3>. QED  BY <3>1, <3>2, <3>3
  <2>4. Bordered(T) => h.out # "accepted"
    BY <2>1 DEF Result, Tracks
  <2>. QED  BY <2>1, <2>2, <2>3, <2>4
<1>3. ASSUME NEW h, Ends(d, h)
      PROVE  (\E W : Lists(d, W)) /\ d \in ended'
  <2>1. /\ Good(h) /\ Decode(d, h) /\ Len(h.done) \in {0, 1} /\ (h.init => streams[d].fresh)
        /\ d \in ended'
    BY <1>3 DEF Ends, Sound
  <2>. QED  BY <1>0, <2>1, DecodeLists
<1>. QED  BY <1>1, <1>2, <1>3 DEF Turn

LEMMA ListsTurn ==
  ASSUME SidesInv, ListsInv, NEW d \in Sides, Turn(d)
  PROVE  ListsInv'
<1>0. /\ Types /\ refused = "none" /\ d \notin ended /\ d \in {"client", "server"}
      /\ \A e \in Sides : Extends(sent[e], sent'[e])
      /\ \A e \in Sides \ {d} : parsed'[e] = parsed[e] /\ streams'[e] = streams[e]
      /\ ended \subseteq ended' /\ {"client", "server"} = Sides
  BY TurnTypes DEF SidesInv, Turn, Sides
<1>1. PICK W : Lists(d, W)
  BY TurnLists
<1>2. /\ Len(parsed["client"]) \in Nat /\ Len(parsed["server"]) \in Nat
      /\ requests \in Seq(Nat) /\ transactions \in Seq(Transaction)
      /\ Len(transactions) = Len(parsed["server"])
      /\ \A n \in DOMAIN transactions : transactions[n].res = n
  BY <1>0, LenProperties DEF ListsInv, Types
<1>3. Bordered(sent'["client"]) =>
        /\ Queue(requests, transactions, Len(parsed["client"]))
        /\ "client" \notin ended /\ streams["client"].fresh => requests = <<>>
  <2>1. Bordered(sent'["client"]) => Bordered(sent["client"])
    BY <1>0, GzippedGrows
  <2>. QED  BY <1>0, <2>1 DEF ListsInv
<1>4. W \in Seq(Nat) /\ (Bordered(sent'["client"]) => W = requests)
  <2>1. <<>> \in Seq(Nat)
    BY EmptySeq
  <2>. QED  BY <1>0, <1>1, <1>2, <1>3, <2>1 DEF Lists
<1>5. d = "client" /\ Bordered(sent'["client"]) /\ refused' = "none" /\ "client" \notin ended'
        /\ streams'["client"].fresh => streams["client"].fresh /\ Len(parsed'[d]) = Len(parsed[d])
  BY TurnLists
<1>6. CASE /\ Len(parsed'[d]) = Len(parsed[d])
           /\ requests' = W /\ transactions' = transactions
  <2>1. Len(parsed'["client"]) = Len(parsed["client"])
        /\ Len(parsed'["server"]) = Len(parsed["server"])
    BY <1>0, <1>6
  <2>2. Bordered(sent'["client"]) /\ refused' = "none" /\ "client" \notin ended'
          /\ streams'["client"].fresh => requests' = <<>>
    BY <1>0, <1>3, <1>4, <1>5, <1>6
  <2>. QED  BY <1>2, <1>3, <1>4, <1>6, <2>1, <2>2 DEF ListsInv
<1>7. CASE /\ d = "server" /\ Len(parsed'[d]) = Len(parsed[d]) + 1
           /\ W = requests /\ AddTransaction
  <2> DEFINE q == IF requests = <<>> THEN 0 ELSE Head(requests)
             x == [req |-> q, res |-> Len(parsed["server"]) + 1]
             X == Append(transactions, x)
             R == IF requests = <<>> THEN <<>> ELSE Tail(requests)
  <2>1. transactions' = X /\ requests' = R
    BY <1>7 DEF AddTransaction
  <2>2. q \in Nat /\ R \in Seq(Nat)
    BY <1>2, HeadTailProperties, EmptySeq
  <2>3. x \in Transaction /\ x.req = q /\ x.res = Len(parsed["server"]) + 1
    BY <1>2, <2>2 DEF Transaction
  <2> HIDE DEF x
  <2>4. /\ X \in Seq(Transaction) /\ Len(X) = Len(transactions) + 1
        /\ DOMAIN X = 1..Len(transactions) + 1 /\ X[Len(transactions) + 1] = x
        /\ \A i \in 1..Len(transactions) : X[i] = transactions[i]
        /\ DOMAIN transactions = 1..Len(transactions)
    BY <1>2, <2>3, AppendProperties, LenProperties
  <2>5. /\ Len(parsed'["client"]) = Len(parsed["client"])
        /\ Len(parsed'["server"]) = Len(parsed["server"]) + 1
        /\ streams'["client"] = streams["client"]
    BY <1>0, <1>7
  <2>6. Bordered(sent'["client"]) => Queue(R, X, Len(parsed["client"]))
    <3>1. CASE requests = <<>>
      BY <1>2, <1>3, <2>3, <3>1, QueueNone
    <3>2. CASE requests # <<>>
      BY <1>2, <1>3, <2>3, <3>2, QueueTake
    <3>. QED  BY <3>1, <3>2
  <2>7. Bordered(sent'["client"]) /\ refused' = "none" /\ "client" \notin ended'
          /\ streams'["client"].fresh => requests' = <<>>
    BY <1>0, <1>3, <2>1, <2>5
  <2> HIDE DEF X, R, q
  <2>8. \A n \in DOMAIN X : X[n].res = n
    BY <1>2, <2>3, <2>4
  <2>. QED  BY <1>2, <2>1, <2>2, <2>4, <2>5, <2>6, <2>7, <2>8 DEF ListsInv
<1>8. CASE /\ d = "client" /\ Len(parsed'[d]) = Len(parsed[d]) + 1
           /\ requests' = Append(W, Len(parsed[d]) + 1) /\ transactions' = transactions
  <2>1. /\ Len(parsed'["client"]) = Len(parsed["client"]) + 1
        /\ Len(parsed'["server"]) = Len(parsed["server"])
    BY <1>0, <1>8
  <2>2. requests' \in Seq(Nat)
    BY <1>2, <1>4, <1>8, AppendProperties
  <2>3. Bordered(sent'["client"]) => Queue(requests', transactions, Len(parsed'["client"]))
    BY <1>2, <1>3, <1>4, <1>8, <2>1, QueuePut
  <2>4. ~(Bordered(sent'["client"]) /\ refused' = "none" /\ "client" \notin ended'
            /\ streams'["client"].fresh)
    BY <1>2, <1>5, <1>8
  <2>. QED  BY <1>2, <1>8, <2>1, <2>2, <2>3, <2>4 DEF ListsInv
<1>. QED  BY <1>1, <1>6, <1>7, <1>8 DEF Lists

LEMMA ListsStep == SidesInv /\ ListsInv /\ [Next]_vars => ListsInv'
<1> SUFFICES ASSUME SidesInv, ListsInv, [Next]_vars PROVE ListsInv'
  OBVIOUS
<1>1. CASE Next
  BY <1>1, NextTurns, ListsTurn
<1>2. CASE UNCHANGED vars
  BY <1>2 DEF ListsInv, vars, peers, decoder
<1>. QED  BY <1>1, <1>2

LEMMA ListsInit == Init => ListsInv
<1> SUFFICES ASSUME Init PROVE ListsInv
  OBVIOUS
<1>1. /\ requests = <<>> /\ transactions = <<>> /\ parsed["client"] = <<>>
      /\ parsed["server"] = <<>>
  BY DEF Init, Sides
<1>2. /\ <<>> \in Seq(Nat) /\ <<>> \in Seq(Transaction) /\ Len(<<>>) = 0
      /\ DOMAIN <<>> = {}
  BY EmptySeq
<1>3. Queue(<<>>, <<>>, 0)
  BY <1>2 DEF Queue
<1>. QED  BY <1>1, <1>2, <1>3 DEF ListsInv

\* A parser that keeps nothing back has told all but a message under way.
Counted(d) ==
  Bordered(sent[d]) => Len(parsed[d]) = Len(sent[d]) - (IF rest[d] = <<>> THEN 0 ELSE 1)
CountedInv == ~greedy /\ refused = "none" => \A d \in Sides : Counted(d)

LEMMA SideCounts ==
  ASSUME NEW s, NEW q, NEW S, NEW n, NEW b, Side(s, Nothing, q, S, n, b), Bordered(S)
  PROVE  n = Len(S) - (IF q = <<>> THEN 0 ELSE 1)
<1>1. n \in Nat /\ Len(S) \in Nat /\ S \in Seq(Sendable)
  BY LenProperties DEF Side
<1>2. \/ Following(s, Nothing, q, S) /\ n + 1 = Len(S)
      \/ q = <<>> /\ n = Len(S)
  BY DEF Side, Tracks
<1>3. CASE Following(s, Nothing, q, S) /\ n + 1 = Len(S)
  <2>1. S # <<>> /\ Reads(s, S[Len(S)], q)
    BY <1>3 DEF Following, Pending
  <2>2. S[Len(S)] \in Sendable
    BY <1>1, <2>1, LastOne
  <2>3. q # <<>>
    BY <2>1, <2>2, ReadsMore
  <2>. QED  BY <1>1, <1>3, <2>3
<1>4. CASE q = <<>> /\ n = Len(S)
  BY <1>1, <1>4
<1>. QED  BY <1>2, <1>3, <1>4

LEMMA CountedTurn ==
  ASSUME SidesInv, CountedInv, NEW d \in Sides, Turn(d)
  PROVE  CountedInv'
<1> SUFFICES ASSUME ~greedy', refused' = "none", NEW e \in Sides PROVE Counted(e)'
  BY DEF CountedInv
<1>0. /\ Types /\ Types' /\ refused = "none" /\ SidesInv' /\ ~greedy
      /\ \A c \in Sides \ {d} : parsed'[c] = parsed[c] /\ sent'[c] = sent[c] /\ rest'[c] = rest[c]
  BY TurnTypes, TurnKeeps DEF SidesInv, Turn
<1>1. CASE e # d
  BY <1>0, <1>1 DEF CountedInv, Counted
<1>2. CASE e = d /\ e \notin ended'
  <2>1. SideOf(e)' /\ held'[e] = Nothing
    BY <1>0, <1>2 DEF SidesInv
  <2>2. Side(streams'[e], Nothing, rest'[e], sent'[e], Len(parsed'[e]), dropping'[e])
    BY <2>1 DEF SideOf
  <2>. QED  BY <2>2, SideCounts DEF Counted
<1>3. CASE e = d /\ e \in ended'
  <2>1. d \notin ended
    BY DEF Turn
  <2>2. PICK h : Ends(d, h)
    BY <1>3, <2>1 DEF Turn, Drops, Takes
  <2>3. /\ Good(h) /\ Len(h.done) \in {0, 1} /\ Decode(d, h) /\ (h.init => streams[d].fresh)
        /\ sent' = sent /\ rest' = rest /\ (h.out # "refused" => h.done = <<>>)
    BY <1>0, <2>2 DEF Ends, Sound, peers
  <2>4. h.out # "refused"
    <3>1. d # "none"
      BY DEF Sides
    <3>. QED  BY <1>0, <2>3, <3>1, DecodeIs
  <2>5. Len(parsed'[d]) = Len(parsed[d])
    BY <1>0, <2>3, <2>4, DecodeLists
  <2>6. Counted(d)
    <3>1. Side(streams[d], Nothing, rest[d], sent[d], Len(parsed[d]), dropping[d])
      BY <1>0, <2>1 DEF SidesInv, SideOf
    <3>. QED  BY <3>1, SideCounts DEF Counted
  <2>. QED  BY <1>3, <2>3, <2>5, <2>6 DEF Counted
<1>. QED  BY <1>1, <1>2, <1>3

LEMMA CountedStep == SidesInv /\ CountedInv /\ [Next]_vars => CountedInv'
<1> SUFFICES ASSUME SidesInv, CountedInv, [Next]_vars PROVE CountedInv'
  OBVIOUS
<1>1. CASE Next
  BY <1>1, NextTurns, CountedTurn
<1>2. CASE UNCHANGED vars
  BY <1>2 DEF CountedInv, Counted, vars, peers, decoder
<1>. QED  BY <1>1, <1>2

\* For each response the server has begun there is what it means to answer; if
\* none is interim they answer the requests one by one.
Meaning == [req : Nat, interim : BOOLEAN, early : BOOLEAN]
MeantInv ==
  /\ meant \in Seq(Meaning) /\ Len(meant) = Len(sent["server"])
  /\ (\A i \in DOMAIN meant : ~meant[i].interim) => \A i \in DOMAIN meant : meant[i].req = i

LEMMA AnsweredIs ==
  ASSUME meant \in Seq(Meaning)
  PROVE  /\ Answered \in Nat
         /\ (\A i \in DOMAIN meant : ~meant[i].interim) => Answered = Len(meant)
<1> DEFINE A == {i \in DOMAIN meant : ~meant[i].interim}
<1>1. Len(meant) \in Nat /\ DOMAIN meant = 1..Len(meant)
  BY LenProperties
<1>2. IsFiniteSet(1..Len(meant)) /\ Cardinality(1..Len(meant)) = Len(meant)
  BY <1>1, FS_Interval
<1>3. A \subseteq 1..Len(meant)
  BY <1>1
<1>4. IsFiniteSet(A)
  BY <1>2, <1>3, FS_Subset
<1>5. (\A i \in DOMAIN meant : ~meant[i].interim) => A = 1..Len(meant)
  BY <1>1
<1>6. Answered = Cardinality(A)
  BY DEF Answered
<1> HIDE DEF A
<1>7. Cardinality(A) \in Nat
  BY <1>4, FS_CardinalityType
<1>. QED  BY <1>2, <1>5, <1>6, <1>7

\* A step leaves the responses as they are, or the server begins one.
LEMMA NextMeans ==
  ASSUME SidesInv, MeantInv, Next
  PROVE  \/ meant' = meant /\ Len(sent'["server"]) = Len(sent["server"])
         \/ /\ Asked /\ Len(sent'["server"]) = Len(sent["server"]) + 1
            /\ sent'["client"] = sent["client"] /\ parsed'["client"] = parsed["client"]
            /\ \E interim \in BOOLEAN :
                 meant' = Append(meant, [req |-> Answered + 1, interim |-> interim,
                                         early |-> ~AskedWhole])
<1>0. Types /\ "client" \in Sides \ {"server"} /\ "server" \in Sides
  BY DEF SidesInv, Sides
<1>1. ASSUME NEW m \in Requests, Request(m)
      PROVE  meant' = meant /\ sent'["server"] = sent["server"]
  BY <1>0, <1>1 DEF Request, Begin, Types
<1>2. ASSUME NEW d \in Sides, More(d) \/ Cut(d) \/ End(d)
      PROVE  meant' = meant /\ sent' = sent
  BY <1>2 DEF More, Cut, End, peers
<1>3. ASSUME NEW m \in Responses, NEW interim \in BOOLEAN, Response(m, interim)
      PROVE  /\ Asked /\ Len(sent'["server"]) = Len(sent["server"]) + 1
             /\ sent'["client"] = sent["client"] /\ parsed'["client"] = parsed["client"]
             /\ meant' = Append(meant, [req |-> Answered + 1, interim |-> interim,
                                        early |-> ~AskedWhole])
  <2>1. /\ Asked /\ Begin("server", m) /\ m \in Sendable
        /\ meant' = Append(meant, [req |-> Answered + 1, interim |-> interim,
                                   early |-> ~AskedWhole])
    BY <1>3 DEF Response, Sendable
  <2>2. Turn("server")
    BY <1>0, <2>1, BeginTurns
  <2>3. sent'["client"] = sent["client"] /\ parsed'["client"] = parsed["client"]
    BY <1>0, <2>2, TurnTypes
  <2>4. sent["server"] \in Seq(Sendable) /\ sent'["server"] = Append(sent["server"], m)
    BY <1>0, <2>1 DEF Begin, Types
  <2>5. Len(sent'["server"]) = Len(sent["server"]) + 1
    BY <2>1, <2>4, AppendOne
  <2>. QED  BY <2>1, <2>3, <2>5
<1>. QED  BY <1>1, <1>2, <1>3 DEF Next

LEMMA MeantStep == SidesInv /\ MeantInv /\ [Next]_vars => MeantInv'
<1> SUFFICES ASSUME SidesInv, MeantInv, [Next]_vars PROVE MeantInv'
  OBVIOUS
<1>1. CASE meant' = meant /\ Len(sent'["server"]) = Len(sent["server"])
  BY <1>1 DEF MeantInv
<1>2. ASSUME Len(sent'["server"]) = Len(sent["server"]) + 1, NEW interim \in BOOLEAN,
             meant' = Append(meant, [req |-> Answered + 1, interim |-> interim,
                                     early |-> ~AskedWhole])
      PROVE  MeantInv'
  <2> DEFINE x == [req |-> Answered + 1, interim |-> interim, early |-> ~AskedWhole]
             W == Append(meant, x)
  <2>1. /\ meant \in Seq(Meaning) /\ Answered \in Nat
        /\ (\A i \in DOMAIN meant : ~meant[i].interim) =>
             Answered = Len(meant) /\ \A i \in DOMAIN meant : meant[i].req = i
    BY AnsweredIs DEF MeantInv
  <2>2. AskedWhole \in BOOLEAN
    BY DEF AskedWhole, Asked
  <2>3. x \in Meaning /\ x.req = Answered + 1
    BY <2>1, <2>2 DEF Meaning
  <2> HIDE DEF x
  <2>4. /\ W \in Seq(Meaning) /\ Len(W) = Len(meant) + 1 /\ DOMAIN W = 1..Len(meant) + 1
        /\ W[Len(meant) + 1] = x /\ \A i \in 1..Len(meant) : W[i] = meant[i]
        /\ Len(meant) \in Nat /\ DOMAIN meant = 1..Len(meant)
    BY <2>1, <2>3, AppendProperties, LenProperties
  <2>5. meant' = W
    BY <1>2 DEF x
  <2> HIDE DEF W
  <2>6. ASSUME \A i \in DOMAIN W : ~W[i].interim
        PROVE  \A i \in DOMAIN W : W[i].req = i
    <3>1. \A i \in DOMAIN meant : ~meant[i].interim
      BY <2>4, <2>6
    <3>2. Answered = Len(meant) /\ \A i \in DOMAIN meant : meant[i].req = i
      BY <2>1, <3>1
    <3> SUFFICES ASSUME NEW i \in 1..Len(meant) + 1 PROVE W[i].req = i
      BY <2>4
    <3>3. CASE i = Len(meant) + 1
      BY <2>3, <2>4, <3>2, <3>3
    <3>4. CASE i # Len(meant) + 1
      <4>1. i \in DOMAIN meant /\ W[i] = meant[i]
        BY <2>4, <3>4
      <4>. QED  BY <3>2, <4>1
    <3>. QED  BY <3>3, <3>4
  <2>7. Len(W) = Len(sent'["server"])
    BY <1>2, <2>4 DEF MeantInv
  <2>. QED  BY <2>4, <2>5, <2>6, <2>7 DEF MeantInv
<1>3. CASE Next
  BY <1>1, <1>2, <1>3, NextMeans
<1>4. CASE UNCHANGED vars
  BY <1>1, <1>4 DEF vars, peers
<1>. QED  BY <1>3, <1>4

\* On a plain connection every response comes after its request, and takes it.
PlainInv ==
  Plain /\ Delimited("client") =>
    /\ \A n \in DOMAIN transactions : transactions[n].req = n
    /\ refused = "none" => Len(sent["server"]) <= Len(parsed["client"])

LEMMA PlainStays ==
  ASSUME SidesInv, MeantInv, Next, Plain', Delimited("client")'
  PROVE  /\ Plain /\ Delimited("client")
         /\ Bordered(sent["client"]) /\ Bordered(sent'["server"]) /\ ~greedy
         /\ \/ meant' = meant /\ Len(sent'["server"]) = Len(sent["server"])
            \/ /\ Len(sent'["server"]) = Len(sent["server"]) + 1
               /\ parsed'["client"] = parsed["client"]
               /\ AskedWhole /\ Answered = Len(sent["server"])
<1>1. PICK d \in Sides : Turn(d)
  BY NextTurns
<1>2. /\ \A e \in Sides : Extends(sent[e], sent'[e])
      /\ greedy' = greedy /\ {"client", "server"} = Sides
  BY <1>1, TurnTypes DEF Sides
<1>3. /\ Bordered(sent'["server"]) /\ Bordered(sent'["client"]) /\ ~greedy'
      /\ \A i \in DOMAIN meant' : ~meant'[i].interim /\ ~meant'[i].early
  BY DEF Plain, Delimited, Bordered
<1>4. Bordered(sent["server"]) /\ Bordered(sent["client"])
  BY <1>2, <1>3, GzippedGrows
<1>5. Delimited("server") /\ Delimited("client")
  BY <1>4 DEF Delimited, Bordered
<1>6. CASE meant' = meant /\ Len(sent'["server"]) = Len(sent["server"])
  <2>1. Plain
    BY <1>2, <1>3, <1>5, <1>6 DEF Plain
  <2>. QED  BY <1>2, <1>3, <1>4, <1>5, <1>6, <2>1
<1>7. ASSUME Len(sent'["server"]) = Len(sent["server"]) + 1,
             parsed'["client"] = parsed["client"], NEW interim \in BOOLEAN,
             meant' = Append(meant, [req |-> Answered + 1, interim |-> interim,
                                     early |-> ~AskedWhole])
      PROVE  Plain /\ AskedWhole /\ Answered = Len(sent["server"])
  <2> DEFINE x == [req |-> Answered + 1, interim |-> interim, early |-> ~AskedWhole]
             W == Append(meant, x)
  <2>1. meant \in Seq(Meaning) /\ Answered \in Nat /\ Len(meant) = Len(sent["server"])
    BY AnsweredIs DEF MeantInv
  <2>2. AskedWhole \in BOOLEAN
    BY DEF AskedWhole, Asked
  <2>3. x \in Meaning /\ x.early = ~AskedWhole
    BY <2>1, <2>2 DEF Meaning
  <2> HIDE DEF x
  <2>4. /\ DOMAIN W = 1..Len(meant) + 1
        /\ W[Len(meant) + 1] = x /\ \A i \in 1..Len(meant) : W[i] = meant[i]
        /\ Len(meant) \in Nat /\ DOMAIN meant = 1..Len(meant)
    BY <2>1, <2>3, AppendProperties, LenProperties
  <2>5. meant' = W
    BY <1>7 DEF x
  <2> HIDE DEF W
  <2>6. \A i \in DOMAIN meant : ~meant[i].interim /\ ~meant[i].early
    BY <1>3, <2>4, <2>5
  <2>7. ~x.early
    BY <1>3, <2>4, <2>5
  <2>8. Answered = Len(meant)
    BY <2>1, <2>6, AnsweredIs
  <2>9. Plain
    BY <1>2, <1>3, <1>5, <2>6 DEF Plain
  <2>. QED  BY <2>1, <2>3, <2>7, <2>8, <2>9
<1>. QED  BY <1>2, <1>3, <1>4, <1>5, <1>6, <1>7, NextMeans

LEMMA PlainNext ==
  ASSUME SidesInv, ListsInv, CountedInv, MeantInv, PlainInv, Next
  PROVE  PlainInv'
<1> SUFFICES ASSUME Plain', Delimited("client")'
             PROVE  /\ \A n \in DOMAIN transactions' : transactions'[n].req = n
                    /\ Len(sent'["server"]) <= Len(parsed'["client"])
  BY DEF PlainInv
<1>1. /\ Plain /\ Delimited("client")
      /\ Bordered(sent["client"]) /\ Bordered(sent'["server"]) /\ ~greedy
      /\ \/ meant' = meant /\ Len(sent'["server"]) = Len(sent["server"])
         \/ /\ Len(sent'["server"]) = Len(sent["server"]) + 1
            /\ parsed'["client"] = parsed["client"]
            /\ AskedWhole /\ Answered = Len(sent["server"])
  BY PlainStays
<1>2. PICK d \in Sides : Turn(d)
  BY NextTurns
<1>3. /\ refused = "none" /\ Types /\ Types' /\ d \in {"client", "server"}
      /\ {"client", "server"} = Sides
      /\ \A e \in Sides \ {d} : parsed'[e] = parsed[e]
  BY <1>2, TurnTypes DEF SidesInv, Turn, Sides
<1>4. /\ \A n \in DOMAIN transactions : transactions[n].req = n
      /\ Len(sent["server"]) <= Len(parsed["client"])
  BY <1>1, <1>3 DEF PlainInv
<1>5. PICK W : Lists(d, W)
  BY <1>2, TurnLists
<1>6. /\ Len(parsed["client"]) \in Nat /\ Len(parsed["server"]) \in Nat
      /\ Len(sent["client"]) \in Nat /\ Len(sent["server"]) \in Nat
      /\ Len(parsed'["client"]) \in Nat /\ Len(sent'["server"]) \in Nat
      /\ DOMAIN sent'["server"] = 1..Len(sent'["server"])
  BY <1>3, LenProperties DEF Types
<1>7. Len(parsed'["client"]) >= Len(parsed["client"])
  BY <1>3, <1>5, <1>6 DEF Lists
<1>8. Len(sent'["server"]) <= Len(parsed'["client"])
  <2>1. CASE Len(sent'["server"]) = Len(sent["server"])
    BY <1>4, <1>6, <1>7, <2>1
  <2>2. CASE /\ Len(sent'["server"]) = Len(sent["server"]) + 1
             /\ parsed'["client"] = parsed["client"]
             /\ AskedWhole /\ Answered = Len(sent["server"])
    <3>1. Len(parsed["client"]) =
            Len(sent["client"]) - (IF rest["client"] = <<>> THEN 0 ELSE 1)
      BY <1>1, <1>3 DEF CountedInv, Counted
    <3>2. /\ Len(sent["client"]) > Len(sent["server"])
          /\ rest["client"] = <<>> \/ Len(sent["client"]) > Len(sent["server"]) + 1
      BY <2>2 DEF AskedWhole, Asked
    <3>3. Len(parsed["client"]) >= Len(sent["server"]) + 1
      <4>1. CASE rest["client"] = <<>>
        <5>1. Len(parsed["client"]) = Len(sent["client"])
          BY <1>6, <3>1, <4>1
        <5>. QED  BY <1>6, <3>2, <5>1
      <4>2. CASE rest["client"] # <<>>
        <5>1. Len(parsed["client"]) = Len(sent["client"]) - 1
          BY <3>1, <4>2
        <5>. QED  BY <1>6, <3>2, <4>2, <5>1
      <4>. QED  BY <4>1, <4>2
    <3>. QED  BY <1>6, <2>2, <3>3
  <2>. QED  BY <1>1, <2>1, <2>2
<1>9. CASE transactions' = transactions
  BY <1>4, <1>8, <1>9
<1>10. CASE /\ d = "server" /\ Len(parsed'[d]) = Len(parsed[d]) + 1 /\ AddTransaction
  <2>1. /\ requests \in Seq(Nat) /\ transactions \in Seq(Transaction)
        /\ Len(transactions) = Len(parsed["server"])
        /\ Queue(requests, transactions, Len(parsed["client"]))
    BY <1>1 DEF ListsInv
  <2>2. Len(parsed["client"]) - Len(requests) = Len(transactions)
    BY <1>4, <1>6, <2>1, QueueCount
  <2>3. Len(parsed["server"]) + 1 \in DOMAIN sent'["server"]
    <3>1. parsed'[d] # parsed[d]
      BY <1>6, <1>10
    <3>. QED  BY <1>1, <1>2, <1>10, <3>1, TurnTells
  <2>4. Len(parsed["server"]) + 1 <= Len(parsed["client"])
    <3>1. parsed'["client"] = parsed["client"]
      BY <1>3, <1>10
    <3>. QED  BY <1>6, <1>8, <2>3, <3>1
  <2>5. requests # <<>>
    <3>1. Len(requests) # 0 /\ Len(requests) \in Nat
      BY <1>6, <2>1, <2>2, <2>4, LenProperties
    <3>. QED  BY <3>1, EmptySeq
  <2> DEFINE x == [req |-> Head(requests), res |-> Len(parsed["server"]) + 1]
             X == Append(transactions, x)
  <2>6. transactions' = X
    BY <1>10, <2>5 DEF AddTransaction
  <2>7. x \in Transaction /\ x.req = Head(requests)
    BY <1>6, <2>1, <2>5, HeadTailProperties DEF Transaction
  <2> HIDE DEF x
  <2>8. x.req = Len(transactions) + 1
    <3>1. x.req = (Len(parsed["client"]) - Len(requests)) + 1
      BY <1>6, <2>1, <2>5, <2>7, QueueTake
    <3>. QED  BY <2>2, <3>1
  <2>9. /\ DOMAIN X = 1..Len(transactions) + 1 /\ X[Len(transactions) + 1] = x
        /\ \A i \in 1..Len(transactions) : X[i] = transactions[i]
        /\ DOMAIN transactions = 1..Len(transactions) /\ Len(transactions) \in Nat
    BY <2>1, <2>7, AppendProperties, LenProperties
  <2> HIDE DEF X
  <2>10. \A n \in DOMAIN X : X[n].req = n
    <3> SUFFICES ASSUME NEW n \in 1..Len(transactions) + 1 PROVE X[n].req = n
      BY <2>9
    <3>1. CASE n = Len(transactions) + 1
      BY <2>8, <2>9, <3>1
    <3>2. CASE n # Len(transactions) + 1
      <4>1. n \in DOMAIN transactions /\ X[n] = transactions[n]
        BY <2>9, <3>2
      <4>. QED  BY <1>4, <4>1
    <3>. QED  BY <3>1, <3>2
  <2>. QED  BY <1>8, <2>6, <2>10
<1>. QED  BY <1>5, <1>9, <1>10 DEF Lists

LEMMA PlainStep ==
  SidesInv /\ ListsInv /\ CountedInv /\ MeantInv /\ PlainInv /\ [Next]_vars => PlainInv'
<1> SUFFICES ASSUME SidesInv, ListsInv, CountedInv, MeantInv, PlainInv, [Next]_vars
             PROVE  PlainInv'
  OBVIOUS
<1>1. CASE Next
  BY <1>1, PlainNext
<1>2. CASE UNCHANGED vars
  BY <1>2 DEF PlainInv, Plain, Delimited, vars, peers, decoder
<1>. QED  BY <1>1, <1>2

(***************************************************************************)
(* However requests and responses are interleaved and cut: as long as the  *)
(* client sends no extra lines, every request that is decoded waits or is  *)
(* in one transaction, the transactions have the requests in their order,  *)
(* and on a plain connection each response is with the request it answers  *)
(* (http_add_transaction).                                                 *)
(***************************************************************************)
THEOREM TransactionsAlwaysAsMeant == Spec => []TransactionsAsMeant
<1>1. Init => CountedInv /\ MeantInv /\ PlainInv
  BY EmptySeq DEF Init, CountedInv, Counted, MeantInv, PlainInv, Sides
<1>2. SidesInv /\ ToldInv /\ ListsInv /\ MeantInv /\ PlainInv => TransactionsAsMeant
  <2> SUFFICES ASSUME SidesInv, ToldInv, ListsInv, MeantInv, PlainInv, Delimited("client")
               PROVE  /\ \A n \in DOMAIN transactions : transactions[n].res = n
                      /\ \A r \in DOMAIN parsed["client"] :
                           (\E i \in DOMAIN requests : requests[i] = r)
                             <=> ~(\E n \in DOMAIN transactions : transactions[n].req = r)
                      /\ \A m, n \in DOMAIN transactions :
                           m < n /\ transactions[m].req # 0 /\ transactions[n].req # 0 =>
                             transactions[m].req < transactions[n].req
                      /\ Plain => \A n \in DOMAIN transactions :
                                    transactions[n].req = meant[n].req
    BY DEF TransactionsAsMeant
  <2>1. /\ Bordered(sent["client"]) /\ Types /\ "server" \in Sides /\ "client" \in Sides
        /\ requests \in Seq(Nat) /\ transactions \in Seq(Transaction)
        /\ Len(transactions) = Len(parsed["server"])
        /\ \A n \in DOMAIN transactions : transactions[n].res = n
    BY DEF Delimited, Bordered, SidesInv, ListsInv, Sides
  <2>2. /\ Len(parsed["client"]) \in Nat /\ DOMAIN parsed["client"] = 1..Len(parsed["client"])
        /\ Len(sent["server"]) \in Nat /\ Len(transactions) \in Nat
        /\ DOMAIN transactions = 1..Len(transactions)
    BY <2>1, LenProperties DEF Types
  <2>3. Queue(requests, transactions, Len(parsed["client"]))
    BY <2>1 DEF ListsInv
  <2>4. \A r \in DOMAIN parsed["client"] :
          (\E i \in DOMAIN requests : requests[i] = r)
            <=> ~(\E n \in DOMAIN transactions : transactions[n].req = r)
    <3>1. \A r \in 1..Len(parsed["client"]) :
            (\E i \in DOMAIN requests : requests[i] = r)
              <=> ~(\E n \in DOMAIN transactions : transactions[n].req = r)
      <4>1. WaitsOrHad(requests, transactions, Len(parsed["client"]))
        BY <2>1, <2>2, <2>3, QueueMeans
      <4>. QED  BY <4>1 DEF WaitsOrHad
    <3>. QED  BY <2>2, <3>1
  <2>5. \A m, n \in DOMAIN transactions :
          m < n /\ transactions[m].req # 0 /\ transactions[n].req # 0 =>
            transactions[m].req < transactions[n].req
    BY <2>3 DEF Queue
  <2>6. ASSUME Plain, NEW n \in DOMAIN transactions
        PROVE  transactions[n].req = meant[n].req
    <3>1. transactions[n].req = n
      BY <2>6 DEF PlainInv
    <3>2. Bordered(sent["server"]) /\ \A i \in DOMAIN meant : ~meant[i].interim
      BY <2>6 DEF Plain, Delimited, Bordered
    <3>3. Len(parsed["server"]) <= Len(sent["server"])
      BY <2>1, <3>2 DEF ToldInv
    <3>4. /\ Len(meant) = Len(sent["server"]) /\ DOMAIN meant = 1..Len(meant)
          /\ \A i \in DOMAIN meant : meant[i].req = i
      BY <3>2, LenProperties DEF MeantInv
    <3>5. n \in DOMAIN meant
      BY <2>1, <2>2, <3>3, <3>4
    <3>. QED  BY <3>1, <3>4, <3>5
  <2>. QED  BY <2>1, <2>4, <2>5, <2>6
<1>3. Init => ToldInv
  BY EmptySeq DEF Init, ToldInv
<1>. QED  BY <1>1, <1>2, <1>3, SidesInit, SidesStep, ToldStep, ListsInit, ListsStep,
             CountedStep, MeantStep, PlainStep, PTL DEF Spec
=============================================================================
