------------------------------ MODULE HttpStream ------------------------------
(***************************************************************************)
(* One direction of an HTTP connection as the decoder reads it             *)
(* (libdecoder/http/decode).  The client's and the server's lexer and push *)
(* parser have the same shape: they read the head of a message, then its   *)
(* body as the fields of the head declare it, and are ready for the next.  *)
(* A stream is a sequence of pieces; a call that delivers several of them  *)
(* does what one call for each does.                                       *)
(*   head    the first line and the fields, those of the body in "length", *)
(*           "chunked" and "encoding"                                      *)
(*   blank   an empty line                                                 *)
(*   size    the line of a chunk's size n; "ext": an extension follows it  *)
(*           without a space                                               *)
(*   field   a line of the trailer of a chunked body                       *)
(*   bytes   bytes of a body: what zlib does with each (quiet: gives no    *)
(*           output, as of a header or a checksum; loud: gives output)     *)
(* A line where body bytes are expected counts as one "line" byte.         *)
(***************************************************************************)
EXTENDS Naturals, Sequences, FiniteSets

CONSTANT OutBuffer   \* MAX_INFLATE_OUT_BUFFER, in outputs of a loud byte

ASSUME OutBufferAssumption == OutBuffer \in Nat \ {0}

\* INITIAL and the rest of the first line and fields; the modes of the body.
LexStates == {"initial", "header", "normal", "size", "chunk", "tail"}
Encodings == {"none", "deflate", "gzip"}
Transfers == {"none", "normal", "chunked"}

Stream ==
  [lex : LexStates, length : Nat, chunked : BOOLEAN, encoding : Encodings,
   unzip : Encodings, size : Nat, body : Transfers, label : Encodings, fresh : BOOLEAN]

\* http_parser_t of a direction, and the semantic value that the mid-rule
\* action of request_body and response_body leaves on the parser's stack.
Clean ==
  [lex |-> "initial", length |-> 0, chunked |-> FALSE, encoding |-> "none",
   unzip |-> "none", size |-> 0, body |-> "none", label |-> "none", fresh |-> FALSE]

(***************************************************************************)
(* What a piece leads to: the stream after it; how the call goes on (more, *)
(* refused, the end of the input accepted, stuck in the gzip reader);      *)
(* whether the piece starts a fresh parser, which initialises the list of  *)
(* its direction; and the message it completes, if any.                    *)
(***************************************************************************)
On(s) == [stream |-> s, out |-> "more", init |-> FALSE, done |-> <<>>]
Fails(s) == [On(s) EXCEPT !.out = "refused"]

-----------------------------------------------------------------------------
(* The body.                                                               *)

\* The mid-rule action before the first part or chunk of a body.
BeginBody(s, transfer) ==
  IF s.body # "none" THEN s
  ELSE [s EXCEPT !.body = transfer, !.label = s.encoding, !.size = 0,
                 !.unzip = s.encoding]

\* Mutant: the content fields of the parser survive the message.
EndKeepsEncoding(s) ==
  [On([s EXCEPT !.lex = "initial", !.unzip = "none",
                !.size = 0, !.body = "none", !.label = "none"])
    EXCEPT !.done = <<[transfer |-> s.body, encoding |-> s.label, size |-> s.size]>>]

\* The reductions of the whole body at BODY_END, and the message.
EndBody(s) ==
  [On([s EXCEPT !.lex = "initial", !.encoding = "none", !.unzip = "none",
                !.size = 0, !.body = "none", !.label = "none"])
    EXCEPT !.done = <<[transfer |-> s.body, encoding |-> s.label, size |-> s.size]>>]

(***************************************************************************)
(* The end of the input, and the token -1 of whatever the start condition  *)
(* does not list, which yypush_parse takes for the end of the input.       *)
(* Between messages it is accepted: the call succeeds, what is left of its *)
(* buffer is dropped, and the next token starts a fresh parser.  Within a  *)
(* chunked body, but not within a chunk's data, the default reductions     *)
(* complete the message before the token is found to be an error.  Before  *)
(* the first chunk the default reduction is that of an ordinary body, and  *)
(* the token is an error with nothing completed.                           *)
(***************************************************************************)
EndInput(s) ==
  CASE s.lex = "initial" ->
         [On([s EXCEPT !.fresh = TRUE]) EXCEPT !.out = "accepted", !.init = s.fresh]
    [] s.lex \in {"size", "chunk", "tail"} /\ s.body # "none" ->
         [EndBody(s) EXCEPT !.out = "refused"]
    [] OTHER -> Fails(s)

Loud(outs) == Cardinality({i \in DOMAIN outs : outs[i] = "loud"})

\* do_inflate runs as long as the output buffer is full and fails when there is
\* neither input nor output left; http_unzip_string refuses an empty output.
Inflates(outs) ==
  /\ Loud(outs) > 0
  /\ ~(Loud(outs) % OutBuffer = 0 /\ outs[Len(outs)] = "loud")

\* A body part: copied, or unpacked.  do_gunzip has no way to return success
\* after the first byte of the packed data.
BodyPart(s, outs) ==
  CASE s.unzip = "none" -> On([s EXCEPT !.size = @ + Len(outs)])
    [] s.unzip = "deflate" /\ Inflates(outs) -> On([s EXCEPT !.size = @ + Loud(outs)])
    [] s.unzip = "deflate" /\ ~Inflates(outs) -> Fails(s)
    [] s.unzip = "gzip" -> [Fails(s) EXCEPT !.out = "gunzip"]

\* Bytes in BODY_NORMAL or of a chunk: one part of what is left.  A normal body
\* ends with its last byte.  Bytes beyond the body or chunk are lexed as lines
\* are, in conditions that list no bytes.
BodyBytes(s, outs) ==
  LET read == IF Len(outs) > s.length THEN s.length ELSE Len(outs)
      part == BodyPart([BeginBody(s, "normal") EXCEPT !.length = s.length - read],
                       SubSeq(outs, 1, read))
      next == IF s.lex = "normal" /\ part.stream.length = 0
              THEN EndBody(part.stream) ELSE part
  IN  CASE part.out # "more" -> part
        [] part.out = "more" /\ Len(outs) = read -> next
        [] part.out = "more" /\ Len(outs) > read ->
             [EndInput(next.stream) EXCEPT !.done = next.done \o @]

-----------------------------------------------------------------------------
(* The lines.                                                              *)

\* The fields of a head.
HeadFields(s, p) ==
  [On([s EXCEPT !.lex = "header", !.fresh = FALSE,
                !.length = IF p.length > 0 THEN p.length ELSE @,
                !.chunked = @ \/ p.chunked,
                !.encoding = IF p.encoding # "none" THEN p.encoding ELSE @])
    EXCEPT !.init = s.fresh]

\* The blank line after them.  A body of no bytes ends at once and is no body.
HeadEnd(s) ==
  IF s.chunked THEN On([s EXCEPT !.lex = "size"])
  ELSE IF s.length > 0 THEN On([s EXCEPT !.lex = "normal"])
  ELSE EndBody(s)

\* Mutant: a chunk of size zero is a chunk like any other.
NoLastChunk(s, p) ==
  IF p.ext THEN Fails(s)
  ELSE On([BeginBody(s, "chunked") EXCEPT !.length = p.n, !.lex = "chunk"])

\* The line of a chunk's size.
ChunkHeader(s, p) ==
  IF p.ext THEN Fails(s)
  ELSE On([BeginBody(s, "chunked") EXCEPT
             !.length = p.n, !.lex = IF p.n > 0 THEN "chunk" ELSE "tail"])

\* Mutant: the body info is not initialised for the next message.
TailWithoutInit(s) == EndBody(s)

\* The blank line after the trailer; http_lexer_init_body_info.
TailEnd(s) == EndBody([s EXCEPT !.length = 0, !.chunked = FALSE])

\* The start conditions in which http_client_lex_body_mode holds.
BodyMode(s) == s.lex = "normal" \/ (s.lex = "chunk" /\ s.length > 0)

\* A piece in a stream.
Feed(s, p) ==
  CASE BodyMode(s) -> BodyBytes(s, IF p.kind = "bytes" THEN p.outs ELSE <<"line">>)
    [] s.lex = "initial" /\ p.kind = "head" -> HeadFields(s, p)
    [] s.lex = "header" /\ p.kind = "blank" -> HeadEnd(s)
    [] s.lex = "size" /\ p.kind = "size"    -> ChunkHeader(s, p)
    [] s.lex = "chunk" /\ s.length = 0 /\ p.kind = "blank" ->
         On([s EXCEPT !.lex = "size"])
    [] s.lex = "tail" /\ p.kind = "field"   -> On(s)
    [] s.lex = "tail" /\ p.kind = "blank"   -> TailEnd(s)
    [] OTHER                                -> EndInput(s)

\* The last fragment: in a body mode the lexer waits for more and the call
\* succeeds; elsewhere the end of the input is a token.
Last(s) == IF BodyMode(s) THEN On(s) ELSE EndInput(s)
=============================================================================
