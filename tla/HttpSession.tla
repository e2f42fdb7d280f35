------------------------------ MODULE HttpSession ------------------------------
(***************************************************************************)
(* An HTTP connection as the decoder sees it (libdecoder/http): the bytes  *)
(* of both directions arrive through http_decode_data in the order in      *)
(* which they pass, each direction has its stream (HttpStream), complete   *)
(* requests wait in request_list, and every complete response makes a      *)
(* transaction with the oldest of them.                                    *)
(*                                                                         *)
(* Client and server are outside the repository.  A client may send before *)
(* the last response has come; a server answers the requests in their      *)
(* order, may send interim (1xx) responses first and may answer before it  *)
(* has the whole request.  Some old clients send an extra empty line after *)
(* a request.  As testsuite/demo.c, the caller gives up at the first call  *)
(* that fails.                                                             *)
(***************************************************************************)
EXTENDS HttpStream

CONSTANTS
  Requests,      \* the requests that clients of the instance send
  Responses,     \* the responses of its servers
  MaxRequests,   \* bound: the requests of a connection
  MaxInterim     \* bound: the interim responses of a connection

Sides == {"client", "server"}

(***************************************************************************)
(* A message: how its head delimits the body, the length the head declares *)
(* (0: none), the encoding, the chunks the body is sent in (one, if not    *)
(* chunked), whether a chunk's size has an extension, whether there is a   *)
(* trailer, whether an extra empty line follows.  "bodiless" is the answer *)
(* to a HEAD request: the head of a body that is not sent.  The peers are  *)
(* honest: a body has the length declared, and no chunk but the last one, *)
(* which BodyPieces adds, is empty.                                        *)
(***************************************************************************)
Framings == {"none", "length", "chunked", "close", "bodiless"}
Message ==
  [framing : Framings, declared : Nat, encoding : Encodings,
   chunks : Seq(Seq({"quiet", "loud"})), ext : BOOLEAN, trailer : BOOLEAN,
   extra : BOOLEAN]

ASSUME SessionAssumption ==
  /\ Requests \subseteq Message /\ Responses \subseteq Message
  /\ \A m \in Requests \cup Responses :
       /\ m.framing \in {"length", "close"} => Len(m.chunks) = 1
       /\ m.framing = "length" => m.declared = Len(m.chunks[1])
       /\ m.framing \in {"none", "close"} => m.declared = 0
       /\ \A i \in DOMAIN m.chunks : m.chunks[i] # <<>>
  /\ MaxRequests \in Nat /\ MaxInterim \in Nat

VARIABLES
  \* the peers
  sent,      \* the messages each side has begun to send
  rest,      \* the pieces of the last one that are still to come
  meant,     \* for each response: the request it answers, interim, early
  \* the decoder
  greedy,    \* parser.greedy, the same for both directions
  held,      \* parser.saved: a complete line kept for the next call
  dropping,  \* the call that decodes the stream drops the rest of its buffer
  streams,   \* request_parser and response_parser
  parsed,    \* the messages each of them has completed
  requests,  \* request_list, by their numbers in parsed
  transactions, \* transaction_list: numbers of a request (0: none) and a response
  ended,     \* the sides whose last fragment has been decoded
  refused    \* "none", the side whose call has failed, or "hangs"

peers == <<sent, rest, meant>>
decoder == <<held, dropping, streams, parsed, requests, transactions, refused>>
vars == <<peers, greedy, decoder, ended>>

Nothing == [kind |-> "nothing"]
Blank == [kind |-> "blank"]
Size(n, ext) == [kind |-> "size", n |-> n, ext |-> ext]
Bytes(outs) == [kind |-> "bytes", outs |-> outs]

-----------------------------------------------------------------------------
(* The decoder.                                                            *)

\* Mutant: a response takes the youngest request.
YoungestTransaction ==
  LET r == IF requests = <<>> THEN 0 ELSE requests[Len(requests)]
  IN  /\ transactions' = Append(transactions, [req |-> r, res |-> Len(parsed["server"]) + 1])
      /\ requests' = IF requests = <<>> THEN <<>>
                     ELSE SubSeq(requests, 1, Len(requests) - 1)

\* http_add_transaction.  The response just inserted is the first of
\* response_list: none waits there.
AddTransaction ==
  LET r == IF requests = <<>> THEN 0 ELSE Head(requests)
  IN  /\ transactions' = Append(transactions, [req |-> r, res |-> Len(parsed["server"]) + 1])
      /\ requests' = IF requests = <<>> THEN <<>> ELSE Tail(requests)

\* A fresh client parser initialises request_list.
Waiting(d, init) == IF d = "client" /\ init THEN <<>> ELSE requests

\* The message a call completes, in the list of its side.
Complete(d, f) ==
  /\ parsed' = [parsed EXCEPT ![d] = @ \o f.done]
  /\ CASE f.done = <<>> -> requests' = Waiting(d, f.init) /\ UNCHANGED transactions
       [] f.done # <<>> /\ d = "server" -> AddTransaction
       [] f.done # <<>> /\ d = "client" ->
            /\ requests' = Append(Waiting(d, f.init), Len(parsed[d]) + 1)
            /\ UNCHANGED transactions

\* f is what a piece or two of a call lead to.
Decode(d, f) ==
  /\ streams' = [streams EXCEPT ![d] = f.stream]
  /\ Complete(d, f)
  /\ dropping' = [dropping EXCEPT ![d] = f.out = "accepted"]
  /\ CASE f.out \in {"more", "accepted"} -> UNCHANGED refused
       [] f.out = "refused" -> refused' = d
       [] f.out = "gunzip"  -> refused' \in {d, "hangs"}

FeedHeld(d) == IF held[d] = Nothing THEN On(streams[d]) ELSE Feed(streams[d], held[d])

\* Piece g after the kept piece f.
Both(f, g) == [g EXCEPT !.done = f.done \o @, !.init = f.init \/ @]

\* A greedy parser keeps the line that ends a buffer and gets it with the next
\* one.  Bytes of a body are never kept.  Of what INITIAL does not list the
\* first character is a token, which is kept only if it ends the buffer.
Keeps(s, p) ==
  /\ greedy /\ ~BodyMode(s)
  /\ s.lex = "initial" => p.kind = "head" \/ (p.kind = "bytes" /\ Len(p.outs) = 1)

\* Of a head that is kept only the last line is: its first token is decoded.
Starts(f, p) ==
  IF p.kind # "head" THEN f
  ELSE [f EXCEPT !.init = @ \/ f.stream.fresh, !.stream.fresh = FALSE]

\* A piece p arrives, in the call that drops its buffer or in another one.
Call(d, p) ==
  LET f == FeedHeld(d)
      g == Feed(f.stream, p)
  IN  \/ dropping[d] /\ UNCHANGED decoder
      \/ f.out # "more" /\ Decode(d, f) /\ held' = [held EXCEPT ![d] = Nothing]
      \/ f.out = "more" /\ Keeps(f.stream, p)
         /\ Decode(d, Starts(f, p)) /\ held' = [held EXCEPT ![d] = p]
      \/ f.out = "more" /\ (Keeps(f.stream, p) => p.kind = "bytes")
         /\ Decode(d, Both(f, g)) /\ held' = [held EXCEPT ![d] = Nothing]

-----------------------------------------------------------------------------
(* The peers.                                                              *)

HeadOf(m) ==
  [kind |-> "head", length |-> m.declared, chunked |-> m.framing = "chunked",
   encoding |-> m.encoding]

\* The pieces of a chunk, and of a message after its head.
Chunk(m, i) == <<Size(Len(m.chunks[i]), m.ext), Bytes(m.chunks[i]), Blank>>
BodyPieces(m) ==
  LET chunks == [i \in 1..3 * Len(m.chunks) |->
                   Chunk(m, (i + 2) \div 3)[((i + 2) % 3) + 1]]
      trailer == IF m.trailer THEN <<[kind |-> "field"]>> ELSE <<>>
      body == CASE m.framing \in {"none", "bodiless"} -> <<>>
                [] m.framing \in {"length", "close"}  -> <<Bytes(m.chunks[1])>>
                [] m.framing = "chunked" ->
                     chunks \o <<Size(0, m.ext)>> \o trailer \o <<Blank>>
  IN  <<Blank>> \o body \o (IF m.extra THEN <<Blank>> ELSE <<>>)

Live(d) == refused = "none" /\ d \notin ended

Answered == Cardinality({i \in DOMAIN meant : ~meant[i].interim})
Interims == Cardinality({i \in DOMAIN meant : meant[i].interim})

\* The server has the head of the next request; it has the whole of it.
Asked == Len(sent["client"]) > Answered
AskedWhole == Asked /\ (rest["client"] = <<>> \/ Len(sent["client"]) > Answered + 1)

Begin(d, m) ==
  /\ Live(d) /\ rest[d] = <<>>
  /\ sent' = [sent EXCEPT ![d] = Append(@, m)]
  /\ rest' = [rest EXCEPT ![d] = BodyPieces(m)]
  /\ Call(d, HeadOf(m))
  /\ UNCHANGED <<greedy, ended>>

Request(m) ==
  /\ Len(sent["client"]) < MaxRequests
  /\ Begin("client", m)
  /\ UNCHANGED meant

Closing == sent["server"] # <<>> /\ sent["server"][Len(sent["server"])].framing = "close"

Response(m, interim) ==
  /\ Asked /\ ~Closing
  /\ interim => m.framing = "none" /\ Interims < MaxInterim
  /\ meant' = Append(meant, [req |-> Answered + 1, interim |-> interim,
                             early |-> ~AskedWhole])
  /\ Begin("server", m)

\* The next line, or some of the bytes of the body.
More(d) ==
  /\ Live(d) /\ rest[d] # <<>>
  /\ LET p == Head(rest[d]) IN
     \/ /\ p.kind # "bytes"
        /\ rest' = [rest EXCEPT ![d] = Tail(@)]
        /\ Call(d, p)
     \/ /\ p.kind = "bytes"
        /\ \E k \in 1..Len(p.outs) :
             /\ Call(d, Bytes(SubSeq(p.outs, 1, k)))
             /\ rest' = [rest EXCEPT ![d] =
                  IF k = Len(p.outs) THEN Tail(@)
                  ELSE <<Bytes(SubSeq(p.outs, k + 1, Len(p.outs)))>> \o Tail(@)]
  /\ UNCHANGED <<sent, meant, greedy, ended>>

\* A buffer that ends within the next line: a greedy parser gets what it kept.
Cut(d) ==
  /\ Live(d) /\ held[d].kind \notin {"nothing", "bytes"}
  /\ IF rest[d] # <<>> THEN Head(rest[d]).kind # "bytes"
     ELSE IF d = "client" THEN Len(sent[d]) < MaxRequests ELSE Asked /\ ~Closing
  /\ Decode(d, FeedHeld(d))
  /\ held' = [held EXCEPT ![d] = Nothing]
  /\ UNCHANGED <<peers, greedy, ended>>

\* The last fragment.
End(d) ==
  /\ Live(d) /\ (d = "server" => "client" \in ended)
  /\ LET f == FeedHeld(d) IN
       Decode(d, IF f.out = "more" THEN Both(f, Last(f.stream)) ELSE f)
  /\ held' = [held EXCEPT ![d] = Nothing]
  /\ ended' = ended \cup {d}
  /\ UNCHANGED <<peers, greedy>>

-----------------------------------------------------------------------------
Init ==
  /\ sent = [d \in Sides |-> <<>>] /\ rest = [d \in Sides |-> <<>>] /\ meant = <<>>
  /\ greedy \in BOOLEAN
  /\ held = [d \in Sides |-> Nothing]
  /\ dropping = [d \in Sides |-> FALSE]
  /\ streams = [d \in Sides |-> [Clean EXCEPT !.fresh = TRUE]]
  /\ parsed = [d \in Sides |-> <<>>]
  /\ requests = <<>> /\ transactions = <<>>
  /\ ended = {} /\ refused = "none"

Next ==
  \/ \E m \in Requests : Request(m)
  \/ \E m \in Responses, interim \in BOOLEAN : Response(m, interim)
  \/ \E d \in Sides : More(d) \/ Cut(d) \/ End(d)

Spec == Init /\ [][Next]_vars

-----------------------------------------------------------------------------
(***************************************************************************)
(* No message leaves anything behind for the next one on its connection    *)
(* (http_parser_t): between messages the declared length is used up, the   *)
(* chunked flag and the content encoding are reset, and no body and no     *)
(* unpacker are open.  Within one, the flag agrees with the start          *)
(* condition, as http_server_lex_body_mode asserts.                        *)
(***************************************************************************)
FramingClean ==
  refused = "none" => \A d \in Sides :
    /\ streams[d].lex = "initial" =>
         /\ streams[d].length = 0 /\ ~streams[d].chunked
         /\ {streams[d].encoding, streams[d].unzip, streams[d].body} = {"none"}
    /\ streams[d].lex = "normal" => ~streams[d].chunked /\ streams[d].length > 0
    /\ streams[d].lex \in {"size", "chunk", "tail"} => streams[d].chunked

(***************************************************************************)
(* What makes the borders of messages unknown to the decoder: a body that  *)
(* only the end of the connection delimits and a head whose body is not    *)
(* sent, which depend on the request or the connection, and an extra empty *)
(* line, which the decoder takes for the end of the input.                 *)
(***************************************************************************)
Delimited(d) ==
  \A i \in DOMAIN sent[d] : /\ sent[d][i].framing \notin {"close", "bodiless"}
                            /\ ~sent[d][i].extra

\* The bytes of a message's body, and the message a decoder should make of it.
BodyTo(m, n) ==
  LET all[i \in 0..Len(m.chunks)] ==
        IF i = 0 THEN <<>> ELSE all[i - 1] \o m.chunks[i]
  IN  all[n]
BodyOf(m) == BodyTo(m, Len(m.chunks))
Decoded(m) ==
  IF m.framing = "none" THEN [transfer |-> "none", encoding |-> "none", size |-> 0]
  ELSE [transfer |-> IF m.framing = "chunked" THEN "chunked" ELSE "normal",
        encoding |-> m.encoding,
        size |-> IF m.encoding = "none" THEN Len(BodyOf(m)) ELSE Loud(BodyOf(m))]

(***************************************************************************)
(* The messages that are decoded are the messages that were sent, in their *)
(* order, with the size, the encoding and the transfer of their bodies,    *)
(* however the stream is cut and whatever came before on the connection    *)
(* (request_body and response_body of the grammars).                       *)
(***************************************************************************)
BodiesAsSent ==
  \A d \in Sides : Delimited(d) /\ refused # d =>
    /\ Len(parsed[d]) <= Len(sent[d])
    /\ \A i \in DOMAIN parsed[d] : parsed[d][i] = Decoded(sent[d][i])

\* A connection whose responses come one for a request and after it, to a
\* parser that keeps nothing back.
Plain ==
  /\ ~greedy /\ Delimited("server")
  /\ \A i \in DOMAIN meant : ~meant[i].interim /\ ~meant[i].early

(***************************************************************************)
(* Unless the client sends extra lines, no request is lost, doubled or     *)
(* overtaken, and on a plain connection, pipelined or not, every response  *)
(* makes its transaction with the request it answers                       *)
(* (http_add_transaction).                                                 *)
(***************************************************************************)
TransactionsAsMeant ==
  Delimited("client") =>
  /\ \A n \in DOMAIN transactions : transactions[n].res = n
  /\ \A r \in DOMAIN parsed["client"] :
       (\E i \in DOMAIN requests : requests[i] = r)
         <=> ~(\E n \in DOMAIN transactions : transactions[n].req = r)
  /\ \A m, n \in DOMAIN transactions :
       m < n /\ transactions[m].req # 0 /\ transactions[n].req # 0 =>
         transactions[m].req < transactions[n].req
  /\ Plain => \A n \in DOMAIN transactions : transactions[n].req = meant[n].req

\* The honest messages a decoder has no way to read: the body of the head is
\* not sent, a chunk extension follows the size without a space, or the body is
\* packed, where a part without output is an error.
Unreadable(m) ==
  \/ m.framing = "bodiless"
  \/ m.framing = "chunked" /\ m.ext
  \/ m.framing \in {"length", "chunked"} /\ m.encoding # "none"

(***************************************************************************)
(* The decoder refuses nothing else: a side is refused within or after a   *)
(* message it cannot read, or at an end within a message; it hangs in a    *)
(* gzip body only.  A stream whose end is accepted is between messages or  *)
(* lacks bytes of a body (the grammars, http_unzip_string, do_gunzip).     *)
(***************************************************************************)
RefusalsKnown ==
  /\ \A d \in Sides : refused = d =>
       \/ \E i \in DOMAIN sent[d] : Unreadable(sent[d][i])
       \/ d \in ended /\ rest[d] # <<>>
  /\ refused = "hangs" =>
       \E d \in Sides : \E i \in DOMAIN sent[d] : sent[d][i].encoding = "gzip"
  /\ \A d \in ended : refused = "none" =>
       \/ streams[d].lex = "initial"
       \/ BodyMode(streams[d]) /\ (Delimited(d) => rest[d] # <<>>)
=============================================================================
