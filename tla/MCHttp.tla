-------------------------------- MODULE MCHttp --------------------------------
(***************************************************************************)
(* Two requests and one interim response; an output buffer of two.         *)
(***************************************************************************)
EXTENDS HttpSession

Plainly(framing, declared, chunks) ==
  [framing |-> framing, declared |-> declared, encoding |-> "none",
   chunks |-> chunks, ext |-> FALSE, trailer |-> FALSE, extra |-> FALSE]

NoBody == Plainly("none", 0, <<>>)
Two == Plainly("length", 2, << <<"loud", "loud">> >>)
\* A chunked body whose head also declares a length.
Chunked == Plainly("chunked", 2, << <<"loud">>, <<"loud", "loud">> >>)
Packed == [Two EXCEPT !.encoding = "deflate"]
PackedChunks == [Plainly("chunked", 0, << <<"quiet", "loud">>, <<"loud">> >>)
                   EXCEPT !.encoding = "deflate", !.trailer = TRUE]

MCRequests == {NoBody, Chunked, Two, [Two EXCEPT !.extra = TRUE]}
MCResponses ==
  {NoBody, Two, PackedChunks, Packed,
   Plainly("bodiless", 2, <<>>),
   Plainly("close", 0, << <<"loud", "loud">> >>),
   [Chunked EXCEPT !.ext = TRUE],
   [Two EXCEPT !.encoding = "gzip"]}
=============================================================================
