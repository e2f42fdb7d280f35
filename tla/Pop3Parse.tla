------------------------------ MODULE Pop3Parse ------------------------------
(***************************************************************************)
(* The POP3 lexers and grammars (libdecoder/pop3/decode): what the server  *)
(* lexer makes of a piece of a line, and what the push parser does with    *)
(* the token.  A line reaches the lexer in pieces:                         *)
(*   ok, err   "+OK" or "-ERR" at the beginning of a line                  *)
(*   text      other characters of a line                                  *)
(*   dot       a line of one dot, with its end; it ends a multi-line answer *)
(*   dots      a line of two dots, with its end: a body line "." in transit *)
(*   nl        the end of a line                                           *)
(***************************************************************************)

Pieces == {"ok", "err", "text", "dot", "dots", "nl"}

\* The start conditions: INITIAL, POSITIVE_LINE and NEGATIVE_LINE, POSITIVE_BODY.
LexStates == {"initial", "line", "body"}

(***************************************************************************)
(* The token of a piece.  In INITIAL the first character of a body line is *)
(* consumed by the rule "." (yymore) before the condition becomes BODY, so *)
(* that of a dot only its line end is left to match, and of two dots only  *)
(* what reads as a single one.  "bodyline" stands for the two tokens of a  *)
(* line that comes in one piece.                                           *)
(***************************************************************************)
Token(l, piece) ==
  CASE l = "initial" /\ piece \in {"ok", "err"} -> piece
    [] piece = "nl" -> IF l = "initial" THEN "eaten" ELSE "newline"
    [] l = "initial" /\ piece = "dot" -> "newline"
    [] l = "initial" /\ piece = "dots" -> "eob"
    [] l = "body" /\ piece = "dot" -> "eob"
    [] l = "body" /\ piece = "dots" -> "bodyline"
    [] OTHER -> "string"

\* Mutant: the end of a body does not lead back to INITIAL.
LexStaysInBody(l, piece) ==
  CASE l = "initial" /\ piece \in {"ok", "err"} -> "line"
    [] l = "initial" /\ piece \in {"text", "dot"} -> "body"
    [] l = "line" /\ piece = "nl" -> "initial"
    [] OTHER -> l

LexAfter(l, piece) ==
  CASE l = "initial" /\ piece \in {"ok", "err"} -> "line"
    [] l = "initial" /\ piece \in {"text", "dot"} -> "body"
    [] l = "line" /\ piece = "nl" -> "initial"
    [] l = "body" /\ piece = "dot" -> "initial"
    [] OTHER -> l

\* A buffer that ends after the first character of a body line leaves the
\* condition in BODY; the character is kept for the next call.
LexCut(l, piece) ==
  IF l = "initial" /\ piece \in {"text", "dot", "dots"} THEN "body" ELSE l

-----------------------------------------------------------------------------
(***************************************************************************)
(* The states of the server's push parser between tokens, and where a      *)
(* token leads.  "head" is the state after the first line of a positive    *)
(* answer: a body may follow, or the next answer, whose token completes    *)
(* this one by the default reductions.  A token that a state does not list *)
(* is a syntax error; the grammar has no error rules.                      *)
(***************************************************************************)
Goto ==
  [list    |-> [ok |-> "ok", err |-> "err"],
   ok      |-> [string |-> "okline", newline |-> "head"],
   okline  |-> [newline |-> "head"],
   head    |-> [string |-> "line", bodyline |-> "lines", eob |-> "list",
                ok |-> "ok", err |-> "err"],
   line    |-> [newline |-> "lines"],
   lines   |-> [string |-> "line", bodyline |-> "lines", eob |-> "list"],
   err     |-> [string |-> "errline", newline |-> "list"],
   errline |-> [newline |-> "list"]]

ParserStates == DOMAIN Goto

Takes(p, token) == token \in DOMAIN Goto[p]

\* The reduction in the middle of the rule of an answer, which pairs it, comes
\* with the token after "+OK" or "-ERR".
PairsIn == {"ok", "err"}
=============================================================================
