------------------------------- MODULE HtmlLex -------------------------------
(***************************************************************************)
(* The lexer of the HTML decoder (libdecoder/html/decode/html.l): the      *)
(* longest match at the beginning of a buffer, by start condition.         *)
(* Characters are what its patterns tell apart:                            *)
(*   "w"  a letter or digit         "s"  white space                       *)
(*   "q"  a quote; the three kinds have the same rules                     *)
(*   "<", ">", "/", "=", "!", "-"   themselves                             *)
(* Names are runs of letters; which tag, property or event they name is    *)
(* left out, so are the few names with a "-" or ":", C-like comments       *)
(* within a tag, and line ends where a pattern's "." does not match them.  *)
(***************************************************************************)
EXTENDS Naturals, Sequences, SequencesExt, FiniteSetsExt

Chars == {"w", "s", "q", "<", ">", "/", "=", "!", "-"}
LexStates == {"initial", "comment", "meta", "tag_name", "prot_name", "prot_value",
              "quoted", "noquote"}

\* How many characters at the beginning of s are in C.
Span(s, C) ==
  LET stops == {i \in DOMAIN s : s[i] \notin C}
  IN  IF stops = {} THEN Len(s) ELSE Min(stops) - 1

(***************************************************************************)
(* A match: how many characters; whether the scanner ran into the end of   *)
(* the buffer while it looked for a longer one; the start condition after  *)
(* it; the token, if the rule returns one, with its text; and whether the  *)
(* rule puts the character back (unput).                                   *)
(***************************************************************************)
Match(n, open, next, token) ==
  [len |-> n, open |-> open, next |-> next, token |-> token, text |-> <<>>, back |-> FALSE]
Eats(n, open, next) == Match(n, open, next, "none")
PutsBack(next) == [Eats(1, FALSE, next) EXCEPT !.back = TRUE]
TextOf(m, s, n) == [m EXCEPT !.text = SubSeq(s, 1, n)]

InInitial(s) ==
  LET n == Span(s, Chars \ {"<"})
  IN  CASE n > 0 -> TextOf(Match(n, n = Len(s), "initial", "TEXT"), s, n)
        [] n = 0 /\ IsPrefix(<<"<", "!", "-", "-">>, s) -> Eats(4, FALSE, "comment")
        [] n = 0 /\ IsPrefix(<<"<", "!">>, s) /\ ~IsPrefix(<<"<", "!", "-", "-">>, s) ->
             Eats(2, IsPrefix(s, <<"<", "!", "-">>), "meta")
        [] n = 0 /\ IsPrefix(<<"<", "/">>, s) -> Match(2, FALSE, "tag_name", "TAG_START_FLAG2")
        [] OTHER -> Match(1, Len(s) = 1, "tag_name", "TAG_START_FLAG")

InComment(s) ==
  IF IsPrefix(<<"-", "-", ">">>, s) THEN Eats(3, FALSE, "initial")
  ELSE Eats(1, IsPrefix(s, <<"-", "-">>), "comment")

InMeta(s) == Eats(1, FALSE, IF s[1] = ">" THEN "initial" ELSE "meta")

\* What is neither a name nor white space is the token -1.
InTagName(s) ==
  LET spaces == Span(s, {"s"})
      letters == Span(s, {"w"})
  IN  CASE spaces > 0  -> Eats(spaces, spaces = Len(s), "tag_name")
        [] letters > 0 -> Match(letters, letters = Len(s), "prot_name", "TAG_NAME")
        [] OTHER       -> Match(1, FALSE, "tag_name", "BAD")

\* A slash is the end of the tag if nothing but white space is between it and ">".
InProtName(s) ==
  LET spaces == Span(s, {"s"})
      letters == Span(s, {"w"})
      slash == 1 + Span(Tail(s), {"s"})
  IN  CASE spaces > 0  -> Eats(spaces, spaces = Len(s), "prot_name")
        [] letters > 0 -> Match(letters, letters = Len(s), "prot_name", "PROT")
        [] s[1] = "="  -> Match(1, FALSE, "prot_value", "EQUAL")
        [] s[1] = ">"  -> Match(1, FALSE, "initial", "TAG_END_FLAG")
        [] s[1] = "/" /\ slash < Len(s) /\ s[slash + 1] = ">" ->
             Match(slash + 1, FALSE, "initial", "TAG_END_FLAG2")
        [] s[1] = "/" /\ ~(slash < Len(s) /\ s[slash + 1] = ">") ->
             Eats(1, slash = Len(s), "prot_name")
        [] OTHER       -> Eats(1, FALSE, "prot_name")

InProtValue(s) ==
  LET spaces == Span(s, {"s"})
  IN  CASE spaces > 0 -> Eats(spaces, spaces = Len(s), "prot_value")
        [] s[1] = "q" -> Eats(1, FALSE, "quoted")
        [] OTHER      -> PutsBack("noquote")

\* Without its quote a quoted value is the token -1.
InQuoted(s) ==
  LET n == Span(s, Chars \ {"q"})
  IN  IF n < Len(s) THEN TextOf(Match(n + 1, FALSE, "prot_name", "TEXT"), s, n)
      ELSE Match(1, TRUE, "quoted", "BAD")

InNoQuote(s) ==
  LET n == Span(s, Chars \ {"s", "<", ">"})
  IN  IF n > 0 THEN TextOf(Match(n, n = Len(s), "prot_name", "TEXT"), s, n)
      ELSE PutsBack("prot_name")

\* The match at the beginning of a buffer that is not empty.
LongestMatch(lex, s) ==
  CASE lex = "initial"    -> InInitial(s)
    [] lex = "comment"    -> InComment(s)
    [] lex = "meta"       -> InMeta(s)
    [] lex = "tag_name"   -> InTagName(s)
    [] lex = "prot_name"  -> InProtName(s)
    [] lex = "prot_value" -> InProtValue(s)
    [] lex = "quoted"     -> InQuoted(s)
    [] lex = "noquote"    -> InNoQuote(s)
=============================================================================
