----------------------------- MODULE HtmlSession -----------------------------
(***************************************************************************)
(* Work of the HTML decoder (libdecoder/html): a page that comes in pieces *)
(* (html_decode_data), cut anywhere, or a check of arguments against a     *)
(* template (xss_check), which decodes the filled template twice: with the *)
(* arguments of the training and with those to be checked.                 *)
(*                                                                         *)
(* The pages are those of ordinary writers: items in the order in which    *)
(* they are written,                                                       *)
(*   open     a tag with properties; "void": it is written to have nothing *)
(*            within it                                                    *)
(*   close    a closing tag       text     characters that show            *)
(*   comment, meta                characters that do not                   *)
(* A property is bare, or has a value in quotes or in the open ("plain").  *)
(* A template is a page whose texts and values have places for arguments.  *)
(*                                                                         *)
(* One step is one turn of the loop of parse_html_stream, or a rule of the *)
(* lexer that returns no token.  Left out: allocations that fail, events   *)
(* of the tree to the engine, calls after the last piece or after one that *)
(* failed, and the preprocessor of a check.                                *)
(***************************************************************************)
EXTENDS HtmlParse

CONSTANTS
  Pages,      \* what may be written, as sequences of items
  Checks,     \* [template, trained, argv] of checks
  MaxHtml     \* MAX_HTML_LENGTH, the size of do_parse's buffer

-----------------------------------------------------------------------------
(* What is written.                                                        *)

WrittenValue(p) ==
  CASE p.form = "bare"   -> <<>>
    [] p.form = "quoted" -> <<"=", "q">> \o p.value \o <<"q">>
    [] p.form = "plain"  -> <<"=">> \o p.value

Written(item) ==
  CASE item.kind = "open" ->
         <<"<", "w">>
           \o FlattenSeq([i \in DOMAIN item.prots |->
                            <<"s", "w">> \o WrittenValue(item.prots[i])])
           \o (IF item.void THEN <<"s", "/", ">">> ELSE <<">">>)
    [] item.kind = "close"   -> <<"<", "/", "w", ">">>
    [] item.kind = "text"    -> item.text
    [] item.kind = "comment" -> <<"<", "!", "-", "-">> \o item.text \o <<"-", "-", ">">>
    [] item.kind = "meta"    -> <<"<", "!">> \o item.text \o <<">">>

Html(page) == FlattenSeq([i \in DOMAIN page |-> Written(page[i])])

\* prepare_template puts the arguments into the statement: the parts of a text or
\* value are [arg |-> 0, chars], and [arg |-> n] for the argument n.
Filled(parts, argv) ==
  FlattenSeq([i \in DOMAIN parts |->
                IF parts[i].arg = 0 THEN parts[i].chars ELSE argv[parts[i].arg]])

FilledProt(p, argv) == [p EXCEPT !.value = Filled(@, argv)]

FilledItem(item, argv) ==
  CASE item.kind = "open"  ->
         [item EXCEPT !.prots = [i \in DOMAIN @ |-> FilledProt(@[i], argv)]]
    [] item.kind = "close" -> item
    [] OTHER               -> [item EXCEPT !.text = Filled(@, argv)]

FilledPage(template, argv) == [i \in DOMAIN template |-> FilledItem(template[i], argv)]

\* Nothing is parsed if the statement is empty or does not fit in the buffer.
Prepared(statement) == Len(statement) \in 1..(MaxHtml - 1)

\* Values and texts that end where they are written to end.  A value in the open may
\* be empty where the tag ends behind it.
OrdinaryValue(p, ends) ==
  /\ p.form \in {"bare", "quoted", "plain"}
  /\ p.form = "quoted" => p.value \in Seq(Chars \ {"q"})
  /\ p.form = "plain" =>
       /\ p.value \in Seq(Chars \ {"s", "<", ">"})
       /\ IF p.value = <<>> THEN ends ELSE p.value[1] # "q"

OrdinaryItem(item) ==
  /\ item.kind \in {"open", "close", "text", "comment", "meta"}
  /\ item.kind = "open" =>
       /\ item.void \in BOOLEAN /\ item.prots \in Seq(ToSet(item.prots))
       /\ \A k \in DOMAIN item.prots :
            OrdinaryValue(item.prots[k], k = Len(item.prots) /\ ~item.void)
  /\ item.kind = "text" => item.text \in Seq(Chars \ {"<"}) /\ item.text # <<>>
  /\ item.kind = "comment" =>
       /\ item.text \in Seq(Chars)
       /\ \A i \in DOMAIN item.text :
            LET end == item.text \o <<"-", "-", ">">>
            IN  ~(end[i] = "-" /\ end[i + 1] = "-" /\ end[i + 2] = ">")
  /\ item.kind = "meta" =>
       /\ item.text \in Seq(Chars \ {">"})
       /\ ~IsPrefix(<<"-", "-">>, item.text)

\* Two texts in a row are one text.
Ordinary(page) ==
  /\ page \in Seq(ToSet(page))
  /\ \A i \in DOMAIN page : OrdinaryItem(page[i])
  /\ \A i \in DOMAIN page : i > 1 /\ page[i].kind = "text" => page[i - 1].kind # "text"

\* An item of a template has what an item of a page has.
TemplateItem(item) ==
  /\ "kind" \in DOMAIN item
  /\ item.kind = "open" =>
       /\ "prots" \in DOMAIN item
       /\ \A k \in DOMAIN item.prots : "form" \in DOMAIN item.prots[k]

ASSUME HtmlAssumption ==
  /\ MaxHtml \in Nat \ {0}
  /\ \A page \in Pages : Ordinary(page)
  /\ \A c \in Checks : \A i \in DOMAIN c.template : TemplateItem(c.template[i])

-----------------------------------------------------------------------------
VARIABLES
  job,      \* [kind, page] of a page, [kind, check] of a check
  html,     \* the characters that are decoded
  greedy,   \* an option of html_work_create
  from,     \* how many of them came before the piece of this call,
  fed,      \* and how many with it
  last,     \* priv->parser.last_frag
  buf,      \* what is left of the call's buffer; whether nothing has been
  start,    \*   taken from it yet
  saved,    \* priv->parser.saved
  lex, parser,
  status,   \* idle (between calls), call (in a call), how the last call ended
            \*   (accepted, refused, crashed), gone (the work, or the check)
  score     \* of the training (0: not yet), and what the check says

vars == <<job, html, greedy, from, fed, last, buf, start, saved, lex, parser, status, score>>

IsCheck == job.kind = "check"

\* Mutant: the work's data come from the slab as they are.
NewWorkUncleared(h, g, dom) ==
  /\ html' = h
  /\ greedy' = g
  /\ from' = 0 /\ fed' = 0
  /\ last' = FALSE
  /\ buf' = <<>> /\ start' = TRUE
  /\ saved' = <<>>
  /\ lex' = "initial"
  /\ parser' = [FreshParser(dom) EXCEPT !.reduced = parser.reduced + 2]

\* html_work_create.
NewWork(h, g, dom) ==
  /\ html' = h
  /\ greedy' = g
  /\ from' = 0 /\ fed' = 0
  /\ last' = FALSE
  /\ buf' = <<>> /\ start' = TRUE
  /\ saved' = <<>>
  /\ lex' = "initial"
  /\ parser' = FreshParser(dom)

Init ==
  /\ \/ \E page \in Pages, g \in BOOLEAN :
          /\ job = [kind |-> "page", page |-> page]
          /\ html = Html(page) /\ greedy = g
     \/ \E c \in Checks :
          /\ job = [kind |-> "check", check |-> c]
          /\ html = Html(FilledPage(c.template, c.trained)) /\ greedy = TRUE
          /\ Prepared(html)
  /\ from = 0 /\ fed = 0 /\ last = FALSE
  /\ buf = <<>> /\ start = TRUE /\ saved = <<>>
  /\ lex = "initial"
  /\ parser = FreshParser(~IsCheck)
  /\ status = "idle"
  /\ score = [trained |-> 0, verdict |-> "none"]

-----------------------------------------------------------------------------
(* Decoding.                                                               *)

\* Mutant: what was saved is put behind the new data.
FeedSavedBehind(n, l) ==
  /\ status = "idle" /\ ~last
  /\ n \in 0..(Len(html) - fed)
  /\ l => fed + n = Len(html)
  /\ IsCheck => l
  /\ from' = fed /\ fed' = fed + n
  /\ last' = l
  /\ buf' = SubSeq(html, fed + 1, fed + n) \o saved
  /\ start' = TRUE
  /\ saved' = <<>>
  /\ status' = "call"
  /\ UNCHANGED <<job, html, greedy, lex, parser, score>>

\* html_decode_data: html_scan_stream puts what was saved before the new data.
Feed(n, l) ==
  /\ status = "idle" /\ ~last
  /\ n \in 0..(Len(html) - fed)
  /\ l => fed + n = Len(html)
  /\ IsCheck => l
  /\ from' = fed /\ fed' = fed + n
  /\ last' = l
  /\ buf' = saved \o SubSeq(html, fed + 1, fed + n)
  /\ start' = TRUE
  /\ saved' = <<>>
  /\ status' = "call"
  /\ UNCHANGED <<job, html, greedy, lex, parser, score>>

\* A match waits for more data if it might be longer (the default rule at the end of
\* the buffer), or, for a greedy parser, if it reaches the end (YY_USER_ACTION).
Waits(m) == ~last /\ (m.open \/ (greedy /\ m.len = Len(buf)))

\* SYM_LEX_CONTINUE; save_stream_context.
Suspend ==
  /\ status = "call" /\ ~last
  /\ buf # <<>> => Waits(LongestMatch(lex, buf))
  /\ saved' = buf
  /\ buf' = <<>>
  /\ status' = "idle"
  /\ UNCHANGED <<job, html, greedy, from, fed, last, start, lex, parser, score>>

\* A rule with text that it does not put back: a token for the parser, or none.
Lex(m) ==
  /\ ~Waits(m) /\ ~m.back
  /\ lex' = m.next
  /\ buf' = SubSeq(buf, m.len + 1, Len(buf))
  /\ start' = FALSE
  /\ UNCHANGED <<job, html, greedy, from, fed, last, saved, score>>

Eat ==
  /\ status = "call" /\ buf # <<>>
  /\ \E m \in {LongestMatch(lex, buf)} :
       /\ Lex(m)
       /\ m.token = "none"
  /\ UNCHANGED <<parser, status>>

Token ==
  /\ status = "call" /\ buf # <<>>
  /\ \E m \in {LongestMatch(lex, buf)} :
       /\ Lex(m)
       /\ m.token # "none"
       /\ \E r \in {Push(parser, m.token, m.text)} :
            /\ parser' = r.parser
            /\ status' = IF r.out = "more" THEN "call" ELSE r.out

\* unput.  yyunput has no room before the first character of the buffer, and
\* YY_FATAL_ERROR is a store to address 0.
PutBack ==
  /\ status = "call" /\ buf # <<>>
  /\ \E m \in {LongestMatch(lex, buf)} :
       /\ m.back /\ ~Waits(m)
       /\ status' = IF start THEN "crashed" ELSE "call"
       /\ lex' = m.next
  /\ UNCHANGED <<job, html, greedy, from, fed, last, buf, start, saved, parser, score>>

\* The end of the last piece is the end of the input.
EndOfInput ==
  /\ status = "call" /\ buf = <<>> /\ last
  /\ \E r \in {Push(parser, "EOF", <<>>)} :
       /\ parser' = r.parser
       /\ status' = r.out
  /\ UNCHANGED <<job, html, greedy, from, fed, last, buf, start, saved, lex, score>>

\* html_free_priv_data frees the tree.  html_pstate_delete gives the parser's stack
\* back to malloc but not what is on it; "frames" still say what that was.
Destroyed(p) == [p EXCEPT !.live = @ \ Subtrees(p, p.root), !.root = <<>>]

\* html_work_destroy, after the last piece, after an error, or in the middle.
Destroy ==
  /\ status \in {"idle", "accepted", "refused"}
  /\ ~IsCheck
  /\ parser' = Destroyed(parser)
  /\ saved' = <<>>
  /\ status' = "gone"
  /\ UNCHANGED <<job, html, greedy, from, fed, last, buf, start, lex, score>>

-----------------------------------------------------------------------------
(* Checks.                                                                 *)

\* What do_parse returns.
ParseScore == IF status = "accepted" THEN parser.reduced ELSE 0

\* xss_training is done; it gives no checker if the score is 0.  xss_check begins;
\* a statement that cannot be prepared scores -1, which is not the score.
Trained ==
  /\ IsCheck /\ score.trained = 0
  /\ status = "accepted" /\ ParseScore > 0
  /\ \E h \in {Html(FilledPage(job.check.template, job.check.argv))} :
       IF Prepared(h)
       THEN /\ NewWork(h, TRUE, FALSE)
            /\ status' = "idle"
            /\ score' = [score EXCEPT !.trained = ParseScore]
       ELSE /\ status' = "gone"
            /\ score' = [trained |-> ParseScore, verdict |-> "alarm"]
            /\ UNCHANGED <<html, greedy, from, fed, last, buf, start, saved, lex, parser>>
  /\ UNCHANGED job

\* xss_check returns.
Checked ==
  /\ IsCheck /\ score.trained > 0
  /\ status \in {"accepted", "refused"}
  /\ score' = [score EXCEPT !.verdict = IF ParseScore = score.trained THEN "clean" ELSE "alarm"]
  /\ status' = "gone"
  /\ UNCHANGED <<job, html, greedy, from, fed, last, buf, start, saved, lex, parser>>

Next ==
  \/ \E n \in 0..(Len(html) - fed), l \in BOOLEAN : Feed(n, l)
  \/ Suspend \/ Eat \/ Token \/ PutBack \/ EndOfInput \/ Destroy
  \/ Trained \/ Checked

Spec == Init /\ [][Next]_vars

-----------------------------------------------------------------------------
(* What the writer means.                                                  *)

Shown == {"open", "text"}

\* The items that are to be nodes are numbered in order.
Number(page, i) == Cardinality({k \in 1..i : page[k].kind \in Shown})

\* How many of the tags that begin between a and b do not end there.
Balance(page, a, b) ==
  Cardinality({i \in a..b : page[i].kind = "open" /\ ~page[i].void})
    - Cardinality({i \in a..b : page[i].kind = "close"})

\* Item i is directly within item j: j has not ended, and what began since has.
Within(page, j, i) ==
  /\ j < i
  /\ page[j].kind = "open" /\ ~page[j].void
  /\ \A b \in j..(i - 1) : Balance(page, j + 1, b) >= 0
  /\ Balance(page, j + 1, i - 1) = 0

\* The nodes directly within item j, or within none (0).
Children(page, j) ==
  {Number(page, i) : i \in {k \in DOMAIN page :
     /\ page[k].kind \in Shown
     /\ IF j = 0 THEN ~\E n \in DOMAIN page : Within(page, n, k) ELSE Within(page, j, k)}}

\* A list has the numbers of a set, in order.
InOrder(list, S) ==
  ToSet(list) = S /\ \A m, n \in DOMAIN list : m < n => list[m] < list[n]

MeantProts(prots) ==
  [i \in DOMAIN prots |-> IF prots[i].form = "bare" THEN <<>> ELSE <<prots[i].value>>]

NodeIs(node, item) ==
  IF item.kind = "text" THEN node.kind = "text" /\ node.text = item.text
  ELSE node.kind = "tag" /\ node.prots = MeantProts(item.prots)

\* The tree has the nodes that are written, in order, with their texts and values.
NodesAre(page) ==
  /\ Len(parser.nodes) = Number(page, Len(page))
  /\ \A i \in DOMAIN page :
       page[i].kind \in Shown => NodeIs(parser.nodes[Number(page, i)], page[i])

\* Each is where it is written.
PlacesAre(page) ==
  /\ InOrder(parser.root, Children(page, 0))
  /\ \A i \in DOMAIN page :
       page[i].kind \in Shown =>
         InOrder(parser.nodes[Number(page, i)].kids, Children(page, i))

HasVoid(page) == \E i \in DOMAIN page : page[i].kind = "open" /\ page[i].void

\* More closing than opening tags up to some place; void tags count, as they do
\* for the parser.
HasSurplusClose(page) ==
  \E b \in DOMAIN page :
    Cardinality({i \in 1..b : page[i].kind = "close"})
      > Cardinality({i \in 1..b : page[i].kind = "open"})

\* A value in the open that is empty.
HasNoValue(page) ==
  \E i \in DOMAIN page : page[i].kind = "open" /\
    \E k \in DOMAIN page[i].prots :
      page[i].prots[k].form = "plain" /\ page[i].prots[k].value = <<>>

\* The places in the html where a value in the open begins.
PlainStarts ==
  {k \in DOMAIN html : k > 1 /\ html[k - 1] = "=" /\ html[k] \notin {"q", "s"}}

(***************************************************************************)
(* A page that has come to its end has become the tree that is written,    *)
(* however it was cut, with texts and values in one piece.  A void tag is  *)
(* like any other for the parser, so what follows it is within it.  A      *)
(* page is refused only for a closing tag too many or for a value in the   *)
(* open that is empty.  Decoding stops the program only where a piece      *)
(* begins with a value in the open, or, for a greedy parser, where the     *)
(* piece before ended with its first character.                            *)
(***************************************************************************)
TreeAsWritten ==
  ~IsCheck =>
    /\ status = "accepted" =>
         NodesAre(job.page) /\ (HasVoid(job.page) \/ PlacesAre(job.page))
    /\ status = "refused" => HasSurplusClose(job.page) \/ HasNoValue(job.page)
    /\ status = "crashed" =>
         from + 1 \in PlainStarts \/ (greedy /\ from \in PlainStarts)

(***************************************************************************)
(* A node that has been allocated and not freed is in the tree or on the   *)
(* parser's stack, in one place.  When the work is gone none is left but   *)
(* those that were on the stack, and there are none if the last piece had  *)
(* come: only a work that is destroyed in the middle of its page leaves    *)
(* nodes behind, until the decoder goes (html_free_priv_data).             *)
(***************************************************************************)
NodesAccounted ==
  status # "crashed" =>
    /\ parser.live = Subtrees(parser, parser.root) \cup OnStack(parser)
    /\ \A n \in parser.live :
         Cardinality({m \in parser.live : n \in ToSet(parser.nodes[m].kids)})
           + Cardinality({i \in DOMAIN parser.root : parser.root[i] = n})
           + Cardinality({i \in DOMAIN parser.frames :
                            \/ parser.frames[i].tag = n
                            \/ n \in ToSet(parser.frames[i].list)}) = 1
    /\ status = "gone" /\ last => parser.live = {}

\* The arguments leave every text one text, and every value one value.
AllStand(argv) ==
  LET page == FilledPage(job.check.template, argv)
  IN  Ordinary(page) /\ ~HasNoValue(page)

(***************************************************************************)
(* A check raises no alarm for arguments that leave the template as it is, *)
(* provided that the filled template fits in the buffer.  An empty text, a *)
(* value in the open with white space or that begins with a quote, and a   *)
(* quote in a quoted value do not leave it as it is.                       *)
(***************************************************************************)
PlainArgumentsClean ==
  /\ IsCheck /\ score.verdict = "alarm"
  /\ AllStand(job.check.trained) /\ AllStand(job.check.argv)
  => ~Prepared(Html(FilledPage(job.check.template, job.check.argv)))
=============================================================================
