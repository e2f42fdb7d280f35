------------------------------ MODULE HtmlParse ------------------------------
(***************************************************************************)
(* The push parser of the HTML decoder (libdecoder/html/decode/html.y) and *)
(* the tree it makes.  Nodes are numbered as they are allocated.  A frame  *)
(* of the parser's stack is a tag whose end has not been seen (0 at the    *)
(* bottom) and the html_doc of the nodes that have come within it.  Names  *)
(* are not compared: any closing tag ends the innermost tag, and every tag *)
(* may have nodes within it.                                               *)
(*   at      what the parser expects: content of a document; a name after  *)
(*           "<"; properties; "=" or no value; a value; the name and the   *)
(*           end of a closing tag                                          *)
(*   prots   the list of the tag under way, a value as <<value>>           *)
(*   live    allocated nodes that have not been freed                      *)
(*   root    html_root                                                     *)
(*   reduced reduced_count, counted when no tree is made                   *)
(***************************************************************************)
EXTENDS HtmlLex

Expects == {"doc", "name", "prots", "prot", "value", "end_name", "end"}

\* html_alloc_priv_data.  The reductions of the empty document, which come with
\* the first token, are counted here.
FreshParser(dom) ==
  [at |-> "doc", frames |-> << [tag |-> 0, list |-> <<>>] >>, prots |-> <<>>,
   nodes |-> <<>>, live |-> {}, root |-> <<>>, dom |-> dom,
   reduced |-> IF dom THEN 0 ELSE 2]

On(p) == [parser |-> p, out |-> "more"]

\* YY_REDUCTION_CALLBACK.  With a tree the reductions are events for the engine.
Reduce(p, n) == IF p.dom THEN p ELSE [p EXCEPT !.reduced = @ + n]

Node(kind, text, prots) == [kind |-> kind, text |-> text, prots |-> prots, kids |-> <<>>]

\* html_alloc_node.
Alloc(p, node) ==
  [p EXCEPT !.nodes = Append(@, node), !.live = @ \cup {Len(p.nodes) + 1}]

Depth(p) == Len(p.frames)

\* A node with all that is below it: what html_free_node frees.
Subtree(p, i) ==
  LET below[n \in DOMAIN p.nodes] ==
        {n} \cup UNION {below[k] : k \in ToSet(p.nodes[n].kids)}
  IN  below[i]

Subtrees(p, list) == UNION {Subtree(p, i) : i \in ToSet(list)}

\* The nodes of the semantic values on the parser's stack.
OnStack(p) ==
  UNION {Subtrees(p, f.list) \cup ({f.tag} \ {0}) : f \in ToSet(p.frames)}

\* Mutant: a list that goes is freed without what is below its nodes.
RefuseShallow(p) ==
  [parser |-> [p EXCEPT !.frames = <<>>,
                        !.live = @ \ UNION {ToSet(f.list) \cup {f.tag} : f \in ToSet(p.frames)}],
   out |-> "refused"]

\* A syntax error: the stack goes, and the destructors free what is on it.
Refuse(p) ==
  [parser |-> [p EXCEPT !.frames = <<>>, !.live = @ \ OnStack(p)], out |-> "refused"]

-----------------------------------------------------------------------------
(* Reductions.                                                             *)

\* html_doc: html_doc html_doc_text.
TextNode(p, text) ==
  IF p.dom THEN [Alloc(p, Node("text", text, <<>>))
                   EXCEPT !.frames[Depth(p)].list = Append(@, Len(p.nodes) + 1)]
  ELSE Reduce(p, 2)

\* html_tag_prot_ or html_tag_event_, and its list; value is << >> if there is none.
ProtEnds(p, value) ==
  Reduce([p EXCEPT !.prots = IF p.dom THEN Append(@, value) ELSE @], 3 + Len(value))

\* html_tag_begin_: the node, with an empty document within it.
TagBegins(p) ==
  LET q == IF p.dom THEN Alloc(p, Node("tag", <<>>, p.prots)) ELSE p
  IN  Reduce([q EXCEPT !.at = "doc", !.prots = <<>>,
                       !.frames = Append(@, [tag |-> Len(q.nodes), list |-> <<>>])], 4)

\* html_tag: the innermost tag gets its children and is a node of the frame below.
TagEnds(p, n) ==
  LET top == p.frames[Depth(p)]
      q == [p EXCEPT !.at = "doc", !.frames = Front(@)]
  IN  Reduce(IF p.dom
             THEN [q EXCEPT !.nodes[top.tag].kids = @ \o top.list,
                            !.frames[Depth(p) - 1].list = Append(@, top.tag)]
             ELSE q, n)

\* html_init: the document becomes the root.
Document(p) ==
  Reduce([p EXCEPT !.root = @ \o p.frames[1].list, !.frames = <<>>], 1)

\* The end of the input ends the tags that are open, from the innermost on
\* (html_tag_finish_: empty): each gets its list with the next tag behind it.
EndInput(p) ==
  LET all == [k \in 1..Depth(p) |->
                p.frames[k].list \o
                  (IF p.dom /\ k < Depth(p) THEN <<p.frames[k + 1].tag>> ELSE <<>>)]
      open(n) == {k \in 1..Depth(p) : p.frames[k].tag = n}
      kids == [n \in DOMAIN p.nodes |->
                 IF open(n) = {} THEN <<>> ELSE all[CHOOSE k \in open(n) : TRUE]]
      q == [p EXCEPT !.at = "doc",
                     !.nodes = [n \in DOMAIN p.nodes |->
                                  [p.nodes[n] EXCEPT !.kids = @ \o kids[n]]],
                     !.frames[1].list = all[1]]
  IN  [parser |-> Document(Reduce(q, 4 * (Depth(p) - 1))), out |-> "accepted"]

-----------------------------------------------------------------------------
(* Tokens.                                                                 *)

TagEndFlags == {"TAG_END_FLAG", "TAG_END_FLAG2"}

\* html_tag_name_, html_tag_event_name_, html_tag_prot_name_: which name is left out.
NameRead(p, at) == Reduce([p EXCEPT !.at = at], 1)

\* A token within a start tag, when all before it has been reduced.
InTag(p, type) ==
  CASE type = "PROT" -> On(NameRead(p, "prot"))
    [] type \in TagEndFlags -> On(TagBegins(p))
    [] OTHER -> Refuse(p)

\* yypush_parse.  It takes the token -1 ("BAD") for the end of the input ("EOF").
\* A closing tag without a tag is an error after html_init has been reduced.
Push(p, type, text) ==
  CASE p.at = "doc" /\ type = "TEXT" -> On(TextNode(p, text))
    [] p.at = "doc" /\ type = "TAG_START_FLAG" -> On([p EXCEPT !.at = "name"])
    [] p.at = "doc" /\ type = "TAG_START_FLAG2" /\ Depth(p) > 1 ->
         On([p EXCEPT !.at = "end_name"])
    [] p.at = "doc" /\ type = "TAG_START_FLAG2" /\ Depth(p) = 1 -> Refuse(Document(p))
    [] p.at = "doc" /\ type \in {"EOF", "BAD"} -> EndInput(p)
    [] p.at = "name" /\ type = "TAG_NAME" -> On(Reduce(NameRead(p, "prots"), 2))
    [] p.at = "prots" -> InTag(p, type)
    [] p.at = "prot" /\ type = "EQUAL" -> On([p EXCEPT !.at = "value"])
    [] p.at = "prot" /\ type # "EQUAL" -> InTag(ProtEnds(p, <<>>), type)
    [] p.at = "value" /\ type = "TEXT" ->
         On([ProtEnds(p, <<text>>) EXCEPT !.at = "prots"])
    [] p.at = "end_name" /\ type = "TAG_NAME" -> On(NameRead(p, "end"))
    [] p.at = "end" /\ type \in TagEndFlags -> On(TagEnds(p, 4))
    [] OTHER -> Refuse(p)
=============================================================================
