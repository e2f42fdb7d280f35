------------------------------ MODULE HtmlTree ------------------------------
(***************************************************************************)
(* What is said, in the proofs about HtmlSession, of a parser, of a buffer *)
(* and of a page: where the nodes are, how much of a page has been taken,  *)
(* and what has become of it.  Inv and Correct are the inductive           *)
(* invariants; the other definitions are what they are made of, and what   *)
(* the lemmas on the way to them say.                                      *)
(***************************************************************************)
EXTENDS HtmlSession

-----------------------------------------------------------------------------
(* The nodes of a parser, and the places where they are.                   *)

Frame == [tag : Nat, list : Seq(Nat)]

NodeTyped(node) ==
  /\ DOMAIN node = {"kind", "text", "prots", "kids"}
  /\ node.kids \in Seq(Nat)

\* The parts of a parser that say where nodes are.  The others are any values.
Typed(p) ==
  /\ DOMAIN p = {"at", "frames", "prots", "nodes", "live", "root", "dom", "reduced"}
  /\ p.dom \in BOOLEAN
  /\ p.frames \in Seq(Frame)
  /\ p.nodes \in Seq(ToSet(p.nodes))
  /\ \A n \in 1..Len(p.nodes) : NodeTyped(p.nodes[n])
  /\ p.root \in Seq(Nat)

Positions(list, n) == {i \in 1..Len(list) : list[i] = n}

\* The places where node n is.
Parents(p, n) == {m \in 1..Len(p.nodes) : n \in ToSet(p.nodes[m].kids)}
AtRoot(p, n)  == Positions(p.root, n)
Framed(p, n)  == {k \in 1..Len(p.frames) : p.frames[k].tag = n \/ n \in ToSet(p.frames[k].list)}

OneOf(A, B, C) ==
  \E x : \/ A = {x} /\ B = {} /\ C = {}
         \/ A = {} /\ B = {x} /\ C = {}
         \/ A = {} /\ B = {} /\ C = {x}

Distinct(list) == \A i, j \in 1..Len(list) : list[i] = list[j] => i = j

FrameWhole(f, N) ==
  /\ f.tag \in 0..N
  /\ \A i \in 1..Len(f.list) : f.list[i] \in (f.tag + 1)..N
  /\ Distinct(f.list)

FramesWhole(p) ==
  \A k \in 1..Len(p.frames) :
    /\ FrameWhole(p.frames[k], Len(p.nodes))
    /\ k = 1 => p.frames[k].tag = 0
    /\ k > 1 /\ p.dom => p.frames[k - 1].tag < p.frames[k].tag

\* No node is in the list of a tag that is open.
OpenEmpty(p) ==
  \A k \in 1..Len(p.frames) : \A m \in 1..Len(p.nodes) :
    p.frames[k].tag = m => p.nodes[m].kids = <<>>

KidsWhole(p) ==
  \A m \in 1..Len(p.nodes) : \A j \in 1..Len(p.nodes[m].kids) :
    p.nodes[m].kids[j] \in (m + 1)..Len(p.nodes)

Placed(p) ==
  /\ \A i \in 1..Len(p.root) : p.root[i] \in 1..Len(p.nodes)
  /\ \A n \in 1..Len(p.nodes) : OneOf(Parents(p, n), AtRoot(p, n), Framed(p, n))

Whole(p) ==
  /\ p.live = 1..Len(p.nodes)
  /\ ~p.dom => Len(p.nodes) = 0
  /\ FramesWhole(p) /\ OpenEmpty(p) /\ KidsWhole(p) /\ Placed(p)

\* A parser that has not come to its end.
Growing(p) ==
  /\ Typed(p) /\ Whole(p)
  /\ Len(p.frames) > 0 /\ Len(p.root) = 0
  /\ p.at \in {"end_name", "end"} => Len(p.frames) > 1

\* A parser that has freed all its nodes.
Bare(p) == Typed(p) /\ Len(p.frames) = 0 /\ Len(p.root) = 0 /\ p.live = {}

\* A parser with nothing on its stack.
Ended(p) == Typed(p) /\ Len(p.frames) = 0 /\ (Whole(p) \/ Bare(p))

-----------------------------------------------------------------------------
(* What is below a node, and what a token does to the places.              *)

\* f has at n what Subtree makes of the lists K.
Below(f, K, n) == f[n] = {n} \cup UNION {f[k] : k \in K[n]}

\* q has the nodes of p in the places of p.
Same(p, q) ==
  /\ DOMAIN q = DOMAIN p
  /\ q.frames = p.frames /\ q.nodes = p.nodes /\ q.live = p.live
  /\ q.root = p.root /\ q.dom = p.dom

\* The first d frames of a parser, with x at the end of the list of the last one.
Listed(p, d, x) ==
  [k \in 1..d |-> IF k = d THEN [p.frames[d] EXCEPT !.list = Append(@, x)] ELSE p.frames[k]]

\* F are such frames, in order if there are N nodes.
ListedWell(p, d, x, N, F) ==
  /\ F \in Seq(Frame) /\ Len(F) = d
  /\ \A k \in 1..d :
       /\ F[k].tag = p.frames[k].tag
       /\ ToSet(F[k].list) = IF k = d THEN ToSet(p.frames[k].list) \cup {x}
                                      ELSE ToSet(p.frames[k].list)
       /\ FrameWhole(F[k], N)
       /\ k = 1 => F[k].tag = 0
       /\ k > 1 /\ p.dom => F[k - 1].tag < F[k].tag

\* What the frame k puts into the list of its tag, or, the first, into the root.
Into(p, k) ==
  p.frames[k].list \o (IF p.dom /\ k < Depth(p) THEN <<p.frames[k + 1].tag>> ELSE <<>>)

OpenAs(p, n) == {k \in 1..Depth(p) : p.frames[k].tag = n}

NewKids(p, n) == IF OpenAs(p, n) = {} THEN <<>> ELSE Into(p, CHOOSE k \in OpenAs(p, n) : TRUE)

\* Node n is within m, or will be when the tags that are open are ended.
ComesWithin(p, m, n) ==
  \/ n \in ToSet(p.nodes[m].kids)
  \/ \E k \in 1..Len(p.frames) : p.frames[k].tag = m /\ n \in ToSet(Into(p, k))

\* What EndInput makes of a parser, but for its last reduction.
EndsAs(p, s) ==
  /\ EndInput(p) = [parser |-> Reduce(s, 1), out |-> "accepted"]
  /\ DOMAIN s = DOMAIN p /\ s.live = p.live /\ s.dom = p.dom
  /\ s.frames = <<>> /\ s.root = Into(p, 1)
  /\ s.reduced = IF p.dom THEN p.reduced ELSE p.reduced + 4 * (Len(p.frames) - 1)
  /\ s.nodes = [n \in 1..Len(p.nodes) |-> s.nodes[n]]
  /\ \A n \in 1..Len(p.nodes) :
       /\ NodeTyped(s.nodes[n])
       /\ s.nodes[n].kids = p.nodes[n].kids \o NewKids(p, n)
       /\ s.nodes[n].kind = p.nodes[n].kind
       /\ s.nodes[n].text = p.nodes[n].text
       /\ s.nodes[n].prots = p.nodes[n].prots

\* What a token makes of a parser.
Result(p, r) ==
  /\ r.parser.dom = p.dom
  /\ r.out \in {"more", "accepted", "refused"}
  /\ r.out = "more" => Growing(r.parser)
  /\ r.out # "more" => Ended(r.parser)

\* What holds of the nodes of a parser, and of none that has been freed.
Counted(p) ==
  /\ p.live = Subtrees(p, p.root) \cup OnStack(p)
  /\ \A n \in p.live :
       Cardinality({m \in p.live : n \in ToSet(p.nodes[m].kids)})
         + Cardinality({i \in DOMAIN p.root : p.root[i] = n})
         + Cardinality({i \in DOMAIN p.frames :
                          \/ p.frames[i].tag = n
                          \/ n \in ToSet(p.frames[i].list)}) = 1

-----------------------------------------------------------------------------
(* Where in a page the lexer and the parser are.                           *)

\* The sums of the first k elements of a sequence, from k = 0 on.
Sums(S) == LET sum[k \in 0..Len(S)] == IF k = 0 THEN 0 ELSE sum[k - 1] + S[k] IN sum

\* Where the first k of some strings end if they are written one after the other.
Ends(S) == Sums([k \in DOMAIN S |-> Len(S[k])])

Items(page) == [i \in DOMAIN page |-> Written(page[i])]
WrittenProts(prots) == [k \in DOMAIN prots |-> <<"s", "w">> \o WrittenValue(prots[k])]

\* The reductions of a property, an item and a page.
ProtCosts(prots) == [k \in DOMAIN prots |-> IF prots[k].form = "bare" THEN 4 ELSE 5]
Cost(item) ==
  CASE item.kind = "open"  -> 7 + Sums(ProtCosts(item.prots))[Len(item.prots)]
    [] item.kind = "close" -> 5
    [] item.kind = "text"  -> 2
    [] OTHER               -> 0
Costs(page) == [i \in DOMAIN page |-> Cost(page[i])]

\* How many tags of the first b items have not been ended, for the parser.
Rise(page, b) ==
  Cardinality({i \in 1..b : page[i].kind = "open"}) - Cardinality({i \in 1..b : page[i].kind = "close"})

Spent(p, n) == p.reduced = IF p.dom THEN 0 ELSE 2 + n

\* The parser has the first k of the properties.
HasProts(p, prots, k) == p.dom => p.prots = SubSeq(MeantProts(prots), 1, k)

ProtCost(prots, k) == Sums(ProtCosts(prots))[k]
ProtEnd(prots, k) == Ends(WrittenProts(prots))[k]

CommentPlace(item, o, p, l, n) ==
  /\ item.kind = "comment" /\ o \in 4..4 + Len(item.text)
  /\ l = "comment" /\ p.at = "doc" /\ Spent(p, n)

MetaPlace(item, o, p, l, n) ==
  /\ item.kind = "meta" /\ o \in 2..2 + Len(item.text)
  /\ l = "meta" /\ p.at = "doc" /\ Spent(p, n)

ClosePlace(item, o, p, l, n) ==
  /\ item.kind = "close" /\ o = 2
  /\ l = "tag_name" /\ p.at = "end_name" /\ Spent(p, n)

EndPlace(item, o, p, l, n) ==
  /\ item.kind = "close" /\ o = 3
  /\ l = "prot_name" /\ p.at = "end" /\ Spent(p, n + 1)

NamePlace(item, o, p, l, n) ==
  /\ item.kind = "open" /\ o = 1
  /\ l = "tag_name" /\ p.at = "name" /\ Spent(p, n) /\ HasProts(p, item.prots, 0)

\* k properties have come, of which the last one may be a bare one whose end the
\* parser has not seen; e characters of the white space before the next.
ProtsPlace(item, k, e, o, p, l, n) ==
  /\ item.kind = "open" /\ k \in 0..Len(item.prots) /\ e \in {0, 1}
  /\ o = 2 + ProtEnd(item.prots, k) + e
  /\ e = 1 => k < Len(item.prots) \/ item.void
  /\ l = "prot_name"
  /\ \/ /\ k > 0 /\ item.prots[k].form = "bare"
        /\ p.at = "prot"
        /\ Spent(p, n + 4 + ProtCost(item.prots, k - 1)) /\ HasProts(p, item.prots, k - 1)
     \/ /\ ~(k > 0 /\ item.prots[k].form = "bare")
        /\ p.at = "prots"
        /\ Spent(p, n + 3 + ProtCost(item.prots, k)) /\ HasProts(p, item.prots, k)

\* Within property k, o characters behind its beginning.
WithinProt(item, k, o, p, l, n, d) ==
  /\ item.kind = "open" /\ k \in 1..Len(item.prots) /\ item.prots[k].form # "bare"
  /\ o = 2 + ProtEnd(item.prots, k - 1) + d
  /\ Spent(p, n + 4 + ProtCost(item.prots, k - 1)) /\ HasProts(p, item.prots, k - 1)

EqualPlace(item, k, o, p, l, n) ==
  /\ WithinProt(item, k, o, p, l, n, 2) /\ l = "prot_name" /\ p.at = "prot"

ValuePlace(item, k, o, p, l, n) ==
  /\ WithinProt(item, k, o, p, l, n, 3) /\ p.at = "value"
  /\ \/ l = "prot_value"
     \/ l = "noquote" /\ item.prots[k].form = "plain"
     \/ l = "prot_name" /\ item.prots[k].form = "plain" /\ item.prots[k].value = <<>>

QuotedPlace(item, k, o, p, l, n) ==
  /\ WithinProt(item, k, o, p, l, n, 4) /\ item.prots[k].form = "quoted"
  /\ l = "quoted" /\ p.at = "value"

Place(item, o, p, l, n) ==
  \/ CommentPlace(item, o, p, l, n) \/ MetaPlace(item, o, p, l, n)
  \/ ClosePlace(item, o, p, l, n) \/ EndPlace(item, o, p, l, n) \/ NamePlace(item, o, p, l, n)
  \/ item.kind = "open" /\ \E k \in 0..Len(item.prots), e \in {0, 1} : ProtsPlace(item, k, e, o, p, l, n)
  \/ item.kind = "open" /\ \E k \in 1..Len(item.prots) :
       EqualPlace(item, k, o, p, l, n) \/ ValuePlace(item, k, o, p, l, n) \/ QuotedPlace(item, k, o, p, l, n)

-----------------------------------------------------------------------------
(* The tree of the first c items of a page.                                *)

KidsSoFar(page, j, c) ==
  {Number(page, i) : i \in {k \in 1..c :
     /\ page[k].kind \in Shown
     /\ IF j = 0 THEN ~\E n \in DOMAIN page : Within(page, n, k) ELSE Within(page, j, k)}}

\* What is directly within frame k.
Contents(p, k) ==
  p.frames[k].list \o (IF k < Len(p.frames) THEN <<p.frames[k + 1].tag>> ELSE <<>>)

\* st: the items whose ends have not come.
Stacked(page, c, p, st) ==
  /\ st \in [1..Len(p.frames) -> 0..c]
  /\ st[1] = 0
  /\ \A k \in 1..Len(p.frames) :
       /\ p.frames[k].tag = Number(page, st[k])
       /\ Rise(page, st[k]) = k - 1
       /\ \A b \in st[k]..c : Rise(page, b) >= k - 1
       /\ k > 1 => page[st[k]].kind = "open"
       /\ InOrder(Contents(p, k), KidsSoFar(page, st[k], c))
  /\ \A j \in 1..c : page[j].kind \in Shown /\ (\A k \in 1..Len(p.frames) : st[k] # j) =>
       InOrder(p.nodes[Number(page, j)].kids, KidsSoFar(page, j, c))

NodesSoFar(page, c, p) ==
  /\ Len(p.nodes) = Number(page, c)
  /\ \A i \in 1..c : page[i].kind \in Shown => NodeIs(p.nodes[Number(page, i)], page[i])

\* The parser has taken the first c items.
Taken(page, c, p) ==
  /\ Len(p.frames) = 1 + Rise(page, c)
  /\ \A b \in 0..c : Rise(page, b) >= 0
  /\ p.dom => /\ NodesSoFar(page, c, p)
              /\ ~HasVoid(page) => \E st \in [1..Len(p.frames) -> 0..c] : Stacked(page, c, p, st)

ItemEnd(page, c) == Ends(Items(page))[c]
PageCost(page, c) == Sums(Costs(page))[c]

Between(page, c, pos, p, l) ==
  /\ pos = ItemEnd(page, c) /\ l = "initial" /\ p.at = "doc" /\ Spent(p, PageCost(page, c))
  /\ (p.dom => p.prots = <<>>)

Inside(page, c, pos, p, l) ==
  /\ c < Len(page)
  /\ Place(page[c + 1], pos - ItemEnd(page, c), p, l, PageCost(page, c))
  /\ page[c + 1].kind # "open" => (p.dom => p.prots = <<>>)

\* pos characters of the page have been taken.
Read(page, pos, p, l) ==
  \E c \in 0..Len(page) :
    Taken(page, c, p) /\ (Between(page, c, pos, p, l) \/ Inside(page, c, pos, p, l))

-----------------------------------------------------------------------------
(* Sums, and strings written one after the other.                          *)

Recursive(f, b, g, n) == f[0] = b /\ \A i \in 1..n : f[i] = g[<<i, f[i - 1]>>]

\* f has the sums of the first elements of S.
SumsOf(f, S) ==
  /\ f \in [0..Len(S) -> Nat]
  /\ f[0] = 0
  /\ \A k \in 1..Len(S) : f[k] = f[k - 1] + S[k]

\* u is s with t behind it.
Joins(S, u, s, t) ==
  /\ u \in Seq(S)
  /\ Len(s) \in Nat /\ Len(t) \in Nat /\ Len(u) = Len(s) + Len(t)
  /\ \A i \in 1..Len(s) : u[i] = s[i]
  /\ \A i \in 1..Len(t) : u[Len(s) + i] = t[i]

IsFlattening(f, s, S) ==
  /\ f \in [0..Len(s) -> Seq(S)]
  /\ f[0] = <<>>
  /\ \A i \in 1..Len(s) : f[i] = f[i - 1] \o s[i]

\* String k of s begins in h behind the end of the one before.
Laid(h, s, f) ==
  /\ Len(h) = f[Len(s)]
  /\ \A k \in 1..Len(s) : \A j \in 1..Len(s[k]) : h[f[k - 1] + j] = s[k][j]

EndsOf(f, s) ==
  /\ f \in [0..Len(s) -> Nat]
  /\ f[0] = 0
  /\ \A k \in 1..Len(s) : f[k] = f[k - 1] + Len(s[k])
  /\ \A j \in 0..Len(s) : \A k \in j..Len(s) : f[j] <= f[k]

-----------------------------------------------------------------------------
(* What is written for an item, character by character.                    *)

ProtSpelled(p, P) ==
  /\ P \in Seq(Chars)
  /\ P[1] = "s" /\ P[2] = "w"
  /\ p.form = "bare" => Len(P) = 2
  /\ p.form = "quoted" =>
       /\ p.value \in Seq(Chars \ {"q"}) /\ Len(p.value) \in Nat
       /\ Len(P) = 5 + Len(p.value)
       /\ P[3] = "=" /\ P[4] = "q" /\ P[5 + Len(p.value)] = "q"
       /\ \A j \in 1..Len(p.value) : P[4 + j] = p.value[j]
  /\ p.form = "plain" =>
       /\ p.value \in Seq(Chars \ {"s", "<", ">"}) /\ Len(p.value) \in Nat
       /\ Len(P) = 3 + Len(p.value)
       /\ P[3] = "="
       /\ \A j \in 1..Len(p.value) : P[3 + j] = p.value[j]

TextSpelled(item, W) ==
  W = item.text /\ W \in Seq(Chars \ {"<"}) /\ W \in Seq(Chars) /\ Len(W) \in Nat \ {0}

CloseSpelled(W) ==
  /\ W \in Seq(Chars) /\ Len(W) = 4
  /\ W[1] = "<" /\ W[2] = "/" /\ W[3] = "w" /\ W[4] = ">"

CommentSpelled(item, W) ==
  LET n == Len(item.text)
  IN  /\ W \in Seq(Chars) /\ n \in Nat /\ Len(W) = n + 7
      /\ W[1] = "<" /\ W[2] = "!" /\ W[3] = "-" /\ W[4] = "-"
      /\ W[4 + n + 1] = "-" /\ W[4 + n + 2] = "-" /\ W[4 + n + 3] = ">"
      /\ \A i \in 1..n : ~(W[4 + i] = "-" /\ W[4 + i + 1] = "-" /\ W[4 + i + 2] = ">")

MetaSpelled(item, W) ==
  LET n == Len(item.text)
  IN  /\ W \in Seq(Chars) /\ n \in Nat /\ Len(W) = n + 3
      /\ W[1] = "<" /\ W[2] = "!"
      /\ W[2 + n + 1] = ">"
      /\ \A i \in 1..n : W[2 + i] # ">"
      /\ ~(W[3] = "-" /\ W[4] = "-")

\* E: the ends of the properties.
OpenSpelled(item, W, E) ==
  LET m == Len(item.prots)
      P(k) == <<"s", "w">> \o WrittenValue(item.prots[k])
  IN  /\ W \in Seq(Chars) /\ m \in Nat /\ item.prots \in Seq(ToSet(item.prots))
      /\ item.void \in BOOLEAN
      /\ E \in [0..m -> Nat] /\ E[0] = 0
      /\ W[1] = "<" /\ W[2] = "w"
      /\ \A k \in 1..m :
           /\ OrdinaryValue(item.prots[k], k = m /\ ~item.void)
           /\ ProtSpelled(item.prots[k], P(k))
           /\ E[k] = E[k - 1] + Len(P(k)) /\ E[k] <= E[m]
           /\ \A j \in 1..Len(P(k)) : W[2 + E[k - 1] + j] = P(k)[j]
      /\ ~item.void => Len(W) = E[m] + 3 /\ W[2 + E[m] + 1] = ">"
      /\ item.void => /\ Len(W) = E[m] + 5
                      /\ W[2 + E[m] + 1] = "s" /\ W[2 + E[m] + 2] = "/" /\ W[2 + E[m] + 3] = ">"

-----------------------------------------------------------------------------
(* What the lexer makes of a buffer.                                       *)

\* A rule takes n characters, which are there.
Takes(m, s, n, next, token) ==
  n \in Nat /\ n <= Len(s) /\ m.len = n /\ m.next = next /\ m.token = token /\ m.back = FALSE

\* Which of the rules for "<" it is depends on what is behind it.
Marks(s) ==
  /\ Len(s) \in Nat
  /\ Span(s, Chars \ {"<"}) = 0
  /\ IsPrefix(<<"<", "!", "-", "-">>, s)
       <=> Len(s) >= 4 /\ s[2] = "!" /\ s[3] = "-" /\ s[4] = "-"
  /\ IsPrefix(<<"<", "!">>, s) <=> Len(s) >= 2 /\ s[2] = "!"
  /\ IsPrefix(<<"<", "/">>, s) <=> Len(s) >= 2 /\ s[2] = "/"
  /\ IsPrefix(s, <<"<", "!", "-">>)
       <=> Len(s) <= 3 /\ (Len(s) >= 2 => s[2] = "!") /\ (Len(s) = 3 => s[3] = "-")

\* Which of the rules for "<" matches.
MarkRules(s, m) ==
  LET four == IsPrefix(<<"<", "!", "-", "-">>, s)
      two == IsPrefix(<<"<", "!">>, s)
      slash == IsPrefix(<<"<", "/">>, s)
  IN  /\ four => m = Eats(4, FALSE, "comment")
      /\ two /\ ~four => m = Eats(2, IsPrefix(s, <<"<", "!", "-">>), "meta")
      /\ slash /\ ~two /\ ~four => m = Match(2, FALSE, "tag_name", "TAG_START_FLAG2")
      /\ ~slash /\ ~two /\ ~four => m = Match(1, Len(s) = 1, "tag_name", "TAG_START_FLAG")

\* Whether s begins with the end of a comment, or with what may be one.
CommentMarks(s) ==
  /\ IsPrefix(<<"-", "-", ">">>, s) <=> Len(s) >= 3 /\ s[1] = "-" /\ s[2] = "-" /\ s[3] = ">"
  /\ Len(s) <= 2 /\ s[1] = "-" /\ (Len(s) = 2 => s[2] = "-") => IsPrefix(s, <<"-", "-">>)

\* A rule puts the character back.
Backs(m, next) == m.len = 1 /\ m.open = FALSE /\ m.next = next /\ m.token = "none" /\ m.back = TRUE

-----------------------------------------------------------------------------
(* The items of a page, counted.                                           *)

Opens(page)  == {i \in 1..Len(page) : page[i].kind = "open"}
Closes(page) == {i \in 1..Len(page) : page[i].kind = "close"}
Shows(page)  == {i \in 1..Len(page) : page[i].kind \in Shown}

Upto(S, b) == Cardinality(S \cap (1..b))

\* Counting up to b.
CountedTo(S, n) ==
  /\ Upto(S, 0) = 0
  /\ \A b \in 0..n : Upto(S, b) \in Nat
  /\ \A b \in 1..n : Upto(S, b) = Upto(S, b - 1) + (IF b \in S THEN 1 ELSE 0)
  /\ \A a \in 0..n : \A b \in a..n :
       Upto(S, b) = Upto(S, a) + Cardinality(S \cap ((a + 1)..b)) /\ Upto(S, a) <= Upto(S, b)

\* The depth of the tags.
RiseSteps(page) ==
  /\ Rise(page, 0) = 0
  /\ \A b \in 0..Len(page) : Rise(page, b) \in Int
  /\ \A b \in 1..Len(page) :
       Rise(page, b) = Rise(page, b - 1) + (IF page[b].kind = "open" THEN 1
                                            ELSE IF page[b].kind = "close" THEN 0 - 1 ELSE 0)

\* The numbers of the nodes.
Numbered(page) ==
  /\ Number(page, 0) = 0
  /\ \A b \in 0..Len(page) : Number(page, b) \in Nat
  /\ \A b \in 1..Len(page) :
       Number(page, b) = Number(page, b - 1) + (IF page[b].kind \in Shown THEN 1 ELSE 0)
  /\ \A a \in 0..Len(page) : \A b \in a..Len(page) : Number(page, a) <= Number(page, b)

\* The items that are open.
Opened(page, c, st, d) ==
  /\ d \in Nat \ {0}
  /\ st \in [1..d -> 0..c]
  /\ st[1] = 0
  /\ Rise(page, c) = d - 1
  /\ \A b \in 0..c : Rise(page, b) >= 0
  /\ \A k \in 1..d : /\ Rise(page, st[k]) = k - 1
                     /\ \A b \in st[k]..c : Rise(page, b) >= k - 1
                     /\ k > 1 => page[st[k]].kind = "open"

PageTyped(page) == Len(page) \in Nat /\ DOMAIN page = 1..Len(page)

-----------------------------------------------------------------------------
(* The tree of one more item, and of a page that has come to its end.      *)

\* Item c + 1 is directly within item s.
KidsGrow(page, j, c, s) ==
  KidsSoFar(page, j, c + 1) = IF page[c + 1].kind \in Shown /\ j = s
                              THEN KidsSoFar(page, j, c) \cup {Number(page, c + 1)}
                              ELSE KidsSoFar(page, j, c)

\* One more node for one more item.
NodeNext(page, c, p, q, node) ==
  /\ NodesSoFar(page, c + 1, q)
  /\ Number(page, c + 1) = Len(p.nodes) + 1 /\ Len(p.nodes) \in Nat
  /\ \A i \in 1..c : page[i].kind \in Shown =>
       q.nodes[Number(page, i)] = p.nodes[Number(page, i)]
  /\ q.nodes[Number(page, c + 1)] = node

\* The items whose ends have come, and those whose ends have not.
ClosedKids(page, c, p, st) ==
  \A j \in 1..c : page[j].kind \in Shown /\ (\A k \in 1..Len(p.frames) : st[k] # j) =>
    InOrder(p.nodes[Number(page, j)].kids, KidsSoFar(page, j, c))

OpenKids(page, c, p, st) ==
  \A k \in 1..Len(p.frames) :
    /\ p.frames[k].tag = Number(page, st[k])
    /\ InOrder(Contents(p, k), KidsSoFar(page, st[k], c))

\* A text becomes the last node of the innermost tag.
TextGrown(p, q, text) ==
  /\ q.dom = p.dom
  /\ p.dom => /\ q.frames = Listed(p, Len(p.frames), Len(p.nodes) + 1)
              /\ q.nodes = Append(p.nodes, Node("text", text, <<>>))
  /\ ~p.dom => q.frames = p.frames

\* A tag that begins is the last node, and open.
OpenGrown(p, q, prots) ==
  /\ q.dom = p.dom
  /\ p.dom => /\ q.frames = Append(p.frames, [tag |-> Len(p.nodes) + 1, list |-> <<>>])
              /\ q.nodes = Append(p.nodes, Node("tag", <<>>, prots))
  /\ ~p.dom => Len(q.frames) = Len(p.frames) + 1

\* A tag that ends gets its nodes, and is the last one in the tag around it.
CloseGrown(p, q) ==
  LET d == Len(p.frames)
      t == p.frames[d].tag
  IN  /\ q.dom = p.dom
      /\ p.dom => /\ q.frames = Listed(p, d - 1, t)
                  /\ q.nodes = [p.nodes EXCEPT ![t].kids = @ \o p.frames[d].list]
      /\ ~p.dom => Len(q.frames) = d - 1

\* The tags that are open, and the document, get what is directly within them.
EndGrown(p, q) ==
  /\ q.dom = p.dom /\ Len(q.nodes) = Len(p.nodes)
  /\ q.reduced = IF p.dom THEN p.reduced ELSE p.reduced + 4 * (Len(p.frames) - 1) + 1
  /\ \A n \in 1..Len(p.nodes) : /\ q.nodes[n].kind = p.nodes[n].kind
                                /\ q.nodes[n].text = p.nodes[n].text
                                /\ q.nodes[n].prots = p.nodes[n].prots
  /\ p.dom =>
       /\ q.root = Contents(p, 1)
       /\ \A n \in 1..Len(p.nodes) :
            (\A k \in 1..Len(p.frames) : p.frames[k].tag # n) => q.nodes[n].kids = p.nodes[n].kids
       /\ \A k \in 1..Len(p.frames) : p.frames[k].tag \in 1..Len(p.nodes) =>
            q.nodes[p.frames[k].tag].kids = Contents(p, k)

\* The tree of a page, by a parser that has ended.
TreeIs(page, q) ==
  /\ NodesSoFar(page, Len(page), q)
  /\ ~HasVoid(page) =>
       /\ InOrder(q.root, Children(page, 0))
       /\ \A i \in DOMAIN page : page[i].kind \in Shown =>
            InOrder(q.nodes[Number(page, i)].kids, Children(page, i))

-----------------------------------------------------------------------------
(* One match within an item.                                               *)

\* n more reductions.
Raised(p, q, n) ==
  q.dom = p.dom /\ \A a \in Nat : Spent(p, a) => Spent(q, a + n)

\* q is p but for what it expects, its reductions and the list of properties.
Stepped(p, q, at, n, prots) ==
  Same(p, q) /\ q.at = at /\ q.prots = prots /\ Raised(p, q, n)

\* The list of properties when one more has ended.
MoreProts(p, value) == IF p.dom THEN Append(p.prots, value) ELSE p.prots

\* A token that leaves the nodes where they are.
Moves(p, r, at, n, prots) == r.out = "more" /\ Stepped(p, r.parser, at, n, prots)

\* s is what is in the buffer when o characters of W have been taken, and all of
\* what is written if the last piece has come.
Upcoming(W, o, s, all) ==
  /\ W \in Seq(Chars) /\ s \in Seq(Chars) /\ Len(s) \in Nat \ {0} /\ Len(W) \in Nat
  /\ o \in Nat /\ o < Len(W)
  /\ \A i \in 1..Len(s) : o + i <= Len(W) => s[i] = W[o + i]
  /\ all => Len(s) >= Len(W) - o

\* At the beginning of an item.
Begins(p, l, n) == l = "initial" /\ p.at = "doc" /\ Spent(p, n) /\ (p.dom => p.prots = <<>>)

Here(item, o, p, l, n) ==
  \/ o = 0 /\ Begins(p, l, n)
  \/ Place(item, o, p, l, n) /\ (item.kind # "open" => (p.dom => p.prots = <<>>))

\* q is what an item makes of p.
Grown(item, p, q) ==
  /\ item.kind = "text" => TextGrown(p, q, item.text)
  /\ item.kind = "open" => \E prots : OpenGrown(p, q, prots) /\ (p.dom => prots = MeantProts(item.prots))
  /\ item.kind = "close" => CloseGrown(p, q) /\ Len(p.frames) > 1
  /\ item.kind \in {"comment", "meta"} => Same(p, q)

After(item, W, o, p, q, l, n) ==
  \/ o < Len(W) /\ Same(p, q) /\ Here(item, o, q, l, n)
  \/ o = Len(W) /\ Grown(item, p, q) /\ Begins(q, l, n + Cost(item))

Fails(item, p) ==
  \/ item.kind = "close" /\ ~(Len(p.frames) > 1)
  \/ item.kind = "open" /\ \E k \in DOMAIN item.prots :
       item.prots[k].form = "plain" /\ item.prots[k].value = <<>>

Goes(item, W, o, s, p, n, m, r) ==
  /\ m.token = "none" /\ ~m.back => After(item, W, o + m.len, p, p, m.next, n)
  /\ m.back => m.token = "none" /\ Here(item, o, p, m.next, n)
  /\ ~m.back => m.len \in Nat /\ m.len <= Len(s)
  /\ m.token # "none" =>
       \/ r.out = "more" /\ After(item, W, o + m.len, p, r.parser, m.next, n)
       \/ r.out = "refused" /\ Fails(item, p)

TagShape(item, W) ==
  /\ Len(item.prots) \in Nat /\ item.void \in BOOLEAN
  /\ \A k \in 0..Len(item.prots) :
       /\ ProtEnd(item.prots, k) \in Nat
       /\ ProtEnd(item.prots, k) <= ProtEnd(item.prots, Len(item.prots))
       /\ ProtCost(item.prots, k) \in Nat
  /\ ProtEnd(item.prots, 0) = 0 /\ ProtCost(item.prots, 0) = 0
  /\ Cost(item) = 7 + ProtCost(item.prots, Len(item.prots))

\* Property k, at the place e.
PropSpelled(item, W, k, e, v) ==
  /\ e \in Nat /\ k \in 1..Len(item.prots)
  /\ e = ProtEnd(item.prots, k - 1) /\ v = item.prots[k].value
  /\ W[e + 3] = "s" /\ W[e + 4] = "w"
  /\ item.prots[k].form \in {"bare", "quoted", "plain"}
  /\ item.prots[k].form = "bare" =>
       /\ ProtEnd(item.prots, k) = e + 2
       /\ ProtCost(item.prots, k) = ProtCost(item.prots, k - 1) + 4
  /\ item.prots[k].form # "bare" =>
       /\ Len(v) \in Nat /\ v \in Seq(Chars) /\ W[e + 5] = "="
       /\ ProtCost(item.prots, k) = ProtCost(item.prots, k - 1) + 5
  /\ item.prots[k].form = "quoted" =>
       /\ ProtEnd(item.prots, k) = e + 5 + Len(v)
       /\ W[e + 6] = "q" /\ W[e + 7 + Len(v)] = "q"
       /\ \A j \in 1..Len(v) : v[j] # "q" /\ W[e + 6 + j] = v[j]
  /\ item.prots[k].form = "plain" =>
       /\ ProtEnd(item.prots, k) = e + 3 + Len(v)
       /\ \A j \in 1..Len(v) : v[j] \notin {"s", "<", ">"} /\ v[j] \in Chars /\ W[e + 5 + j] = v[j]
       /\ IF v = <<>> THEN k = Len(item.prots) /\ ~item.void ELSE Len(v) > 0 /\ v[1] # "q"

\* What comes behind property k.
Behind(item, W, k, o) ==
  /\ o \in Nat /\ o = 2 + ProtEnd(item.prots, k) /\ k \in Nat
  /\ k < Len(item.prots) => W[o + 1] = "s" /\ W[o + 2] = "w" /\ o + 2 < Len(W)
  /\ k = Len(item.prots) /\ ~item.void => W[o + 1] = ">" /\ o + 1 = Len(W)
  /\ k = Len(item.prots) /\ item.void =>
       W[o + 1] = "s" /\ W[o + 2] = "/" /\ W[o + 3] = ">" /\ o + 3 = Len(W)

\* A value behind its "=".
AtValue(item, W, k, o, p, n) ==
  /\ WithinProt(item, k, o, p, "value", n, 3) /\ p.at = "value"
  /\ k \in 1..Len(item.prots) /\ k \in 0..Len(item.prots)
  /\ ProtEnd(item.prots, k - 1) \in Nat /\ o = ProtEnd(item.prots, k - 1) + 5
  /\ PropSpelled(item, W, k, ProtEnd(item.prots, k - 1), item.prots[k].value)
  /\ Behind(item, W, k, 2 + ProtEnd(item.prots, k)) /\ 2 + ProtEnd(item.prots, k) < Len(W)

-----------------------------------------------------------------------------
(* One match within a page.                                                *)

\* Item c + 1, where it is and what it costs.
LaidItem(page, c, item, W) ==
  /\ OrdinaryItem(item) /\ item = page[c + 1] /\ W = Written(item)
  /\ W \in Seq(Chars) /\ Len(W) \in Nat /\ Len(W) > 0
  /\ ItemEnd(page, c) \in Nat /\ ItemEnd(page, c + 1) = ItemEnd(page, c) + Len(W)
  /\ ItemEnd(page, c + 1) \in Nat /\ ItemEnd(page, c + 1) <= Len(Html(page))
  /\ \A j \in 1..Len(W) : Html(page)[ItemEnd(page, c) + j] = W[j]
  /\ PageCost(page, c) \in Nat /\ PageCost(page, c + 1) = PageCost(page, c) + Cost(item)

LaidPage(page) ==
  /\ PageTyped(page)
  /\ Html(page) \in Seq(Chars) /\ Len(Html(page)) \in Nat
  /\ ItemEnd(page, 0) = 0 /\ Len(Html(page)) = ItemEnd(page, Len(page))
  /\ PageCost(page, 0) = 0
  /\ \A c \in 0..Len(page) :
       ItemEnd(page, c) \in Nat /\ PageCost(page, c) \in Nat /\ ItemEnd(page, c) <= Len(Html(page))
  /\ \A c \in 0..Len(page) - 1 : LaidItem(page, c, page[c + 1], Written(page[c + 1]))

\* A piece of the page.
PieceOf(s, h, pos, end) ==
  /\ s \in Seq(Chars) /\ Len(s) = end - pos
  /\ \A i \in 1..end - pos : s[i] = h[pos + i]

\* Within which item, or at its beginning, a place of the page is.
HereIn(page, c, o, pos, p, l) ==
  /\ Taken(page, c, p) /\ o \in Nat /\ o < Len(Written(page[c + 1])) /\ pos = ItemEnd(page, c) + o
  /\ Here(page[c + 1], o, p, l, PageCost(page, c))

\* What a match makes of a place of the page.
Reads(page, pos, s, p, m, r) ==
  /\ m.token = "none" /\ ~m.back => Read(page, pos + m.len, p, m.next)
  /\ m.back => m.token = "none" /\ Read(page, pos, p, m.next)
  /\ ~m.back => m.len \in Nat /\ m.len <= Len(s)
  /\ m.token # "none" =>
       \/ r.out = "more" /\ Read(page, pos + m.len, r.parser, m.next)
       \/ r.out = "refused" /\ (HasSurplusClose(page) \/ HasNoValue(page))

\* A rule that does not put its character back.
Keeps(m) == m.back = FALSE /\ m.next # "noquote"

-----------------------------------------------------------------------------
(* The invariants of a session: Inv, which is about the nodes, and         *)
(* Correct, which is about the page.                                       *)

Inv ==
  /\ IsCheck => ~parser.dom
  /\ status \in {"idle", "call", "accepted", "refused", "crashed", "gone"}
  /\ status = "idle" => ~last
  /\ status \in {"idle", "call"} => Growing(parser)
  /\ status \in {"accepted", "refused"} => Ended(parser)
  /\ status = "gone" => (Growing(parser) /\ ~last) \/ Bare(parser)

TrainingPage == FilledPage(job.check.template, job.check.trained)

\* The page that is decoded, and how much of it has been taken.
Page ==
  IF IsCheck
  THEN IF score.trained = 0 THEN TrainingPage
       ELSE FilledPage(job.check.template, job.check.argv)
  ELSE job.page

Pos == fed - Len(saved) - Len(buf)

\* What has not been taken is saved between calls, and in the buffer within one.
Buffered ==
  /\ html = Html(Page)
  /\ fed \in 0..Len(html) /\ from \in 0..fed
  /\ last => fed = Len(html)
  /\ Pos \in 0..fed
  /\ status = "call" => saved = <<>> /\ PieceOf(buf, html, Pos, fed)
  /\ status = "idle" => buf = <<>> /\ PieceOf(saved, html, Pos, fed)

\* What is behind an empty value in the open is in the buffer when the lexer, which
\* has put it back, looks for the value, and it will not wait for more.
EmptyValueHeld ==
  lex = "noquote" /\ Pos < Len(html) /\ html[Pos + 1] \in {"s", "<", ">"} =>
    status = "call" /\ ~start /\ buf # <<>> /\ (last \/ ~greedy \/ Len(buf) > 1)

\* What waits in front of a value is at most its first character.
ValueHeld ==
  lex = "prot_value" =>
    /\ status = "idle" => Pos = fed \/ (greedy /\ Pos = fed - 1)
    /\ status = "call" /\ start => Pos = from \/ (greedy /\ Pos = from - 1)

Underway == Buffered /\ Read(Page, Pos, parser, lex) /\ EmptyValueHeld /\ ValueHeld

FinalCost(page) == 3 + PageCost(page, Len(page)) + 4 * Rise(page, Len(page))

\* No tag is ended that has not begun, and so many reductions have been counted.
Scored(page, n) == (\A b \in 0..Len(page) : Rise(page, b) >= 0) /\ n = FinalCost(page)

\* What has become of the page.
Outcome ==
  Ordinary(Page) =>
    /\ status \in {"idle", "call"} => Underway
    /\ status = "accepted" =>
         /\ ~IsCheck => TreeIs(Page, parser)
         /\ IsCheck => Scored(Page, parser.reduced)
    /\ status = "refused" => HasSurplusClose(Page) \/ HasNoValue(Page)
    /\ status = "crashed" => from + 1 \in PlainStarts \/ (greedy /\ from \in PlainStarts)

Jobs ==
  /\ ~IsCheck => parser.dom /\ job.page \in Pages
  /\ IsCheck => job.check \in Checks
  /\ DOMAIN score = {"trained", "verdict"}

Training == IsCheck /\ score.trained # 0 /\ Ordinary(TrainingPage) => Scored(TrainingPage, score.trained)

Correct == Outcome /\ Jobs /\ Training /\ PlainArgumentsClean

\* What Buffered says of a call that is under way.
CallHolds ==
  /\ html = Html(Page) /\ fed \in Nat /\ fed <= Len(html) /\ from \in Nat /\ from <= fed
  /\ last => fed = Len(html)
  /\ Pos \in Nat /\ Pos <= fed /\ saved = <<>> /\ PieceOf(buf, html, Pos, fed)
  /\ buf \in Seq(Chars) /\ Len(buf) \in Nat /\ Len(buf) = fed - Pos
  /\ Len(html) \in Nat /\ html \in Seq(Chars)

\* Two pages with the same items but for texts and values.
Alike(a, b) ==
  /\ DOMAIN a = DOMAIN b
  /\ \A i \in DOMAIN a : a[i].kind = b[i].kind /\ Cost(a[i]) = Cost(b[i])

\* A step of the decoder itself.
DecodingStep ==
  \/ \E n \in 0..(Len(html) - fed), l \in BOOLEAN : Feed(n, l)
  \/ Suspend \/ Eat \/ Token \/ PutBack \/ EndOfInput
=============================================================================
