------------------------------- MODULE MCHtml -------------------------------
(***************************************************************************)
(* Pages of up to nine items, and checks of two arguments.                 *)
(***************************************************************************)
EXTENDS HtmlSession

Bare == [form |-> "bare", value |-> <<>>]
Quoted(v) == [form |-> "quoted", value |-> v]
Plain(v) == [form |-> "plain", value |-> v]
Open(prots) == [kind |-> "open", prots |-> prots, void |-> FALSE]
Void == [Open(<<>>) EXCEPT !.void = TRUE]
Close == [kind |-> "close"]
Text(t) == [kind |-> "text", text |-> t]
Comment(t) == [kind |-> "comment", text |-> t]
Meta == [kind |-> "meta", text |-> <<"w", "s">>]

MCPages ==
  {<< >>,
   <<Text(<<"w", "s">>), Open(<<>>), Text(<<"w", "w">>), Open(<<>>), Text(<<"/", ">">>), Close,
     Text(<<"q", "=">>), Close, Text(<<"w">>)>>,
   <<Meta, Open(<<Quoted(<<"w", "s", ">">>), Bare>>), Open(<<Quoted(<<>>)>>), Close, Close>>,
   <<Open(<<Plain(<<"w", "/">>), Plain(<<"-">>), Bare>>), Text(<<"w">>), Close, Text(<<"s">>)>>,
   <<Text(<<"w">>), Comment(<<"-", "w", ">", "-">>), Text(<<"w">>), Comment(<<>>), Open(<<>>)>>,
   <<Open(<<>>), Open(<<Bare>>), Text(<<"w">>)>>,
   <<Open(<<>>), Void, Text(<<"w">>), Close>>,
   <<Open(<<Quoted(<<"w">>), Plain(<<"w">>)>>), Open(<<>>), Open(<<>>), Close, Close,
     Open(<<Bare>>), Text(<<"s">>), Comment(<<"s">>), Text(<<"w">>)>>,
   <<Open(<<>>), Text(<<"w">>), Close, Close, Text(<<"w">>)>>,
   <<Open(<<>>), Open(<<>>), Text(<<"w">>), Close, Open(<<Plain(<<>>)>>), Text(<<"w">>), Close,
     Close>>}

Chr(c) == [arg |-> 0, chars |-> c]
Arg(n) == [arg |-> n]

\* <p class="$1">$0</p> of the testsuite; the same with the value in the open; and
\* an argument within a text.
Templates ==
  {<<Open(<<Quoted(<<Arg(2)>>)>>), Text(<<Arg(1)>>), Close>>,
   <<Open(<<Plain(<<Arg(2)>>)>>), Text(<<Arg(1)>>), Close>>,
   <<Open(<<>>), Text(<<Chr(<<"w">>), Arg(1)>>), Close, Text(<<Arg(2)>>)>>}

Arguments ==
  {<<>>, <<"q", "w">>, <<"w">>, <<"w", "s", "-">>, <<"/", "w">>, <<"w", "q", "w">>,
   <<"w", "w", "w", "w", "w">>}

MCChecks ==
  [template : Templates, trained : [1..2 -> {<<"w">>, <<"w", "w">>}], argv : [1..2 -> Arguments]]
=============================================================================
