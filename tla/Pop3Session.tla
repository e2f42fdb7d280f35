----------------------------- MODULE Pop3Session -----------------------------
(***************************************************************************)
(* A POP3 session as the decoder sees it (libdecoder/pop3): the bytes of   *)
(* both directions arrive through pop3_decode_data in the order in which   *)
(* they pass, lexers and push parsers turn them into requests and answers, *)
(* every answer is paired with the oldest request in the queue, and the    *)
(* signatures of pop3.ey follow the session.                               *)
(*                                                                         *)
(* Client and server are outside the repository.  A client may send before *)
(* the last answer has come; the server answers lines it has received, in  *)
(* order.  A call that delivers several pieces does what one call for each *)
(* does, so a step is a piece.  As testsuite/demo.c, the caller gives up   *)
(* at the first call that fails.                                           *)
(***************************************************************************)
EXTENDS Pop3Parse, Pop3Detect, Naturals, Sequences, FiniteSets

CONSTANTS
  Commands,     \* the codes that clients of the instance use
  Bodies,       \* the bodies of multi-line answers: sequences of body lines
  MaxRequests   \* bound: the requests of a session

MultiLine == {"LIST", "RETR", "TOP", "UIDL"}
BodyLines == {"text", "blank", "ok", "err", "dots"}
NoBody == <<"no body">>

ASSUME ConstantsAssumption ==
  /\ Commands \subseteq Codes
  /\ Bodies \subseteq Seq(BodyLines)
  /\ MaxRequests \in Nat

VARIABLES
  \* the peers
  asked,      \* the commands of the client: code, weak password, waited
  crest,      \* the pieces of the client's line that are still to come
  answers,    \* the answers of the server: status, body, its state after it
  srest,      \* the pieces of the last answer that are still to come
  closed,     \* the server has accepted a QUIT
  \* the decoder
  greedy,     \* parser.greedy, the same for both directions
  held,       \* parser.saved: a complete piece kept for the next call
  reading,    \* the client parser has the keyword of a command
  parsed,     \* how many requests it has made; they are numbered from 1
  requests,   \* request_list
  cmds,       \* cmd_list: pairs of a request (0: none) and an answer
  slex, spar, \* start condition of the server lexer, state of its parser
  ended,      \* the directions whose last fragment has been decoded
  refused,    \* the direction whose call returned an error, "none" before
  \* the signatures
  session,    \* userdefined->state
  authFailed, \* userdefined->auth_failed
  alarms      \* the signatures that matched, with the request or the pair

peers == <<asked, crest, answers, srest, closed>>
serverSide == <<slex, spar, cmds>>
known == <<session, authFailed, alarms>>
vars == <<peers, greedy, held, reading, parsed, requests, serverSide, ended,
          refused, known>>

Open == refused = "none"
Code(r) == IF r = 0 THEN "none" ELSE asked[r].code
ServerState == IF answers = <<>> THEN "init" ELSE answers[Len(answers)].after

-----------------------------------------------------------------------------
(* The signatures.                                                         *)

\* Mutant: the entry of check_table is returned as it is.
CheckInverted(r) ==
  alarms' = alarms \cup
    (IF Code(r) \in Admitted[session] THEN {<<"state", r>>} ELSE {})

\* Signature 7, the event "request": pop3_state_check.
CheckRequest(r) ==
  alarms' = alarms \cup
    (IF Code(r) \in Admitted[session] THEN {} ELSE {<<"state", r>>})

\* Signatures 4, 6 and 8 on the event "cmd_pair".  The first that matches
\* ends the detection: after a weak password the state is not transferred.
PairDetected(r, status, n) ==
  LET failed == Code(r) = "PASS" /\ status = "err"
      brute  == failed /\ authFailed + 1 >= MaxAuthFailed
      weak   == Code(r) = "PASS" /\ status = "ok" /\ asked[r].weak
  IN  /\ authFailed' = IF failed THEN authFailed + 1 ELSE authFailed
      /\ alarms' = alarms \cup (IF brute THEN {<<"brute", n>>} ELSE {})
                          \cup (IF weak THEN {<<"weak", n>>} ELSE {})
      /\ session' = IF brute \/ weak THEN session
                    ELSE StateAfter(session, Code(r), status)

-----------------------------------------------------------------------------
(* The queues.                                                             *)

\* Mutant: an answer takes the youngest request.
YoungestPaired(status) ==
  LET r == IF requests = <<>> THEN 0 ELSE requests[Len(requests)]
  IN  /\ cmds' = Append(cmds, [req |-> r, res |-> Len(answers) - 1])
      /\ requests' = IF requests = <<>> THEN <<>>
                     ELSE SubSeq(requests, 1, Len(requests) - 1)
      /\ PairDetected(r, status, Len(cmds) + 1)

\* pop3_add_command, called in the middle of an answer's first line.
AddCommand(status) ==
  LET r == IF requests = <<>> THEN 0 ELSE Head(requests)
  IN  /\ cmds' = Append(cmds, [req |-> r, res |-> Len(answers) - 1])
      /\ requests' = IF requests = <<>> THEN <<>> ELSE Tail(requests)
      /\ PairDetected(r, status, Len(cmds) + 1)

\* The reductions that a line end, or the end of the stream, completes: the
\* command, the event "request", and the insertion at the tail of the queue.
AddRequest ==
  /\ parsed' = parsed + 1
  /\ requests' = Append(requests, parsed + 1)
  /\ CheckRequest(parsed + 1)
  /\ UNCHANGED <<session, authFailed>>

-----------------------------------------------------------------------------
(* One piece through lexer and parser.                                     *)

ParseClient(piece) ==
  \/ /\ piece = "key"
     /\ reading' = TRUE
     /\ UNCHANGED <<parsed, requests, known>>
  \/ /\ piece = "nl" /\ reading
     /\ reading' = FALSE
     /\ AddRequest
  \/ /\ piece = "nothing" \/ (piece = "nl" /\ ~reading)
     /\ UNCHANGED <<reading, parsed, requests, known>>

\* yypush_parse of the server's token.
PushServer(token) ==
  /\ IF Takes(spar, token)
     THEN spar' = Goto[spar][token] /\ UNCHANGED refused
     ELSE spar' = "list" /\ refused' = "server"
  /\ IF spar \in PairsIn
     THEN AddCommand(spar)
     ELSE UNCHANGED <<cmds, requests, known>>

\* The start condition after a piece when the next one has begun to arrive:
\* what a greedy parser keeps of it may have gone through the rule ".".
LexNext(l, next) == IF greedy THEN {l, LexCut(l, next)} ELSE {l}

ParseServer(piece, next) ==
  IF piece = "nothing" \/ Token(slex, piece) = "eaten"
  THEN /\ slex' \in LexNext(slex, next)
       /\ UNCHANGED <<spar, cmds, requests, known, refused>>
  ELSE /\ slex' \in LexNext(LexAfter(slex, piece), next)
       /\ PushServer(Token(slex, piece))

\* A piece arrives; a greedy parser keeps what ends its buffer and gets what
\* it kept before.
Got(d, piece) == IF greedy THEN held[d] ELSE piece
Keep(d, piece) ==
  held' = IF greedy THEN [held EXCEPT ![d] = piece] ELSE held

-----------------------------------------------------------------------------
(* The client's side.                                                      *)

Waited == srest = <<>> /\ Len(answers) = Len(asked) + 1

Live(d) == Open /\ d \notin ended

AskCommand(code, weak) ==
  /\ Live("client") /\ crest = <<>> /\ Len(asked) < MaxRequests
  /\ weak => code = "PASS"
  /\ asked' = Append(asked, [code |-> code, weak |-> weak, waited |-> Waited])
  /\ crest' = <<"nl">>
  /\ ParseClient(Got("client", "key")) /\ Keep("client", "key")
  /\ UNCHANGED <<answers, srest, closed, greedy, serverSide, ended, refused>>

EndLine ==
  /\ Live("client") /\ crest = <<"nl">>
  /\ crest' = <<>>
  /\ ParseClient(Got("client", "nl")) /\ Keep("client", "nl")
  /\ UNCHANGED <<asked, answers, srest, closed, greedy, serverSide, ended, refused>>

\* A buffer that ends within the next piece: a greedy parser gets what it kept.
CutClient ==
  /\ Live("client") /\ greedy /\ held["client"] # "nothing"
  /\ ParseClient(held["client"]) /\ held' = [held EXCEPT !["client"] = "nothing"]
  /\ UNCHANGED <<peers, greedy, serverSide, ended, refused>>

\* The last fragment.  What was kept is parsed, then the end of the stream; in
\* the middle of a command that completes the request and is an error.
EndClient ==
  /\ Live("client")
  /\ ended' = ended \cup {"client"}
  /\ held' = [held EXCEPT !["client"] = "nothing"]
  /\ reading' = FALSE
  /\ refused' = IF crest = <<>> THEN "none" ELSE "client"
  /\ IF reading \/ held["client"] = "key"
     THEN AddRequest ELSE UNCHANGED <<parsed, requests, known>>
  /\ UNCHANGED <<peers, greedy, serverSide>>

-----------------------------------------------------------------------------
(* The server's side.                                                      *)

\* The greeting, or the answer to a command whose line has passed.
MayAnswer == ~closed /\ Len(answers) + Len(crest) <= Len(asked)

LinePieces(line) ==
  CASE line = "blank" -> <<"nl">>
    [] line = "dots" -> <<"dots">>
    [] OTHER -> <<line, "nl">>

\* The pieces of the first n lines of a body.
LinesTo(body, n) ==
  LET f[i \in 0..Len(body)] ==
        IF i = 0 THEN <<>> ELSE f[i - 1] \o LinePieces(body[i])
  IN  f[n]

\* The pieces of an answer after "+OK" or "-ERR".
Rest(said, body) ==
  (IF said THEN <<"text", "nl">> ELSE <<"nl">>) \o
  (IF body = NoBody THEN <<>> ELSE LinesTo(body, Len(body)) \o <<"dot">>)

\* The statuses and bodies an honest server may answer a command with.
Answerable(code) ==
  IF code = "none" THEN {"ok"} \X {NoBody}
  ELSE {<<"err", NoBody>>} \cup
       (IF code \notin Admitted[ServerState] THEN {}
        ELSE {"ok"} \X (IF code \in MultiLine THEN Bodies ELSE {NoBody}))

Answer(status, body, said) ==
  LET k == Len(answers)
      code == Code(k)
  IN  /\ Live("server") /\ srest = <<>> /\ MayAnswer
      /\ <<status, body>> \in Answerable(code)
      /\ answers' = Append(answers,
           [status |-> status, body |-> body,
            after |-> IF status = "ok" THEN Transfer(ServerState, code)
                      ELSE ServerState])
      /\ srest' = Rest(said, body)
      /\ closed' = (code = "QUIT" /\ status = "ok")
      /\ ParseServer(Got("server", status), status) /\ Keep("server", status)
      /\ UNCHANGED <<asked, crest, greedy, reading, parsed, ended>>

MoreAnswer ==
  /\ Live("server") /\ srest # <<>>
  /\ srest' = Tail(srest)
  /\ ParseServer(Got("server", Head(srest)), Head(srest))
  /\ Keep("server", Head(srest))
  /\ UNCHANGED <<asked, crest, answers, closed, greedy, reading, parsed, ended>>

\* A buffer that ends within the next piece.
CutServer ==
  /\ Live("server") /\ srest # <<>>
  /\ IF greedy
     THEN /\ ParseServer(held["server"], Head(srest))
          /\ held' = [held EXCEPT !["server"] = "nothing"]
     ELSE /\ slex' = LexCut(slex, Head(srest))
          /\ UNCHANGED <<held, spar, cmds, requests, known, refused>>
  /\ UNCHANGED <<peers, greedy, reading, parsed, ended>>

\* The last fragment of a server that has completed its answers.
EndServer ==
  /\ Live("server") /\ srest = <<>> /\ "client" \in ended
  /\ ended' = ended \cup {"server"}
  /\ ParseServer(held["server"], "nothing")
  /\ held' = [held EXCEPT !["server"] = "nothing"]
  /\ UNCHANGED <<peers, greedy, reading, parsed>>

-----------------------------------------------------------------------------
Init ==
  /\ asked = <<>> /\ crest = <<>>
  /\ answers = <<>> /\ srest = <<>> /\ closed = FALSE
  /\ greedy \in BOOLEAN
  /\ held = [d \in {"client", "server"} |-> "nothing"]
  /\ reading = FALSE /\ parsed = 0
  /\ requests = <<>> /\ cmds = <<>>
  /\ slex = "initial" /\ spar = "list"
  /\ ended = {} /\ refused = "none"
  /\ session = "init" /\ authFailed = 0 /\ alarms = {}

Next ==
  \/ \E code \in Commands, weak \in BOOLEAN : AskCommand(code, weak)
  \/ EndLine \/ CutClient \/ EndClient
  \/ \E status \in {"ok", "err"}, body \in Bodies \cup {NoBody}, said \in BOOLEAN :
       Answer(status, body, said)
  \/ MoreAnswer \/ CutServer \/ EndServer

Spec == Init /\ [][Next]_vars

-----------------------------------------------------------------------------
(***************************************************************************)
(* What makes a session hard for this decoder: a greedy parser, which lags *)
(* behind by a token, a client that does not wait for the greeting, and a  *)
(* body with a line that begins as a status line does before any ordinary  *)
(* line has put the lexer into BODY.                                       *)
(***************************************************************************)
Hard(body) ==
  \E i \in 1..Len(body) : /\ body[i] \in {"ok", "err"}
                          /\ \A j \in 1..(i - 1) : body[j] \in {"blank", "dots"}
Plain ==
  /\ ~greedy
  /\ asked # <<>> => asked[1].waited
  /\ \A i \in DOMAIN answers : ~Hard(answers[i].body)

\* The requests that are no longer in the queue.
Gone == parsed - Len(requests)

(***************************************************************************)
(* No request is lost, duplicated or overtaken (the queue of pop3_client.y *)
(* and pop3_add_command): the queue has the youngest requests in their     *)
(* order, every other one is in exactly one pair, and the pairs have them  *)
(* in their order.  This holds of every session, however peers behave.     *)
(***************************************************************************)
QueueInOrder ==
  /\ Len(requests) <= parsed
  /\ \A i \in 1..Len(requests) : requests[i] = Gone + i
  /\ \A i \in 1..Len(cmds) : cmds[i].req \in 0..Gone
  /\ \A i, j \in 1..Len(cmds) :
       i < j /\ cmds[i].req # 0 /\ cmds[j].req # 0 => cmds[i].req < cmds[j].req
  /\ \A r \in 1..Gone : \E i \in 1..Len(cmds) : cmds[i].req = r

(***************************************************************************)
(* Requests and answers are paired as the peers meant them                 *)
(* (pop3_add_command).  In a plain session, pipelined or not and however   *)
(* the stream is cut, answer i goes with request i and the greeting with   *)
(* none.                                                                   *)
(***************************************************************************)
PairedAsMeant ==
  Plain => \A i \in 1..Len(cmds) : cmds[i] = [req |-> i - 1, res |-> i - 1]

\* The state of the server after the last answer that is paired.
StatePaired == IF cmds = <<>> THEN "init" ELSE answers[Len(cmds)].after

WeakFound == \E n \in DOMAIN cmds : <<"weak", n>> \in alarms

(***************************************************************************)
(* The session that the signatures keep is the session of the server: the  *)
(* state is the one after the last answer that is paired, and the failed   *)
(* passwords are those the server has refused (signatures 4 and 8), as     *)
(* long as signature 6 has found no weak password: it stands before        *)
(* signature 8 and its match ends the detection of the pair.               *)
(***************************************************************************)
SessionTrue ==
  Plain => /\ authFailed = Cardinality({i \in DOMAIN cmds :
                Code(i - 1) = "PASS" /\ answers[i].status = "err"})
           /\ WeakFound \/ session = StatePaired

(***************************************************************************)
(* The check of requests (signature 7) is made when a request is parsed.   *)
(* For a client that waits for answers it raises an alarm exactly for the  *)
(* commands that the server's state does not admit.                        *)
(***************************************************************************)
AlarmsJust ==
  Plain /\ ~WeakFound =>
    \A r \in 1..parsed : asked[r].waited =>
      ((<<"state", r>> \in alarms) <=>
         asked[r].code \notin Admitted[answers[r].after])

(***************************************************************************)
(* The only honest server streams the decoder refuses have in the last     *)
(* answer a body of blank lines only or of none, a blank line after        *)
(* another line, or a first line that reads as a status line or as the end *)
(* of the body; and of the client's, those that end within a line.         *)
(***************************************************************************)
Refusable(body) ==
  /\ body # NoBody
  /\ \/ \A i \in 1..Len(body) : body[i] = "blank"
     \/ \E i \in 1..Len(body) : /\ body[i] \in {"ok", "err", "dots"}
                                /\ \A j \in 1..(i - 1) : body[j] = "blank"
     \/ \E i \in 2..Len(body) : body[i] = "blank" /\ body[i - 1] # "blank"

RefusalsKnown ==
  /\ refused = "server" => \E i \in DOMAIN answers : Refusable(answers[i].body)
  /\ refused = "client" => crest # <<>>
=============================================================================
