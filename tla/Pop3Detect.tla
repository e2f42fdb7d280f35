----------------------------- MODULE Pop3Detect -----------------------------
(***************************************************************************)
(* What the POP3 signatures know of a session                              *)
(* (libdecoder/pop3/detect/pop3_detect.c, libdecoder/pop3/testsuite/       *)
(* pop3.ey): the protocol state, which a positive answer moves, and the    *)
(* check of each request against it.                                       *)
(***************************************************************************)

SessionStates == {"init", "auth", "tran", "updt"}

Codes == {"USER", "PASS", "APOP", "LIST", "RETR", "DELE", "UIDL", "TOP",
          "STAT", "QUIT", "NOOP", "RSET", "UNKNOWN"}

\* The rows of check_table.
Admitted ==
  [init |-> {"UNKNOWN"},
   auth |-> {"USER", "PASS", "APOP", "QUIT", "UNKNOWN"},
   tran |-> Codes \ {"USER", "PASS", "APOP"},
   updt |-> {"UNKNOWN"}]

\* transfer_table; "none" is an answer without a request.
Transfer(s, code) ==
  CASE code = "none" /\ s = "init" -> "auth"
    [] code \in {"PASS", "APOP"} /\ s = "auth" -> "tran"
    [] code = "QUIT" /\ s = "auth" -> "init"
    [] code = "QUIT" /\ s = "tran" -> "updt"
    [] OTHER -> s

\* Mutant: negative answers are not told apart.
TransferAlways(s, code, status) == Transfer(s, code)

\* pop3_state_transfer of a pair.
StateAfter(s, code, status) == IF status = "ok" THEN Transfer(s, code) ELSE s

MaxAuthFailed == 2
=============================================================================
