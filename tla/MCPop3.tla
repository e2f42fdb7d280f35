------------------------------- MODULE MCPop3 -------------------------------
(***************************************************************************)
(* Three requests; the codes are those that move the session, one with a   *)
(* multi-line answer and one that every state admits.                      *)
(***************************************************************************)
EXTENDS Pop3Session

MCCommands == {"PASS", "LIST", "QUIT", "UNKNOWN"}
MCBodies ==
  {<<>>, <<"blank", "text">>, <<"text", "blank">>, <<"blank", "ok">>, <<"dots", "ok">>,
   <<"text", "dots">>}
=============================================================================
