----------------------------- MODULE MCSession -----------------------------
(***************************************************************************)
(* Two tasks and two chat sessions; one reply for each way a turn ends.    *)
(***************************************************************************)
EXTENDS Session, TLC

CONSTANTS t1, t2, c1, c2, none

MCTasks == {t1, t2}
MCSessions == {c1, c2}
MCReplies == {<<"ask", "read", "read">>, <<"delegateBad", "ask", "once">>, <<"pay">>}
MCPaying == {"once"}
=============================================================================
