--------------------------- MODULE MCConversation ---------------------------
(***************************************************************************)
(* Two turns; a reply for each plan of its actions.                        *)
(***************************************************************************)
EXTENDS Conversation, TLC

MCReplies ==
  {<<"read", "read", "read">>, <<"delegateBad", "ask", "read">>, <<"once", "last">>,
   <<"payAuto", "read", "ask", "read">>, <<"delegate", "last", "pay">>,
   <<"thought", "final">>}
=============================================================================
