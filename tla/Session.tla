------------------------------ MODULE Session ------------------------------
(***************************************************************************)
(* A task between the loop that runs it and the user who watches it: the   *)
(* loop sends events into a bounded channel, the connection drains them    *)
(* onto the socket, the desktop client reads them until the first "done"   *)
(* or "error" and keeps a card for each question, in the open view and in  *)
(* the row of the open chat session.  Answers come from a card or, for a   *)
(* payment, from the dashboard.                                            *)
(*                                                                         *)
(* What the events say, holds and the audit log are left to other modules. *)
(***************************************************************************)
EXTENDS Turn

CONSTANTS
  Tasks,
  Sessions,   \* chat sessions of the client
  Replies,    \* the replies of the model
  Paying,     \* plain skills that may pay by themselves, as x402.pay does
  Cap,        \* capacity of the event channel
  MaxTurns,   \* MAX_REACT_STEPS
  MaxSends,   \* bound: messages, answers and approvals
  MaxLeaves,  \* bound: hangs, early time-outs, and sessions opened or deleted
  None

ASSUME SessionAssumption ==
  /\ Replies \subseteq Seq(Items) /\ Paying \subseteq Plain
  /\ {Cap, MaxTurns} \subseteq Nat \ {0} /\ {MaxSends, MaxLeaves} \subseteq Nat
  /\ Sessions # {} /\ None \notin Tasks \cup Sessions

VARIABLES
  pending,   \* tasks.pending_action_json: the kind of question a task waits with
  script,    \* what the loop of each task does before its next turn
  more,      \* the loop takes another turn after it
  turns,     \* turns it took
  watch,     \* a settlement watch holds a sender of the channel
  hung,      \* who has stopped answering for good: a skill, or the watch's mirror node
  chan,      \* the event channel
  conn,      \* the connection: draining, broken after a write error, or none
  reading,   \* what the client reads the connection for; "asked": a chat that awaits
  view,      \* tasks with a card in the open view
  cards,     \* sessions.pending_confirmation
  current,   \* the open session
  busy,      \* isThinking
  asked,     \* history: tasks that asked in their current turn
  reopened,  \* history: tasks that asked in a turn a batch let go on
  lost,      \* history: what may have cost a task its card since it last got one
  sends, leaves

loop == <<script, more, turns, asked, reopened>>
stream == <<chan, conn, reading>>
gui == <<view, cards, current, busy>>
waits == <<watch, hung>>
bounds == <<sends, leaves>>
vars == <<pending, loop, waits, stream, gui, lost, bounds>>

Events == {"thought", "chat", "ask", "final", "error", "action", "observation", "done",
           "paymentsettled", "token"}
Questions == {"ask", "pay", "grant"}
Readers == {"chat", "asked", "resume", "dash"}

\* The client gave up, or took an error for the end; a newer card took the
\* row; the card was cleared with another's; the reply found no daemon, or did
\* not settle the question; the session was deleted.
Losses == {"left", "error", "overwritten", "wiped", "unsent", "kept", "deleted"}

ASSUME NoneAssumption == None \notin Questions \cup Readers \cup Losses

Clear == <<"park", None>>
Steps == {Send(e) : e \in Events} \cup {Do(i) : i \in Items \cup {"failed"}}
         \cup {Park(q) : q \in Questions \cup {None}}

TypeOK ==
  /\ pending \in [Tasks -> Questions \cup {None}]
  /\ script \in [Tasks -> Seq(Steps)]
  /\ chan \in [Tasks -> Seq(Events)] /\ \A t \in Tasks : Len(chan[t]) <= Cap
  /\ more \in [Tasks -> BOOLEAN] /\ turns \in [Tasks -> 0..MaxTurns]
  /\ conn \in [Tasks -> {"none", "drain", "broken"}]
  /\ reading \in [Tasks -> Readers \cup {None}]
  /\ {watch, view, asked, reopened} \subseteq SUBSET Tasks
  /\ hung \in [Tasks -> {"skill", "mirror", None}]
  /\ cards \in [Sessions -> Tasks \cup {None}]
  /\ current \in Sessions /\ busy \in BOOLEAN
  /\ lost \in [Tasks -> Losses \cup {None}]
  /\ sends \in 0..MaxSends /\ leaves \in 0..MaxLeaves
  /\ \A t \in Tasks :
       conn[t] = "none" => script[t] = <<>> /\ ~more[t] /\ chan[t] = <<>> /\ t \notin watch /\ hung[t] = None

Init ==
  /\ pending = [t \in Tasks |-> None]
  /\ script = [t \in Tasks |-> <<>>] /\ more = [t \in Tasks |-> FALSE]
  /\ turns = [t \in Tasks |-> 0] /\ asked = {} /\ reopened = {}
  /\ watch = {} /\ hung = [t \in Tasks |-> None] /\ chan = [t \in Tasks |-> <<>>]
  /\ conn = [t \in Tasks |-> "none"] /\ reading = [t \in Tasks |-> None]
  /\ view = {}
  /\ cards = [s \in Sessions |-> None] /\ busy = FALSE
  /\ current = CHOOSE s \in Sessions : TRUE
  /\ lost = [t \in Tasks |-> None] /\ sends = 0 /\ leaves = 0

Running(t) == script[t] # <<>> \/ more[t]
Idle(t) == conn[t] = "none" /\ reading[t] = None

-----------------------------------------------------------------------------
(***************************************************************************)
(* What a message or an answer starts: a script, and whether turns follow. *)
(***************************************************************************)
\* A question parked anew by a resumed loop, or by a forged skill.
Asking(q) == <<Send("ask"), Park(q), Send("done")>>
Failing == <<Send("error"), Send("done")>>

\* A fresh task takes its turns, or forges a skill; a forge that fails ends the
\* task as a turn that fails does.
Fresh == {<<<<>>, TRUE>>, <<Asking("grant"), FALSE>>}

\* Mutant: the question is cleared once the payment has been made.
ApprovedLate == {<<Carried("payAuto") \o <<Clear>>, TRUE>>,
                 <<Carried("failed") \o <<Clear>> \o Failing, FALSE>>,
                 <<<<Clear>> \o Failing, FALSE>>,
                 <<Asking("pay"), FALSE>>}

\* approve_hold: paid, failed, invalid, or asked again for its new settings.
Approved == {<<<<Clear>> \o Carried("payAuto"), TRUE>>,
             <<<<Clear>> \o Carried("failed") \o Failing, FALSE>>,
             <<<<Clear>> \o Failing, FALSE>>,
             <<Asking("pay"), FALSE>>}

Denied == {<<<<Clear, Send("final"), Send("done")>>, FALSE>>}

\* A grant that dlt blocks, and one talked past, stays parked.
Unsettled == {<<Failing, FALSE>>, <<<<>>, TRUE>>}
Granted == {<<<<Clear, Send("observation")>>, TRUE>>,
            <<<<Clear>> \o Failing, FALSE>>, <<Asking("grant"), FALSE>>}

\* An answer to a question no longer parked is a new task.
Resumed(q) ==
  CASE q = "ask" -> {<<<<Clear>>, TRUE>>}
    [] q = "pay" -> Approved \cup Denied \cup {<<<<Clear>>, TRUE>>}
    [] q = "grant" -> Granted \cup Denied \cup Unsettled
    [] OTHER -> Fresh

Opened(t, how, plan) ==
  /\ conn' = [conn EXCEPT ![t] = "drain"]
  /\ script' = [script EXCEPT ![t] = plan[1]]
  /\ more' = [more EXCEPT ![t] = plan[2]]
  /\ turns' = [turns EXCEPT ![t] = 0]
  /\ asked' = asked \ {t} /\ reopened' = reopened \ {t}
  /\ reading' = [reading EXCEPT ![t] = how]
  /\ UNCHANGED <<pending, waits, chan, leaves>>

-----------------------------------------------------------------------------
(***************************************************************************)
(* The loop.                                                               *)
(***************************************************************************)
Surfacings == {Surfaced(p, midTask) : p \in Replies, midTask \in BOOLEAN}

\* What a reply makes of a turn.
Replied ==
  {[script |-> IF GoesOn(p) THEN Script(p) ELSE Script(p) \o <<Send("done")>>,
    goesOn |-> GoesOn(p),
    asks |-> Contains(p, "ask")] : p \in Surfacings}

\* What reaches the client while the model speaks; one token stands for many.
Streamed == {<<>>, <<Send("token")>>}

\* A turn: the model fails, says nothing, or replies.
TakeTurn(t) ==
  /\ script[t] = <<>> /\ more[t] /\ turns[t] < MaxTurns
  /\ turns' = [turns EXCEPT ![t] = @ + 1]
  /\ asked' = asked \ {t}
  /\ \/ /\ \E tokens \in Streamed, s \in {Failing, <<Send("done")>>} :
             script' = [script EXCEPT ![t] = tokens \o s]
        /\ more' = [more EXCEPT ![t] = FALSE]
        /\ UNCHANGED reopened
     \/ \E tokens \in Streamed, r \in Replied :
          /\ script' = [script EXCEPT ![t] = tokens \o r.script]
          /\ more' = [more EXCEPT ![t] = r.goesOn]
          /\ reopened' = IF r.goesOn /\ r.asks THEN reopened \cup {t} ELSE reopened
  /\ UNCHANGED <<pending, waits, stream, gui, lost, bounds>>

\* "Max steps reached"
OutOfTurns(t) ==
  /\ script[t] = <<>> /\ more[t] /\ turns[t] = MaxTurns
  /\ script' = [script EXCEPT ![t] = Failing]
  /\ more' = [more EXCEPT ![t] = FALSE]
  /\ UNCHANGED <<pending, turns, asked, reopened, waits, stream, gui, lost, bounds>>

\* One step of its script.  A send waits while the channel is full; a run that
\* tells a transaction_id - pay or x402.pay, alone or in a batch - starts a watch.
Step(t) ==
  LET s == Head(script[t]) IN
  /\ script[t] # <<>>
  /\ script' = [script EXCEPT ![t] = Tail(@)]
  /\ \/ /\ s[1] = "send" /\ Len(chan[t]) < Cap
        /\ chan' = [chan EXCEPT ![t] = Append(@, s[2])]
        /\ UNCHANGED <<pending, watch, asked>>
     \/ /\ s[1] = "park"
        /\ pending' = [pending EXCEPT ![t] = s[2]]
        /\ asked' = IF s[2] = None THEN asked ELSE asked \cup {t}
        /\ UNCHANGED <<watch, chan>>
     \/ /\ s[1] = "run" /\ hung[t] # "skill"
        /\ \/ s[2] \in Paying \cup {"payAuto"} /\ watch' = watch \cup {t}
           \/ s[2] # "payAuto" /\ UNCHANGED watch
        /\ UNCHANGED <<pending, chan, asked>>
  /\ UNCHANGED <<more, turns, reopened, hung, conn, reading, gui, lost, bounds>>

\* spawn_payment_settlement_watch: the result is sent, or polling gives up.
Settle(t) ==
  /\ t \in watch /\ hung[t] # "mirror"
  /\ watch' = watch \ {t}
  /\ \/ Len(chan[t]) < Cap /\ chan' = [chan EXCEPT ![t] = Append(@, "paymentsettled")]
     \/ UNCHANGED chan
  /\ UNCHANGED <<pending, loop, hung, conn, reading, gui, lost, bounds>>

InSkill(t) == script[t] # <<>> /\ Head(script[t])[1] = "run"

\* What nothing limits: the facilitator's answer to x402.pay, a guest, and a poll
\* of the mirror node (reqwest::get has no timeout).
Hang(t) ==
  /\ hung[t] = None /\ leaves < MaxLeaves
  /\ leaves' = leaves + 1
  /\ \/ InSkill(t) /\ hung' = [hung EXCEPT ![t] = "skill"]
     \/ t \in watch /\ hung' = [hung EXCEPT ![t] = "mirror"]
  /\ UNCHANGED <<pending, loop, watch, stream, gui, lost, sends>>

-----------------------------------------------------------------------------
(***************************************************************************)
(* The connection of the daemon.                                           *)
(***************************************************************************)
\* What is written after the client left may still be taken by the socket.
Sink(t) ==
  /\ conn[t] = "drain" /\ chan[t] # <<>> /\ reading[t] = None
  /\ chan' = [chan EXCEPT ![t] = Tail(@)]
  /\ \E c \in {"drain", "broken"} : conn' = [conn EXCEPT ![t] = c]
  /\ UNCHANGED <<pending, loop, waits, reading, gui, lost, bounds>>

\* Mutant: after a write error the connection does not wait for the loop's end,
\* nor for its senders' when it is drained.
CloseAtOnce(t) ==
  /\ conn[t] = "broken" \/ (conn[t] = "drain" /\ chan[t] = <<>>)
  /\ conn' = [conn EXCEPT ![t] = "none"]
  /\ chan' = [chan EXCEPT ![t] = <<>>]
  /\ watch' = watch \ {t} /\ hung' = [hung EXCEPT ![t] = None]
  /\ UNCHANGED <<pending, loop, reading, gui, lost, bounds>>

\* Mutant: after a write error the connection still waits to drain.
CloseDrained(t) ==
  /\ ~Running(t)
  /\ conn[t] # "none" /\ chan[t] = <<>> /\ t \notin watch
  /\ conn' = [conn EXCEPT ![t] = "none"]
  /\ turns' = [turns EXCEPT ![t] = 0]
  /\ asked' = asked \ {t} /\ reopened' = reopened \ {t}
  /\ UNCHANGED <<pending, script, more, waits, chan, reading, gui, lost, bounds>>

\* All senders are gone; or, after a write error, the loop has ended.
Close(t) ==
  /\ ~Running(t)
  /\ conn[t] = "broken" \/ (conn[t] = "drain" /\ chan[t] = <<>> /\ t \notin watch)
  /\ conn' = [conn EXCEPT ![t] = "none"]
  /\ chan' = [chan EXCEPT ![t] = <<>>]
  /\ watch' = watch \ {t} /\ hung' = [hung EXCEPT ![t] = None]
  /\ turns' = [turns EXCEPT ![t] = 0]
  /\ asked' = asked \ {t} /\ reopened' = reopened \ {t}
  /\ UNCHANGED <<pending, script, more, reading, gui, lost, bounds>>

-----------------------------------------------------------------------------
(***************************************************************************)
(* The desktop client.                                                     *)
(***************************************************************************)
Card(t) == t \in view \/ \E s \in Sessions : cards[s] = t

\* The next event of the connection is written and read.
Reads(t) ==
  /\ reading[t] # None /\ conn[t] = "drain" /\ chan[t] # <<>>
  /\ chan' = [chan EXCEPT ![t] = Tail(@)]
  /\ UNCHANGED <<pending, loop, waits, conn, current, bounds>>

\* submit_task ends at the first of these; a dashboard request at its answer.
Terminal(t) == IF reading[t] = "dash" THEN {} ELSE {"done", "error"}

\* Mutant: the question does not give the turn back to the user.
ReadAskHolding(t) ==
  /\ Reads(t) /\ Head(chan[t]) = "ask"
  /\ reading' = [reading EXCEPT ![t] = IF @ = "chat" THEN "asked" ELSE @]
  /\ view' = view \cup {t}
  /\ cards' = [cards EXCEPT ![current] = t]
  /\ lost' = [lost EXCEPT ![t] = None]
  /\ UNCHANGED busy

\* Mutant: the card is shown and not stored with the session.
ReadAskUnsaved(t) ==
  /\ Reads(t) /\ Head(chan[t]) = "ask"
  /\ reading' = [reading EXCEPT ![t] = IF @ = "chat" THEN "asked" ELSE @]
  /\ view' = view \cup {t}
  /\ busy' = FALSE
  /\ lost' = [lost EXCEPT ![t] = None]
  /\ UNCHANGED cards

\* awaiting_confirmation: a card in the open view and in its session's row.
ReadAsk(t) ==
  /\ Reads(t) /\ Head(chan[t]) = "ask"
  /\ reading' = [reading EXCEPT ![t] = IF @ = "chat" THEN "asked" ELSE @]
  /\ view' = view \cup {t}
  /\ cards' = [cards EXCEPT ![current] = t]
  /\ busy' = FALSE
  /\ lost' = [u \in Tasks |-> CASE u = t -> None
                                [] u # t /\ u = cards[current] -> "overwritten"
                                [] OTHER -> lost[u]]

ReadOn(t) ==
  /\ Reads(t) /\ Head(chan[t]) \notin Terminal(t) \cup {"ask"}
  /\ UNCHANGED <<reading, view, cards, busy, lost>>

\* The end of a chat turn or of an answer.
ReadEnd(t) ==
  /\ Reads(t) /\ Head(chan[t]) \in Terminal(t)
  /\ reading' = [reading EXCEPT ![t] = None]
  /\ busy' = (busy /\ reading[t] = "asked")
  /\ lost' = IF Head(chan[t]) = "error" THEN [lost EXCEPT ![t] = "error"] ELSE lost
  /\ UNCHANGED <<view, cards>>

\* clear_all_pending_confirmations
Cleared == [s \in Sessions |-> None]

\* The answer to an approval or a release: every card is taken for answered.
DashEnd(t) ==
  /\ reading[t] = "dash" /\ conn[t] = "none"
  /\ reading' = [reading EXCEPT ![t] = None]
  /\ busy' = FALSE
  /\ view' = {} /\ cards' = Cleared
  /\ lost' = [u \in Tasks |-> IF Card(u) THEN "wiped" ELSE lost[u]]
  /\ UNCHANGED <<pending, loop, waits, chan, conn, current, bounds>>

\* The read timeout, with nothing to read for two minutes.
TimeOut(t) ==
  /\ reading[t] # None /\ chan[t] = <<>> /\ conn[t] # "none"
  /\ \/ hung[t] # None /\ UNCHANGED leaves
     \/ hung[t] = None /\ leaves < MaxLeaves /\ leaves' = leaves + 1
  /\ reading' = [reading EXCEPT ![t] = None]
  /\ busy' = (busy /\ reading[t] = "dash")
  /\ lost' = [lost EXCEPT ![t] = "left"]
  /\ UNCHANGED <<pending, loop, waits, chan, conn, view, cards, current, sends>>

-----------------------------------------------------------------------------
(***************************************************************************)
(* The user.                                                               *)
(***************************************************************************)
\* A task of which nothing is left: its name stands for a new one.
Unused == {t \in Tasks : Idle(t) /\ pending[t] = None /\ ~Card(t)}

SendMessage(t) ==
  /\ t \in Unused /\ t = CHOOSE u \in Unused : TRUE
  /\ ~busy /\ sends < MaxSends
  /\ busy' = TRUE /\ sends' = sends + 1
  /\ \E plan \in Fresh : Opened(t, "chat", plan)
  /\ UNCHANGED <<view, cards, current, lost>>

\* resume_daemon_task: the row of the open session is cleared first.
Answer(t) ==
  /\ Idle(t) /\ t \in view /\ ~busy /\ sends < MaxSends
  /\ sends' = sends + 1
  /\ view' = view \ {t}
  /\ cards' = [cards EXCEPT ![current] = None]
  /\ UNCHANGED current
  /\ LET others == {u \in Tasks : u # t /\ cards[current] = u}
         Lost(why) == lost' = [u \in Tasks |-> CASE u = t -> why
                                                 [] u \in others -> "wiped"
                                                 [] OTHER -> lost[u]]
     IN  \/ /\ Lost("unsent") /\ UNCHANGED busy
            /\ UNCHANGED <<pending, loop, waits, stream, leaves>>
         \/ \E plan \in Resumed(pending[t]) :
              /\ busy' = TRUE
              /\ Opened(t, "resume", plan)
              /\ Lost(IF pending[t] = "grant" /\ plan \in Unsettled THEN "kept" ELSE None)

\* approve_hold and release_hold from the dashboard.
Dash(t) ==
  /\ Idle(t) /\ pending[t] = "pay" /\ sends < MaxSends
  /\ sends' = sends + 1
  /\ \E plan \in Approved \cup Denied : Opened(t, "dash", plan)
  /\ UNCHANGED <<gui, lost>>

Shown(s) == {cards[s]} \ {None}

OpenSession(s) ==
  /\ s # current /\ leaves < MaxLeaves
  /\ leaves' = leaves + 1
  /\ current' = s /\ view' = Shown(s)
  /\ UNCHANGED <<pending, loop, waits, stream, cards, busy, lost, sends>>

\* Another session of the same name may take its place.
DeleteSession(s) ==
  /\ leaves < MaxLeaves
  /\ leaves' = leaves + 1
  /\ cards' = [cards EXCEPT ![s] = None]
  /\ lost' = [u \in Tasks |-> IF u \in Shown(s) THEN "deleted" ELSE lost[u]]
  /\ IF s = current THEN \E c \in Sessions : current' = c /\ view' = Shown(c) \ Shown(s)
     ELSE UNCHANGED <<current, view>>
  /\ UNCHANGED <<pending, loop, waits, stream, busy, sends>>

-----------------------------------------------------------------------------
System(t) ==
  \/ TakeTurn(t) \/ OutOfTurns(t) \/ Step(t) \/ Settle(t)
  \/ Sink(t) \/ Close(t)
  \/ ReadAsk(t) \/ ReadOn(t) \/ ReadEnd(t) \/ DashEnd(t)

Next ==
  \/ \E t \in Tasks : System(t)
  \/ \E t \in Tasks : Hang(t) \/ TimeOut(t) \/ SendMessage(t) \/ Answer(t) \/ Dash(t)
  \/ \E s \in Sessions : OpenSession(s) \/ DeleteSession(s)

\* The schedulers of the daemon and the client, a model call, and what has not
\* hung make progress somewhere; a client that waits for what has hung comes to
\* its read timeout; users and other time-outs need not come.
Fairness ==
  /\ WF_vars(\E t \in Tasks : System(t))
  /\ \A t \in Tasks : WF_vars(hung[t] # None /\ TimeOut(t))

Spec == Init /\ [][Next]_vars /\ Fairness

-----------------------------------------------------------------------------
(***************************************************************************)
(* Once its connection is over, a task parked with a question has a card   *)
(* the user can answer, in the open view or in the row of a session,       *)
(* unless since it last had one: the client stopped reading at a time-out  *)
(* or at an "error" that did not end the turn, the session's one row went  *)
(* to a newer question or was cleared for another's answer, a dashboard    *)
(* approval cleared every card, the reply could not be sent or left a      *)
(* grant parked, or the session was deleted.                               *)
(***************************************************************************)
QuestionHasCard ==
  \A t \in Tasks : pending[t] # None /\ Idle(t) => Card(t) \/ lost[t] # None

(***************************************************************************)
(* A task with an open question runs skills only in the rest of the turn   *)
(* that asked it, when a batch later in that turn let it go on, or when a  *)
(* reply to a skill grant left the grant parked.                           *)
(***************************************************************************)
AskHoldsTurn ==
  [][\A t \in Tasks :
       script[t] # <<>> /\ Head(script[t])[1] = "run" /\ script'[t] # script[t]
         => pending[t] \in {None, "grant"} \/ t \in asked \cup reopened]_vars

(***************************************************************************)
(* Every connection ends, unless a skill that its loop runs never answers, *)
(* its client left and its loop waits for room in a channel that nothing   *)
(* drains any more, or the mirror node never answers a settlement watch,   *)
(* the last to hold a sender of a connection that can still be written.    *)
(***************************************************************************)
OnlyNamedWaitsHang ==
  \A t \in Tasks :
    conn[t] # "none" ~>
      \/ conn[t] = "none"
      \/ hung[t] = "skill" /\ InSkill(t)
      \/ hung[t] = "mirror" /\ ~Running(t) /\ conn[t] = "drain"
      \/ conn[t] = "broken" /\ Len(chan[t]) = Cap /\ Running(t)

(***************************************************************************)
(* The client never stays in "thinking", even where the daemon hangs: a    *)
(* question, the end of the turn, an error, a time-out or a closed socket  *)
(* gives the turn back.                                                    *)
(***************************************************************************)
TurnCloses == busy ~> ~busy
=============================================================================
