---------------------------- MODULE Conversation ----------------------------
(***************************************************************************)
(* The conversation of one task with its model: each turn of               *)
(* run_react_loop reads what is known of the model, sends the history,     *)
(* gathers the calls of a reply from the frames of one of three wire       *)
(* protocols, runs them in the order Turn gives, and adds to the history   *)
(* what the next request will tell the model.  A delegation runs a child   *)
(* loop of its own meanwhile.                                              *)
(*                                                                         *)
(* Texts, prompts, tool definitions and the events of a turn are left out; *)
(* so are the endpoints: all unreachable is one way for a call to fail.    *)
(***************************************************************************)
EXTENDS Turn

CONSTANTS
  Replies,        \* what a model may ask for in one reply
  MaxTurns,       \* MAX_REACT_STEPS
  MaxChildTurns,  \* SUBAGENT_MAX_STEPS
  MaxMingled      \* bound: calls of a reply whose frames mingle; the others follow

ASSUME ConversationAssumption ==
  /\ Replies \subseteq Seq(Items)
  /\ {MaxTurns, MaxChildTurns} \subseteq Nat \ {0} /\ MaxMingled \in Nat

VARIABLES
  protocol,   \* Protocol of the model's endpoint
  numbering,  \* how the provider numbers its calls
  resumed,    \* the loop was resumed by a payment that went through
  capability, \* the model's row of model_capabilities, or its static_capability
  forced,     \* force_fallback_this_turn
  mode,       \* the capability the turn goes by
  phase,      \* of the turn: its call, the wait, the stream, the actions, a child, done; stuck
  turns,      \* turns it took
  sent,       \* what the provider streams: a skill and a form for each call
  due,        \* the frames still due of each
  chunks,     \* the calls as gathered so far, by their key
  order,      \* the keys in order of appearance
  calls,      \* tool_calls
  reply,      \* parsed: the items of the reply
  at,         \* the position the loop has come to
  goesOn,     \* should_continue
  child,      \* the loop of a delegation: its turns, and whether it fell back
  history,    \* what the next request tells
  ran,        \* history: how often each action of the reply ran
  ended       \* history: how the loop ended

model == <<protocol, numbering, resumed>>
known == <<capability, forced, mode>>
frames == <<sent, due, chunks, order>>
stream == <<frames, calls>>
turn == <<reply, at, goesOn, child, ran>>
vars == <<model, known, phase, turns, stream, turn, history, ended>>

Protocols == {"chat", "responses", "messages"}
Capabilities == {"unverified", "native", "fallback"}
Skills == {"read", "once", "last", "payAuto"}   \* that run

NoId == <<>>
Nothing == <<>>

\* An entry: a call or its result, under an id, or a note; each of an action.
Call(id, of) == [is |-> "call", id |-> id, of |-> of]
Result(id, of) == [is |-> "result", id |-> id, of |-> of]
Note(of) == [is |-> "note", id |-> NoId, of |-> of]

\* Some 40 turns the client remembers, and the task, are notes.
Seed == <<Note(Nothing)>>

Init ==
  /\ protocol \in Protocols /\ numbering \in {"fresh", "repeated", "missing"}
  /\ resumed \in BOOLEAN
  /\ capability \in Capabilities
  /\ forced = FALSE /\ mode = capability
  /\ phase = "call" /\ turns = 0
  /\ sent = <<>> /\ due = <<>> /\ chunks = <<>> /\ order = <<>> /\ calls = <<>>
  /\ reply = <<>> /\ at = 1 /\ goesOn = TRUE
  /\ child = [turns |-> 0, fallback |-> FALSE] /\ ran = <<>>
  /\ history = Seed /\ ended = "no"

native == mode # "fallback"

\* The row is written, or cannot be.
Saved(c) == capability' \in {c, capability}

Ends(how) == phase' = "done" /\ ended' = how

\* The confirmed result stands in for an answer that does not come.
OrConfirmed(how) == IF resumed THEN "answer" ELSE how

MidTask == \E k \in DOMAIN history : history[k].is = "call"

Acts(p) ==
  /\ reply' = Surfaced(p, MidTask)
  /\ at' = 1 /\ goesOn' = TRUE
  /\ ran' = [i \in DOMAIN p |-> 0]
  /\ phase' = "act"
  /\ UNCHANGED <<child, ended>>

-----------------------------------------------------------------------------
(***************************************************************************)
(* The call of a turn.                                                     *)
(***************************************************************************)
Request ==
  /\ phase = "call" /\ phase' = "wait"
  /\ mode' = IF forced THEN "fallback" ELSE capability
  /\ forced' = FALSE
  /\ UNCHANGED <<model, capability, turns, stream, turn, history, ended>>

\* No endpoint answers, or the answer is an error.
CallFails ==
  /\ phase = "wait"
  /\ Ends(OrConfirmed("error"))
  /\ UNCHANGED <<model, known, turns, stream, turn, history>>

\* Tools are rejected by a model nothing is known of; the turn is tried again.
Rejected ==
  /\ phase = "wait" /\ mode = "unverified"
  /\ Saved("fallback")
  /\ phase' = "call"
  /\ UNCHANGED <<model, forced, mode, turns, stream, turn, history, ended>>

\* Text without calls.
PlainText ==
  /\ phase = "wait" /\ native
  /\ IF mode = "unverified"
       THEN /\ forced' = TRUE /\ phase' = "call"
            /\ UNCHANGED <<turn, ended>>
       ELSE /\ \E p \in {<<"ask">>, <<"final">>} : Acts(p)
            /\ UNCHANGED forced
  /\ UNCHANGED <<model, capability, mode, turns, stream, history>>

\* The objects in a text, of a model without calls.
Objects ==
  /\ phase = "wait" /\ ~native
  /\ \E p \in Replies : Acts(p)
  /\ UNCHANGED <<model, known, turns, stream, history>>

\* Neither text nor calls, or no object in the text.
NoReply ==
  /\ phase = "wait"
  /\ Ends(IF native THEN "silent" ELSE OrConfirmed("silent"))
  /\ UNCHANGED <<model, known, turns, stream, turn, history>>

-----------------------------------------------------------------------------
(***************************************************************************)
(* The stream.  A call comes in frames: its start with name and id, its    *)
(* arguments in pieces, and for the Responses protocol the whole at its    *)
(* end, where the frames before may be missing.  Frames of calls mingle.   *)
(***************************************************************************)
Forms ==
  IF protocol = "responses"
    THEN {<<"start", "head", "tail", "done">>, <<"head", "tail", "done">>, <<"done">>}
    ELSE {<<"start", "head", "tail">>}

Whole(i) == <<<<i, "head">>, <<i, "tail">>>>

\* A call is an action or a question.
Callable(p) == Range(p) \subseteq Actions \cup {"ask"}

Open ==
  /\ phase = "wait" /\ native
  /\ \E p \in {q \in Replies : Callable(q)}, form \in Forms :
       /\ sent' = [i \in DOMAIN p |-> [skill |-> p[i], form |-> form]]
       /\ due' = [i \in DOMAIN p |-> form]
  /\ phase' = "stream"
  /\ UNCHANGED <<model, known, turns, chunks, order, calls, turn, history, ended>>

\* The index of the call, or the id of its item.
ItemKey(i) == IF protocol = "responses" THEN <<"item", turns, i>> ELSE i

\* The id the provider gives a call; without one, Responses takes the item's.
GivenId(i) ==
  CASE numbering = "fresh" -> <<"call", turns, i>>
    [] numbering = "repeated" -> <<"call", 0, i>>
    [] OTHER -> IF protocol = "responses" THEN ItemKey(i) ELSE NoId

\* Mutant: the start frame is filed under the id of the call.
KeyByCall(i, part) ==
  IF protocol = "responses" /\ part = "start" THEN GivenId(i) ELSE ItemKey(i)

Key(i, part) == ItemKey(i)

Folded(chunk, i, part) ==
  CASE part = "start" -> [chunk EXCEPT !.id = GivenId(i), !.skill = sent[i].skill]
    [] part = "done" ->
         [id |-> IF chunk.id = NoId THEN GivenId(i) ELSE chunk.id,
          skill |-> sent[i].skill,
          args |-> IF chunk.args = <<>> THEN Whole(i) ELSE chunk.args]
    [] OTHER ->
         [chunk EXCEPT !.args = Append(@, <<i, part>>),
                       !.id = IF @ = NoId /\ protocol = "responses" THEN ItemKey(i) ELSE @]

Frame(i) ==
  LET part == Head(due[i])
      key == Key(i, part)
      chunk == IF key \in DOMAIN chunks THEN chunks[key]
               ELSE [id |-> NoId, skill |-> "", args |-> <<>>]
  IN  /\ due[i] # <<>> /\ (i > MaxMingled => \A j \in 1..(i - 1) : due[j] = <<>>)
      /\ due' = [due EXCEPT ![i] = Tail(@)]
      /\ chunks' = [k \in DOMAIN chunks \cup {key} |->
                      IF k = key THEN Folded(chunk, i, part) ELSE chunks[k]]
      /\ order' = IF Contains(order, key) THEN order ELSE Append(order, key)
      /\ UNCHANGED <<model, known, phase, turns, sent, calls, turn, history, ended>>

Gone == due' = <<>> /\ chunks' = <<>> /\ order' = <<>>

StreamBreaks ==
  /\ phase = "stream"
  /\ Ends(OrConfirmed("error"))
  /\ sent' = <<>> /\ Gone
  /\ UNCHANGED <<model, known, turns, calls, turn, history>>

\* The keys of a BTreeMap, as it gives them.
Ascending(S) ==
  [j \in 1..Cardinality(S) |-> CHOOSE k \in S : Cardinality({l \in S : l < k}) = j - 1]

\* finalize_tool_calls, in the order of the indexes or of appearance.
Gathered ==
  LET keys == IF protocol = "responses" THEN order ELSE Ascending(DOMAIN chunks)
  IN  [j \in DOMAIN keys |-> chunks[keys[j]]]

EndStream ==
  /\ phase = "stream" /\ \A i \in DOMAIN due : due[i] = <<>>
  /\ calls' = Gathered
  /\ Acts([j \in DOMAIN Gathered |-> Gathered[j].skill])
  /\ IF mode = "unverified" THEN Saved("native") ELSE UNCHANGED capability
  /\ Gone
  /\ UNCHANGED <<model, forced, mode, turns, sent, history>>

-----------------------------------------------------------------------------
(***************************************************************************)
(* The actions of a turn.                                                  *)
(***************************************************************************)
This(i) == <<turns, i>>

\* Mutant: the calls already recorded are not passed over.
MatchAny(skill) ==
  LET same == {j \in DOMAIN calls : calls[j].skill = skill}
  IN  IF same = {} THEN 0 ELSE First(same)

\* The call an action answers: the first of its name that is not recorded.
Match(skill) ==
  LET same == {j \in DOMAIN calls :
                 /\ calls[j].skill = skill
                 /\ \A k \in DOMAIN history :
                      history[k].is = "call" => history[k].id # calls[j].id}
  IN  IF same = {} THEN 0 ELSE First(same)

Recorded(j, i) == <<Call(calls[j].id, This(j)), Result(calls[j].id, This(i))>>

\* What a finished action adds.
Told(i) ==
  CASE ~native -> <<Note(Nothing), Note(This(i))>>
    [] native /\ Match(reply[i]) = 0 -> <<>>
    [] OTHER -> Recorded(Match(reply[i]), i)

\* What a batch adds, of which the actions of ok went well.
BatchTold(ok) ==
  LET told(i) == IF native /\ i \in ok THEN Recorded(i, i) ELSE <<Note(This(i))>>
  IN  (IF native THEN <<>> ELSE <<Note(Nothing)>>)
        \o FlattenSeq([i \in DOMAIN reply |-> IF i \in Batch(reply) THEN told(i) ELSE <<>>])
        \o (IF Deferred(reply) # {} THEN <<Note(Nothing)>> ELSE <<>>)

PaymentNote(i) ==
  IF Plan(reply) = "payment" /\ i = FirstPayment(reply) THEN <<Note(Nothing)>> ELSE <<>>

MovesOn == at' = at + 1 /\ UNCHANGED <<phase, ended>>
BreaksOff(how) == at' = Len(reply) + 1 /\ goesOn' = FALSE /\ ended' = how /\ UNCHANGED phase

Here(items) == phase = "act" /\ at \in DOMAIN reply /\ Left(reply, at) \in items
Alive == Here(Items) /\ Reached(reply, at) /\ ~AtBatch(reply, at)

PassOver ==
  /\ Here(Items) /\ ~Reached(reply, at)
  /\ MovesOn
  /\ UNCHANGED <<model, known, turns, stream, reply, goesOn, child, ran, history>>

\* Thought, Chat, Ask, Final.
Say ==
  /\ Alive /\ Here({"thought", "chat", "ask", "final"})
  /\ at' = at + 1
  /\ IF Here({"thought"}) THEN UNCHANGED <<goesOn, ended>>
     ELSE goesOn' = FALSE /\ ended' = "answer"
  /\ history' = IF Here({"ask"}) THEN Append(history, Note(Nothing)) ELSE history
  /\ UNCHANGED <<model, known, phase, turns, stream, reply, child, ran>>

RunBatch ==
  /\ Here(Items) /\ AtBatch(reply, at)
  /\ \E ok \in SUBSET Ready(reply) :
       /\ history' = history \o BatchTold(ok)
       /\ IF \E i \in ok : reply[i] = "last" THEN BreaksOff("answer")
          ELSE goesOn' = TRUE /\ MovesOn
  /\ ran' = [i \in DOMAIN ran |-> IF i \in Ready(reply) THEN ran[i] + 1 ELSE ran[i]]
  /\ UNCHANGED <<model, known, turns, stream, reply, child>>

RunOne ==
  /\ Alive /\ Here(Skills)
  /\ ran' = [ran EXCEPT ![at] = @ + 1]
  /\ \E ok \in BOOLEAN :
       IF ok /\ reply[at] = "last"
         THEN BreaksOff("answer") /\ history' = history \o PaymentNote(at)
         ELSE /\ MovesOn /\ UNCHANGED goesOn
              /\ history' = history \o PaymentNote(at) \o Told(at)
  /\ UNCHANGED <<model, known, turns, stream, reply, child>>

\* An action that is refused, or a payment that asks.
Stop ==
  /\ Alive /\ Here(Refused \cup {"pay"})
  /\ BreaksOff(IF Here({"pay"}) THEN "answer" ELSE "error")
  /\ history' = history \o PaymentNote(at)
                  \o (IF Here({"pay"}) THEN <<Note(Nothing)>> ELSE <<>>)
  /\ UNCHANGED <<model, known, turns, stream, reply, child, ran>>

BadDelegate ==
  /\ Alive /\ Here({"delegateBad"})
  /\ MovesOn
  /\ history' = Append(history, Note(Nothing))
  /\ UNCHANGED <<model, known, turns, stream, reply, goesOn, child, ran>>

Delegate ==
  /\ Alive /\ Here({"delegate"})
  /\ phase' = "child"
  /\ child' = [turns |-> 0, fallback |-> FALSE]
  /\ UNCHANGED <<model, known, turns, stream, reply, at, goesOn, ran, history, ended>>

\* The child reports, fails, or says nothing more; its report is a note.
ChildEnds ==
  /\ phase = "child" /\ phase' = "act"
  /\ at' = at + 1
  /\ ran' = [ran EXCEPT ![at] = @ + 1]
  /\ history' = Append(history, Note(This(at)))
  /\ UNCHANGED <<model, known, turns, stream, reply, goesOn, child, ended>>

\* It falls back once, and runs what is no payment for a few turns.
ChildTurn ==
  /\ phase = "child"
  /\ \/ ~child.fallback /\ child' = [child EXCEPT !.fallback = TRUE]
     \/ child.turns < MaxChildTurns - 1 /\ child' = [child EXCEPT !.turns = @ + 1]
  /\ UNCHANGED <<model, known, phase, turns, stream, reply, at, goesOn, ran, history, ended>>

\* Mutant: a turn that is told to end takes another.
EndTurnAlways ==
  /\ phase = "act" /\ at = Len(reply) + 1
  /\ phase' = "call" /\ ended' = "no"
  /\ sent' = <<>> /\ calls' = <<>> /\ reply' = <<>> /\ ran' = <<>> /\ at' = 1
  /\ UNCHANGED <<model, known, turns, due, chunks, order, goesOn, child, history>>

EndTurn ==
  /\ phase = "act" /\ at = Len(reply) + 1
  /\ turns' = turns + 1
  /\ sent' = <<>> /\ calls' = <<>> /\ reply' = <<>> /\ ran' = <<>> /\ at' = 1
  /\ IF ~goesOn THEN phase' = "done" /\ UNCHANGED ended
     ELSE IF turns + 1 < MaxTurns THEN phase' = "call" /\ ended' = "no"
     ELSE Ends(OrConfirmed("error"))
  /\ UNCHANGED <<model, known, due, chunks, order, goesOn, child, history>>

-----------------------------------------------------------------------------
\* The next step runs a skill, or tells the client something.
Engaged ==
  \/ phase \in {"wait", "stream", "child"}
  \/ phase = "act" /\ (at \in DOMAIN reply \/ ~goesOn \/ turns + 1 = MaxTurns)

\* What nothing limits: a skill, alone, in a batch or a child's, such as x402.pay
\* whose facilitator never answers; and a send to a client that left, once its
\* channel is full and no longer drained.
Hang ==
  /\ Engaged /\ phase' = "stuck"
  /\ UNCHANGED <<model, known, turns, stream, turn, history, ended>>

Step ==
  \/ Request \/ CallFails \/ Rejected \/ PlainText \/ Objects \/ NoReply
  \/ Open \/ (\E i \in DOMAIN due : phase = "stream" /\ Frame(i)) \/ StreamBreaks \/ EndStream
  \/ PassOver \/ Say \/ RunBatch \/ RunOne \/ Stop \/ BadDelegate
  \/ Delegate \/ ChildTurn \/ ChildEnds \/ EndTurn

Next == Step \/ Hang

\* The client of a model call gives up after two minutes, and what does not hang
\* goes on.
Spec == Init /\ [][Next]_vars /\ WF_vars(Step)

-----------------------------------------------------------------------------
(***************************************************************************)
(* What a request makes of the history.                                    *)
(***************************************************************************)
\* Of the entries of one kind under one id, all but the first are dropped.
Dropped(k) ==
  /\ history[k].id # NoId
  /\ \E j \in 1..(k - 1) : history[j].is = history[k].is /\ history[j].id = history[k].id

Hollow == [is |-> "hollow", id |-> NoId, of |-> Nothing]

\* map_history_to_responses_input, map_history_to_anthropic_messages.
Wire ==
  LET put(k) == CASE protocol = "chat" \/ ~Dropped(k) -> <<history[k]>>
                  [] protocol = "messages" /\ Dropped(k) /\ history[k].is = "call" -> <<Hollow>>
                  [] OTHER -> <<>>
  IN  FlattenSeq([k \in DOMAIN history |-> put(k)])

-----------------------------------------------------------------------------
(***************************************************************************)
(* However the frames of its calls mingle, and whichever are left out, a   *)
(* reply arrives as it was sent: each call once, with its name, all of its *)
(* arguments and its id, or its item's where the first frame is missing,   *)
(* in the order of the indexes.                                            *)
(***************************************************************************)
StreamFaithful ==
  phase = "act" /\ calls # <<>> =>
    /\ Len(calls) = Len(sent)
    /\ \A j \in DOMAIN calls :
         \E i \in DOMAIN sent :
           /\ calls[j].skill = sent[i].skill /\ calls[j].args = Whole(i)
           /\ calls[j].id = IF sent[i].form[1] = "head" THEN ItemKey(i) ELSE GivenId(i)
           /\ protocol # "responses" => i = j
    /\ \A j, k \in DOMAIN calls : calls[j].args = calls[k].args => j = k

\* A call of its name was put off for a payment and is passed over, or was in a
\* batch, which tells a failure in a note and comes to run once more: its id is
\* still there for a later result, or one more than the results is taken.
Displaced(i) ==
  \E j \in Run(reply) :
    /\ reply[j] = reply[i]
    /\ \/ Plan(reply) = "payment" /\ j \in Deferred(reply)
       \/ Plan(reply) = "parallel" /\ j \in Batch(reply)

\* Calls and results come in pairs under one id, and a result is that of its
\* call, but for an action that is displaced.
PairsMatch ==
  LET wire == Wire
      Is(k, what) == k \in DOMAIN wire /\ wire[k].is = what
  IN  \A k \in DOMAIN wire :
        /\ Is(k, "call") => Is(k + 1, "result") /\ wire[k + 1].id = wire[k].id
        /\ Is(k, "result") =>
             /\ Is(k - 1, "call") /\ wire[k - 1].id = wire[k].id
             /\ wire[k].of[1] = turns =>
                  \/ wire[k].of = wire[k - 1].of
                  \/ \E i \in DOMAIN reply : wire[k].of = This(i) /\ Displaced(i)
                  \/ numbering = "repeated"
        /\ Is(k, "hollow") => numbering = "repeated"

EveryRunIsTold ==
  \A i \in DOMAIN ran :
    ran[i] > 0 =>
      \/ \E k \in DOMAIN history : history[k].is # "call" /\ history[k].of = This(i)
      \/ reply[i] = "last" /\ ended = "answer"
      \/ Plan(reply) = "parallel" /\ Displaced(i)
      \/ numbering # "fresh"

(***************************************************************************)
(* A turn leaves a history whose requests the provider accepts and the     *)
(* model can trust: calls and results come in pairs under one id, a result *)
(* is that of its call, and every action that ran is told.  Exceptions are *)
(* actions of a name that a payment put off or that was in a batch, whose  *)
(* results go to the first call of their name that has none, and after a   *)
(* batch may find none left; an action that ended the loop; and a provider *)
(* that gives its calls no ids, or numbers those of each reply anew.       *)
(***************************************************************************)
RequestsTellTheTruth ==
  phase = "act" /\ at > Len(reply) => PairsMatch /\ EveryRunIsTold

(***************************************************************************)
(* An action of a reply runs at most once, and one that was put off until  *)
(* the model asks for it again does not run: except in a turn with a       *)
(* batch, where all but the first action come to run once more.            *)
(***************************************************************************)
ActionsRunOnce ==
  \A i \in DOMAIN ran :
    /\ ran[i] > 1 => ran[i] = 2 /\ i \in Batch(reply) \ {First(Run(reply))}
    /\ ran[i] > 0 /\ i \in Deferred(reply) => Plan(reply) = "parallel"

(***************************************************************************)
(* Every loop ends, unless a skill it runs never answers, a send waits for *)
(* ever for a client that left, or the model rejects tools and that cannot *)
(* be saved; and it ends with an answer, a question or an error, unless    *)
(* the model said nothing, where only a confirmed payment of a model       *)
(* without calls is still reported.                                        *)
(***************************************************************************)
AnswersInTheEnd ==
  \/ phase = "call" ~>
       \/ phase = "stuck"
       \/ phase = "done" /\ ended # "no" /\ (ended = "silent" => native \/ ~resumed)
  \/ []<><<Rejected /\ UNCHANGED capability>>_vars
=============================================================================
