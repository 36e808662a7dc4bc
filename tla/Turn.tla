-------------------------------- MODULE Turn --------------------------------
(***************************************************************************)
(* One turn of run_react_loop: what a model's reply asks for, in the order *)
(* it asks, becomes a script of events to send, skills to run and          *)
(* questions to park.  Of two or more actions in a row, either a batch     *)
(* runs at once and the rest is deferred, or the first payment runs and    *)
(* the rest is deferred, or all stay sequential.  After a batch the loop   *)
(* comes to its other actions, and to those it deferred, once more.        *)
(*                                                                         *)
(* How a skill, a policy or an answer turns out is part of the item.       *)
(***************************************************************************)
EXTENDS Integers, Sequences, SequencesExt

CONSTANT MaxParallel  \* MAX_PARALLEL_ACTIONS

ASSUME TurnAssumption == MaxParallel \in Nat \ {0}

\* A skill; one with a single step left; a terminal one; one at its max_steps.
Plain == {"read", "once", "last", "spent"}
Delegations == {"delegate", "delegateBad"}       \* done; empty, or over its limit
Refused == {"blocked", "invalid", "capped", "spent"}  \* by air-gap, form, policy, limit
Payments == {"pay", "payAuto", "invalid", "capped"}  \* skill_requires_confirmation
Actions == Plain \cup Delegations \cup Refused \cup Payments
Items == Actions \cup {"thought", "chat", "ask", "final"}

\* A lone question before any tool ran, or to small talk, is an answer.
Surfaced(p, midTask) == IF p = <<"ask">> /\ ~midTask THEN <<"final">> ELSE p

-----------------------------------------------------------------------------
(***************************************************************************)
(* plan_action_batch                                                       *)
(***************************************************************************)
Positions(p) == {i \in DOMAIN p : p[i] \in Actions}
First(S) == CHOOSE i \in S : \A j \in S : i <= j

\* The first run of consecutive actions.
Run(p) == {i \in Positions(p) : \A j \in First(Positions(p))..i : p[j] \in Actions}

\* The batch, and the position of the only payment that runs.
Batch(p) == {i \in Run(p) : i < First(Run(p)) + MaxParallel}
Kinds(p) == {p[i] : i \in Run(p)}
FirstPayment(p) == First({i \in Run(p) : p[i] \in Payments})

Plan(p) ==
  LET joins == Cardinality(Run(p)) >= 2 /\ Kinds(p) \cap (Delegations \cup {"blocked"}) = {}
  IN  CASE ~joins -> "sequential"
        [] joins /\ Kinds(p) \cap Payments # {} -> "payment"
        [] OTHER -> "parallel"

Deferred(p) ==
  CASE Plan(p) = "payment" -> Run(p) \ {FirstPayment(p)}
    [] Plan(p) = "parallel" -> Run(p) \ Batch(p)
    [] OTHER -> {}

-----------------------------------------------------------------------------
(***************************************************************************)
(* The script of a turn.  A step is an event sent to the connection, a     *)
(* skill run, or a question parked.                                        *)
(***************************************************************************)
Send(e) == <<"send", e>>
Do(i) == <<"run", i>>
Park(q) == <<"park", q>>

Carried(i) == <<Send("action"), Do(i), Send("observation")>>

\* What an item makes the loop do.
Alone(i) ==
  CASE i \in {"thought", "chat", "final"} -> <<Send(i)>>
    [] i = "ask" -> <<Send("ask"), Park("ask")>>
    [] i = "pay" -> <<Send("ask"), Park("pay")>>
    [] i \in Refused \cup {"delegateBad"} -> <<Send("error")>>
    [] i = "last" -> Carried(i) \o <<Send("final")>>
    [] OTHER -> Carried(i)

\* The actions of the batch that may take a step.
Ready(p) == {i \in Batch(p) : p[i] # "spent"}

\* A step for each position of S.
Each(S, steps) == FlattenSeq([i \in DOMAIN steps |-> IF i \in S THEN <<steps[i]>> ELSE <<>>])

\* execute_parallel_batch: events in the order of the actions; an action at
\* its limit is only observed.
Together(p) ==
  Each(Ready(p), [i \in DOMAIN p |-> Send("action")])
    \o Each(Ready(p), [i \in DOMAIN p |-> Do(p[i])])
    \o Each(Batch(p), [i \in DOMAIN p |-> Send("observation")])
    \o (IF Deferred(p) # {} THEN <<Send("observation")>> ELSE <<>>)
    \o (IF \E i \in Batch(p) : p[i] = "last" THEN <<Send("final")>> ELSE <<>>)

\* Mutant: what a payment puts off is not passed over.
ReachedAll(p, i) == TRUE

\* The positions the loop does not pass over: parallel_at is taken at the first
\* action of the batch, and hides none of the later ones any more.
Reached(p, i) == Plan(p) = "payment" => i \notin Deferred(p)

\* What has become of the item: the batch may have used its last step.
Left(p, i) ==
  IF Plan(p) = "parallel" /\ i \in Batch(p) /\ p[i] = "once" THEN "spent" ELSE p[i]

AtBatch(p, i) == Plan(p) = "parallel" /\ i = First(Run(p))

\* The items that break out of the turn.
Breaks(p, i) ==
  IF AtBatch(p, i) THEN \E j \in Batch(p) : p[j] = "last"
  ELSE Left(p, i) \in Refused \cup {"pay", "last"}

Part(p, i) ==
  CASE AtBatch(p, i) -> Together(p)
    [] Plan(p) = "payment" /\ i = FirstPayment(p) -> <<Send("observation")>> \o Alone(p[i])
    [] OTHER -> Alone(Left(p, i))

Visited(p) ==
  {i \in DOMAIN p : Reached(p, i) /\ \A j \in 1..(i - 1) : Reached(p, j) => ~Breaks(p, j)}

Script(p) == FlattenSeq([i \in DOMAIN p |-> IF i \in Visited(p) THEN Part(p, i) ELSE <<>>])

\* Another turn follows: the last item that decides it is no answer or question,
\* where a batch that ends well decides it anew.
GoesOn(p) ==
  \A i \in Visited(p) :
    /\ ~Breaks(p, i)
    /\ p[i] \in {"chat", "final", "ask"} =>
         \E j \in Visited(p) : j > i /\ AtBatch(p, j)
=============================================================================
