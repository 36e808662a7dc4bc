------------------------------ MODULE AuditChain ------------------------------
(***************************************************************************)
(* The audit log of tasks.  A connection's handler drains the events of    *)
(* its loop; for a result it reads step index, last hash and time, signs   *)
(* the hash they give, and calls log_task_step, which reads all three once *)
(* more and inserts the row.  When the loop is over the handler seals the  *)
(* task, unless it awaits an answer, and anchors the seal.                 *)
(*                                                                         *)
(* SHA-256 does not collide, and no result is logged twice: the result of  *)
(* a row stands for its chain_hash, and what is signed for what was hashed.*)
(***************************************************************************)
EXTENDS Integers, Sequences, FiniteSets

CONSTANTS
  Tasks,
  Conns,       \* TCP connections, each used once: handler and loop
  Orderly,     \* tasks whose clients read one connection to its end before the next
  BatchSizes,  \* how many actions a turn emits together
  MaxStarted,  \* bound: tasks that are started
  MaxCalls,    \* bound: skill invocations of one loop
  MaxClock,    \* bound: seconds that pass
  MaxFaults,   \* bound: signatures that fail
  MaxCrashes,  \* bound: daemon crashes
  NoTask, NoCall, NoRow, NoSeal, NoAnchor, Genesis

\* The n-th invocation of a connection's loop; its action, and its result.
Calls == Conns \X (1..MaxCalls)
Hashes == Calls \cup {Genesis}

\* What compute_chain_hash mixes with skill, input and result.
Stamps == [step : Nat, prev : Hashes, time : 0..MaxClock]
Rows == [skill : Calls, result : Calls, stamp : Stamps, signed : Stamps]
Seals == [final : Hashes, count : Nat]
Anchors == [task : Tasks, final : Hashes, count : Nat]
Events == [type : {"action", "result"}, call : Calls]

ASSUME AuditAssumption ==
  /\ Orderly \subseteq Tasks
  /\ BatchSizes \subseteq Nat \ {0}
  /\ MaxStarted \in Nat
  /\ MaxCalls \in Nat /\ MaxClock \in Nat /\ MaxFaults \in Nat /\ MaxCrashes \in Nat
  /\ NoTask \notin Tasks /\ NoCall \notin Calls /\ Genesis \notin Calls
  /\ NoRow \notin Rows /\ NoSeal \notin Seals /\ NoAnchor \notin Anchors

VARIABLES
  status,      \* tasks.status
  audit,       \* audit_log, by task and in the order of insertion
  seal,        \* tasks.final_hash and tasks.step_count
  anchors,     \* what each connection published on the HCS topic
  clock,       \* now_iso8601, in seconds
  loop,        \* each connection's loop: where it is, the invocations it began,
               \* and how many of them have no result yet
  queue,       \* the events it sent that its handler is to drain
  pc,          \* what each connection's handler does next
  task,        \* the task it works on
  last,        \* last_action
  entry,       \* the row it is to insert: signed is what get_next_step_info gave it,
               \* and stamp what log_task_step has read
  final,       \* the last hash it read, to seal or to anchor
  faults, crashes

tables == <<status, audit, seal>>
bounds == <<clock, faults, crashes>>
sending == <<loop, queue>>
locals == <<task, last, entry, final>>
vars == <<tables, anchors, bounds, sending, pc, locals>>

Blank == [step |-> 0, prev |-> Genesis, time |-> 0]

NoLoop == [at |-> "off", calls |-> 0, running |-> 0]

LoopRecords ==
  [at : {"off", "resume", "turn", "run", "over"}, calls : 0..MaxCalls, running : 0..MaxCalls]

Loops == {l \in LoopRecords : l.running <= l.calls}

LoggingPCs == {"peek", "sign", "log", "link", "insert"}
LivePCs == LoggingPCs \cup {"drain", "wait", "seal", "write", "anchor", "publish"}

\* The tables hold whole rows and seals; a live handler has a task, and one that logs a row.
AuditTypeOK ==
  /\ status \in [Tasks -> {"none", "running", "awaiting_confirmation", "done"}]
  /\ audit \in [Tasks -> Seq(Rows)]
  /\ seal \in [Tasks -> Seals \cup {NoSeal}]
  /\ anchors \in [Conns -> Anchors \cup {NoAnchor}]
  /\ clock \in 0..MaxClock
  /\ loop \in [Conns -> Loops]
  /\ queue \in [Conns -> Seq(Events)]
  /\ pc \in [Conns -> LivePCs \cup {"idle", "closed"}]
  /\ task \in [Conns -> Tasks \cup {NoTask}]
  /\ last \in [Conns -> Calls \cup {NoCall}]
  /\ entry \in [Conns -> Rows \cup {NoRow}]
  /\ final \in [Conns -> Hashes]
  /\ faults \in 0..MaxFaults /\ crashes \in 0..MaxCrashes
  /\ \A c \in Conns :
       /\ pc[c] \in LivePCs => task[c] \in Tasks
       /\ pc[c] \in LoggingPCs => entry[c] \in Rows

Init ==
  /\ status = [t \in Tasks |-> "none"]
  /\ audit = [t \in Tasks |-> <<>>]
  /\ seal = [t \in Tasks |-> NoSeal]
  /\ anchors = [c \in Conns |-> NoAnchor]
  /\ clock = 0
  /\ loop = [c \in Conns |-> NoLoop]
  /\ queue = [c \in Conns |-> <<>>]
  /\ pc = [c \in Conns |-> "idle"]
  /\ task = [c \in Conns |-> NoTask]
  /\ last = [c \in Conns |-> NoCall]
  /\ entry = [c \in Conns |-> NoRow]
  /\ final = [c \in Conns |-> Genesis]
  /\ faults = 0 /\ crashes = 0

-----------------------------------------------------------------------------
Live(c) == pc[c] \in LivePCs
Unshared(t) == \A d \in Conns : Live(d) => task[d] # t

Goto(c, place) == pc' = [pc EXCEPT ![c] = place]
LoopAt(c, place) == loop' = [loop EXCEPT ![c].at = place]

\* The handlers and loops of a set of connections end, and their variables with them.
Close(S) ==
  /\ pc' = [c \in Conns |-> IF c \in S THEN "closed" ELSE pc[c]]
  /\ task' = [c \in Conns |-> IF c \in S THEN NoTask ELSE task[c]]
  /\ last' = [c \in Conns |-> IF c \in S THEN NoCall ELSE last[c]]
  /\ entry' = [c \in Conns |-> IF c \in S THEN NoRow ELSE entry[c]]
  /\ final' = [c \in Conns |-> IF c \in S THEN Genesis ELSE final[c]]
  /\ loop' = [c \in Conns |-> IF c \in S THEN NoLoop ELSE loop[c]]
  /\ queue' = [c \in Conns |-> IF c \in S THEN <<>> ELSE queue[c]]

\* next_step_index
NextStep(t) == Len(audit[t]) + 1

\* get_last_step_hash: of the greatest step; which of several rows, SQL leaves open
LastHashes(t) ==
  IF audit[t] = <<>> THEN {Genesis}
  ELSE {audit[t][i].result : i \in {i \in DOMAIN audit[t] :
          \A j \in DOMAIN audit[t] : audit[t][j].stamp.step <= audit[t][i].stamp.step}}

-----------------------------------------------------------------------------
(***************************************************************************)
(* The loop, as far as its events and the task's status go.                *)
(***************************************************************************)
Enter(c, t, place) ==
  /\ Goto(c, "drain")
  /\ task' = [task EXCEPT ![c] = t]
  /\ LoopAt(c, place)
  /\ UNCHANGED <<queue, last, entry, final>>

Start(c, t) ==
  /\ pc[c] = "idle" /\ status[t] = "none"
  /\ Cardinality({u \in Tasks : status[u] # "none"}) < MaxStarted
  /\ status' = [status EXCEPT ![t] = "running"]
  /\ Enter(c, t, "turn")
  /\ UNCHANGED <<audit, seal, anchors, bounds>>

\* A chat answer, or the dashboard's approve_hold or release_hold.
Resume(c, t) ==
  /\ pc[c] = "idle" /\ status[t] = "awaiting_confirmation"
  /\ t \in Orderly => Unshared(t)
  /\ Enter(c, t, "resume")
  /\ UNCHANGED <<tables, anchors, bounds>>

\* clear_pending_action
ClearPending(c) ==
  /\ loop[c].at = "resume"
  /\ status' = [status EXCEPT ![task[c]] = "running"]
  /\ LoopAt(c, "turn")
  /\ UNCHANGED <<audit, seal, anchors, bounds, queue, pc, locals>>

\* Invocations, by their numbers, as events; nobody drains them when the handler waits.
Send(c, type, numbers) ==
  queue' = IF pc[c] = "wait" THEN queue
           ELSE [queue EXCEPT ![c] =
                  @ \o [i \in DOMAIN numbers |-> [type |-> type, call |-> <<c, numbers[i]>>]]]

\* Of a batch, which are ready, in their order: a skill at its max_steps is skipped.
Ready(n) ==
  IF n = 1 THEN {[i \in 1..1 |-> 1]}
  ELSE {ready \in UNION {[1..m -> 1..n] : m \in 0..n} :
          \A i, j \in DOMAIN ready : i < j => ready[i] < ready[j]}

\* A turn's actions are announced together, one or a parallel batch.
Act(c) ==
  /\ loop[c].at = "turn"
  /\ \E n \in BatchSizes :
       /\ loop[c].calls + n <= MaxCalls
       /\ loop' = [loop EXCEPT ![c] = [at |-> "run", calls |-> @.calls + n, running |-> n]]
       /\ \E ready \in Ready(n) :
            Send(c, "action", [i \in DOMAIN ready |-> loop[c].calls + ready[i]])
  /\ UNCHANGED <<tables, anchors, bounds, pc, locals>>

\* The results, also of those skipped, follow when all are there, in the order of the actions.
Observe(c) ==
  /\ loop[c].at = "run"
  /\ Send(c, "result", [i \in 1..loop[c].running |-> loop[c].calls - loop[c].running + i])
  /\ loop' = [loop EXCEPT ![c] = [at |-> "turn", calls |-> @.calls, running |-> 0]]
  /\ UNCHANGED <<tables, anchors, bounds, pc, locals>>

\* save_awaiting_confirmation: a payment ends the turn, a question does not
Park(c) ==
  /\ loop[c].at \in {"resume", "turn"}
  /\ status' = [status EXCEPT ![task[c]] = "awaiting_confirmation"]
  /\ LoopAt(c, "over") \/ (loop[c].at = "turn" /\ UNCHANGED loop)
  /\ UNCHANGED <<audit, seal, anchors, bounds, queue, pc, locals>>

\* Done, an error, or a panic.
LoopEnds(c) ==
  /\ loop[c].at \in {"resume", "turn", "run"}
  /\ LoopAt(c, "over")
  /\ UNCHANGED <<tables, anchors, bounds, queue, pc, locals>>

-----------------------------------------------------------------------------
(***************************************************************************)
(* The handler drains the events.                                          *)
(***************************************************************************)
Receives(c, type) == pc[c] = "drain" /\ queue[c] # <<>> /\ Head(queue[c]).type = type

Drained(c) == queue' = [queue EXCEPT ![c] = Tail(@)]

DrainAction(c) ==
  /\ Receives(c, "action")
  /\ last' = [last EXCEPT ![c] = Head(queue[c]).call]
  /\ Drained(c)
  /\ UNCHANGED <<tables, anchors, bounds, loop, pc, task, entry, final>>

\* get_next_step_info begins: next_step_index
Log(c) ==
  /\ Goto(c, "peek")
  /\ entry' = [entry EXCEPT ![c] =
       [skill |-> last[c], result |-> Head(queue[c]).call,
        signed |-> [step |-> NextStep(task[c]), prev |-> Genesis, time |-> 0], stamp |-> Blank]]

\* Mutant: last_action stays when a result has used it.
DrainResultAgain(c) ==
  /\ Receives(c, "result")
  /\ IF last[c] = NoCall THEN UNCHANGED <<pc, entry>> ELSE Log(c)
  /\ Drained(c)
  /\ UNCHANGED <<tables, anchors, bounds, loop, task, last, final>>

\* Mutant: a result is logged with or without an action.
DrainResultAlways(c) ==
  /\ Receives(c, "result")
  /\ Log(c) /\ last' = [last EXCEPT ![c] = NoCall]
  /\ Drained(c)
  /\ UNCHANGED <<tables, anchors, bounds, loop, task, final>>

\* A result takes last_action; without one it is only passed on to the client.
DrainResult(c) ==
  /\ Receives(c, "result")
  /\ IF last[c] = NoCall THEN UNCHANGED <<pc, last, entry>>
     ELSE Log(c) /\ last' = [last EXCEPT ![c] = NoCall]
  /\ Drained(c)
  /\ UNCHANGED <<tables, anchors, bounds, loop, task, final>>

\* get_last_step_hash and the time, and the handler signs
Peek(c) ==
  /\ pc[c] = "peek"
  /\ \E h \in LastHashes(task[c]) :
       entry' = [entry EXCEPT ![c].signed = [step |-> @.step, prev |-> h, time |-> clock]]
  /\ Goto(c, "sign")
  /\ UNCHANGED <<tables, anchors, bounds, sending, task, last, final>>

\* The vault has answered; when it fails the result is not logged.
Sign(c) ==
  /\ pc[c] = "sign"
  /\ \/ Goto(c, "log") /\ UNCHANGED <<entry, faults>>
     \/ /\ faults < MaxFaults /\ faults' = faults + 1
        /\ Goto(c, "drain") /\ entry' = [entry EXCEPT ![c] = NoRow]
  /\ UNCHANGED <<tables, anchors, clock, crashes, sending, task, last, final>>

\* log_task_step: the time and next_step_index, then get_last_step_hash, then the row
LogStep(c) ==
  /\ pc[c] = "log"
  /\ entry' = [entry EXCEPT ![c].stamp =
                 [step |-> NextStep(task[c]), prev |-> Genesis, time |-> clock]]
  /\ Goto(c, "link")
  /\ UNCHANGED <<tables, anchors, bounds, sending, task, last, final>>

LinkTo(c, h) == entry' = [entry EXCEPT ![c].stamp.prev = h]

\* Mutant: the row before the last is named.
LinkEarlier(c) ==
  /\ pc[c] = "link"
  /\ LET n == Len(audit[task[c]])
     IN  LinkTo(c, IF n < 2 THEN Genesis ELSE audit[task[c]][n - 1].result)
  /\ Goto(c, "insert")
  /\ UNCHANGED <<tables, anchors, bounds, sending, task, last, final>>

\* Mutant: the row names itself.
LinkItself(c) ==
  /\ pc[c] = "link"
  /\ LinkTo(c, entry[c].result)
  /\ Goto(c, "insert")
  /\ UNCHANGED <<tables, anchors, bounds, sending, task, last, final>>

LinkStep(c) ==
  /\ pc[c] = "link"
  /\ \E h \in LastHashes(task[c]) : LinkTo(c, h)
  /\ Goto(c, "insert")
  /\ UNCHANGED <<tables, anchors, bounds, sending, task, last, final>>

InsertStep(c) ==
  /\ pc[c] = "insert"
  /\ audit' = [audit EXCEPT ![task[c]] = Append(@, entry[c])]
  /\ entry' = [entry EXCEPT ![c] = NoRow]
  /\ Goto(c, "drain")
  /\ UNCHANGED <<status, seal, anchors, bounds, sending, task, last, final>>

\* A write to the client fails: the handler drains no more, and awaits the loop.
ClientLeaves(c) ==
  /\ pc[c] = "drain"
  /\ Goto(c, "wait")
  /\ queue' = [queue EXCEPT ![c] = <<>>]
  /\ UNCHANGED <<tables, anchors, bounds, loop, locals>>

-----------------------------------------------------------------------------
(***************************************************************************)
(* The loop is over: seal_task, and anchor_task_seal after it.             *)
(***************************************************************************)
Finished(c) ==
  /\ loop[c].at = "over"
  /\ pc[c] = "wait" \/ (pc[c] = "drain" /\ queue[c] = <<>>)

EndTask(c) ==
  /\ Finished(c)
  /\ IF status[task[c]] = "awaiting_confirmation" THEN Close({c})
     ELSE Goto(c, "seal") /\ UNCHANGED <<sending, locals>>
  /\ UNCHANGED <<tables, anchors, bounds>>

SealHash(c) ==
  /\ pc[c] = "seal"
  /\ \E h \in LastHashes(task[c]) : final' = [final EXCEPT ![c] = h]
  /\ Goto(c, "write")
  /\ UNCHANGED <<tables, anchors, bounds, sending, task, last, entry>>

WriteSeal(c, n) ==
  /\ status' = [status EXCEPT ![task[c]] = "done"]
  /\ seal' = [seal EXCEPT ![task[c]] = [final |-> final[c], count |-> n]]
  /\ Goto(c, "anchor")
  /\ UNCHANGED <<sending, locals>>

\* Mutant: step_count is the index of the next step.
SealNextStep(c) ==
  /\ pc[c] = "write"
  /\ IF status[task[c]] = "awaiting_confirmation" THEN Close({c}) /\ UNCHANGED <<status, seal>>
     ELSE WriteSeal(c, NextStep(task[c]))
  /\ UNCHANGED <<audit, anchors, bounds>>

\* Mutant: the UPDATE has no condition on the status.
SealAnyway(c) ==
  /\ pc[c] = "write"
  /\ WriteSeal(c, Len(audit[task[c]]))
  /\ UNCHANGED <<audit, anchors, bounds>>

SealRow(c) ==
  /\ pc[c] = "write"
  /\ IF status[task[c]] = "awaiting_confirmation" THEN Close({c}) /\ UNCHANGED <<status, seal>>
     ELSE WriteSeal(c, Len(audit[task[c]]))
  /\ UNCHANGED <<audit, anchors, bounds>>

\* publish_task_anchor, unless DLT is off or there is no topic
AnchorHash(c) ==
  /\ pc[c] = "anchor"
  /\ \/ Close({c})
     \/ /\ \E h \in LastHashes(task[c]) : final' = [final EXCEPT ![c] = h]
        /\ Goto(c, "publish")
        /\ UNCHANGED <<sending, task, last, entry>>
  /\ UNCHANGED <<tables, anchors, bounds>>

\* Mutant: the number of invocations is published, not the number of rows.
PublishCalls(c) ==
  /\ pc[c] = "publish"
  /\ anchors' = [anchors EXCEPT ![c] =
       [task |-> task[c], final |-> final[c], count |-> loop[c].calls]]
  /\ Close({c})
  /\ UNCHANGED <<tables, bounds>>

\* The message is sent, or lost: "an HCS failure NEVER fails the seal".
Publish(c) ==
  /\ pc[c] = "publish"
  /\ \/ UNCHANGED anchors
     \/ anchors' = [anchors EXCEPT ![c] =
          [task |-> task[c], final |-> final[c], count |-> Len(audit[task[c]])]]
  /\ Close({c})
  /\ UNCHANGED <<tables, bounds>>

-----------------------------------------------------------------------------
\* A second matters between the time that is signed and the time that is inserted, and
\* to a chain that is in order but for that.
Tick ==
  /\ \E c \in Conns : task[c] \in Orderly /\ pc[c] \in {"sign", "log"}
  /\ clock < MaxClock /\ clock' = clock + 1
  /\ UNCHANGED <<tables, anchors, faults, crashes, sending, pc, locals>>

Crash ==
  /\ crashes < MaxCrashes /\ crashes' = crashes + 1
  /\ Close({c \in Conns : Live(c)})
  /\ UNCHANGED <<tables, anchors, clock, faults>>

Loop(c) == ClearPending(c) \/ Act(c) \/ Observe(c) \/ Park(c) \/ LoopEnds(c)

Handler(c) ==
  \/ DrainAction(c) \/ DrainResult(c) \/ Peek(c) \/ Sign(c)
  \/ LogStep(c) \/ LinkStep(c) \/ InsertStep(c) \/ ClientLeaves(c)
  \/ EndTask(c) \/ SealHash(c) \/ SealRow(c) \/ AnchorHash(c) \/ Publish(c)

Next ==
  \/ \E c \in Conns :
       Loop(c) \/ Handler(c) \/ \E t \in Tasks : Start(c, t) \/ Resume(c, t)
  \/ Tick \/ Crash

Spec == Init /\ [][Next]_vars
-----------------------------------------------------------------------------
(***************************************************************************)
(* verify_task_chain: the rows in the order of their steps, and of their   *)
(* insertion where steps are equal, each naming the one before it and      *)
(* signed for what it stores.                                              *)
(***************************************************************************)
Before(t, i, j) ==
  LET a == audit[t][i].stamp.step  b == audit[t][j].stamp.step
  IN  a < b \/ (a = b /\ i < j)

Expected(t, i) ==
  LET earlier == {j \in DOMAIN audit[t] : Before(t, j, i)}
  IN  IF earlier = {} THEN Genesis
      ELSE audit[t][CHOOSE j \in earlier : \A k \in earlier : k = j \/ Before(t, k, j)].result

VerifyTaskChain(t) ==
  \A i \in DOMAIN audit[t] :
    audit[t][i].stamp.prev = Expected(t, i) /\ audit[t][i].signed = audit[t][i].stamp

\* No two connections on a task, each read to its end: then verify_task_chain accepts
\* the task exactly when no second passed between a signature and its row, although a
\* park may overtake the rows of the results before it.
OrderlyVerifies ==
  \A t \in Orderly :
    VerifyTaskChain(t) <=>
      \A i \in DOMAIN audit[t] : audit[t][i].signed.time = audit[t][i].stamp.time

\* seal_task reads the last hash and counts the rows in two steps, and the anchor does
\* so again: all of them speak of the whole log, and nothing is logged after them.
SealCoversLog ==
  \A t \in Orderly :
    LET whole == [final |-> IF audit[t] = <<>> THEN Genesis ELSE audit[t][Len(audit[t])].result,
                  count |-> Len(audit[t])]
    IN  /\ status[t] = "done" => seal[t] = whole
        /\ \A c \in Conns :
             anchors[c] # NoAnchor /\ anchors[c].task = t =>
               anchors[c] = [task |-> t, final |-> whole.final, count |-> whole.count]

\* Whatever overlaps, a row's prev_hash is the genesis or the hash of a row inserted
\* before it in the same task, and so the rows of a task form a tree.
RowsDescend ==
  \A t \in Tasks : \A i \in DOMAIN audit[t] :
    \/ audit[t][i].stamp.prev = Genesis
    \/ \E j \in 1..(i - 1) : audit[t][i].stamp.prev = audit[t][j].result

\* Of a connection's actions, each is logged at most once, and of its results.
LoggedOnce ==
  \A s, t \in Tasks : \A i \in DOMAIN audit[s], j \in DOMAIN audit[t] :
    \/ s = t /\ i = j
    \/ audit[s][i].skill # audit[t][j].skill /\ audit[s][i].result # audit[t][j].result

\* A task that awaits an answer is not sealed under it, not even by the handler of an
\* earlier connection that found it running and has read the last hash since.
ParkedStaysOpen ==
  [][\A t \in Tasks : status[t] = "awaiting_confirmation" =>
       status'[t] # "done" /\ seal'[t] = seal[t]]_vars

Promised == INSTANCE TaskLog WITH
  LogTasks <- Orderly,
  Results <- Calls,
  log <- [t \in Orderly |-> [i \in DOMAIN audit[t] |-> audit[t][i].result]],
  sealed <- [t \in Orderly |-> seal[t]]

\* A task's rows and its seal implement an append-only log that is closed once.
ImplementsLog == Promised!LogSpec

\* "One row per skill invocation", with the hashes of "skill args" and "skill output": a row
\* is of an action and of the result of that action.
RowsMatchCalls ==
  \A t \in Tasks : \A i \in DOMAIN audit[t] : audit[t][i].skill = audit[t][i].result
=============================================================================
