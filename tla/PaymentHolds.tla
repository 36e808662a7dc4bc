---------------------------- MODULE PaymentHolds ----------------------------
(***************************************************************************)
(* Confirmation-gated payments of the daemon: a task's loop proposes a     *)
(* payment, reserves its amount, parks the question in the tasks table,    *)
(* and a later connection - a chat reply, or the dashboard's approve_hold  *)
(* and release_hold - resumes the task from what it read there.            *)
(*                                                                         *)
(* Every step is one critical section of the connection mutex of db.rs, or *)
(* one await (the ledger call, the gate before the guest runs), so the     *)
(* model interleaves connections exactly where the daemon can.             *)
(***************************************************************************)
EXTENDS Totals

CONSTANTS
  Tasks,
  Conns,        \* TCP connections, each used once: handler and loop task
  Keys,         \* payment keys: agent, recipient and amount
  Txs,          \* Hedera transaction ids
  Amount,       \* what each key moves
  DayCap,       \* governance.per_day_cap
  AutoUnder,    \* governance.auto_under; 0 is None, every amount being positive
  Permitted,    \* keys that pass the allowlist and governance.per_task_cap
  Unmatched,    \* keys proposed with the amount written as a JSON string
  Proposes,     \* what the language model may propose in each task
  Patient,      \* the client awaits an answer before it acts on the same thing again
  Left,         \* connections whose client stops reading: their loop may wait for ever to send
  MaxConfig,    \* bound: changes of skill artifacts or injected config
  MaxToggles,   \* bound: mutate_dlt requests
  MaxRestarts,  \* bound: daemon crashes
  MaxFaults,    \* bound: transfers whose receipt or row is lost
  NoTask, NoConn, NoTx, NoKey, NoPending, AskPending, NoTransfer, NoAnswer

\* transfer.pay's manifest limits how often one loop run may call it.
MaxSteps == 2

Payment == [key : Keys, config : 0..MaxConfig, asked : Conns \cup {NoConn}]
Transfer == [key : Keys, asked : Conns \cup {NoConn}]
Replies == {"yes", "no", "other"}
Answers == [asked : Conns, reply : Replies]

ASSUME HoldsAssumption ==
  /\ IsFiniteSet(Keys) /\ IsFiniteSet(Txs)
  /\ DayCap \in Nat /\ AutoUnder \in Nat
  /\ Amount \in [Keys -> Nat \ {0}]
  /\ Permitted \subseteq Keys /\ Unmatched \subseteq Keys
  /\ Proposes \in [Tasks -> SUBSET Keys]
  /\ Patient \in BOOLEAN /\ Left \subseteq Conns
  /\ MaxConfig \in Nat /\ MaxToggles \in Nat /\ MaxRestarts \in Nat /\ MaxFaults \in Nat
  /\ NoTask \notin Tasks /\ NoConn \notin Conns /\ NoTx \notin Txs /\ NoKey \notin Keys
  /\ NoPending # AskPending
  /\ NoPending \notin Payment /\ AskPending \notin Payment
  /\ NoTransfer \notin Transfer /\ NoAnswer \notin Answers

VARIABLES
  status,     \* tasks.status
  pending,    \* tasks.pending_action_json
  holds,      \* payment_holds: the keys that have a row
  rows,       \* payments with status SUCCESS
  dlt,        \* dlt_enabled
  config,     \* version of the skill artifacts and injected config
  ledger,     \* the Hedera ledger: what each transaction moved
  recent,     \* the transactions of the last 24 hours
  pc,         \* what each connection does next
  task,       \* the task it works on
  job,        \* the payment it has in hand
  txid,       \* the transaction it submitted
  after,      \* where it goes once the payment is dropped
  fires,      \* skill_fire_counts of its loop
  shown,      \* history: the key its question named
  answers,    \* history: the question it answered, and how
  toggles, restarts, faults

tasksTable == <<status, pending>>
money == <<ledger, rows, recent>>
world == <<dlt, config, toggles, restarts, faults>>
local == <<task, job, txid, after, fires>>
history == <<shown, answers>>
vars == <<tasksTable, holds, money, world, pc, local, history>>

Statuses == {"none", "running", "awaiting_confirmation", "done"}
PCs == {"idle", "turn", "rest", "park", "ask", "unask", "approve", "release", "clear", "refresh",
        "gate", "pay", "record", "commit", "fail", "end", "seal", "stray", "closed"}

TypeOK ==
  /\ status \in [Tasks -> Statuses]
  /\ pending \in [Tasks -> Payment \cup {NoPending, AskPending}]
  /\ holds \subseteq Keys
  /\ ledger \in [Txs -> Transfer \cup {NoTransfer}]
  /\ rows \subseteq Txs /\ recent \subseteq Txs
  /\ dlt \in BOOLEAN
  /\ config \in 0..MaxConfig
  /\ pc \in [Conns -> PCs]
  /\ task \in [Conns -> Tasks \cup {NoTask}]
  /\ job \in [Conns -> Payment \cup {NoPending}]
  /\ txid \in [Conns -> Txs \cup {NoTx}]
  /\ after \in [Conns -> {"turn", "rest", "end"}]
  /\ fires \in [Conns -> 0..MaxSteps]
  /\ shown \in [Conns -> Keys \cup {NoKey}]
  /\ answers \in [Conns -> Answers \cup {NoAnswer}]
  /\ toggles \in 0..MaxToggles /\ restarts \in 0..MaxRestarts /\ faults \in 0..MaxFaults

Init ==
  /\ status = [t \in Tasks |-> "none"]
  /\ pending = [t \in Tasks |-> NoPending]
  /\ holds = {}
  /\ ledger = [x \in Txs |-> NoTransfer]
  /\ rows = {} /\ recent = {}
  /\ dlt = TRUE
  /\ config = 0
  /\ pc = [c \in Conns |-> "idle"]
  /\ task = [c \in Conns |-> NoTask]
  /\ job = [c \in Conns |-> NoPending]
  /\ txid = [c \in Conns |-> NoTx]
  /\ after = [c \in Conns |-> "end"]
  /\ fires = [c \in Conns |-> 0]
  /\ shown = [c \in Conns |-> NoKey]
  /\ answers = [c \in Conns |-> NoAnswer]
  /\ toggles = 0 /\ restarts = 0 /\ faults = 0

-----------------------------------------------------------------------------
Goto(c, place) == pc' = [pc EXCEPT ![c] = place]

Live(c) == pc[c] \notin {"idle", "closed"}

\* The connections of cs end, and what their handlers and loops held with them.
Close(cs) ==
  /\ pc' = [c \in Conns |-> IF c \in cs THEN "closed" ELSE pc[c]]
  /\ task' = [c \in Conns |-> IF c \in cs THEN NoTask ELSE task[c]]
  /\ job' = [c \in Conns |-> IF c \in cs THEN NoPending ELSE job[c]]
  /\ txid' = [c \in Conns |-> IF c \in cs THEN NoTx ELSE txid[c]]
  /\ after' = [c \in Conns |-> IF c \in cs THEN "end" ELSE after[c]]
  /\ fires' = [c \in Conns |-> IF c \in cs THEN 0 ELSE fires[c]]

\* Nothing of the client's is under way on t or on a payment t may propose.
Quiet(t) ==
  \A d \in Conns : Live(d) =>
    IF pc[d] = "stray" THEN job[d].key \notin Proposes[t] ELSE task[d] # t

QuietKey(k) ==
  \A d \in Conns : Live(d) => pc[d] # "stray" /\ k \notin Proposes[task[d]]

Moved(x) == Amount[ledger[x].key]
SumMoved(xs) == Total(xs, [x \in xs |-> Moved(x)])

\* save_awaiting_confirmation and clear_pending_action
SaveAwaiting(t, action) ==
  /\ status' = [status EXCEPT ![t] = "awaiting_confirmation"]
  /\ pending' = [pending EXCEPT ![t] = action]

ClearPending(t) ==
  /\ status' = [status EXCEPT ![t] = "running"]
  /\ pending' = [pending EXCEPT ![t] = NoPending]

ReleaseSpendHold(k) == holds' = holds \ {k}

-----------------------------------------------------------------------------
(***************************************************************************)
(* Connections arrive.                                                     *)
(***************************************************************************)

\* Mutant: a reply to a sealed task runs under the sealed task's id.
StartAgain(c, t) ==
  /\ pc[c] = "idle" /\ status[t] \in {"none", "done"}
  /\ Patient => Quiet(t)
  /\ status' = [status EXCEPT ![t] = "running"]
  /\ task' = [task EXCEPT ![c] = t]
  /\ Goto(c, "turn")
  /\ UNCHANGED <<pending, holds, money, world, job, txid, after, fires, history>>

\* A message without a task_id, or with one that does not await confirmation.
Start(c, t) ==
  /\ pc[c] = "idle" /\ status[t] = "none"
  /\ Patient => Quiet(t)
  /\ status' = [status EXCEPT ![t] = "running"]
  /\ task' = [task EXCEPT ![c] = t]
  /\ Goto(c, "turn")
  /\ UNCHANGED <<pending, holds, money, world, job, txid, after, fires, history>>

\* Mutant: every reply but "no" confirms.
ResumeUnlessNo(c, t, reply) ==
  /\ Patient => Quiet(t)
  /\ task' = [task EXCEPT ![c] = t]
  /\ IF pending[t] = AskPending
     THEN Goto(c, "unask") /\ UNCHANGED <<job, answers>>
     ELSE /\ job' = [job EXCEPT ![c] = pending[t]]
          /\ Goto(c, IF reply # "no" THEN "approve" ELSE "release")
          /\ answers' = [answers EXCEPT ![c] = [asked |-> pending[t].asked, reply |-> reply]]
  /\ UNCHANGED <<tasksTable, holds, money, world, txid, after, fires, shown>>

\* run_react_loop with the pending action it was handed: the reply decides.
Resume(c, t, reply) ==
  /\ Patient => Quiet(t)
  /\ task' = [task EXCEPT ![c] = t]
  /\ IF pending[t] = AskPending
     THEN /\ Goto(c, "unask")
          /\ UNCHANGED <<job, after, answers>>
     ELSE /\ job' = [job EXCEPT ![c] = pending[t]]
          /\ Goto(c, IF reply = "yes" THEN "approve" ELSE "release")
          /\ after' = [after EXCEPT ![c] = IF reply = "other" THEN "turn" ELSE "end"]
          /\ answers' = [answers EXCEPT ![c] = [asked |-> pending[t].asked, reply |-> reply]]
  /\ UNCHANGED <<tasksTable, holds, money, world, txid, fires, shown>>

\* A chat message with the task_id of a parked task.
Answer(c, t, reply) ==
  /\ pc[c] = "idle" /\ status[t] = "awaiting_confirmation"
  /\ Resume(c, t, reply)

\* find_task_awaiting_by_payment_key
Owns(t, k) ==
  /\ status[t] = "awaiting_confirmation"
  /\ pending[t] \in Payment
  /\ pending[t].key = k
  /\ k \notin Unmatched

\* With no owner, approve_hold is an error and changes nothing.
ApproveHold(c, k) ==
  /\ pc[c] = "idle"
  /\ \E t \in Tasks : Owns(t, k) /\ Resume(c, t, "yes")

ReleaseHold(c, k) ==
  /\ pc[c] = "idle"
  /\ \/ \E t \in Tasks : Owns(t, k) /\ Resume(c, t, "no")
     \/ /\ \A t \in Tasks : ~Owns(t, k)
        /\ Patient => QuietKey(k)
        /\ job' = [job EXCEPT ![c] = [key |-> k, config |-> config, asked |-> NoConn]]
        /\ Goto(c, "stray")
        /\ UNCHANGED <<tasksTable, holds, money, world, task, txid, after, fires, history>>

\* "the hold may be stale (from a crash)": it is deleted without a task
StrayRelease(c) ==
  /\ pc[c] = "stray"
  /\ ReleaseSpendHold(job[c].key)
  /\ Close({c})
  /\ UNCHANGED <<tasksTable, money, world, history>>

-----------------------------------------------------------------------------
(***************************************************************************)
(* The loop's turns.                                                       *)
(***************************************************************************)

\* A turn goes on with what the model emitted after a question, and then ends.
InTurn(c) == pc[c] \in {"turn", "rest"}

\* Mutant: the cap is compared with what is committed, not with what is held.
FitsCommitted(k) ==
  k \in holds \/ SumMoved(recent \cap rows) + Amount[k] <= DayCap

\* try_reserve_spend: a key that has a row is granted again as it is
Fits(k) ==
  k \in holds \/ SumMoved(recent \cap rows) + Total(holds, Amount) + Amount[k] <= DayCap

\* Mutants: no max_steps; no try_reserve_spend.
AdmittedForever(c, k) == dlt /\ k \in Permitted /\ Fits(k)
AdmittedUncapped(c, k) == dlt /\ fires[c] < MaxSteps /\ k \in Permitted

Admitted(c, k) ==
  dlt /\ fires[c] < MaxSteps /\ k \in Permitted /\ Fits(k)

\* Mutant: only an automatic payment is reserved.
ProposeUnreserved(c, k) ==
  /\ InTurn(c) /\ k \in Proposes[task[c]]
  /\ Admitted(c, k)
  /\ holds' = IF Amount[k] <= AutoUnder THEN holds \cup {k} ELSE holds
  /\ fires' = [fires EXCEPT ![c] = @ + 1]
  /\ job' = [job EXCEPT ![c] = [key |-> k, config |-> config, asked |-> NoConn]]
  /\ after' = [after EXCEPT ![c] = pc[c]]
  /\ Goto(c, IF Amount[k] <= AutoUnder THEN "gate" ELSE "park")
  /\ UNCHANGED <<tasksTable, money, world, task, txid, history>>

Propose(c, k) ==
  /\ InTurn(c) /\ k \in Proposes[task[c]]
  /\ Admitted(c, k)
  /\ holds' = holds \cup {k}
  /\ fires' = [fires EXCEPT ![c] = @ + 1]
  /\ job' = [job EXCEPT ![c] = [key |-> k, config |-> config, asked |-> NoConn]]
  /\ after' = [after EXCEPT ![c] = pc[c]]
  /\ Goto(c, IF Amount[k] <= AutoUnder THEN "gate" ELSE "park")
  /\ UNCHANGED <<tasksTable, money, world, task, txid, history>>

Refuse(c, k) ==
  /\ InTurn(c) /\ k \in Proposes[task[c]]
  /\ ~Admitted(c, k)
  /\ Goto(c, "end")
  /\ UNCHANGED <<tasksTable, holds, money, world, local, history>>

\* The question is on its way to the client before it is saved.
ParkPayment(c) ==
  /\ pc[c] \in {"park", "refresh"}
  /\ SaveAwaiting(task[c], [job[c] EXCEPT !.asked = c])
  /\ shown' = [shown EXCEPT ![c] = job[c].key]
  /\ Goto(c, "end")
  /\ UNCHANGED <<holds, money, world, local, answers>>

AskUser(c) ==
  /\ pc[c] = "turn"
  /\ Goto(c, "ask")
  /\ UNCHANGED <<tasksTable, holds, money, world, local, history>>

ParkAsk(c) ==
  /\ pc[c] = "ask"
  /\ SaveAwaiting(task[c], AskPending)
  /\ Goto(c, "rest")
  /\ UNCHANGED <<holds, money, world, local, history>>

\* A final answer, an error, or MAX_REACT_STEPS.
EndTurn(c) ==
  /\ InTurn(c)
  /\ Goto(c, "end")
  /\ UNCHANGED <<tasksTable, holds, money, world, local, history>>

-----------------------------------------------------------------------------
(***************************************************************************)
(* The loop resumes.                                                       *)
(***************************************************************************)
Unask(c) ==
  /\ pc[c] = "unask"
  /\ ClearPending(task[c])
  /\ Goto(c, "turn")
  /\ UNCHANGED <<holds, money, world, local, history>>

\* Mutant: the pending action is not cleared before the skill runs.
ApproveUncleared(c) ==
  /\ pc[c] = "approve" /\ dlt /\ job[c].config = config
  /\ Goto(c, "gate")
  /\ UNCHANGED <<tasksTable, holds, money, world, local, history>>

\* approve_hold up to clear_pending_action
Approve(c) ==
  /\ pc[c] = "approve"
  /\ \/ ~dlt /\ Goto(c, "release") /\ UNCHANGED <<tasksTable, holds, job>>
     \/ /\ dlt /\ job[c].config # config
        /\ ReleaseSpendHold(job[c].key)
        /\ job' = [job EXCEPT ![c].config = config]
        /\ Goto(c, "refresh")
        /\ UNCHANGED tasksTable
     \/ /\ dlt /\ job[c].config = config
        /\ ClearPending(task[c])
        /\ Goto(c, "gate")
        /\ UNCHANGED <<holds, job>>
  /\ UNCHANGED <<money, world, task, txid, after, fires, history>>

\* release_hold, and what approve_hold and a revising reply do likewise
Release(c) ==
  /\ pc[c] = "release"
  /\ ReleaseSpendHold(job[c].key)
  /\ Goto(c, "clear")
  /\ UNCHANGED <<tasksTable, money, world, local, history>>

Clear(c) ==
  /\ pc[c] = "clear"
  /\ ClearPending(task[c])
  /\ Goto(c, after[c])
  /\ UNCHANGED <<holds, money, world, local, history>>

-----------------------------------------------------------------------------
(***************************************************************************)
(* The skill runs.                                                         *)
(***************************************************************************)

\* run_wasm_instance_async's gate; the guest rejects an amount that is a string
Gate(c) ==
  /\ pc[c] = "gate"
  /\ Goto(c, IF dlt /\ job[c].key \notin Unmatched THEN "pay" ELSE "fail")
  /\ UNCHANGED <<tasksTable, holds, money, world, local, history>>

\* PaymentVault::pay: the transfer is refused, or made, and then its receipt
\* is read, or lost
Pay(c) ==
  /\ pc[c] = "pay"
  /\ \/ Goto(c, "fail") /\ UNCHANGED <<ledger, recent, txid, faults>>
     \/ \E x \in Txs :
          /\ ledger[x] = NoTransfer
          /\ ledger' = [ledger EXCEPT ![x] = [key |-> job[c].key, asked |-> job[c].asked]]
          /\ recent' = recent \cup {x}
          /\ txid' = [txid EXCEPT ![c] = x]
          /\ \/ Goto(c, "record") /\ UNCHANGED faults
             \/ faults < MaxFaults /\ faults' = faults + 1 /\ Goto(c, "fail")
  /\ UNCHANGED <<tasksTable, holds, rows, dlt, config, toggles, restarts,
                 task, job, after, fires, history>>

\* insert_payment: "Don't fail the payment over a logging error"
Record(c) ==
  /\ pc[c] = "record"
  /\ \/ rows' = rows \cup {txid[c]} /\ UNCHANGED faults
     \/ faults < MaxFaults /\ faults' = faults + 1 /\ UNCHANGED rows
  /\ Goto(c, "commit")
  /\ UNCHANGED <<tasksTable, holds, ledger, recent, dlt, config, toggles, restarts,
                 local, history>>

\* commit_spend_hold: the row of payments takes over from the hold
Commit(c) ==
  /\ pc[c] = "commit"
  /\ ReleaseSpendHold(job[c].key)
  /\ Goto(c, IF after[c] = "rest" THEN "rest" ELSE "turn")
  /\ UNCHANGED <<tasksTable, money, world, local, history>>

\* Mutants: a failed payment keeps its hold; a failed payment is tried again.
FailHeld(c) ==
  /\ pc[c] = "fail"
  /\ Goto(c, after[c])
  /\ UNCHANGED <<tasksTable, holds, money, world, local, history>>

FailRetried(c) ==
  /\ pc[c] = "fail"
  /\ Goto(c, "gate")
  /\ UNCHANGED <<tasksTable, holds, money, world, local, history>>

\* the hold goes; an approved payment ends its loop, an automatic one does not
Fail(c) ==
  /\ pc[c] = "fail"
  /\ ReleaseSpendHold(job[c].key)
  /\ Goto(c, after[c])
  /\ UNCHANGED <<tasksTable, money, world, local, history>>

-----------------------------------------------------------------------------
(***************************************************************************)
(* The handler, after its loop: a task that awaits confirmation is left    *)
(* unsealed, by the handler's test and again by seal_task's WHERE.         *)
(***************************************************************************)
End(c) ==
  /\ pc[c] = "end"
  /\ IF status[task[c]] = "awaiting_confirmation"
     THEN Close({c})
     ELSE Goto(c, "seal") /\ UNCHANGED local
  /\ UNCHANGED <<tasksTable, holds, money, world, history>>

\* Mutant: seal_task without "AND status != 'awaiting_confirmation'"
SealAnyway(c) ==
  /\ pc[c] = "seal"
  /\ status' = [status EXCEPT ![task[c]] = "done"]
  /\ Close({c})
  /\ UNCHANGED <<pending, holds, money, world, history>>

Seal(c) ==
  /\ pc[c] = "seal"
  /\ status' = IF status[task[c]] = "awaiting_confirmation" THEN status
               ELSE [status EXCEPT ![task[c]] = "done"]
  /\ Close({c})
  /\ UNCHANGED <<pending, holds, money, world, history>>

-----------------------------------------------------------------------------
(***************************************************************************)
(* The world around the connections.                                       *)
(***************************************************************************)
ToggleDlt ==
  /\ toggles < MaxToggles /\ toggles' = toggles + 1
  /\ dlt' = ~dlt
  /\ UNCHANGED <<tasksTable, holds, money, config, restarts, faults, pc, local, history>>

\* a skill is rebuilt, or a value merged into its arguments changes
ConfigChange ==
  /\ config < MaxConfig /\ config' = config + 1
  /\ UNCHANGED <<tasksTable, holds, money, dlt, toggles, restarts, faults, pc, local, history>>

\* a transfer grows older than 24 hours, long after its row was written
LeaveDay(x) ==
  /\ x \in recent
  /\ \A c \in Conns : pc[c] \in {"record", "commit"} => txid[c] # x
  /\ recent' = recent \ {x}
  /\ UNCHANGED <<tasksTable, holds, ledger, rows, world, pc, local, history>>

\* the daemon dies, starts again and runs reconcile_stale_holds over the rows of 48 hours:
\* those of the last 24, and some older ones
Restart ==
  /\ restarts < MaxRestarts /\ restarts' = restarts + 1
  /\ Close({c \in Conns : Live(c)})
  /\ \E old \in SUBSET (rows \ recent) :
       holds' = {k \in holds : \A x \in rows \ old : Moved(x) # Amount[k]}
  /\ UNCHANGED <<tasksTable, money, dlt, config, toggles, faults, history>>

Loop(c) ==
  \/ \E k \in Keys : Propose(c, k) \/ Refuse(c, k)
  \/ ParkPayment(c) \/ AskUser(c) \/ ParkAsk(c) \/ EndTurn(c)
  \/ Unask(c) \/ Approve(c) \/ Release(c) \/ Clear(c)
  \/ Gate(c) \/ Pay(c) \/ Record(c) \/ Commit(c) \/ Fail(c)
  \/ End(c) \/ Seal(c) \/ StrayRelease(c)

Arrive(c) ==
  \/ \E t \in Tasks : Start(c, t) \/ \E r \in Replies : Answer(c, t, r)
  \/ \E k \in Keys : ApproveHold(c, k) \/ ReleaseHold(c, k)

Environment == ToggleDlt \/ ConfigChange \/ Restart \/ \E x \in Txs : LeaveDay(x)

Next == Environment \/ \E c \in Conns : Arrive(c) \/ Loop(c)

Spec == Init /\ [][Next]_vars
-----------------------------------------------------------------------------
(***************************************************************************)
(* Properties of a careful day: Patient clients, no skill rebuilt between  *)
(* a question and its answer, no crash, no lost receipt, one task per      *)
(* payee and amount.  The violation runs drop these one at a time.         *)
(***************************************************************************)

\* What the ledger moved in the last 24 hours never exceeds per_day_cap, although
\* proposals check it long before the money moves (try_reserve_spend, approve_hold).
WithinDayCap == SumMoved(recent) <= DayCap

Attended(t) == \E c \in Conns : Live(c) /\ task[c] = t

\* The amount of a parked question is set aside while nobody works on its task, so
\* a later "yes" cannot find the day's budget given away.
ParkedIsReserved ==
  \A t \in Tasks : pending[t] \in Payment /\ ~Attended(t) => pending[t].key \in holds

\* No path of a loop drops a payment and keeps its hold: nothing squats on the budget.
NoOrphanHold ==
  \A k \in holds :
    \/ \E t \in Tasks : pending[t] \in Payment /\ pending[t].key = k
    \/ \E c \in Conns : Live(c) /\ job[c] \in Payment /\ job[c].key = k

\* One question moves money once, however often and by whatever door it is answered.
OneTransferPerQuestion ==
  \A x, y \in Txs :
    /\ ledger[x] # NoTransfer /\ ledger[y] # NoTransfer
    /\ ledger[x].asked = ledger[y].asked /\ ledger[x].asked # NoConn
    => x = y

\* A sealed task is not resumed: its final_hash is anchored and must stay the last.
SealedStaysSealed ==
  [][\A t \in Tasks : status[t] = "done" => status'[t] = "done"]_vars

\* The keys whose money moved and whose hold is still there.
InFlight == {job[c].key : c \in {d \in Conns : pc[d] \in {"record", "commit"}}}

Budget == INSTANCE DailyBudget WITH
  reserved <- holds \ InFlight,
  spent <- [x \in recent |-> ledger[x].key]

\* The loops, the two tables and the ledger together implement the daily budget:
\* a transfer uses up its own reservation, and no other step spends or reserves.
ImplementsBudget == Budget!BudgetSpec

\* The next step comes after a send, which waits while the channel is full.
Sending(c) ==
  pc[c] \in {"turn", "rest", "ask", "park", "refresh", "gate", "commit", "fail", "end"}

\* Tokio runs every task, model and ledger calls time out, and the guests at
\* hand end: nothing in the code limits a guest.  The channel of a client that
\* left is no longer drained once a write failed, so a send need not return.
FairSpec == Spec /\ \A c \in Conns : WF_vars(Loop(c) /\ (c \in Left => ~Sending(c)))

\* The loop holds what it reserved while it waits for a client that left: with
\* the question or the action, or with the observation, which is sent first.
StuckWith(c, k) ==
  c \in Left /\ pc[c] \in {"park", "gate", "commit", "fail"} /\ job[c].key = k

\* A hold ends, or a question that the user can still answer accounts for it, or
\* a loop whose client left waits to send with this payment in hand.
HoldSettles ==
  \A k \in Keys :
    k \in holds ~>
      \/ k \notin holds
      \/ \E t \in Tasks : pending[t] \in Payment /\ pending[t].key = k
      \/ \E c \in Conns : StuckWith(c, k)

(***************************************************************************)
(* Properties of every day: answers race, payees are shared, skills are    *)
(* rebuilt, the daemon crashes, receipts and rows are lost.                *)
(***************************************************************************)

\* Small enough to need no answer, or asked by that name and answered "yes".
Agreed(p, questions, replies) ==
  \/ p.asked = NoConn /\ Amount[p.key] <= AutoUnder
  \/ /\ p.asked # NoConn
     /\ questions[p.asked] = p.key
     /\ \E c \in Conns : replies[c] = [asked |-> p.asked, reply |-> "yes"]

\* Money moves only below auto_under, or after somebody said "yes" to a question
\* that named this very payment: no interleaving of resumes redirects a "yes".
Consent == \A x \in Txs : ledger[x] # NoTransfer => Agreed(ledger[x], shown, answers)

\* A question moves money at most as often as it was answered "yes".
OneTransferPerYes ==
  \A q \in Conns :
    Cardinality({x \in Txs : ledger[x] # NoTransfer /\ ledger[x].asked = q})
      <= Cardinality({c \in Conns : answers[c] = [asked |-> q, reply |-> "yes"]})

\* The two columns agree under any interleaving of park, resume, clear and seal, so
\* a resume always finds the action its status announces.
PendingIffAwaiting ==
  \A t \in Tasks : (pending[t] # NoPending) <=> (status[t] = "awaiting_confirmation")

\* reconcile_stale_holds deletes leftovers of a crash, never the hold of a question.
ReconcileKeepsQuestions ==
  [][restarts' # restarts =>
       \A t \in Tasks :
         pending[t] \in Payment /\ pending[t].key \in holds => pending[t].key \in holds']_vars
=============================================================================
