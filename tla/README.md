# ARIA v2: verification project

ARIA is a local agent daemon (Rust, tokio) with a Tauri desktop client. A language
model drives a ReAct loop that runs WASM skills; some skills move money on the Hedera
ledger, guarded by an allowlist, spending caps and a human "yes". This directory holds
TLA+ models of the daemon's own logic, TLC configurations that check them on small
instances, and TLAPS proofs of what holds on every instance.

    tlc -workers 2 -config holds_races.cfg MCPaymentHolds
    tlapm PaymentHolds_proofs.tla

`PROJECT.json` lists components, runs, mutants (a plausible bug for every checked
property), the source lines of every definition, the hazards and the findings.

## 1. The system

| Component | State | Operations | Meets |
|---|---|---|---|
| Connections (`daemon/src/main.rs`) | one request per TCP connection; a bounded event channel (100) from loop to socket | fresh task, resume by `task_id`, dashboard queries, `approve_hold`, `release_hold`, `mutate_dlt`; audit every observation; seal and anchor the task | loop through the channel, task store, ledger (anchor) |
| ReAct loop (`agent/react_loop.rs`, `subagent.rs`) | conversation, `skill_fire_counts`, delegation count | call the model, plan a batch, run skills alone or in parallel, ask, park, resume, finish | task store, payment tables, skills, channel |
| Payment holds (`react_loop.rs`, `db.rs`, `Extra/dlt/host`) | `payment_holds`, `payments`, `tasks.pending_action_json` | propose, reserve, park, approve, refresh, deny, run, commit, release, reconcile | connections, ledger |
| Task store (`db.rs`) | `tasks`, one connection mutex | create, save_awaiting, clear_pending, seal | everything |
| Audit chain (`db.rs`, `crypto.rs`, `task_anchor.rs`) | step rows and their hashes, a signed link between consecutive tasks, `final_hash` | log a step, verify, link a task, seal, anchor | connections |
| x402 (`wasm_runtime.rs`, `x402_vault.rs`, `facilitator_client.rs`, `mirror.rs`) | `payment_rate_log`, PENDING rows | check, reserve, sign, pay the resource, settle, poll the mirror node | holds, loop (settlement events) |
| Skill forge (`agent/forge.rs`) | staging directory, workspace `Cargo.toml`, parked grant | scaffold, write, build, ask for the grant, install, discard | task store, skill runtime |
| Skill runtime (`skills/`) | module cache, sandbox roots; no limit on a guest's time or steps | look up, compile, run, resolve paths, match globs | loop, forge |
| Configuration, identity (`config.rs`, `crypto.rs`, `identity/`) | `dlt_enabled`, governance limits, LLM settings, key file | load, set, sign | all |
| Desktop client (`gui/`) | sessions, pending confirmation, event groups | send, answer, approve or release a hold, replay a session | connections |

**What is hard.** Every database call locks one mutex, and nothing else is atomic: a loop
awaits the model, a skill, the ledger or its own channel between any two calls. Several
connections can work on one task, because a resume only reads a status. The ledger and
the database are not updated together, so a crash, a lost receipt or a failed insert
leaves them apart. Budget is reserved at proposal and used at approval, minutes or days
later, and skills or configuration may change in between. The correctness of each part:

- payments: money moves only with consent, inside the daily cap, once per question; a
  hold is never lost and never left behind;
- task store: status and pending action agree, a sealed task stays sealed;
- audit chain: each signature covers the stored row, the rows of a task are one chain, a
  seal covers all of them, tasks form one line;
- x402: a signed payment stays in the budget until its outcome is known; rate limits
  bound attempts;
- event channel: every loop ends and is sealed whatever the client does, unless it waits
  for something that nothing limits;
- forge: only a granted fingerprint is installed, and what runs as a skill is what was installed;
- loop: a payment runs alone, after every skill planned before it; audit pairs an action
  with its own observation;
- client: each answer is delivered once, and a question is answered under its task.

## 2. Plan

Done, in this order:

1. `PaymentHolds` with the abstract `DailyBudget`: the most important behaviour.
2. `AuditChain` with the abstract `TaskLog`: the log, its signatures, seal and anchor; all
   properties are proved (`AuditChain_proofs`).
3. `X402`: the payments nobody is asked about; all but the liveness is proved (`X402_proofs`).
4. `Forge`: staging, build, grant, install, discard, module cache, two forge loops
   (`Forge_proofs`).
5. `Turn`, a pure module: what one reply of the model makes the loop do. `Session`
   composes it with the event channel, the connection and the desktop client;
   `Conversation` composes it with the model's wire protocols and the history
   (`Session_proofs`, `Conversation_proofs`).
6. The proofs of `PaymentHolds`: what holds of any tasks and clients, what patient ones get
   on top, and the refinement of `DailyBudget` on a careful day.

Left, most important first:

1. `PathGlob`: `glob_match` and the resolution of paths in the sandbox, as operators over
   sequences of abstract path parts, against a reference definition.
2. Several connections on one task in `Session` (they are in `PaymentHolds` and `AuditChain`).
3. The actions inside a delegated loop, as another `Conversation` whose report is the
   parent's result.

## 3. What is modelled

`Totals` defines a sum over a set as the cardinality of a set of units, which needs no
recursion and can be reasoned about with the library's facts on finite sets.

`DailyBudget` is what payment governance promises, without its mechanism: `Reserve` only
what fits under the cap next to all that is reserved and spent, `Settle` uses up a
reservation, `Cancel` returns it, `Expire` ages a transfer out of the day.

`PaymentHolds` is the mechanism. One element of `Conns` is one TCP connection with its
handler and loop; `pc` names the next critical section or await:

| `pc` | code | action |
|---|---|---|
| `idle` | `main.rs` request dispatch | `Start`, `Answer`, `ApproveHold`, `ReleaseHold` |
| `turn`; `rest`, what is left of a turn after a question, which does not end it | body of `run_react_loop` after a model reply | `Propose` (all guards, `try_reserve_spend`, `auto_under`), `Refuse`, `AskUser`, `EndTurn` |
| `park`, `refresh`, `ask` | the question is sent, the row is not yet saved | `ParkPayment`, `ParkAsk` |
| `unask`, `approve`, `release`, `clear` | the resume, up to `clear_pending_action` | `Unask`, `Approve`, `Release`, `Clear` |
| `gate`, `pay`, `record`, `commit`, `fail` | the run of the skill and what follows it | `Gate`, `Pay`, `Record`, `Commit`, `Fail` |
| `end`, `seal` | the handler after its loop | `End`, `Seal` |
| `stray` | `release_hold` without a task | `StrayRelease` |

`status` and `pending` are two columns of `tasks`; `holds` is the set of payment keys with
a row in `payment_holds`; `rows` the SUCCESS rows of `payments`; `ledger` and `recent`
what really moved and what is younger than a day. A payment carries `config` (what its
fingerprint was computed from) and `asked` (the connection that asked, or `NoConn` for an
automatic one). `shown` and `answers` are history: they record which question named which
key and who answered what, and no guard reads them. `rows` is compared with `ledger`
only in `SumMoved`, so a lost row is budget the daemon cannot see.

Reads and writes under one lock are one action. `Approve` joins the checks of
`approve_hold` with the first write that follows them: the checks read what a
concurrent `mutate_dlt` or rebuild could change, and a change after the check is the
same as one after the write. `Admitted` likewise joins the DLT check, max_steps,
allowlist, caps and `try_reserve_spend`; only the last is contended. `Approve` and
`Release` treat an error of a single-row update, ignored in the code with `let _ =`, as
not happening, except where the code comments on it (`insert_payment`, by `faults`).

Environment: `ToggleDlt`, `ConfigChange` (a skill rebuilt or an injected value changed),
`LeaveDay` (24 hours pass; not while the row is being written), `Restart` (crash, then
`reconcile_stale_holds` over the rows of 48 hours, of which `recent` has those of 24). External: Hedera, modelled as `Pay` and `Txs` from how
`direct.rs` uses its SDK.

`find_task_awaiting_by_payment_key` returns one match; the model allows any. The key of
an amount written as a JSON string differs from the one the lookup computes, and the
guest refuses such an amount: `Unmatched`.

Not modelled here: wording and history of a conversation, token creation and minting
(parked in the same way, without hold or cap), skill grants, allowlist changes during a
run, HCS audit records, parallel batches (a payment never runs in one).

`TaskLog` is what an audit log promises: results are appended, nothing is changed, and a
seal names the last one and their number, after which nothing is appended.

`AuditChain` is how the daemon does it. A connection is a loop, a queue of events and a
handler. The loop announces the actions of a turn, one or a batch, and sends their
results when all are there; it may park the task, and it ends. The handler's `pc`:

| `pc` | code (`main.rs`, `db.rs`) | action |
|---|---|---|
| `idle` | request dispatch | `Start`, `Resume` |
| `drain` | `rx.recv()` | `DrainAction`, `DrainResult` (with `next_step_index`), `ClientLeaves` (a write fails), `EndTask` |
| `peek`, `sign` | the rest of `get_next_step_info`; the vault | `Peek`, `Sign` |
| `log`, `link`, `insert` | the three locks of `log_task_step` | `LogStep`, `LinkStep`, `InsertStep` |
| `wait` | the drain is left, `handle.await` | `EndTask` |
| `seal`, `write` | the two locks of `seal_task` | `SealHash`, `SealRow` |
| `anchor`, `publish` | `publish_task_anchor` | `AnchorHash`, `Publish` |

Hashes are abstract: no two results are the same here, so a row's result stands for its
`chain_hash`, and a signature covers what its handler peeked (`signed`) while the row
stores what `log_task_step` read (`stamp`). `get_last_step_hash` orders by step alone, so
`LastHashes` is a set when two rows share one. `Orderly` is an assumption about the
client of some tasks, that it reads one connection to its end before it answers on the
next; the other tasks make no such assumption. The link from a task to the one before it
is left out: no code verifies it. A loop's error event never meets a remembered action
(each action is followed by its result before anything can fail), so only results are
logged. When a client has left, what the loop still sends is not kept; that it can fill
the channel is in `Session`, as is the sender of the settlement watch, which keeps the
drain waiting after the loop.

`X402` is one payment per call of `host_x402_pay`, whose signed token the resource server
submits. A call's `pc`:

| `pc` | code (`wasm_runtime.rs`, `db.rs`, `x402_vault.rs`) | action |
|---|---|---|
| `probe` | `do_fetch_with_402_detection` | `ProbeEnds`, `ProbeAsks` |
| `log`, `count` | `log_url_payment_attempt`, `count_recent_url_attempts` | `Log`, `Count` |
| `reserve` | allowlist, per-task cap, `try_reserve_spend` | `Reserve`, `Refuse` |
| `sign`, `commit` | `X402PaymentVault::pay` with the facilitator, `insert_payment`; `commit_spend_hold` | `Sign`, `SignFails`, `Commit` |
| `retry`, `await`, `body` | the second request, its `PAYMENT-RESPONSE`, its body | `Retry`, `RetryFails`, `Settled`, `Unsettled`, `Unconfirmed`, `Body`, `BodyLost` |
| `paid` | `spawn_payment_settlement_watch` of the loop | `WatchFinds`, `WatchGivesUp` |

Environment: `Submit` (a server that holds a token submits it whenever it likes),
`EditAllowlist`, `LeaveHour`, `LeaveDay` (the rolling windows), `Restart`. `rows` is the
status column of `payments` and `ledger` what became of each token; servers may report
what is not so. `odd` is history: it notes a hold shared by two calls or left by a crash,
a negative price, an untrue report, a row or a log entry that could not be written; `unread`
has the calls that `Count` let through because the log could not be read
(`unwrap_or(0)`). The properties name the anomalies they except, so each says exactly when
the code keeps it. Terms are one key
(agent, recipient, amount) and their parsing is left out, but for what matters to a cap:
amounts are whole, negative ones parse, and only positive ones can be signed.

`Forge` is the forge of skills. The file system is the state that tasks share: `staging`,
`skillsDir` with `installed`, `scratch`, `members` of the workspace's `Cargo.toml`, and
`wasm`, the artifacts. A task's `pc` follows `forge.rs`: the child loop (`child`:
`ForgeWrite`, `ForgeBuild`, `Finalize`), a scratch build (`copy` to `wipe`), the question
(`ask`, `parked`: `Park`, `Yes`, `No`), an approval (`approve`, `check`, `move`), the
registration and release build (`register` to `verify`), and a discard (`delist` to
`delete`). Each edit of `Cargo.toml` is a read and a write (`listed`, `unlisted`,
`registered`, `delisted`), and between them another task may edit it: `text` is the copy
in hand. `Load` and `Insert` are the two halves of `SkillManager::get_module`. What a
directory holds is one value, its content: its manifest (`Man`) is what a question shows, and
its Cargo.toml has a package name (`Pkg`, `None` if cargo refuses the file) and a library
name (`Lib`). The child loop writes that file and the daemon never reads it, so any name is
possible: `Own` is the one the directory should have. `Package` and `Artifact` are the
names that follow for a member, `Loads` says when cargo accepts a workspace (every member
has a good Cargo.toml, no two have one name), and `CargoBuilds` compiles the member that has
the name asked for, wherever it lies, into the artifact of its library's name. `odd` notes
overlaps (`shared`, `raced`, `late`) and crashes, `lost` the lines of Cargo.toml that one
edit changed between another's read and write.

`Turn` is `plan_action_batch` and the order of `run_react_loop`: an item stands for what
the model asks together with how the skill, the policy or the answer turns out, and
`Script` is the sequence of events, runs and questions that a reply leads to. After a
batch `parallel_at` is gone, so `Reached` hides none of its other actions: they run once
more. `Session` and `Conversation` both go by it.

`Session` follows a task between loop and user. The loop of a task runs its `script` step
by step (`TakeTurn`, `Step`): a send waits while the channel `chan` holds `Cap` events. The
connection drains it (`Sink`) until loop and settlement watch have dropped their senders
(`Close`), or breaks off when its client has gone. `pay` and the skills in `Paying` (such
as `x402.pay`), alone or in a batch, start a watch. A skill may never return, and the mirror
node may never answer a poll: `Hang` notes which in `hung`. The client reads until the first end
(`ReadAsk`, `ReadOn`, `ReadEnd`, `DashEnd`), or gives up (`TimeOut`). A question has a
*card*: in the open `view`, and in the one column `pending_confirmation` of the session
that is `current` (`cards`). `SendMessage`, `Answer`, `Dash`, `OpenSession` and
`DeleteSession` are the user's. `lost` is history: the last thing that may have cost a
task its card. Holds, the log and the texts are left to other modules, and the socket
itself has no delay: what is drained is read in one step.

`Conversation` follows the loop and its model. `protocol` is that of the endpoint,
`capability` what the daemon knows of the model's tools, `mode` what the turn goes by.
`Request` to `NoReply` are the call of a turn and its outcomes (unreachable, rejected
tools, text, nothing); `Open`, `Frame`, `EndStream` and `StreamBreaks` gather calls from
frames that mingle (`chunks`, `order`), of which Responses may leave out the first ones;
`PassOver` to `ChildEnds` are the actions of the reply, with the notes, calls and results
they add to `history`; `EndTurn` counts the turn. `Hang` (phase `stuck`) is a skill or a send
that never returns. `Wire` is what the mapping to each
protocol makes of the history, where a second entry under one id is dropped. `numbering`
is how a provider numbers its calls: fresh ids, the same ones in every reply, or none.
Endpoints are one: that all of them fail is `CallFails`.

## 4. Runs

The runs of payments instantiate `MCPaymentHolds`: two tasks, amounts 2, 3 and 1, a cap of 5. Two
tasks are enough for one to use budget the other set aside or gave back, three or four
connections for a proposal, two competing answers and one more task, two or three
transactions for a second transfer of one question and a third payment under the cap.
`MaxSteps` is the manifest's 2. `MaxConfig`, `MaxToggles`, `MaxRestarts` and `MaxFaults`
bound how often the environment acts; each is one where it is on, and one suffices to put
a change, a crash or a loss between any two steps. Connections and transactions are
symmetric, except in the liveness run. Deadlock is not checked: connections are
used up and the system stops.

| Run | Question | Result |
|---|---|---|
| `holds_patient` | Do two well-behaved tasks keep `WithinDayCap`, `ParkedIsReserved`, `NoOrphanHold`, `OneTransferPerQuestion`, `SealedStaysSealed`, and implement `DailyBudget`? | holds |
| `holds_races` | With answers racing through chat and dashboard, a shared payee, a rebuild, a toggle, a crash, a lost receipt or row: `PendingIffAwaiting`, `Consent`, `OneTransferPerYes` | holds |
| `holds_settle` | Does every hold end, or stay answerable, but for a loop stuck in a send? (`HoldSettles`; the client of `c1` stops reading) | holds |
| `refresh_cap` | A question asked again after a rebuild keeps its place in the budget | violated |
| `double_confirm` | Two confirmations of one question move money once | violated |
| `reconcile` | A restart keeps the holds of parked questions | violated |
| `audit_chain` | Does an orderly task verify but for a second that passed (`OrderlyVerifies`), with a seal and anchors that cover it (`SealCoversLog`), as `TaskLog` promises (`ImplementsLog`)? Does every log stay a tree (`RowsDescend`) of results used once (`LoggedOnce`), and a parked task open (`ParkedStaysOpen`)? | holds |
| `audit_batch` | A row is of an action and of its own result | violated |
| `x402` | What does the cap count (`BudgetHolds`) and what escapes it (`UncountedIsUnheard`)? `RateBound`, `HoldsMatchCalls`, `SuccessIsReal`, and where can a call wait for ever (`OnlyUntimedRequestsHang`)? | holds |
| `forge` | Does a "yes" install what its question showed (`InstallsWhatWasAgreed`, `QuestionTellsBuild`), without overwriting (`NeverOverwrites`), with a workspace that agrees (`CargoTomlAgrees`) and artifacts of what is installed (`ArtifactIsInstalled`), whatever names a Cargo.toml has? | holds |
| `session` | Has every open question a card (`QuestionHasCard`)? Does an asked task wait (`AskHoldsTurn`)? Which connection never ends (`OnlyNamedWaitsHang`), and does the client get its turn back (`TurnCloses`)? | holds |
| `conversation` | Does a streamed reply arrive as sent (`StreamFaithful`), does the history tell what ran (`RequestsTellTheTruth`), what runs twice (`ActionsRunOnce`), and does the loop end with an answer (`AnswersInTheEnd`)? | holds |

`Patient` and the zero bounds of `holds_patient` are not fairness or wishes: they are the
conditions under which the code keeps those promises, and the violation runs drop
one of them each: a rebuild (`refresh_cap`), patience (`double_confirm`), the crash
(`reconcile`).

`audit_chain` has an orderly task and another, of which one is started (`MaxStarted`): the
two share no row, so both at once would only multiply the states. Two connections per
task give every overlap of two handlers; two invocations per loop, alone or as a batch,
with any of a batch skipped, give a row, a successor and a wrong pairing. One second
(`MaxClock`) passes at most, between a signature and its row; one signature fails and one
crash happens at most. `OrderlyVerifies` states both directions: such a chain is
rejected exactly when a second passed while a result was signed, which is how
`verify_task_chain` treats the timestamp that `log_task_step` takes anew.

`x402`: two calls to one url suffice for an attempt too many (`RateMax` 1), for two
reservations that fit alone but not together, and for a shared hold; prices of 2, 3, 5 and
6 meet a day cap of 4 and a task cap of 5 from both sides, and -2 makes room for 5. One
event (`MaxEvents`: a crash, a failed INSERT, a failed log entry or count, or an edit of the
allowlist) can fall between any two steps.

`forge`: two tasks and two skills, `s1` and `s2`, which have two crate names or both that of
`s1` (`Common`). Four contents: one in order; one whose library is named after `s1` and whose
manifest differs and needs DLT; one whose package is; one without Cargo.toml. `Drafts` bounds
what a child may write: for `s1` the first, for `s2` all. One foreign name is
enough for an artifact that another skill overwrites, a build of another member, or a
workspace that does not load. Three events pay for two forge tasks and one of: an extra
build, a load, a crash; two writes let a task rewrite its own skill or the other's.
`Misnamed` is empty: a manifest that names another skill is refused by `Installable` like a
failed build.

`session`: two tasks and two chat sessions, for a card that another takes the place of; a
channel of capacity 1, because a loop blocks on a full channel at any capacity and a reply
has more than one event; two turns; two messages or answers and one time-out, hang, switch
or deletion (`MaxLeaves`). `once`, a skill of a batch and of a refused turn, may pay
(`Paying`). Three replies stand for the ways a turn ends: a question before a batch, a
refused action before a question, a payment.

`conversation`: six replies, one for each plan of a turn (a batch of two with a third action
left over, a question among actions, a last step, a payment that puts off a name asked for
again later, a delegation, plain items); two turns show what the second request says of the first. `MaxMingled` of 2 lets
the frames of two calls mingle freely and adds a third after them. A child loop takes two
turns at most, of 6 in the code, and changes nothing that the parent sees but its report.

**Exceptions.** A property that the code keeps only under a condition names the condition,
and each condition is needed: without it TLC finds the property violated. `BudgetHolds`
excepts a shared or stale hold, a negative price and a false report; `UncountedIsUnheard` a
row that could not be inserted, a `delivery_failed` and a false report; `RateBound` speaks
of attempts that were logged and let through by a count that could be read.
`CargoTomlAgrees` excepts the very lines that overlapping edits spoilt, and a workspace with
an installed source of another name, which stops every later build; `ArtifactIsInstalled` a
source whose `[lib]` name claims the crate, and a skill whose own Cargo.toml is not its
own (`Proper`); `QuestionTellsBuild` a foreign package name; they and the other forge
properties except overlapping steps. `QuestionHasCard` names the ways a card is lost;
`HoldSettles` a loop that waits to send to a client that left; `OnlyUntimedRequestsHang` the
facilitator and the mirror node; `OnlyNamedWaitsHang` the loop behind a full channel, the
skill and the mirror node that do not answer; `AnswersInTheEnd` a skill or send that does not
return; `ActionsRunOnce` and
`RequestsTellTheTruth` the second run of a batch's actions, `RequestsTellTheTruth` also the
names a payment put off (both are `Displaced`) and providers without ids of their own.

**Findings.** (1) A changed fingerprint releases the hold, asks again, and never reserves
again; the second "yes" is not compared with the cap (`refresh_cap`). (2) Two answers to one
question both transfer, since clearing the pending action does not say whether it was still
there (`double_confirm`). (3) Start-up reconciliation matches agent and amount, not the
payment key, and deletes the hold of an open question when anybody was paid the same amount
(`reconcile`). (4) A parallel batch announces all its actions before the first result, and
the handler remembers one action: the first result is logged as the output of the last
action, and the other invocations have no row (`audit_batch`). (5) After a batch its other
actions run a second time, and those it deferred run although the model is told they did not
(`conversation`, the exceptions of `ActionsRunOnce`). (6) A result goes under the id of the
first call of its name that is not yet recorded, which is another action's after a batch or
when a payment put that name off: the model reads the result of one call as that of another
(`conversation`, the exception `Displaced` in `PairsMatch`). (7) A batch that goes well
overrides a question asked earlier in the same reply: the question is parked and the loop
acts before the answer (`session`, the exception `reopened`). (8) When a model with tools
says nothing after a confirmed action, its result is dropped (`conversation`). (9)
`delivery_failed` is set where money may have moved, and no cap counts it (`x402`, the
exception in `UncountedIsUnheard`).

**Fairness.** Three waits have no limit in the code, and no fairness is assumed of them: the
facilitator's answer (`facilitator_client.rs` builds a client without timeout), a poll of the
mirror node (`reqwest::get` in `mirror.rs` has none, so the number of polls does not bound a
settlement watch), and `tx.send` on a full channel that nobody drains (after a write error
the handler stops draining and waits for the loop).

- `FairSpec` of `PaymentHolds`: weak fairness of every loop and handler, but of a connection
  in `Left` only in the places where it sends nothing. Tokio polls every ready task; model
  calls have client timeouts, and ledger calls the SDK's. Nothing in the code limits a
  guest (the runtime is configured without fuel or epochs), so the run assumes that
  `transfer.pay` ends. Nobody is assumed to answer a question, so `HoldSettles` allows a
  hold with a question pending, and a loop of `Left` that waits to send with that payment.
- `X402`: the daemon's own steps, and the exchanges of the shared client, which gives each ten
  seconds. Nothing is assumed of the facilitator (`Sign`), the mirror node (`Watch`) or of
  when a server submits a token.
- `Session`: some step of daemon or client happens when one can (weak fairness of the
  disjunction, less than per-task fairness), where a skill or watch in `hung` can not; the
  read timeout of a client that waits for what has hung; users and other time-outs need
  not come.
- `Conversation`: weak fairness of the loop's next step (`Step`), as a model call gives up
  after two minutes; `Hang` may take its place wherever the loop runs a skill or sends. The
  one endless loop, a rejection that can never be saved, is an exception of
  `AnswersInTheEnd`.

## 5. Proofs

Every theorem is for all values of the constants that the module's `ASSUME` admits; what a
theorem needs beyond that stands in its statement.

`DataLemmas` holds what several proofs need of the data: what a sum over a set does when an
element is added, removed or re-weighted; and, for the scripts and histories that
`FlattenSeq` puts together, that every place of a flattened sequence is a place of one part
(`FlattenParts`), in order (`FlattenOrder`), and that neighbours stay neighbours
(`PlacesFollow`). The induction these need over a length is a least counterexample
(`Least`).

`DailyBudget_proofs` proves `BudgetSpec => []BudgetRespected` for finite keys and
transactions and natural amounts: `BudgetTypeOK` and the cap together are inductive,
`Reserve` by its guard, `Settle` because the amount only changes sides.

`PaymentHolds_proofs` assumes `HoldsAssumption` (the constants have their types, the special
values are none of them). The first four theorems need nothing else: any number of tasks and
connections, no patience, all environment bounds.

- `TypeCorrect`, `PendingAgrees`. `TypeOK` is not inductive: a park writes `job[c]` into a
  row, which must then be a payment. `HoldsInv` adds `Located` (a connection at a given `pc`
  has a task, a payment, a transaction), `Asked` (a parked payment names its question) and
  `PendingIffAwaiting` itself.
- `NoTransferWithoutConsent`. `Consent` speaks about the ledger, so the "yes" must be
  followed from the row to the transfer. `ConsentInv` adds `Once` (a connection asks and
  answers at most once, so history only grows), `QuestionsNamed` (the row names the key its
  question showed) and `JobsAgreed` (a connection past the fingerprint check holds a payment
  that was agreed to). A resume copies row and reply together; the only step that alters a
  payment in hand is the refresh, and it leads to a new question.
- `YesCountsOnce`, with `Conns` even infinite. `OneTransferPerYes` counts transfers and
  answers, and `EveryCovered` adds to the transfers of a question the connections that may
  still pay for it: a "yes" adds one to each side, `Pay` turns such a connection into a
  transfer, all other steps are `Calm`. That a connection answers for the first time is
  `Once`.

The others are about clients that answer a question once and use one connection of a task at
a time (`Patient`). Their proofs share a classification of the steps (`StepKinds`): a loop's
own step touches only its task and its job, a resume or arrival enters a task that nobody
attends, and the rest leaves rows and jobs alone.

- `SealedNotReopened`, `QuestionPaidOnce`: `Patient`, with any crashes, rebuilds and lost
  receipts. `PatientInv` says that a task has one working connection (`Solo`), that a sealed
  task has none (`DoneLeft`), and that the row in hand of a resume is still the stored one
  (`RowsInHand`). `QuestionInv` then has `OnePlace`: a question is in one parked row, in one
  connection about to pay for it, or in one transfer, and never comes back.
- `HoldsAccounted`: `Patient`, no restart. `HeldInv`: each hold has a row that names it or a
  loop that holds it (`HeldFor`), although tasks may propose the same key.
- `ParkedAreReserved`: a `CarefulDay` (`Patient`, no restart, no rebuild, no two tasks
  propose the same payment) and no amounts written as strings. `CareInv` says who owns a
  key; that `release_hold` without a task never takes an owned one is `StraysAlone` and
  `StraysMiss`.
- `HoldsImplementBudget`, `DayCapHolds`: a `CarefulDay` on which no receipt or row is lost.
  Reserved is every hold whose money has not moved (`Waiting`), spent is what moved in the
  last day: `Propose` is `Reserve`, `Pay` is `Settle`, a denial or failure is `Cancel`, and
  `Commit` stutters, because the hold it drops had been used up at the transfer. `SentInv`
  connects the two: what moved has a row, or a loop at `record` that is about to write it.
  The cap then follows from the theorem on `DailyBudget`, instantiated.

The main conditions are needed, which is what the violation runs show: `refresh_cap` drops
the one on rebuilds, `double_confirm` patience, `reconcile` the one on restarts.

`AuditChain_proofs` assumes `AuditAssumption` only (types of the constants): any tasks,
connections and batch sizes, no orderly task needed.

- `AuditTyping`: `AuditTypeOK` is inductive because it says of a live handler that it has a
  task and, while it logs, a whole row, and of a loop that no more results are outstanding
  than it began.
- `Descent`: `RowsDescend` needs `LinksStored`, that a handler about to insert names the
  genesis or a stored row; rows are only appended, so it stays true while others insert.
- `ParkedNotSealed`: of all steps only `SealRow` makes a task done or writes its seal, and
  the condition of its UPDATE excludes a parked task, whatever `EndTask` saw before.
- `NothingLoggedTwice`: `OnceInv` follows an invocation from the loop through the queue into
  `last_action`, the row in hand and the table: it is in one of these places at a time, what
  was drained never comes again (`Passed`), and a loop's numbers only grow. Most steps are
  `Quiet`: a connection keeps what it holds, or closes and loses it. `SendNew` and
  `DrainNew` deal with what enters the queue and leaves it, `InsertOnce` with the row that
  is stored.

Its last three theorems are about the tasks in `Orderly`, whose clients read one connection
to its end before the next; the other tasks may interleave and break off as they like.

- `SealedLogIsWhole`: `WholeInv` says that at most one handler attends an orderly task, rows
  have the numbers of their places (so the greatest step is the last row), the hash in hand
  is still the last one, and a done task is attended only to be anchored.
- `LogImplemented`: `Spec` implements `TaskLog`. `InsertRow` appends, `SealRow` closes, all
  other steps stutter (`OthersStutter`).
- `OrderlyChainsVerify`: `LinkedInv` adds that step and previous hash were signed as they
  are inserted. A log may have any length, so the `CHOOSE` of `Expected` is resolved by
  `ExpectedPrev`.

`X402_proofs` assumes `X402Assumption` only: any calls, urls, keys, prices (also negative
ones), caps, allowlists. `X402Inv` is inductive as a whole; its parts that are no property
of a run are `Unsent` (no token leaves before the retry), `PassedOn` (who passed the limit
has logged and counted), `Alone` (two calls on one hold have been noted) and `RowsTell` (a
recent row exists, FAILED repeats the ledger, `delivery_failed` ends its call).

- `X402Typing`, `HoldsBelong`, `SuccessMoved`: one step per action.
- `RateLimited`: only `Count` enlarges the attempts that passed by a count, and to a subset of
  what it counted; a log entry of a call that has not counted enlarges nothing, and who
  passes because the log could not be read is in `unread` for good.
- `MovedIsCounted`: money that moved has a row unless one could not be inserted (a part of
  `RowsTell`), and `RowsTell` leaves only the row of a call that ended in `delivery_failed`
  outside the sum.
- `DayCapKept`: `BudgetHolds` is not inductive: it leaves every dead call out whose key has
  a hold, even where the hold is a later call's, and would count the row again when that
  hold goes. `Covered` says instead that there is a set of stranded calls, each with a hold
  of its own, such that the other rows and the holds fit the cap. `Quiet` steps leave the
  holds alone and add nothing to the sum; `Commit` moves one price from one side to the
  other; a restart strands the calls between row and commit, and each hold that
  reconciliation drops brings back at most the one row of the same key and price, for which
  `DataLemmas` compares sums along an injection.

`Forge_proofs` assumes `ForgeAssumption` only: any tasks, skills, contents, crate names and
number of events. `BasicInv` adds to the types who stands where: a task between `register`
and `verify` has its skill in place (`Placed`), and a parked one its question (`Posed`).

- `InstallsTheAgreed`, `NothingOverwritten`: `InstallInv`. From an approval's check of the
  staged manifest to the move, staging holds what was agreed, and before the move the place
  is free (`Fresh`), unless two tasks had the directory at once.
- `CargoTomlInStep`: `CargoInv`. The property speaks of the forge at rest; `Listed` says,
  line by line and but for the spoilt ones, whose step explains each difference between
  `members` and what is installed: a scratch crate is listed for a build that is under way,
  and a skill that is installed but not listed is being registered. That cargo then loads
  the workspace follows where every installed Cargo.toml is `Proper`.
- `ArtifactsAreInstalled`: `ArtifactInv`. Any build may write any artifact that its source
  names. `Pure`, of the skills that are `Sound` (`Proper`, with an unspoilt line): one that
  is live, or compiled and about to be, is a member, so no other member of its package name
  loads (`BuildIs` and `ArtifactKept` say what a build leaves there), and its artifact,
  its cached module and the load under way are of what is installed or of a source that
  names the crate as its library. It rests on `InstallInv`, by which an installed source
  never changes.
- `QuestionsTellBuilds`: `QuestionInv` says that a scratch directory has one task
  (`ScratchAlone`) and that what it copies, compiles and passes is the content noted for the
  question (`BuildsShown`), where its package name is the crate's and its line is unspoilt.

`Session_proofs` assumes `SessionAssumption` and `NoneAssumption`: any replies of any
length, any channel capacity, tasks and sessions. Its first lemmas are about the scripts,
whatever they were flattened from: a question is sent right before it is parked (`Turned`),
`done` comes last and ends the loop (`Plotted`), and a resume begins by clearing the old
question or asks anew and ends (`Renews`).

- `TypeCorrect`: it includes that a closed connection leaves no loop, event or watch behind.
- `QuestionsHaveCards`: `CardInv`. A question that is about to be parked has passed the
  channel or is in it, and the client that has read it shows it; `Followed` says so for each
  place the question can be in, `ViewShown` that the open view has the session's card.
- `AsksHoldTurns`: `TurnInv`. A loop that takes another turn asks nothing in this one, but
  for what a batch lets go on (`AsksLast`), and a question of an earlier turn leaves no
  skill to run, or is cleared before one runs (`Held`).

`Conversation_proofs` assumes `ConversationAssumption` and `TurnAssumption`: replies of any
length, any number of turns and mingled calls.

- `RepliesArrive`: `StreamInv`. Of every call that was sent the gathered chunk is what its
  frames so far make of it (`SoFar`), and the keys are gathered once each, in the order of
  their first frames (`KeysOrdered`). At the end of the stream nothing is due, so the calls
  read out are those sent.
- `RunsAreFew`: `RunInv`. A run of an action is one that the loop came to by itself or one
  of the batch, so there are two at most, and two only of the batch (`RunsCounted`).
- `RequestsAreTrue`: `ToldInv`. The history comes in pairs (`Paired`) under ids of their own
  (`IdsUnique`); the calls of this turn are of positions the loop came to or that a batch
  displaced (`CameTo`); and of an action that was run in its place the call is recorded
  (`RunsRecorded`), so that `Match`, which takes the first unrecorded call of the name,
  finds the action's own. What each action adds keeps this (`Addable`), and the mapping to a
  protocol keeps the pairs next to each other by `FlattenOrder` and `PlacesFollow`.

Model-checked only: the liveness properties `HoldSettles`,
`OnlyUntimedRequestsHang`, `OnlyNamedWaitsHang`, `TurnCloses` and `AnswersInTheEnd`, since fairness and ENABLED are
outside the prover's reach, and the violation runs. Every safety property of a passing run
is a theorem; those of `holds_patient` under the conditions stated, which the run also
meets.

## 6. Not modelled

Glob matching and the resolution of sandbox paths (text; in the plan); prompts, tool
definitions and presets of providers (lookup tables); token creation and minting, which are
parked like a payment but without hold or cap; the actions inside a delegated loop, which
may not pay; two connections on one task inside `Session`; the delay of a socket; the
the
workspace members the daemon is shipped with (a Cargo.toml that takes the name of one is refused
like a missing one, and a library that takes it overwrites an artifact as it does an installed
skill's); the instructions of guests, of which only their host calls matter, and their document and web
formatting (sequential); cryptography and key files, where a signature is an abstract
value; dashboard queries, which only read; the signed link between tasks, which no function
verifies; rendering in the client.
