-------------------------------- MODULE X402 --------------------------------
(***************************************************************************)
(* Payments for web resources (x402): the host call host_x402_pay probes a *)
(* url, passes the payment rules of the agent, signs a transfer it does    *)
(* not submit, and hands the signed token to the resource server, which    *)
(* submits it and reports the settlement.  Nobody is asked.                *)
(*                                                                         *)
(* Calls run concurrently, one per task.  A step is one critical section   *)
(* of the connection mutex of db.rs with the reads that precede it, or one *)
(* await.  A call signs at most one transfer, so its transaction id is the *)
(* call itself.                                                            *)
(***************************************************************************)
EXTENDS Totals

CONSTANTS
  Calls,        \* invocations of host_x402_pay, and the transactions they sign
  Urls,         \* resources
  Keys,         \* payment keys: the agent, a pay_to and an amount
  Entries,      \* possible rows of payment_url_allowlist
  UrlOf,        \* the url each call asks for
  Offers,       \* the terms that a url's 402 answer may ask for
  Amount,       \* amount_hbar of each key; negative amounts parse too
  Unsignable,   \* keys whose amount is not a positive i64: they parse as f64 only
  Covers,       \* the urls that start with an entry
  TaskCap,      \* governance.per_task_cap
  DayCap,       \* governance.per_day_cap
  RateMax,      \* attempts to one url in an hour: 10 in the code
  MaxEvents,    \* bound: changes of the allowlist, crashes and failed statements together
  NoKey, NoCall

ASSUME X402Assumption ==
  /\ IsFiniteSet(Calls) /\ IsFiniteSet(Keys)
  /\ UrlOf \in [Calls -> Urls]
  /\ Offers \in [Urls -> SUBSET Keys]
  /\ Amount \in [Keys -> Int]
  /\ Unsignable \subseteq Keys
  /\ \A k \in Keys \ Unsignable : Amount[k] > 0
  /\ Covers \in [Entries -> SUBSET Urls]
  /\ TaskCap \in Nat /\ DayCap \in Nat /\ RateMax \in Nat
  /\ MaxEvents \in Nat
  /\ NoKey \notin Keys /\ NoCall \notin Calls

VARIABLES
  pc,         \* what each call does next
  key,        \* the terms it was offered
  claimed,    \* the transaction its server says it settled
  allow,      \* payment_url_allowlist
  logged,     \* payment_rate_log: the attempts of the last hour
  holds,      \* payment_holds: the keys that have a row
  rows,       \* payments: the status of each transaction's row
  recent,     \* the rows of the last 24 hours
  ledger,     \* what became of each token: unsent, held by the server, moved or rejected
  passed,     \* history: calls that the rate limit let through
  unread,     \* history: those it let through because the log could not be read
  odd,        \* history: the anomalies met so far
  crashed,    \* history: the daemon was restarted
  events

local == <<pc, key, claimed>>
tables == <<allow, logged, holds, rows, recent>>
history == <<passed, unread, odd, crashed>>
vars == <<local, tables, ledger, history, events>>

Ended == {"done", "failed", "dead"}
PCs == {"idle", "probe", "log", "count", "reserve", "sign", "commit", "retry",
        "await", "body", "paid"} \cup Ended
Statuses == {"none", "PENDING", "SUCCESS", "FAILED", "delivery_failed"}
Anomalies == {"shared", "stale", "negative", "lie", "unlogged", "unrecorded"}

\* Between its reservation and commit_spend_hold or release_spend_hold.
Reserving(c) == pc[c] \in {"sign", "commit"}

TypeOK ==
  /\ pc \in [Calls -> PCs]
  /\ key \in [Calls -> Keys \cup {NoKey}]
  /\ claimed \in [Calls -> Calls \cup {NoCall}]
  /\ allow \subseteq Entries
  /\ logged \subseteq Calls
  /\ holds \subseteq Keys
  /\ rows \in [Calls -> Statuses]
  /\ recent \subseteq Calls
  /\ ledger \in [Calls -> {"unsent", "held", "moved", "rejected"}]
  /\ passed \subseteq Calls /\ unread \subseteq Calls
  /\ odd \subseteq Anomalies
  /\ crashed \in BOOLEAN
  /\ events \in 0..MaxEvents
  /\ \A c \in Calls : pc[c] \notin {"idle", "probe"} \cup Ended => key[c] \in Keys

Init ==
  /\ pc = [c \in Calls |-> "idle"]
  /\ key = [c \in Calls |-> NoKey]
  /\ claimed = [c \in Calls |-> NoCall]
  /\ allow \in SUBSET Entries /\ logged = {} /\ holds = {}
  /\ rows = [c \in Calls |-> "none"]
  /\ recent = {}
  /\ ledger = [c \in Calls |-> "unsent"]
  /\ passed = {} /\ unread = {} /\ odd = {} /\ crashed = FALSE
  /\ events = 0

Goto(c, place) == pc' = [pc EXCEPT ![c] = place]

Event == events < MaxEvents /\ events' = events + 1

\* UPDATE payments SET status WHERE transaction_id: nothing without a row.
SetStatus(x, s) ==
  rows' = [c \in Calls |-> IF c = x /\ rows[c] # "none" THEN s ELSE rows[c]]

-----------------------------------------------------------------------------
(***************************************************************************)
(* The probe, and the rules of the agent.                                  *)
(***************************************************************************)
Begin(c) ==
  /\ pc[c] = "idle"
  /\ Goto(c, "probe")
  /\ UNCHANGED <<key, claimed, tables, ledger, history, events>>

\* do_fetch_with_402_detection: the url is free, or cannot be read.
ProbeEnds(c) ==
  /\ pc[c] = "probe"
  /\ Goto(c, "done")
  /\ UNCHANGED <<key, claimed, tables, ledger, history, events>>

\* Mutant: the terms of the answer are not kept.
AskUnknown(c) ==
  /\ pc[c] = "probe"
  /\ Goto(c, "log")
  /\ UNCHANGED <<key, claimed, tables, ledger, history, events>>

\* It found a hedera:testnet entry in the 402 answer.
ProbeAsks(c) ==
  /\ pc[c] = "probe"
  /\ \E k \in Offers[UrlOf[c]] : key' = [key EXCEPT ![c] = k]
  /\ Goto(c, "log")
  /\ UNCHANGED <<claimed, tables, ledger, history, events>>

\* log_url_payment_attempt: before any decision, and its failure is ignored.
Log(c) ==
  /\ pc[c] = "log"
  /\ Goto(c, "count")
  /\ \/ /\ logged' = logged \cup {c}
        /\ UNCHANGED <<odd, events>>
     \/ /\ Event
        /\ odd' = odd \cup {"unlogged"}
        /\ UNCHANGED logged
  /\ UNCHANGED <<key, claimed, allow, holds, rows, recent, ledger, passed, unread, crashed>>

\* count_recent_url_attempts
Attempts(u) == {c \in logged : UrlOf[c] = u}

\* Mutant: the count leaves the attempt just logged out.
CountOthers(c) ==
  /\ pc[c] = "count"
  /\ IF Cardinality(Attempts(UrlOf[c]) \ {c}) > RateMax
     THEN Goto(c, "done") /\ UNCHANGED passed
     ELSE Goto(c, "reserve") /\ passed' = passed \cup {c}
  /\ UNCHANGED <<key, claimed, tables, ledger, unread, odd, crashed, events>>

\* "unwrap_or(0)": a log that cannot be read lets the attempt through.
Count(c) ==
  /\ pc[c] = "count"
  /\ \/ /\ Cardinality(Attempts(UrlOf[c])) > RateMax
        /\ Goto(c, "done")
        /\ UNCHANGED <<passed, unread, events>>
     \/ /\ Cardinality(Attempts(UrlOf[c])) <= RateMax
        /\ Goto(c, "reserve")
        /\ passed' = passed \cup {c}
        /\ UNCHANGED <<unread, events>>
     \/ /\ Event
        /\ Goto(c, "reserve")
        /\ passed' = passed \cup {c}
        /\ unread' = unread \cup {c}
  /\ UNCHANGED <<key, claimed, tables, ledger, odd, crashed>>

\* is_url_allowlisted
Allowed(u) == \E e \in allow : u \in Covers[e]

Price(c) == IF key[c] \in Keys THEN Amount[key[c]] ELSE 0

\* Mutant: the committed spend as it was before x402 counted pending rows.
SettledOnly == {c \in recent : rows[c] = "SUCCESS"}

\* The rows of get_daily_committed_spend.
Committed == {c \in recent : rows[c] \in {"SUCCESS", "PENDING"}}

SumCalls(S) == Total(S, [c \in Calls |-> Price(c)])

\* get_daily_held_spend: a sum of positive and of negative holds.
Held == Total(holds, Amount) - Total(holds, [k \in Keys |-> -Amount[k]])

Fits(k) == SumCalls(Committed) + Held + Amount[k] <= DayCap

Owned(k) == \E d \in Calls : Reserving(d) /\ key[d] = k

\* try_reserve_spend: a hold that is there already answers for any caller.
Reserve(c) ==
  LET k == key[c] IN
  /\ pc[c] = "reserve"
  /\ Allowed(UrlOf[c])
  /\ Amount[k] <= TaskCap
  /\ k \in holds \/ Fits(k)
  /\ Goto(c, "sign")
  /\ holds' = holds \cup {k}
  /\ odd' = odd \cup {a \in Anomalies :
       \/ a = "shared" /\ Owned(k)
       \/ a = "stale" /\ k \in holds /\ ~Owned(k)
       \/ a = "negative" /\ Amount[k] < 0}
  /\ UNCHANGED <<key, claimed, allow, logged, rows, recent, ledger, passed, unread, crashed, events>>

Refuse(c) ==
  LET k == key[c] IN
  /\ pc[c] = "reserve"
  /\ \/ ~Allowed(UrlOf[c])
     \/ Amount[k] > TaskCap
     \/ k \notin holds /\ ~Fits(k)
  /\ Goto(c, "done")
  /\ UNCHANGED <<key, claimed, tables, ledger, history, events>>

-----------------------------------------------------------------------------
(***************************************************************************)
(* X402PaymentVault::pay: the facilitator names the fee payer, in a        *)
(* request with no timeout, and the transfer is signed and written down.   *)
(***************************************************************************)
\* build_payment_transaction
Signable(k) == k \notin Unsignable

Sign(c) ==
  /\ pc[c] = "sign"
  /\ Signable(key[c])
  /\ Goto(c, "commit")
  /\ \/ /\ rows' = [rows EXCEPT ![c] = "PENDING"]
        /\ recent' = recent \cup {c}
        /\ UNCHANGED <<odd, events>>
     \/ /\ Event
        /\ odd' = odd \cup {"unrecorded"}
        /\ UNCHANGED <<rows, recent>>
  /\ UNCHANGED <<key, claimed, allow, logged, holds, ledger, passed, unread, crashed>>

\* Mutant: an error of the vault returns with the hold in place.
SignFailsHolding(c) ==
  /\ pc[c] = "sign"
  /\ Goto(c, "done")
  /\ UNCHANGED <<key, claimed, tables, ledger, history, events>>

\* No vault, no fee payer, InvalidAmount, or an error of the facilitator.
SignFails(c) ==
  /\ pc[c] = "sign"
  /\ Goto(c, "done")
  /\ holds' = holds \ {key[c]}
  /\ UNCHANGED <<key, claimed, allow, logged, rows, recent, ledger, history, events>>

\* commit_spend_hold: from here the pending row stands for the money.
Commit(c) ==
  /\ pc[c] = "commit"
  /\ Goto(c, "retry")
  /\ holds' = holds \ {key[c]}
  /\ UNCHANGED <<key, claimed, allow, logged, rows, recent, ledger, history, events>>

-----------------------------------------------------------------------------
(***************************************************************************)
(* The second request carries the token.  A server that has it may submit  *)
(* it at any later time, whatever it answered.                             *)
(***************************************************************************)
Retry(c) ==
  /\ pc[c] = "retry"
  /\ Goto(c, "await")
  /\ \E arrived \in {"unsent", "held"} : ledger' = [ledger EXCEPT ![c] = arrived]
  /\ UNCHANGED <<key, claimed, tables, history, events>>

Submit(c) ==
  /\ ledger[c] = "held"
  /\ \E result \in {"moved", "rejected"} : ledger' = [ledger EXCEPT ![c] = result]
  /\ UNCHANGED <<local, tables, history, events>>

\* Mutant: a retry that fails is sent again, without end.
RetryAgain(c) ==
  /\ pc[c] = "await"
  /\ Goto(c, "retry")
  /\ UNCHANGED <<key, claimed, tables, ledger, history, events>>

\* A network error, the client's timeout, or an answer that is not 2xx.
RetryFails(c) ==
  /\ pc[c] = "await"
  /\ Goto(c, "failed")
  /\ SetStatus(c, "delivery_failed")
  /\ UNCHANGED <<key, claimed, allow, logged, holds, recent, ledger, history, events>>

Lie(told) == odd' = IF told THEN odd \cup {"lie"} ELSE odd

\* PAYMENT-RESPONSE names a transaction and success: it is authoritative.
Settled(c) ==
  /\ pc[c] = "await" /\ ledger[c] # "unsent"
  /\ Goto(c, "body")
  /\ \E x \in Calls \cup {NoCall} :
       /\ x \in Calls => ledger[x] # "unsent"
       /\ claimed' = [claimed EXCEPT ![c] = x]
       /\ rows' = [d \in Calls |-> CASE rows[d] # "none" /\ d = x -> "SUCCESS"
                                     [] rows[d] # "none" /\ d = c /\ x # c -> "delivery_failed"
                                     [] OTHER -> rows[d]]
       /\ Lie(x # c \/ ledger[c] # "moved")
  /\ UNCHANGED <<key, allow, logged, holds, recent, ledger, passed, unread, crashed, events>>

\* PAYMENT-RESPONSE says the settlement failed.
Unsettled(c) ==
  /\ pc[c] = "await" /\ ledger[c] # "unsent"
  /\ Goto(c, "body")
  /\ claimed' = [claimed EXCEPT ![c] = c]
  /\ SetStatus(c, "FAILED")
  /\ Lie(ledger[c] # "rejected")
  /\ UNCHANGED <<key, allow, logged, holds, recent, ledger, passed, unread, crashed, events>>

\* Mutant: an answer without the header is taken for success.
TrustSilence(c) ==
  /\ pc[c] = "await" /\ ledger[c] # "unsent"
  /\ Goto(c, "body")
  /\ claimed' = [claimed EXCEPT ![c] = c]
  /\ SetStatus(c, "SUCCESS")
  /\ UNCHANGED <<key, allow, logged, holds, recent, ledger, history, events>>

\* Mutant: such an answer is taken for a failed delivery.
DoubtSilence(c) ==
  /\ pc[c] = "await" /\ ledger[c] # "unsent"
  /\ Goto(c, "body")
  /\ claimed' = [claimed EXCEPT ![c] = c]
  /\ SetStatus(c, "delivery_failed")
  /\ UNCHANGED <<key, allow, logged, holds, recent, ledger, history, events>>

\* No PAYMENT-RESPONSE header, or one that cannot be read: the row stays PENDING.
Unconfirmed(c) ==
  /\ pc[c] = "await" /\ ledger[c] # "unsent"
  /\ Goto(c, "body")
  /\ claimed' = [claimed EXCEPT ![c] = c]
  /\ UNCHANGED <<key, tables, ledger, history, events>>

Body(c) ==
  /\ pc[c] = "body"
  /\ Goto(c, "paid")
  /\ UNCHANGED <<key, claimed, tables, ledger, history, events>>

\* The connection breaks in the body: the row is relabelled even after SUCCESS.
BodyLost(c) ==
  /\ pc[c] = "body"
  /\ Goto(c, "failed")
  /\ SetStatus(c, "delivery_failed")
  /\ UNCHANGED <<key, claimed, allow, logged, holds, recent, ledger, history, events>>

-----------------------------------------------------------------------------
(***************************************************************************)
(* spawn_payment_settlement_watch: the loop saw a transaction_id and no    *)
(* error, and polls the mirror node for what the server claimed.           *)
(***************************************************************************)
Indexed(x) == x \in Calls /\ ledger[x] \in {"moved", "rejected"}

WatchFinds(c) ==
  /\ pc[c] = "paid"
  /\ Indexed(claimed[c])
  /\ Goto(c, "done")
  /\ SetStatus(claimed[c], IF ledger[claimed[c]] = "moved" THEN "SUCCESS" ELSE "FAILED")
  /\ UNCHANGED <<key, claimed, allow, logged, holds, recent, ledger, history, events>>

\* PAYMENT_SETTLEMENT_MAX_POLLS polls were answered, and found nothing.  Nothing
\* ends a poll that is not answered: reqwest::get has no timeout.
WatchGivesUp(c) ==
  /\ pc[c] = "paid"
  /\ Goto(c, "done")
  /\ UNCHANGED <<key, claimed, tables, ledger, history, events>>

-----------------------------------------------------------------------------
\* mutate_url_allowlist_entry: "add" of what is there and "remove" of what is
\* not there change nothing.
Edited(e) == IF e \in allow THEN allow \ {e} ELSE allow \cup {e}

\* handle_mutate_url_allowlist, or the command line.
EditAllowlist(e) ==
  /\ Event
  /\ allow' = Edited(e)
  /\ UNCHANGED <<local, logged, holds, rows, recent, ledger, history>>

LeaveHour(c) ==
  /\ c \in logged /\ pc[c] # "count"
  /\ logged' = logged \ {c}
  /\ UNCHANGED <<local, allow, holds, rows, recent, ledger, history, events>>

LeaveDay(c) ==
  /\ c \in recent /\ pc[c] \in Ended
  /\ recent' = recent \ {c}
  /\ UNCHANGED <<local, allow, logged, holds, rows, ledger, history, events>>

\* A crash drops every call and watch; reconcile_stale_holds drops the holds
\* whose amount some SUCCESS row has.
Restart ==
  /\ Event
  /\ crashed' = TRUE
  /\ pc' = [c \in Calls |-> CASE pc[c] \in {"idle"} \cup Ended -> pc[c]
                              [] pc[c] = "paid" -> "done"
                              [] OTHER -> "dead"]
  /\ holds' = {k \in holds : \A c \in Calls :
                 ~(rows[c] = "SUCCESS" /\ Price(c) = Amount[k])}
  /\ UNCHANGED <<key, claimed, allow, logged, rows, recent, ledger, passed, unread, odd>>

Rules(c) == Begin(c) \/ ProbeEnds(c) \/ ProbeAsks(c) \/ Log(c) \/ Count(c) \/ Reserve(c) \/ Refuse(c)
Vault(c) == Sign(c) \/ SignFails(c) \/ Commit(c)
Exchange(c) == \/ Retry(c) \/ RetryFails(c) \/ Settled(c) \/ Unsettled(c) \/ Unconfirmed(c)
               \/ Body(c) \/ BodyLost(c)
Watch(c) == WatchFinds(c) \/ WatchGivesUp(c)

Next ==
  \/ \E c \in Calls : \/ Rules(c) \/ Vault(c) \/ Exchange(c) \/ Watch(c)
                      \/ Submit(c) \/ LeaveHour(c) \/ LeaveDay(c)
  \/ \E e \in Entries : EditAllowlist(e)
  \/ Restart

(***************************************************************************)
(* The daemon's own steps happen, and the shared client gives every        *)
(* exchange with the resource server ten seconds.  Nothing is assumed of   *)
(* the two requests that have no timeout, the facilitator's in Sign and    *)
(* the mirror node's in Watch, nor of when a server submits a token.       *)
(***************************************************************************)
Fairness == \A c \in Calls :
  /\ WF_vars(ProbeEnds(c) \/ ProbeAsks(c))
  /\ WF_vars(Log(c)) /\ WF_vars(Count(c)) /\ WF_vars(Reserve(c) \/ Refuse(c))
  /\ WF_vars(Commit(c)) /\ WF_vars(Retry(c))
  /\ WF_vars(RetryFails(c) \/ Settled(c) \/ Unsettled(c) \/ Unconfirmed(c))
  /\ WF_vars(Body(c) \/ BodyLost(c))

Spec == Init /\ [][Next]_vars /\ Fairness

-----------------------------------------------------------------------------
\* The calls whose row stands next to the hold it replaces.
Twice == {c \in Calls : pc[c] \in {"commit", "dead"} /\ key[c] \in holds}

(***************************************************************************)
(* The day's cap bounds what is recorded and reserved (try_reserve_spend   *)
(* over concurrent calls, with a row that replaces its hold in two steps), *)
(* unless two calls used one hold, a call used one left by a crash, a      *)
(* server asked for a negative amount, or a server's report was untrue.    *)
(***************************************************************************)
BudgetHolds ==
  odd \cap {"shared", "stale", "negative", "lie"} = {} =>
    SumCalls({c \in recent \ Twice : rows[c] \in {"SUCCESS", "PENDING"}}) + Held <= DayCap

(***************************************************************************)
(* All money that moved is counted by the cap for a day, whatever the      *)
(* server answered and in whatever order, except in three cases: no row    *)
(* was written, and the token was sent all the same (insert_payment's      *)
(* error is a warning); the call ended with delivery_failed (the comment   *)
(* of get_daily_committed_spend says such a transfer never moved, but the  *)
(* server may have submitted it, and even reported it, before the exchange *)
(* broke); or a server's report was untrue.                                *)
(***************************************************************************)
Aged(c) == rows[c] # "none" /\ c \notin recent

Unrecorded(c) == rows[c] = "none" /\ "unrecorded" \in odd

UncountedIsUnheard ==
  \A c \in Calls : ledger[c] = "moved" =>
    \/ c \in Committed \/ Aged(c)
    \/ Unrecorded(c) \/ pc[c] = "failed" \/ "lie" \in odd

(***************************************************************************)
(* No more than RateMax attempts of one hour at one url pass the limit,    *)
(* although each call logs in one critical section and counts in another   *)
(* (log_url_payment_attempt, count_recent_url_attempts): an attempt that   *)
(* was logged has counted itself.  Besides these pass the attempts whose   *)
(* own log entry failed, which nobody can count, and those whose count     *)
(* failed (unread): both errors let the call go on.                        *)
(***************************************************************************)
RateBound ==
  \A u \in Urls : Cardinality((Attempts(u) \cap passed) \ unread) <= RateMax

(***************************************************************************)
(* A hold belongs to a call between its reservation and its commit or      *)
(* release, and such a call has its hold, however the vault answers: none  *)
(* of its errors leaks a hold.  Two calls on one hold break the second     *)
(* half, a crash the first.  (An error of the DELETE itself is not         *)
(* modelled: the code ignores it.)                                         *)
(***************************************************************************)
HoldsMatchCalls ==
  /\ ~crashed => \A k \in holds : \E c \in Calls : Reserving(c) /\ key[c] = k
  /\ "shared" \notin odd => \A c \in Calls : Reserving(c) => key[c] \in holds

(***************************************************************************)
(* A payment the daemon calls SUCCESS moved on the ledger, if no server    *)
(* reported what did not happen: a missing PAYMENT-RESPONSE proves nothing.*)
(***************************************************************************)
SuccessIsReal ==
  "lie" \notin odd => \A c \in Calls : rows[c] = "SUCCESS" => ledger[c] = "moved"

(***************************************************************************)
(* A call and its watch end, unless they wait for one of the two servers   *)
(* whose requests have no timeout: the facilitator, with the call's hold   *)
(* in place (facilitator_client builds a client of its own), or the mirror *)
(* node (poll_until_final counts its polls, but not how long one takes).   *)
(***************************************************************************)
OnlyUntimedRequestsHang ==
  \A c \in Calls : (pc[c] # "idle") ~> (pc[c] \in Ended \cup {"sign", "paid"})
=============================================================================
