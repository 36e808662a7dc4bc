----------------------------- MODULE DailyBudget -----------------------------
(***************************************************************************)
(* What the payment governance of the daemon promises, with nothing of how *)
(* it keeps the promise: money is spent only against a reservation, a      *)
(* reservation is granted only while it fits under the daily cap next to   *)
(* everything reserved and spent, and a reservation is used once.          *)
(*                                                                         *)
(* A payment key stands for one (agent, recipient, amount) triple; a       *)
(* transaction is one transfer on the Hedera ledger.                       *)
(***************************************************************************)
EXTENDS Totals

CONSTANTS
  Keys,        \* payment keys
  Txs,         \* transaction ids
  Amount,      \* what each key moves
  DayCap       \* governance.per_day_cap

VARIABLES
  reserved,    \* keys whose amount is set aside
  spent        \* transactions of the last 24 hours: a function from them to keys

budgetVars == <<reserved, spent>>

Reserved == Total(reserved, Amount)
Spent == Total(DOMAIN spent, [x \in DOMAIN spent |-> Amount[spent[x]]])

BudgetTypeOK ==
  /\ reserved \subseteq Keys
  /\ DOMAIN spent \subseteq Txs
  /\ spent \in [DOMAIN spent -> Keys]

BudgetInit == reserved = {} /\ spent = [x \in {} |-> x]

Reserve(k) ==
  /\ k \notin reserved
  /\ Spent + Reserved + Amount[k] <= DayCap
  /\ reserved' = reserved \cup {k}
  /\ UNCHANGED spent

\* A transfer of k becomes part of the day's spend and uses up its reservation.
Settle(k, x) ==
  /\ k \in reserved
  /\ x \notin DOMAIN spent
  /\ reserved' = reserved \ {k}
  /\ spent' = [y \in DOMAIN spent \cup {x} |-> IF y = x THEN k ELSE spent[y]]

Cancel(k) ==
  /\ k \in reserved
  /\ reserved' = reserved \ {k}
  /\ UNCHANGED spent

\* A transfer becomes older than 24 hours.
Expire(x) ==
  /\ x \in DOMAIN spent
  /\ spent' = [y \in DOMAIN spent \ {x} |-> spent[y]]
  /\ UNCHANGED reserved

BudgetNext ==
  \/ \E k \in Keys : Reserve(k) \/ Cancel(k)
  \/ \E k \in Keys, x \in Txs : Settle(k, x)
  \/ \E x \in Txs : Expire(x)

BudgetSpec == BudgetInit /\ [][BudgetNext]_budgetVars

(***************************************************************************)
(* The cap holds with every reservation counted as if already spent, so a  *)
(* reservation that is granted can always be used: what try_reserve_spend  *)
(* of db.rs keeps.                                                         *)
(***************************************************************************)
BudgetRespected == Spent + Reserved <= DayCap
=============================================================================
