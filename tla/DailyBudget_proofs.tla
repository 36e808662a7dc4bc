-------------------------- MODULE DailyBudget_proofs --------------------------
(***************************************************************************)
(* The abstract budget keeps its promise for any amounts and any cap.      *)
(***************************************************************************)
EXTENDS DailyBudget, DataLemmas

\* The finite sets and natural amounts that the sums need.
BudgetConstants ==
  /\ IsFiniteSet(Keys) /\ IsFiniteSet(Txs)
  /\ Amount \in [Keys -> Nat]
  /\ DayCap \in Nat

\* What the transactions of the day moved, as a function of the transaction.
MovedBy(f) == [x \in DOMAIN f |-> Amount[f[x]]]

\* Everything reserved and spent has a natural amount, and there is finitely much of it.
LEMMA BudgetFinite ==
  ASSUME BudgetConstants, BudgetTypeOK
  PROVE  /\ IsFiniteSet(reserved) /\ IsFiniteSet(DOMAIN spent)
         /\ \A k \in reserved : Amount[k] \in Nat
         /\ \A x \in DOMAIN spent : MovedBy(spent)[x] \in Nat
         /\ Spent \in Nat /\ Reserved \in Nat
<1>1. IsFiniteSet(reserved) /\ IsFiniteSet(DOMAIN spent)
  BY FS_Subset DEF BudgetConstants, BudgetTypeOK
<1>2. \A k \in reserved : Amount[k] \in Nat
  BY DEF BudgetConstants, BudgetTypeOK
<1>3. \A x \in DOMAIN spent : MovedBy(spent)[x] \in Nat
  BY DEF BudgetConstants, BudgetTypeOK, MovedBy
<1>4. Reserved \in Nat
  BY <1>1, <1>2, TotalIsNat DEF Reserved
<1>5. Spent \in Nat
  BY <1>1, <1>3, TotalIsNat DEF Spent, MovedBy
<1> QED BY <1>1, <1>2, <1>3, <1>4, <1>5

\* A reservation given back leaves its amount free.
LEMMA CancelFrees ==
  ASSUME BudgetConstants, BudgetTypeOK, NEW k \in reserved
  PROVE  Total(reserved \ {k}, Amount) = Reserved - Amount[k]
<1>1. Total(reserved, Amount) = Total(reserved \ {k}, Amount) + Amount[k]
  BY BudgetFinite, TotalRemove
<1>2. Total(reserved \ {k}, Amount) \in Nat
  BY BudgetFinite, FS_RemoveElement, TotalIsNat
<1> QED BY <1>1, <1>2, BudgetFinite DEF Reserved

\* The budget holds keys, and a key for every transaction of the day.
THEOREM BudgetTypeInvariant == BudgetSpec => []BudgetTypeOK
<1>1. BudgetInit => BudgetTypeOK
  BY DEF BudgetInit, BudgetTypeOK
<1>2. BudgetTypeOK /\ [BudgetNext]_budgetVars => BudgetTypeOK'
  <2> SUFFICES ASSUME BudgetTypeOK, [BudgetNext]_budgetVars PROVE BudgetTypeOK'
    OBVIOUS
  <2>1. ASSUME NEW k \in Keys, Reserve(k) PROVE BudgetTypeOK'
    BY <2>1 DEF Reserve, BudgetTypeOK
  <2>2. ASSUME NEW k \in Keys, Cancel(k) PROVE BudgetTypeOK'
    BY <2>2 DEF Cancel, BudgetTypeOK
  <2>3. ASSUME NEW k \in Keys, NEW x \in Txs, Settle(k, x) PROVE BudgetTypeOK'
    BY <2>3 DEF Settle, BudgetTypeOK
  <2>4. ASSUME NEW x \in Txs, Expire(x) PROVE BudgetTypeOK'
    BY <2>4 DEF Expire, BudgetTypeOK
  <2>5. CASE UNCHANGED budgetVars
    BY <2>5 DEF budgetVars, BudgetTypeOK
  <2> QED BY <2>1, <2>2, <2>3, <2>4, <2>5 DEF BudgetNext
<1> QED BY <1>1, <1>2, PTL DEF BudgetSpec

\* The cap is never exceeded by what is spent and reserved, one action at a time.
LEMMA BudgetStep ==
  ASSUME BudgetConstants, BudgetTypeOK, BudgetTypeOK', BudgetRespected,
         [BudgetNext]_budgetVars
  PROVE  BudgetRespected'
<1> DEFINE moved == MovedBy(spent)
<1>n. DayCap \in Nat /\ Spent \in Nat /\ Reserved \in Nat
  BY BudgetFinite DEF BudgetConstants
<1>1. ASSUME NEW k \in Keys, Reserve(k) PROVE BudgetRespected'
  <2>1. Reserved' = Reserved + Amount[k]
    BY <1>1, BudgetFinite, TotalAdd DEF Reserve, Reserved, BudgetConstants
  <2>2. Spent' = Spent
    BY <1>1 DEF Reserve, Spent
  <2> QED BY <1>1, <1>n, <2>1, <2>2 DEF Reserve, BudgetRespected, BudgetConstants
<1>2. ASSUME NEW k \in Keys, Cancel(k) PROVE BudgetRespected'
  <2>1. Reserved' = Reserved - Amount[k]
    BY <1>2, CancelFrees DEF Cancel, Reserved
  <2>2. Spent' = Spent
    BY <1>2 DEF Cancel, Spent
  <2>3. Amount[k] \in Nat
    BY DEF BudgetConstants
  <2> QED BY <1>n, <2>1, <2>2, <2>3 DEF BudgetRespected
<1>3. ASSUME NEW k \in Keys, NEW x \in Txs, Settle(k, x) PROVE BudgetRespected'
  <2> DEFINE after == MovedBy(spent')
  <2>1. Reserved' = Reserved - Amount[k]
    BY <1>3, CancelFrees DEF Settle, Reserved
  <2>2. DOMAIN spent' = DOMAIN spent \cup {x} /\ x \notin DOMAIN spent
    BY <1>3 DEF Settle
  <2>3. after[x] = Amount[k] /\ \A y \in DOMAIN spent : after[y] = moved[y]
    BY <1>3 DEF Settle, MovedBy
  <2>4. Amount[k] \in Nat
    BY DEF BudgetConstants
  <2>5. IsFiniteSet(DOMAIN spent) /\ \A y \in DOMAIN spent : after[y] \in Nat
    BY <2>3, BudgetFinite
  <2>6. Total(DOMAIN spent \cup {x}, after) = Total(DOMAIN spent, after) + Amount[k]
    BY <2>2, <2>3, <2>4, <2>5, TotalAdd
  <2>7. Total(DOMAIN spent, after) = Spent
    BY <2>3, TotalSame DEF Spent, MovedBy
  <2>8. Spent' = Spent + Amount[k]
    BY <2>2, <2>6, <2>7 DEF Spent, MovedBy
  <2> QED BY <1>n, <2>1, <2>4, <2>8 DEF BudgetRespected
<1>4. ASSUME NEW x \in Txs, Expire(x) PROVE BudgetRespected'
  <2> DEFINE after == MovedBy(spent')
  <2>1. Reserved' = Reserved
    BY <1>4 DEF Expire, Reserved
  <2>2. DOMAIN spent' = DOMAIN spent \ {x}
    BY <1>4 DEF Expire
  <2>3. \A y \in DOMAIN spent \ {x} : after[y] = moved[y]
    BY <1>4 DEF Expire, MovedBy
  <2>4. Spent' = Total(DOMAIN spent \ {x}, moved)
    BY <2>2, <2>3, TotalSame DEF Spent, MovedBy
  <2>5. Spent' <= Spent
    BY <2>4, BudgetFinite, TotalMonotone DEF Spent, MovedBy
  <2>6. Spent' \in Nat
    BY <2>4, BudgetFinite, FS_RemoveElement, TotalIsNat
  <2>7. \A less, all, held, cap \in Nat :
          less <= all /\ all + held <= cap => less + held <= cap
    OBVIOUS
  <2>8. Spent' + Reserved <= DayCap
    BY <1>n, <2>5, <2>6, <2>7 DEF BudgetRespected
  <2> QED BY <2>1, <2>8 DEF BudgetRespected
<1>5. CASE UNCHANGED budgetVars
  BY <1>5 DEF budgetVars, BudgetRespected, Spent, Reserved
<1> QED BY <1>1, <1>2, <1>3, <1>4, <1>5 DEF BudgetNext

\* try_reserve_spend's promise: spending and reservations together stay under the
\* cap, for every cap, every amount and any number of keys and transactions.
THEOREM BudgetIsRespected ==
  ASSUME BudgetConstants
  PROVE  BudgetSpec => []BudgetRespected
<1>1. BudgetInit => BudgetRespected
  <2> SUFFICES ASSUME BudgetInit PROVE BudgetRespected
    OBVIOUS
  <2>1. Reserved = 0 /\ Spent = 0
    BY TotalEmpty DEF BudgetInit, Reserved, Spent
  <2> QED BY <2>1 DEF BudgetRespected, BudgetConstants
<1>2. BudgetTypeOK /\ BudgetTypeOK' /\ BudgetRespected /\ [BudgetNext]_budgetVars
        => BudgetRespected'
  BY BudgetStep
<1> QED BY <1>1, <1>2, BudgetTypeInvariant, PTL DEF BudgetSpec
=============================================================================
