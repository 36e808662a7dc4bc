--------------------------- MODULE MCPaymentHolds ---------------------------
(***************************************************************************)
(* Small instances of PaymentHolds: two tasks, amounts 2, 3 and 1, and a   *)
(* cap of 5, which the first two reach together and no three payments fit. *)
(***************************************************************************)
EXTENDS PaymentHolds, TLC

CONSTANTS t1, t2, k1, k2, k3

MCAmount == [k \in Keys |-> CASE k = k1 -> 2 [] k = k2 -> 3 [] k = k3 -> 1]

OneAmount == [k \in Keys |-> 2]

\* Each task has payees of its own; one of them is paid without a question.
Distinct == (t1 :> {k1, k3} @@ t2 :> {k2})
Mixed == (t1 :> {k1} @@ t2 :> {k3})

\* Both tasks may pay one payee the same amount.
Shared == [t \in Tasks |-> {k1}]

Symm == Permutations(Conns) \cup Permutations(Txs)
=============================================================================
