------------------------------- MODULE Totals -------------------------------
(***************************************************************************)
(* SUM(amount_hbar) over a set of rows, without recursion: the number of   *)
(* pairs of a row and one of its units.  Amounts are whole tinybars.       *)
(***************************************************************************)
EXTENDS Integers, FiniteSets

Units(x, n) == {x} \X (1..n)

Total(S, w) == Cardinality(UNION {Units(x, w[x]) : x \in S})
=============================================================================
