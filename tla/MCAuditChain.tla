----------------------------- MODULE MCAuditChain -----------------------------
(***************************************************************************)
(* Small instances of AuditChain: an orderly task and one that is not, and *)
(* a batch of two actions.                                                 *)
(***************************************************************************)
EXTENDS AuditChain, TLC

Symm == Permutations(Conns)
=============================================================================
