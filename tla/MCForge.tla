------------------------------ MODULE MCForge ------------------------------
(***************************************************************************)
(* Two tasks forge two skills, of two crate names or both of the crate s1. *)
(* One content is a crate of its directory's name, one names its library   *)
(* after s1, one its package, and one has no Cargo.toml; the second needs  *)
(* DLT.  The skill s1 itself is only drafted in order.                     *)
(***************************************************************************)
EXTENDS Forge, TLC

CONSTANTS a, f, p, b, m1, m2, s1, s2

MCDrafts == {<<s1, a>>, <<s2, a>>, <<s2, f>>, <<s2, p>>, <<s2, b>>}
MCMan == a :> m1 @@ f :> m2 @@ p :> m1 @@ b :> m1
MCPkg == a :> Own @@ f :> Own @@ p :> s1 @@ b :> None
MCLib == a :> Own @@ f :> s1 @@ p :> Own @@ b :> Own

Symm == Permutations(Tasks)
=============================================================================
