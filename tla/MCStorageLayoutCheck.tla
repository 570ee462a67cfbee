-------------------------- MODULE MCStorageLayoutCheck --------------------------
(* A network, two contracts that may be deployed there, and two pull requests. *)
EXTENDS StorageLayoutCheck, TLC

CONSTANTS n1, p1, p2, c1, c2

Var(label) == [label |-> label, renamedFrom |-> ""]
Renamed(label, from) == [label |-> label, renamedFrom |-> from]

(* One variable, two ways to append a second, and an annotated rename. *)
MCLayouts == {<<Var("x")>>, <<Var("x"), Var("y")>>, <<Var("x"), Var("z")>>,
              <<Renamed("w", "x")>>}

MCSymmetry == Permutations({p1, p2}) \cup Permutations({c1, c2})
=============================================================================
