----------------------------- MODULE MCSplitPlan -----------------------------
(* Instances of SplitPlan for TLC. *)
EXTENDS SplitPlan, TLC

CONSTANTS x, y, z

(* Two independent children and one that depends on the first. *)
ForkDependsOn == x :> {} @@ y :> {} @@ z :> {x}

Symmetry == Permutations(Worker)

=============================================================================
