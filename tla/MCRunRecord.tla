----------------------------- MODULE MCRunRecord -----------------------------
(* Instances of RunRecord for TLC. *)
EXTENDS RunRecord, TLC

(* Ids, children and goroutines are interchangeable. *)
Symmetry == Permutations(Run) \cup Permutations(Child) \cup Permutations(Worker)

=============================================================================
