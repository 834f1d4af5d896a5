-------------------------- MODULE MCTaskAssignment --------------------------
(* Instances of TaskAssignment for TLC. *)
EXTENDS TaskAssignment, TLC

CONSTANTS t1, t2, t3

(* t3 waits for t1 and t2; t2 is blocked by t1. *)
JoinDeps == t1 :> {} @@ t2 :> {} @@ t3 :> {t1, t2}
JoinBlocks == t1 :> {} @@ t2 :> {t1} @@ t3 :> {}

(* Each task is assigned once. *)
Once == [t \in Task |-> 1]

=============================================================================
