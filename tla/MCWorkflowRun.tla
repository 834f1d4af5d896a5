---------------------------- MODULE MCWorkflowRun ----------------------------
(* Instances of WorkflowRun for TLC. *)
EXTENDS WorkflowRun, TLC

CONSTANTS t1, t2

(* The next failure of t1 is retried, and that of t2 is classified. *)
MCSpent == {t1 :> 0 @@ t2 :> MaxRecoveryRuns - 1}

(* A completion of t2 may be held by the write gate; or anything goes. *)
HeldOnce == t1 :> {"bare"} @@ t2 :> {"bare", "held"}
AnyDelivery == [t \in Task |-> {"bare", "direct", "held"}]

(* Workers are interchangeable. *)
Symmetry == Permutations(Worker)

=============================================================================
