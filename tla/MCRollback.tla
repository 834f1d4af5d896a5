----------------------------- MODULE MCRollback -----------------------------
(* Instances of Rollback for TLC. *)
EXTENDS Rollback, TLC

CONSTANTS a, b, x, y, z, d

(* Task y of run b depends on task x of run a, which has a todo and a    *)
(* second task, z.                                                         *)
CrossDependsOn == x :> {} @@ y :> {x} @@ z :> {x}
CrossOwner == x :> a @@ y :> b @@ z :> a
CrossTodoRun == d :> a

=============================================================================
