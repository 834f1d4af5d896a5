------------------------------ MODULE Lifecycle ------------------------------
(***************************************************************************)
(* The status vocabularies of CodeValdWork and the two state machines the  *)
(* code declares over them (models.go).  Every component module that moves *)
(* a Task, a TaskTodo or a WorkflowRun takes its statuses and its          *)
(* transition checks from here.                                            *)
(***************************************************************************)

TaskStatus == {"pending", "in_progress", "completed", "failed", "cancelled",
               "blocked", "awaiting", "split"}

(* TaskStatus.CanTransitionTo, as the set of permitted <<from, to>> pairs. *)
TaskTransitions ==
       {"pending"}     \X {"in_progress", "cancelled", "blocked"}
  \cup {"blocked"}     \X {"pending", "cancelled", "awaiting"}
  \cup {"in_progress"} \X {"completed", "failed", "cancelled", "awaiting", "split"}
  \cup {"awaiting"}    \X {"in_progress", "blocked", "cancelled"}
  \cup {"failed"}      \X {"in_progress", "blocked", "cancelled"}
  \cup {"split"}       \X {"completed", "failed", "cancelled"}

TaskCanTransition(from, to) == <<from, to>> \in TaskTransitions

(* isTerminalStatus: "failed" counts, although direction may reopen it. *)
TerminalTask == {"completed", "failed", "cancelled"}

TodoStatus == {"pending", "blocked", "dispatched", "completed", "failed", "skipped"}

(* Terminal todo outcomes that let a dependent start. *)
TodoDone == {"completed", "skipped"}

RunStatus == {"pending", "in_progress", "completed", "failed", "rolled_back",
              "rolling_back", "rollback_failed", "cancelling", "cancelled",
              "paused"}

(* WorkflowRunStatus.CanTransitionTo, as a set of pairs. *)
RunTransitions ==
       {<<"pending", "in_progress">>}
  \cup {"in_progress"} \X {"completed", "failed", "paused", "cancelling"}
  \cup {"paused"} \X {"in_progress", "failed", "cancelling"}
  \cup {<<"cancelling", "cancelled">>}
  \cup {"failed", "completed", "cancelled", "rollback_failed"} \X {"rolling_back"}
  \cup {"rolling_back"} \X {"rolled_back", "rollback_failed"}

RunCanTransition(from, to) == <<from, to>> \in RunTransitions

(* WorkflowRunStatus.IsTerminal. *)
TerminalRun == {"completed", "failed", "rolled_back", "rollback_failed", "cancelled"}

=============================================================================
