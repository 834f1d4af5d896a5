---------------------------- MODULE TaskAssignment ----------------------------
(***************************************************************************)
(* Assigning tasks and releasing the ones that wait for others: AssignTask *)
(* and UnassignTask (assignment.go), UnblockDependents                     *)
(* (assignment_unblock.go), and the UpdateTask of task_impl_task.go that   *)
(* an agent's reports and an operator's cancellation go through.           *)
(*                                                                         *)
(* Each RPC and each event has a goroutine (a Worker), each storage call   *)
(* is a step, and a write puts back the whole record its caller read.      *)
(***************************************************************************)
EXTENDS Naturals, FiniteSets, Lifecycle, Goroutines

CONSTANTS
  Task, Run,
  NoTask, NoRun,
  DependsOn,     \* depends_on edges: the tasks a task waits for
  BlockedBy,     \* blocks edges, inbound: the tasks that block a task
  MaxAssign,     \* bound on AssignTask calls for each task
  MaxOperator    \* bound on UnassignTask and cancelling UpdateTask calls

ASSUME NoTaskAssumption == NoTask \notin Task
ASSUME NoRunAssumption == NoRun \notin Run
ASSUME EdgeAssumption ==
  DependsOn \in [Task -> SUBSET Task] /\ BlockedBy \in [Task -> SUBSET Task]

VARIABLES
  status,    \* of each task
  run,       \* workflow_run_id of each task
  assignee,  \* assigned_to edges of each task, named by the call that made it
  reports,   \* per task and status, agent events on their way
  landed,    \* per task and status, task.completed events of UpdateTask
  assigns, operator,  \* calls so far
  everTerminal, sent, held  \* history, read by properties only

vars == <<status, run, assignee, reports, landed, worker, assigns, operator,
          everTerminal, sent, held>>
tasks == <<status, run, everTerminal>>
calls == <<assigns, operator>>

Report == {"in_progress", "completed"}
Edge == UNION {1..MaxAssign[t] : t \in Task}
Dependents(t) == {u \in Task : t \in DependsOn[u]}

Idle == [pc |-> "idle", task |-> NoTask, to |-> "pending", asRun |-> NoRun,
         was |-> "pending", own |-> {}, edge |-> {}, left |-> {}, todo |-> {},
         unmet |-> FALSE, then |-> "stop"]

PC == {"idle", "readForRun", "writeRun", "listEdges", "deleteEdges", "createEdge",
       "readDeps", "readForStatus", "writeStatus", "dependents", "readDepsAgain",
       "readAssignee", "readTask", "checkTask", "readBlockers", "writeTask"}

TypeOK ==
  /\ status \in [Task -> TaskStatus]
  /\ run \in [Task -> Run \cup {NoRun}]
  /\ assignee \in [Task -> SUBSET Edge]
  /\ reports \in [Task \X Report -> Nat]
  /\ landed \in [Task \X TerminalTask -> Nat]
  /\ \A w \in Worker :
       /\ worker[w].pc \in PC
       /\ worker[w].task \in Task \cup {NoTask}
       /\ {worker[w].to, worker[w].was} \subseteq TaskStatus
       /\ worker[w].asRun \in Run \cup {NoRun}
       /\ worker[w].own \cup worker[w].edge \subseteq Edge
       /\ worker[w].left \cup worker[w].todo \subseteq Task
       /\ worker[w].unmet \in BOOLEAN
  /\ \A t \in Task : assigns[t] \in 0..MaxAssign[t]
  /\ operator \in 0..MaxOperator
  /\ everTerminal \subseteq Task /\ held \subseteq Task
  /\ sent \in [Task -> Nat]

(* Freshly created tasks (CreateTask), with their edges. *)
Init ==
  /\ status = [t \in Task |-> "pending"]
  /\ run = [t \in Task |-> NoRun]
  /\ assignee = [t \in Task |-> {}]
  /\ reports = [e \in Task \X Report |-> 0]
  /\ landed = [e \in Task \X TerminalTask |-> 0]
  /\ worker = [w \in Worker |-> Idle]
  /\ assigns = [t \in Task |-> 0] /\ operator = 0
  /\ everTerminal = {} /\ held = {}
  /\ sent = [t \in Task |-> 0]

-----------------------------------------------------------------------------
(* Shared pieces.                                                          *)


SetTask(t, s, r) ==
  /\ status' = [status EXCEPT ![t] = s]
  /\ run' = [run EXCEPT ![t] = r]
  /\ everTerminal' = IF s \in TerminalTask THEN everTerminal \cup {t} ELSE everTerminal

(* Publish task.assigned: an agent that will report a start and its end.   *)
Publish(t) ==
  /\ reports' = [e \in Task \X Report |-> IF e[1] = t THEN reports[e] + 1 ELSE reports[e]]
  /\ sent' = [sent EXCEPT ![t] = @ + 1]

(* A dependency still counts as unmet.                                     *)
(* Mutant: one that was started is good enough.                            *)
NotStarted(s) == s \in {"pending", "blocked"}
Unmet(s) == s \notin TerminalTask

-----------------------------------------------------------------------------
(* AssignTask.                                                             *)

(* GetTask, GetAgent and the chain-through rule: a task of another run is  *)
(* refused, a task without a run is given this one.                        *)
AssignTask(w, t, r) ==
  LET n == assigns[t] + 1 IN
  /\ At(w, "idle")
  /\ n <= MaxAssign[t]
  /\ assigns' = [assigns EXCEPT ![t] = n]
  /\ Become(w,
       IF r # NoRun /\ run[t] \notin {r, NoRun} THEN Idle
       ELSE [Idle EXCEPT !.pc = IF r # NoRun /\ run[t] = NoRun THEN "readForRun"
                                ELSE "listEdges",
                         !.task = t, !.to = "blocked", !.was = status[t],
                         !.asRun = r, !.own = {n}, !.then = "assign"])
  /\ UNCHANGED <<tasks, assignee, reports, landed, operator, sent, held>>

(* setTaskWorkflowRunID: read the record, write it back with the run.  The *)
(* stale status goes with it; LinkTaskToRun touches no task.               *)
ReadForRun(w) ==
  LET r == worker[w] IN
  /\ At(w, "readForRun")
  /\ Become(w, [r EXCEPT !.pc = "writeRun", !.to = status[r.task]])
  /\ UNCHANGED <<tasks, assignee, reports, landed, calls, sent, held>>

WriteRun(w) ==
  LET r == worker[w] IN
  /\ At(w, "writeRun")
  /\ SetTask(r.task, r.to, r.asRun)
  /\ Become(w, [r EXCEPT !.pc = "listEdges", !.to = "blocked"])
  /\ UNCHANGED <<assignee, reports, landed, calls, sent, held>>

(* The edges there are now are deleted one by one, and deleting one that   *)
(* is gone already fails the call.  UnassignTask ends with that.           *)
AfterDelete(r) == IF r.then = "assign" THEN [r EXCEPT !.pc = "createEdge", !.edge = {}]
                  ELSE Idle

ListEdges(w) ==
  LET r == worker[w]
      edges == assignee[r.task]
  IN
  /\ At(w, "listEdges")
  /\ Become(w, IF edges = {} THEN AfterDelete(r)
               ELSE [r EXCEPT !.pc = "deleteEdges", !.edge = edges])
  /\ UNCHANGED <<tasks, assignee, reports, landed, calls, sent, held>>

DeleteEdge(w, e) ==
  LET r == worker[w] IN
  /\ At(w, "deleteEdges") /\ e \in r.edge
  /\ assignee' = [assignee EXCEPT ![r.task] = @ \ {e}]
  /\ Become(w, IF e \notin assignee[r.task] THEN Idle
               ELSE IF r.edge = {e} THEN AfterDelete(r)
               ELSE [r EXCEPT !.edge = @ \ {e}])
  /\ UNCHANGED <<tasks, reports, landed, calls, sent, held>>

(* The new edge; without dependencies the task is dispatched at once.      *)
CreateEdge(w) ==
  LET r == worker[w] IN
  /\ At(w, "createEdge")
  /\ assignee' = [assignee EXCEPT ![r.task] = @ \cup r.own]
  /\ IF DependsOn[r.task] = {}
     THEN Become(w, Idle) /\ Publish(r.task)
     ELSE /\ Become(w, [r EXCEPT !.pc = "readDeps", !.own = {}, !.left = DependsOn[r.task]])
          /\ UNCHANGED <<reports, sent>>
  /\ UNCHANGED <<tasks, landed, calls, held>>

(* findUnmetDependencies, one GetTask at a time.  With none unmet the task *)
(* is dispatched, whatever its status; otherwise it is to be blocked if    *)
(* the status AssignTask read at the start allows that.                    *)
ReadDep(w, d) ==
  LET r == worker[w]
      unmet == r.unmet \/ Unmet(status[d])
  IN
  /\ At(w, "readDeps") /\ d \in r.left
  /\ IF r.left # {d}
     THEN /\ Become(w, [r EXCEPT !.left = @ \ {d}, !.unmet = unmet])
          /\ UNCHANGED <<reports, sent>>
     ELSE IF ~unmet THEN Become(w, Idle) /\ Publish(r.task)
     ELSE /\ Become(w, IF TaskCanTransition(r.was, "blocked")
                       THEN [r EXCEPT !.pc = "readForStatus", !.left = {}, !.unmet = FALSE]
                       ELSE Idle)
          /\ UNCHANGED <<reports, sent>>
  /\ UNCHANGED <<tasks, assignee, landed, calls, held>>

(* setTaskStatus: read the record, write it back with the status. *)
ReadForStatus(w) ==
  LET r == worker[w] IN
  /\ At(w, "readForStatus")
  /\ Become(w, [r EXCEPT !.pc = "writeStatus", !.asRun = run[r.task]])
  /\ UNCHANGED <<tasks, assignee, reports, landed, calls, sent, held>>

-----------------------------------------------------------------------------
(* UnassignTask and UpdateTask, the operator's calls.                      *)

UnassignTask(w, t) ==
  /\ At(w, "idle")
  /\ operator < MaxOperator
  /\ operator' = operator + 1
  /\ Become(w, [Idle EXCEPT !.pc = "listEdges", !.task = t])
  /\ UNCHANGED <<tasks, assignee, reports, landed, assigns, sent, held>>

CancelTask(w, t) ==
  /\ At(w, "idle")
  /\ operator < MaxOperator
  /\ operator' = operator + 1
  /\ Become(w, [Idle EXCEPT !.pc = "readTask", !.task = t, !.to = "cancelled"])
  /\ UNCHANGED <<tasks, assignee, reports, landed, assigns, sent, held>>

(* task.started or task.completed of an agent: applyAITaskStatus.          *)
(* Mutant: a redelivered report is handled once more.                      *)
ReceiveReportTwice(w, t, s) ==
  /\ At(w, "idle")
  /\ sent[t] > 0
  /\ reports' = [reports EXCEPT ![<<t, s>>] = @ - 1]
  /\ Become(w, [Idle EXCEPT !.pc = "readTask", !.task = t, !.to = s])
  /\ UNCHANGED <<tasks, assignee, landed, calls, sent, held>>

ReceiveReport(w, t, s) ==
  /\ At(w, "idle")
  /\ reports[<<t, s>>] > 0
  /\ reports' = [reports EXCEPT ![<<t, s>>] = @ - 1]
  /\ Become(w, [Idle EXCEPT !.pc = "readTask", !.task = t, !.to = s])
  /\ UNCHANGED <<tasks, assignee, landed, calls, sent, held>>

(* The caller's GetTask: the record UpdateTask will write in the end. *)
ReadTask(w) ==
  LET r == worker[w] IN
  /\ At(w, "readTask")
  /\ Become(w, [r EXCEPT !.pc = "checkTask", !.asRun = run[r.task]])
  /\ UNCHANGED <<tasks, assignee, reports, landed, calls, sent, held>>

(* Mutant: UpdateTask forgets the blockers. *)
CheckTransitionOnly(w) ==
  LET r == worker[w]
      s == status[r.task]
  IN
  /\ At(w, "checkTask")
  /\ Become(w, IF s # r.to /\ ~TaskCanTransition(s, r.to) THEN Idle
               ELSE [r EXCEPT !.pc = "writeTask", !.was = s])
  /\ UNCHANGED <<tasks, assignee, reports, landed, calls, sent, held>>

(* UpdateTask: GetTask, the transition check and, from pending to          *)
(* in_progress only, the blockers.                                         *)
CheckTask(w) ==
  LET r == worker[w]
      s == status[r.task]
      gated == s = "pending" /\ r.to = "in_progress" /\ BlockedBy[r.task] # {}
  IN
  /\ At(w, "checkTask")
  /\ Become(w, IF s # r.to /\ ~TaskCanTransition(s, r.to) THEN Idle
               ELSE IF gated THEN [r EXCEPT !.pc = "readBlockers", !.was = s,
                                            !.left = BlockedBy[r.task]]
               ELSE [r EXCEPT !.pc = "writeTask", !.was = s])
  /\ UNCHANGED <<tasks, assignee, reports, landed, calls, sent, held>>

(* findActiveBlockers: any active blocker makes UpdateTask return. *)
ReadBlocker(w, b) ==
  LET r == worker[w]
      unmet == r.unmet \/ Unmet(status[b])
  IN
  /\ At(w, "readBlockers") /\ b \in r.left
  /\ Become(w, IF r.left # {b} THEN [r EXCEPT !.left = @ \ {b}, !.unmet = unmet]
               ELSE IF unmet THEN Idle
               ELSE [r EXCEPT !.pc = "writeTask", !.left = {}])
  /\ UNCHANGED <<tasks, assignee, reports, landed, calls, sent, held>>

(* The write; a status change into a terminal status is announced.         *)
(* Mutant: the caller's record is compared with itself, so nothing is.     *)
WriteTaskSilently(w) ==
  LET r == worker[w] IN
  /\ At(w, "writeTask")
  /\ SetTask(r.task, r.to, r.asRun)
  /\ Become(w, Idle)
  /\ UNCHANGED <<landed, assignee, reports, calls, sent, held>>

WriteTask(w) ==
  LET r == worker[w] IN
  /\ At(w, "writeTask")
  /\ SetTask(r.task, r.to, r.asRun)
  /\ landed' = IF r.to \in TerminalTask /\ r.was # r.to
               THEN [landed EXCEPT ![<<r.task, r.to>>] = @ + 1] ELSE landed
  /\ Become(w, Idle)
  /\ UNCHANGED <<assignee, reports, calls, sent, held>>

-----------------------------------------------------------------------------
(* UnblockDependents.                                                      *)

(* handleWorkTaskCompleted: only the completed terminus opens gates. *)
ReceiveLanded(w, t, s) ==
  /\ At(w, "idle")
  /\ landed[<<t, s>>] > 0
  /\ landed' = [landed EXCEPT ![<<t, s>>] = @ - 1]
  /\ IF s = "completed" /\ Dependents(t) # {}
     THEN Become(w, [Idle EXCEPT !.pc = "dependents", !.then = "unblock",
                                 !.todo = Dependents(t)])
     ELSE UNCHANGED worker
  /\ UNCHANGED <<tasks, assignee, reports, calls, sent, held>>

(* The loop goes on with the dependents that are left. *)
NextDependent(r) ==
  IF r.todo = {} THEN Idle
  ELSE [Idle EXCEPT !.pc = "dependents", !.then = "unblock", !.todo = r.todo]

(* maybeUnblockDependent: only a blocked dependent is looked at further. *)
ReadDependent(w, t) ==
  LET r == worker[w]
      rest == [r EXCEPT !.todo = @ \ {t}]
  IN
  /\ At(w, "dependents") /\ t \in r.todo
  /\ Become(w, IF status[t] # "blocked" THEN NextDependent(rest)
               ELSE [rest EXCEPT !.pc = "readDepsAgain", !.task = t, !.left = DependsOn[t]])
  /\ UNCHANGED <<tasks, assignee, reports, landed, calls, sent, held>>

ReadDepAgain(w, d) ==
  LET r == worker[w]
      unmet == r.unmet \/ Unmet(status[d])
  IN
  /\ At(w, "readDepsAgain") /\ d \in r.left
  /\ Become(w, IF r.left # {d} THEN [r EXCEPT !.left = @ \ {d}, !.unmet = unmet]
               ELSE IF unmet THEN NextDependent(r)
               ELSE [r EXCEPT !.pc = "readAssignee", !.left = {}])
  /\ UNCHANGED <<tasks, assignee, reports, landed, calls, sent, held>>

(* Without an assignee there is nobody to dispatch to. *)
ReadAssignee(w) ==
  LET r == worker[w] IN
  /\ At(w, "readAssignee")
  /\ Become(w, IF assignee[r.task] = {} THEN NextDependent(r)
               ELSE [r EXCEPT !.pc = "readForStatus"])
  /\ UNCHANGED <<tasks, assignee, reports, landed, calls, sent, held>>

(* setTaskStatus's write, by AssignTask (blocked) or by UnblockDependents  *)
(* (pending, and the dispatch).  held remembers the tasks blocked while a  *)
(* dependency was unmet.                                                   *)
WriteStatus(w) ==
  LET r == worker[w]
      t == r.task
  IN
  /\ At(w, "writeStatus")
  /\ SetTask(t, r.to, r.asRun)
  /\ IF r.then = "unblock"
     THEN Become(w, NextDependent(r)) /\ Publish(t) /\ UNCHANGED held
     ELSE /\ Become(w, Idle)
          /\ held' = IF \E d \in DependsOn[t] : Unmet(status[d]) THEN held \cup {t}
                     ELSE held \ {t}
          /\ UNCHANGED <<reports, sent>>
  /\ UNCHANGED <<assignee, landed, calls>>

-----------------------------------------------------------------------------
Work(w) ==
  \/ ReadForRun(w)
  \/ WriteRun(w)
  \/ ListEdges(w)
  \/ \E e \in Edge : DeleteEdge(w, e)
  \/ CreateEdge(w)
  \/ \E t \in Task : \/ ReadDep(w, t)
                     \/ ReadBlocker(w, t)
                     \/ ReadDependent(w, t)
                     \/ ReadDepAgain(w, t)
  \/ ReadForStatus(w)
  \/ WriteStatus(w)
  \/ ReadTask(w)
  \/ CheckTask(w)
  \/ WriteTask(w)
  \/ ReadAssignee(w)

Next ==
  \E w \in Worker :
    \/ Work(w)
    \/ \E t \in Task :
         \/ \E r \in Run \cup {NoRun} : AssignTask(w, t, r)
         \/ UnassignTask(w, t)
         \/ CancelTask(w, t)
         \/ \E s \in Report : ReceiveReport(w, t, s)
         \/ \E s \in TerminalTask : ReceiveLanded(w, t, s)

Spec == Init /\ [][Next]_vars

-----------------------------------------------------------------------------
(* Correctness.                                                            *)

Quiescent ==
  /\ \A w \in Worker : worker[w].pc = "idle"
  /\ \A e \in Task \X Report : reports[e] = 0
  /\ \A e \in Task \X TerminalTask : landed[e] = 0

(* No agent is dispatched to a task of which a dependency never reached a  *)
(* terminal status, whichever of AssignTask and UnblockDependents does it. *)
DispatchedAfterDependencies ==
  \A t \in Task : sent[t] > 0 => DependsOn[t] \subseteq everTerminal

(* A pending task starts only past its blockers (findActiveBlockers). *)
StartedAfterBlockers ==
  \A t \in Task : status[t] \in {"in_progress", "completed"} => BlockedBy[t] \subseteq everTerminal

(* A task that was blocked before its last dependency finished, and still  *)
(* has an assignee, is not left behind when all of them have completed,    *)
(* however their completions interleave.                                   *)
HeldTaskIsReleased ==
  Quiescent =>
    \A t \in held : ~ (/\ status[t] = "blocked"
                       /\ assignee[t] # {}
                       /\ \A d \in DependsOn[t] : status[d] = "completed")

(* Comment of TaskStatusBlocked: when every dependency is terminal the     *)
(* task goes back to pending and the assignment fires.                     *)
BlockedIsReleased ==
  Quiescent =>
    \A t \in Task : ~ (/\ status[t] = "blocked"
                       /\ assignee[t] # {}
                       /\ \A d \in DependsOn[t] : status[d] = "completed")

(* Comment of UnblockDependents: idempotent, so that one assignment leads  *)
(* to one dispatch at most.                                                *)
DispatchedOncePerAssignment == \A t \in Task : sent[t] <= assigns[t]

=============================================================================
