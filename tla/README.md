# CodeValdWork in TLA+

CodeValdWork keeps the work graph of an agency: projects, tasks, the todos an AI
planner splits a task into, workflow runs that group tasks, and the edges
between them. It is a gRPC service over a document store (ArangoDB, through
CodeValdSharedLib's `entitygraph.DataManager`) and it talks to the AI, Git and
Cross services by events. This project models the parts of it in which something
can go wrong that a unit test hardly reaches, model-checks them with TLC, and
proves what it can with TLAPS. Paths below are relative to the repository.

## 1. The system

### How it runs

* **One goroutine per event, one per RPC.** `EventReceiver.NotifyEvent`
  (`internal/server/event_receiver.go:29-78`) records the event and starts a
  goroutine for the dispatcher. gRPC serves each call in a goroutine.
* **A store without transactions.** The storage interface has single-record
  reads and writes and no compare-and-swap. A handler is a sequence of such
  calls, and *any* other handler may run between two of them. `UpdateTask`
  writes back the record its caller read.
* **Events out.** A change publishes `task.assigned`, `task.completed`,
  `todo.dispatched` and so on; CodeValdCross routes them to the other services
  and back to this one (the "self loop": UnblockDependents and RunStatusHandler
  live on events this service published itself).
* **Two locks only.** `writeTracker` (`internal/server/event_writes.go`) holds
  write gates in memory under a mutex, `import.go` its map of running imports. All
  else is in the store.

### Components

| Component | Source | State | Operations | Modelled in |
|---|---|---|---|---|
| Status state machines | `models.go` | – | `CanTransitionTo` of tasks and runs, todo statuses | `Lifecycle` |
| Write gate | `internal/server/event_writes.go` | waits, early buffer, timers | `WaitForWrites`, `OnFileWritten`, timer | `WriteGate` |
| Todos | `internal/server/event_dispatcher.go`, `todo.go` | todo and parent status | todo events, dispatch, cascade, roll-up, FailTodo, SkipTodo, direction | `TaskDecomposition` |
| Assignment | `assignment.go`, `assignment_unblock.go`, `task_impl_task.go` | task status, run id, assigned_to edges | AssignTask, UnassignTask, UpdateTask, UnblockDependents | `TaskAssignment` |
| Workflow run | `workflow_run.go`, `internal/server/run_status_handler.go` | run status | HandleEvent, closure, UpdateWorkflowRunStatus | `WorkflowRun`, its record in `RunRecord` |
| Failure recovery | `internal/server/event_dispatcher.go`, `failure_recovery.go` | recovery_runs_used, task and run status | ladder, classification, escalation, direction, resume | `WorkflowRun` |
| Run cancellation | `workflow_run_cancel.go`, `internal/server/workflow_run_cancel_server.go` | run and task status | cancel, cascade, finalize | `WorkflowRun`, partly |
| Watchdog | `workflow_run_watchdog.go` | mark on the run | task and run timeout, stale query, mark | `WorkflowRun`, `SplitPlan`, `RunRecord`, partly |
| Run rollback | `workflow_run_rollback.go` | run status as a lock, tasks, todos | start, guard, reset, delete, finish | `Rollback` |
| Failure budget, recovery runs | `workflow_run_failure_budget.go` | budget, counter, lineage of runs | set, increment, create a recovery | `RunRecord` |
| Event receiver | `internal/server/event_receiver.go` | received-event records | deduplicate, record, dispatch | `ReviewGate` |
| Reviewer | `internal/reviewer/reviewer.go` | criteria results | evaluate, record, publish the outcome | `ReviewGate` |
| Split plans | `internal/server/split_handler.go` | child tasks, edges | create, wire, dispatch, roll up | `SplitPlan` |
| Import jobs | `import.go`, `internal/server/import_server.go` | job status, entry in memory | start, run, cancel, poll | `ImportJob` |
| Relationships, projects, agents | `relationship.go`, `project.go`, `agent.go`, `deliverable.go` | edges, names | create, delete | `WorkGraph` |
| gRPC and storage conversion | `internal/server/*_server.go`, `task_impl_converters.go` | the fields of an entity | convert in both directions, masked and whole updates | `EntityRecord`, partly |
| Process wiring | `internal/app`, `internal/config`, `internal/registrar` | – | start-up, heartbeats | not modelled |

What is hard: two handlers of one event family interleaving between read and
write; an event handled before the one that was published first; a status that
is stale when it is used; timers racing answers; restarts that lose what was
only in memory; and each of these for the wake-ups on which liveness rests.
`PROJECT.json` lists forty such hazards, each at its line, with the properties
that would catch it, or the reason why none does; where the code loses the race and
the property excepts it, the hazard's note says so.

### What makes each component correct

* Write gate: a held completion is applied exactly once; "all writes confirmed"
  is never said too early; nothing is held without a timer.
* Todos: no todo is dispatched before its dependencies are done, none is
  forgotten, the parent is completed only when all are, and it settles.
* Assignment: nothing is dispatched before its dependencies are terminal or
  started past a blocker; what waits for a dependency is woken up, once.
* Run: completed only when its tasks are; no task in progress without somebody
  on it; a cancellation ends.
* Run records: the counter is never ahead of what was charged, a recovery is
  charged to a top-level run, a run times out once.
* Rollback: leaves nothing of the run behind, takes nothing from others, ends.
* Split plan: the parent's outcome has a cause among the children, and the last
  child to end settles it.
* Import: completed means the whole document is there; a cancelled job writes
  nothing more; every job ends.
* Graph: an edge is there once, names differ, a deleted project has no members.
* Receiver and reviewer: an event is handled once and to its end, and the outcome
  says what the stored results say.
* Records: a field reads as what was last given to it, through every conversion and
  every write-back of a whole record; `UpdateTask` moves the status along the table.

## 2. The modules

| Module | Role | Extends / instantiates |
|---|---|---|
| `Lifecycle` | transition tables, pure definitions | – |
| `Goroutines` | the goroutines of the store modules and their program counters | – |
| `DeferredCall` | abstract: a call made exactly once, later, unless lost | – |
| `WriteGate` | the write gate | implements `DeferredCall` (`Promise == INSTANCE ... WITH`) |
| `TaskDecomposition` | todos of one parent task | `Lifecycle`, `Goroutines` |
| `TaskAssignment` | several tasks with dependencies and blockers | `Lifecycle`, `Goroutines` |
| `WorkflowRun` | one run and its tasks | `Lifecycle`, `Goroutines` |
| `RunRecord` | the stored record of each run: lineage, budget, mark | `Lifecycle`, `Goroutines` |
| `Rollback` | rolling runs back, against updates and faults | `Lifecycle`, `Goroutines` |
| `SplitPlan` | a task split into child tasks, with faults | `Lifecycle`, `Goroutines` |
| `ImportJob` | one import: job, goroutine, canceller, caller | – |
| `WorkGraph` | edges, projects, agents, generated names | `Goroutines` |
| `ReviewGate` | event receiver, dispatch and review gate | `Goroutines` |
| `EntityRecord` | one entity's status and one field through all conversions | `Lifecycle`, `Goroutines` |
| `..._proofs` | theorems about the module of that name; three have those of a second one too (section 4) | that module, TLAPS |
| `MC...` | constants for TLC | the module of that name |

### Conventions of the store modules

`worker` (in `Goroutines`) is the set of goroutines: `worker[w]` is a program counter
and the handler's local variables. An idle worker receives an event or a call (the
`Receive...` actions and the RPC actions); each further **storage call is one
action**, named for what it reads or writes, so that handlers interleave exactly
where the code lets them. Loops over a list are a set `left` of what is still
to be visited, taken in any order: the code's order is the store's edge order,
on which nothing may rely. Variables under "history" are written but never read
by an action. Where a property excepts a race the code does lose, a history
variable names who lost it (`moved`, `overtaken`, `raced`, `doubtful`, ...), set
at the step that loses it and nowhere else: the exception is as narrow as the
race, and what remains is what the code guarantees. Definitions marked "Mutant"
are the plausible mistakes each property is known to catch; the specification
does not use them.

Merged on purpose: the first read of a handler belongs to the step that receives
the event (nobody can tell a late start from a late delivery), and a
write and the publication right after it are one step (the consumer's handler
starts whenever it likes, so a delay of the publication is a delay of the
delivery; where the order of publication and a *later* write matters, as in
`EscalateToHumanDirection`, they are separate). A `worker` that publishes and
returns is idle in the same step.

### WriteGate

Whole bodies of `WaitForWrites`, `OnFileWritten` and the timer function run
under `t.mu`: one action each. What remains concurrent is modelled: a timer that
has expired (`TimerExpire`) but whose function is still queueing for the
mutex cannot be stopped any more; each callback is a goroutine (`Callback`); the
process restarts (`Restart`), which drops everything in memory. `spawned`
counts the executions of `go onDone()`, `wrote` remembers what Git confirmed.
`ListedPaths` is what a payload may list, the empty string included, which
`RealPaths` drops. A gate is one `writeWait` object.

### TaskDecomposition

One parent task whose planner's `todo.created` arrives (`ReceivePlan`), with
several decompositions after a retry. The planner's own `task.completed` follows it and
has a goroutine of its own (`ReceivePlanner`), which may be scheduled before, between or
after the steps that create the todos; `premature` is history, set when such a
completion found none and was written to the parent. `Create`, `DispatchTaskTodo` and
`DispatchUnblock` are the creation loop and the dispatch; `ListForUnblock`,
`Unblock` and `ListForCascade`, `Cascade`, `CascadeFail` are
`unblockDependentTodos` and `blockDependentTodos`, with statuses read one
todo at a time; `ListForRollUp` to `WriteTask` are
`maybeCompleteParentTask` and the `UpdateTask` in it. `ReceiveDirection` is
skip and retry-with-instructions. Dependencies are **ordinalities**, as in the
code, counted from 1 in each decomposition (`models.go:333`), and `unblock` and `block`
match them across all decompositions, as the code does.

Abstracted: titles, payloads and run ids; `latestDecomposition` orders by
`CreatedAt`, here by the order of creation (equal RFC 3339 seconds are ignored);
the worklist of the recursive cascade is a set.

### TaskAssignment

Tasks with `depends_on` and `blocks` edges. `AssignTask` to `WriteStatus` are
the RPC step by step: the run id written to the task, old `assigned_to` edges
deleted, the new one created, dependencies read one by one, and then either the
write of `blocked` or the publication. `ReceiveReport` to `WriteTask` are an
agent's report through `applyAITaskStatus` and `UpdateTask`, including the blocker
check. `ReceiveLanded` to `WriteStatus` are `UnblockDependents` on the service's
own terminal event. `UnassignTask` and `CancelTask` are operator calls.

### WorkflowRun

One run and the tasks linked to it. The agents' reports, the retry ladder
(`Redispatches`, `Exhausted`), classification (`ReceiveTransient`,
`ReceiveRequiresHuman`), escalation with the pause of the run, the four
directions and `maybeResumeWorkflowRun`; `HandleEvent` with its closure read task
by task (`ReadClosure`); `CheckRun` and `WriteRun` are `UpdateWorkflowRunStatus`'s
read and unconditional write; `CancelWorkflowRun`, `ListTasks`, `CancelNext` and
`Finalize`; the two timeouts; `UnblockTask` is the RPC, which updates the task to
awaiting-direction and then escalates it (`Escalating`): a second update, the form and
the pause of the run. `ReceiveUpdate` is `task.update`, which writes back
the status it read. `notes` are this service's own events on their way back to
RunStatusHandler. `Delivery` says how an agent's outcome reaches that handler:
with the run id in the payload, without it, or held by the write gate.

The tasks have no todos, dependencies, blockers or parent: those branches of the
handlers are `TaskDecomposition` and `TaskAssignment`.

### RunRecord

The entity of each run. `ReceiveCreate`, `ReceiveRecovery` with `LookUpName`,
`CreateRun` and `StampParentage` are the two creations; `ReadBudget` and
`SetFailureBudget` the setting of a budget; `ReceiveCharge` and `WriteCharge`
`IncrementFailureBudget`; `ReceiveStatus` and `WriteStatus`
`UpdateWorkflowRunStatus`; `ListStale` and `MarkTimeoutPublished` the stale query
of the sweeper in CodeValdCross and the mark it sets. Status and mark write back
the whole record that was read, so a charge in between is undone: such a run
enters `overtaken`. `admitted` records the answers "not exhausted".

### Rollback

`ReceiveRollback`, `CheckRun` and `WriteRun` take the rolling_back lock;
`ListTasks` and `Guard` are the check for dependents in other runs; `Unlink`,
`ResetTask`, `ListTodos` and `DeleteTodo` are `DeleteWorkflowRunArtifacts`; the
last `CheckRun` and `WriteRun` note rolled_back or rollback_failed.
`ReceiveUpdate`, `CheckTask`, `WriteTask` and `LinkTaskToRun` are an `UpdateTask`
that was on its way and writes the run id back. Each kind of refused call is an
action with the path the code takes: a list ends the cleanup as rollback_failed
(`ListRefused`); a dependent that the guard cannot read is passed over (`GuardRefused`,
`unread`); an edge that is not listed or not deleted stays while its task is reset
(`UnlinkRefused`, `tied`); a task that is not reset or a todo that is not deleted stays as
well (`ResetRefused`, `DeleteRefused`, `kept`), and in these three the run is rolled_back in the
end; a status that is not read or written ends the call (`StatusRefused`). `Crash` ends
all goroutines; it and `StatusRefused` set `lost`. `stale` is history: the
updates under way whose task another call has written since they read it. What
such an update writes puts its task in `moved`, for from then on the record is one
that nobody meant.

### SplitPlan

`ReceiveSplit` to `PublishChild` are `handleTaskPlanSplit` call by call: each child
created, linked, the edges wired, the first children published. A refused `subtask_of` or
`blocks` edge is logged and the plan goes on (`LinkRefused`, `WireRefused`, `unwired`), a
refused creation gives it up (`CreateRefused`). `ReceiveStarted`,
`ReceiveOutcome`, `ReceiveDirection` and `AssignTask` are what happens to children, from
the moment each exists: an operator may assign one before it is linked or wired.
`CheckTask` and `WriteTask` their status writes, `ListChildren`, `ReadChild` and
`ReadParent` are `maybeCompleteSplitParent`. Writers that end a child without a
roll-up (`HandleTaskTimeout`, `cancelTask`, the RPC) are modelled as they are and
collected in `silent`, with the children that ended before they were linked and a parent
whose end the plan's own update wrote over. `hasty` collects the children whose start
was checked before the wiring was through, `premature` says that a roll-up listed the
children while some were still to be created.

### ImportJob

`MarkRunning`, `Build`, `Finish` and `Fail` are the goroutine; `Plan` is the
sequence of everything the document asks for, in the order in which `runImport`
writes it, and `made` the part written. `ReceiveCancel`, `Signal` and
`WriteCancelled` are `CancelImportProject`, which ends the context first and writes the
status next. `Poll` and `CallerLeaves` are the synchronous `ImportProject`. `lost`
collects jobs whose status write was refused or whose process died.

### WorkGraph

Edges have ids, so that one edge may be there twice. `ReceiveCreateRelationship`,
`GetFrom`, `GetTo`, `ListEdges` and `CreateEdge` are `CreateRelationship`;
`ReceiveCreateTask`, `ListMembers`, `CountMember` and `CreateTask` are
`CreateTaskInProject` with its generated number; `ListMemberEdges`, `DeleteMember` and
`DeleteEntity` are `DeleteProject`; `DeleteTask` leaves edges behind.

### ReviewGate

`NotifyEvent`, `WriteRecord` and `Dispatch` are the receiver; `UnblockDependents`
stands for the dispatcher's part before the review (its effects are in
`TaskAssignment`); `ListCriteria`, `ListDeliverables`, `Evaluate` and
`PublishOutcome` are the reviewer, whose verdict on a criterion is any.

### EntityRecord

A behaviour follows one entity of any kind and one of its fields. The operators
named after the conversions (`TaskToProperties`, `TaskFromEntity`, `TaskToProto`,
`ProtoToTask`, ...) are the **sets of fields each conversion carries**; `Through`
drops a value at the first that does not carry it. `MaskedUpdate`, `Rewrite`, `Get`
and `Send` are the read-change-write calls, `Patch` the calls that write named
properties only, `Write` what each stores; `given` is what the field should hold.
One value besides the empty one tells whether a field was kept, given or emptied.
What a read makes up is `Derived`: a project_name from the name, and a task's tags, which
`GetTask` and `ListTasks` replace by the names of its has_tag edges (`names`, changed by
`ChangeTags`), whatever is stored; edges or tags that cannot be read give fewer or none
(`Readings`). The writers that bypass `UpdateTask` are there too: `SetTaskStatus` and
`SetTaskWorkflowRunID`, which write the stored properties back, `CancelTask`, and the
rollback's `ResetTask`, none with a transition check at its write.

### Assumptions about the environment

* `InOrder` (every todo run): the outcome of a todo's AgentRun is sent after the
  handler of its `task.started` has returned, for an agent works for minutes. Nothing
  of the kind is assumed of a planner, which sends its plan and its completion one
  right after the other. Without it a `task.started`
  handled late puts a completed todo back to dispatched
  (`event_dispatcher.go:606`, a hazard on the list). `SplitPlan` assumes the same
  of `task.started`.
* In `TaskDecomposition`, `WorkflowRun` and `SplitPlan` each AgentRun reports one
  start and one outcome; redelivered events are `ReviewGate`'s.
* `RunRecord`: Cross runs one sweeper, which marks a run before it lists again.
* A direction is given for a failed task, or in answer to a form that was sent.
* `ReceiveExternal("terminal")` stands for any event that matches the run's
  `terminal_event`; `matched` records it.
* In `TaskDecomposition`, `TaskAssignment` and `WorkflowRun` storage calls do not
  fail; where a handler's own check refuses (a transition, a blocker, a missing
  edge), that path is modelled. In the other store modules every storage call
  whose error has a path of its own may be refused, and where something of the
  handler's survives it in memory or by halves the process may crash.

## 3. The runs

| Run | Instance | Shows |
|---|---|---|
| `write_gate` | 2 runs, 2 gates, 2 files and `""`; one file is never confirmed for one run | six properties, among them refinement of `DeferredCall` with its fairness |
| `todo_join` | roots a, b and c after both; 2 workers | the join is neither missed nor early; the parent settles, and is not completed early but by a planner's completion that found no todo |
| `todo_operator` | a plan of one todo, a second of two that is numbered from 1 as well; one FailTodo/SkipTodo; one direction | across plans the cascades go by number, and by nothing else |
| `assign` | t3 after t1 and t2, t2 blocked by t1; one assignment each; one operator call | dispatch and start order, no lost wake-up of a held task but for the race itself |
| `workflow_run` | 2 tasks, 2 workers, one agent failure, one call | completion, nothing abandoned, cancellation ends |
| `run_record` | 3 runs, 2 children, budgets 0 and 1, two calls, 2 workers | counter, budget, lineage and timeout under write-backs of stale records |
| `rollback` | 2 runs whose tasks depend on each other, 3 tasks, a todo; 2 rollbacks, an update, a fault | nothing left but what the store refused, nothing of others taken but what it did not show, an end |
| `split_plan` | 2 independent children and one after a third; 2 calls, 1 fault | the outcome has a cause, no roll-up missed, order among siblings but for refused edges and hasty starts |
| `import` | 3 tasks with a repeated name, an unknown dependency, a shared tag; 2 cancels, 2 faults | completed means complete, cancelled means stopped, every job ends |
| `graph` | 3 tasks, 2 projects, an agent; 4 calls, 1 fault | when names, edges and members may be double or left over |
| `entity_record` | any field of any kind of entity; 2 calls, 1 fault | what a field and the status hold after all conversions and write-backs |
| `review_gate` | 2 events, 2 criteria, 3 deliveries, 1 fault or crash | handled once, to its end, with an outcome that says what is stored |

The runs explore between 10^4 and 3 * 10^6 distinct states, each in less than two
minutes. Each module also has a type invariant `TypeOK`; the `write_gate` run checks it, the
other runs leave it out of their cfg and it holds under each of them too.

**Why these bounds.** Every hazard here is a race of two handlers: two workers
let any two interleave at every storage call, and the events of a third wait,
which is a delivery delay. Three todos or tasks are the smallest join; two
gates are what it takes for one run to complete twice *and* for two runs to share
a path; two tasks are what it takes for a closure to read one while the other
changes. With `MaxRecoveryRuns = 2` and `Spent` one less for t2, the next failure of t1 is
a retry and that of t2 its last; `MaxFailure`, `MaxCall` and `MaxFault` bound how much
goes wrong in one behaviour, `MaxOperator`, `MaxDirection`, `MaxAssign`, `MaxRollback`,
`MaxUpdate`, `MaxCancel`, `MaxDelivery` and `MaxEdge` likewise. A recovery of a
recovery takes three runs, a budget of one is exhausted by the first of two
children, a generated name repeats once three tasks were members of a project, and a third
delivery is what can meet a review and a record at once. One fault reaches every error
path once; a second only meets the clean-up of the first, which is why `import`
has two. All bounds are conjuncts of guards, so no behaviour is cut in the middle
of a handler. In `workflow_run` only t2's completion may be held by the write gate, and
no failure is delivered `"direct"`: such a task.failed fails the run at once, which
`ReceiveExternal("failed")` does at any moment too. Symmetry is used only where the
properties are invariants or properties of single steps.

**Deadlock** is not checked: calls are bounded and nobody has to make one, so
every model may stop. `Quiescent` states what must hold when it does.

**Fairness.** `WriteGate`: timers expire, functions waiting for a mutex get it,
goroutines run. Nothing is assumed of Git or of completions.
`TaskDecomposition`: goroutines are scheduled, events are delivered, and an
AgentRun reports in the end; that is an assumption about CodeValdAI, for the watchdog of
this repository knows tasks and runs, not todos. Nobody has to give a
direction or call an RPC. `Rollback`, `ImportJob` and `ReviewGate`: a goroutine
that has started keeps running, step by step; nobody has to call, deliver, cancel
or crash. The other modules have safety only: their "must eventually" is stated
at quiescence (`HeldTaskIsReleased`, `NoTaskAbandoned`, `CancellationEnds`,
`RollUpNotMissed`).

### Known divergences

Where the code does something else than its own comments say, and the cfg with
which TLC reproduces it (`tlc -config <cfg> <MC module>`). They are kept beside
the runs; each checks the one property named and ends in its violation.

| cfg, MC module | Property | What happens |
|---|---|---|
| `TodoRace`, `MCTaskDecomposition` | `FailedOnlyAfterFailure` | The roll-up takes a todo that merely waits (`blocked`) for cascade-failed (`event_dispatcher.go:667-668`, `:696`): between another handler's write of completed and its dispatch of the dependent, a parent fails no todo of which failed. |
| `TodoPlanner`, `MCTaskDecomposition` | `PlannerNeverCompletes` | The planner's own completion may be handled before its todos exist and completes the parent (`:269`; the comment at `:654-657` calls this prevented). |
| `TodoSkip`, `MCTaskDecomposition` | `SkipReevaluates` | The skip direction evaluates the parent while it is still failed and reopens it afterwards (`:905`); nothing evaluates it again. |
| `TodoRetry`, `MCTaskDecomposition` | `FailedOnlyAfterFailure` | Cascades match ordinalities over all decompositions (`:740`, `:779`), and every plan counts from 1: an earlier plan's failed todo stands for the retry's completed one of that number, its dependent stays blocked and counts as failed, against `:670-673`. One goroutine is enough. |
| `AssignLost`, `MCTaskAssignment` | `BlockedIsReleased` | The last dependency completes between `AssignTask`'s check and its write of blocked (`assignment.go:90-96`); nothing wakes the task (`models.go:37-41`). |
| `AssignTwice`, `MCTaskAssignment` | `DispatchedOncePerAssignment` | Two dependencies complete at once and both cascades dispatch the dependent (`assignment_unblock.go:39`, `:70`; "idempotent" at `:18-19`). |
| `RunPaused`, `MCWorkflowRun` | `PausedRunHasHeldTask` | The direction is asked for (`event_dispatcher.go:494`) before the run is paused (`:515`); an answer in between resumes nothing and the run stays paused (`models.go:510-512`). |
| `SplitWaits`, `MCSplitPlan` | `DependentsDispatched` | Children with depends_on are left out at creation (`split_handler.go:108`) and no path of the split dispatches them later. |

`AdmittedWithinBudget` of `RunRecord` states what the comment of
`IncrementFailureBudget` says ("atomically increments"); it does not hold, for
two recoveries that read the counter at once are both admitted.
`OverrunOnlyIfOvertaken` is what does hold, and is proved.

### Seen while modelling

Smaller things, each read off the code a definition is mapped to:

* Split: `maybeCompleteSplitParent` is "called whenever a child task reaches a
  terminal status" (`split_handler.go:131`), but not by `HandleTaskTimeout`,
  `cancelTask` and the `UpdateTask` RPC.
* Import: on a cancelled caller `ImportProject` calls `CancelImportProject` with the
  very context that is cancelled (`import.go:106-107`); the goroutine may overwrite
  cancelled by failed or completed; a crash leaves a job running, a refused first
  write leaves it pending.
* Records: emptied optional fields (due_at, tags, estimated_hours, completed_at,
  depends_on, run id lists) cannot be stored, so a task that fails, is reopened and
  completes keeps the failure's completed_at. A replace-all `UpdateTask` zeroes
  recovery_runs_used, parent_task_id, blocker_note and direction_history, which no
  request carries; `UpdateProject` over gRPC erases repo_name, and overwrites a
  project_name documented as immutable; `resolveAgentForTask`
  (`event_dispatcher.go:1150`) erases the other fields of a registered agent.
* Messages: the task statuses blocked, awaiting and split, the run status paused
  and the todo status skipped arrive as UNSPECIFIED; todo_type is never carried.
* Graph: `CreateTaskInProject` reuses numbers, `DeleteTask` leaves its edges, two
  projects may get one slug, assigned_to is functional by convention only, and the
  schema's unique name is checked by list-then-create; its max_runs is not enforced.
* Errors: `mapError` turns not-found of tags, deliverables, criteria and import jobs
  into Internal. An error of `UnblockDependents` skips the review.
* Reviewer: the outcome counts a result whose write was refused.
* Assignment: with dependencies two levels deep a held task may stay blocked for ever
  although everything it waits for has completed, with one assignment per task and no
  operator. Of t1, t2 <- t3 <- t4, t1 and t2 complete at once and both cascades
  dispatch t3 (`AssignTwice.cfg`); the second agent's in_progress, checked before t3
  completed, reopens it after that completion was announced; its completed report, checked
  when t3 was still completed, counts as no change and announces nothing
  (`task_impl_task.go:141-160`). t4, held meanwhile, has nobody to wake it. A task
  assigned twice gets there with one level. These are the hypotheses of `HeldIsReleased`.
* Rollback: the guard takes any error of `GetTask` on a dependent for a missing task
  (`workflow_run_rollback.go:97-100`), so that a dependent in another run which cannot be read
  right then loses its dependency. Errors of `removeStartedTaskEdge` are only logged
  (`:151-166`): a run may be rolled_back and keep a started_task edge to a task that is reset.
* Tags: those given to `CreateTask` or `UpdateTask` are stored in a property nobody reads back,
  for `GetTask` and `ListTasks` put the names of the has_tag edges in their place
  (`task_impl_task.go:80`, `:204`). Every later write-back stores these names.
  `nonStatusChangedFields` compares them with the stored ones, so that a write-back which
  changes no tag may announce a task.updated with tags among the changed fields.
* Split: an operator may assign a child while the plan is being laid out, before its
  edges exist, and a refused blocks edge is only logged (`split_handler.go:87-89`); either way
  the child starts before the siblings it depends on.
* Status: `setTaskStatus`, `setTaskWorkflowRunID`, `cancelTask` and the rollback's reset write a
  task without `UpdateTask`'s check; the tables of `models.go` bind only the others.
* Rollback: whether an update that was on its way wrote over a reset cannot be told
  from the records: a task that is reset and then brought to an equal record (30 steps,
  3 goroutines, 2 rollbacks, 5 updates) looks untouched to it. The model therefore
  keeps `stale` as history, where it once compared records.

## 4. The proofs

All hold for **every** value of the constants that satisfies the named
assumptions of the module: any sets of tasks, runs, todos, goroutines and faults,
any edges between them. The few with a hypothesis of their own are named below with
the reason. For each component an invariant is found that a step
preserves; a lemma per action shows it, and the theorems follow. Every safety
property of the runs is a theorem.

| Proof module | About | Theorems (property) | Obligations |
|---|---|---|---|
| `WriteGate_proofs` | `WriteGate` | `TypeCorrect` (`TypeOK`), `AtMostOnce` (`RunsAtMostOnce`), `NoStrandedGate` (`HeldGateHasTimer`), `ConfirmedMeansWritten` (`ReleasedWithAllWrites`), `KeepsPromise` | 717 |
| | `SplitPlan` | `OutcomeCaused` (`OutcomeHasCause`), `RollUpSeen` (`RollUpNotMissed`), `StartsInOrder` (`StartedAfterSiblings`) | 1342 |
| `TaskDecomposition_proofs` | `TaskDecomposition` | `ByNumber` (`CascadesByNumber`), `DispatchedInOrder` (`DispatchedAfterDependencies`), `CompletedLast` (`CompletedOnlyAfterAll`), `NoneForgotten` (`NoTodoForgotten`) | 1338 |
| | `EntityRecord` | `AlongTransitions` (`StatusAlongTransitions`), `ReadsAsGiven` (`LastGiven`), `ChangesWhatItMeans` (`OthersKept`) | 775 |
| `TaskAssignment_proofs` | `TaskAssignment` | `DispatchedInOrder` (`DispatchedAfterDependencies`), `StartedInOrder` (`StartedAfterBlockers`), `HeldIsReleased` (`HeldTaskIsReleased`) | 1664 |
| `WorkflowRun_proofs` | `WorkflowRun` | `CompletedAfterAll` (`CompletedOnlyAfterAll`), `CancellationIsFinalized` (`CancellationEnds`), `NobodyAbandoned` (`NoTaskAbandoned`) | 1056 |
| `RunRecord_proofs` | `RunRecord` | `TypeCorrect`, `NeverAhead` (`UsedWithinCounted`), `RootsAreTopLevel` (`LineageRooted`), `OverrunNeedsStaleWrite` (`OverrunOnlyIfOvertaken`), `TimesOutOnce` (`TimedOutOnce`) | 1330 |
| | `ImportJob` | `ImportIsComplete` (`CompletedMeansComplete`), `CancelStops` (`CancelledStops`) | 400 |
| `Rollback_proofs` | `Rollback` | `LeavesNothing` (`NothingLeft`), `CompletionIsFresh` (`NoStaleCompletion`), `KeepsShared` (`SharedKept`) | 1069 |
| `ReviewGate_proofs` | `ReviewGate` | `TypeCorrect`, `DispatchedOnce` (`HandledOnce`), `OutcomeIsOfResults` (`OutcomeMatchesResults`) | 646 |
| `WorkGraph_proofs` | `WorkGraph` | `TypeCorrect`, `CreatedOnce` (`EdgesOnce`), `DeletedIsEmpty` (`DeletedProjectIsEmpty`), `NamesDiffer` (`NamesDistinct`) | 1340 |

Three modules hold the proofs of two components, side by side. They extend both, which
is why `SplitPlan`, `ImportJob` and `EntityRecord` write `SplitInit`, `ImportSpec`,
`entityVars` and so on for what the others call `Init`, `Spec`, `vars`. Nothing
is composed there: every theorem is about one specification alone.

**What a read is worth.** None of the properties is inductive alone, and in the store
modules for one reason: a goroutine acts on what it read some steps ago. The invariants
say what such a read still guarantees.

* `TaskAssignment`, `WorkflowRun`, `TaskDecomposition`: what was read as terminal
  was terminal *once*. `Sound` says, at each program counter, that the
  dependencies, blockers, tasks or todos no longer in `left` are in the history of
  those that ended; it survives every other goroutine's step because that history
  only grows (`StillSound`, `Grows`). `Careful` is `Sound` for all goroutines with the
  properties.
* `WorkflowRun`, `Finalizing`: a cancelling run has a finalization scheduled, a
  cascade that will schedule it, or a goroutine about to write it. This, not
  `CancellationEnds`, is what a step preserves.
* `TaskDecomposition`: cascades go by ordinality, so `ByNumber` is what holds of
  every plan and numbering: a todo is sent once, for each number it depends on, *some*
  todo of that number was done, and the cascade fails only dependents of a failed
  number. That the todos of the plan itself are meant follows only where no two todos
  of the task share a number, the hypothesis of `DispatchedInOrder`: a single plan, for a
  retry counts from one again, with the consequence that `TodoRetry.cfg` shows. That
  failures stay in their plan is therefore not claimed.
* `RunRecord`: `Behind` says that the counter, in the store and in every goroutine's
  copy, is within that record's own set of counted children, and that a child about
  to be charged is not in the copy's, so no write-back pushes the counter ahead;
  `Lineage` that the ids a creation carries are those of top-level runs that exist,
  and that copies agree with the store on them;
  `Tally` that as long as a run is not overtaken its counter is exact, those
  admitted are counted, and the mark is set once a timeout was published.
* `ReviewGate`: `Once` says where a delivery of an event not in doubt can be (before
  its record, or recorded and dispatched once); `Consistent` how much of a verdict
  the results written so far are, while one review is on its way.
* `WorkGraph`: `Looked` says that an edge about to be created is either not there or
  raced; `Emptied` that a project being deleted keeps only members still in the
  deleter's `left`, or late ones.
* `EntityRecord`: `Guarded` says that a checked transition is still one from the
  stored status unless another write came between, and that an entity of another
  kind than a task has one status throughout. `Faithful` says, of the field followed,
  what the value in a call's hands is at each stage (the stored one after its
  conversions and what the read made up, the one to be stored, or none because the message
  cannot carry it);
  with `Conversions`, that every kind is read with the properties it is written
  with, `LastGiven` and `OthersKept` follow. Both are stated up to a call that another
  write overtook; that is the lost update of the code, in `overtaken`.
* `Rollback`, `Orderly`: what is swept stays swept, but for what the store refused. While
  a rollback walks its list, every task of the run is moved, kept or still in `left`
  (`Tidy`), and the guard found no foreign dependent, of those the store let it read, of
  the tasks it has yet to reset (`Guarded`). A started_task edge leads to a task of its
  run, unless that task is moved or `tied` (`Linked`). An update that is not `stale` knows
  what its task is and writes along a transition from that (`Current`, `Joining`).
  `Loosened` is what any step may do to the board, and is all the other goroutines'
  invariants need to know of it.
* `SplitPlan`, `Orderly`: only a child that was created is worked on or linked (`Created`);
  how far the plan is tells which children and edges there are, an edge the store
  refused counting as `unwired` (`LaidOut`); one goroutine lays it out (`Single`). Nothing
  is claimed of the children before that: they may run from the moment they exist.
  `Knows` gives a roll-up that has read some children their completions in the log
  `ended`, so its verdict has a cause, and an update to in_progress about to be written
  the ends of the siblings, unless its check came too early (`hasty`). `InTime` says
  that no child joins a parent which a roll-up after the creation has completed.
  `Pursued` says that when all children have ended a roll-up is under way: of two
  reports that come in at once the one whose write is last lists the children after
  it, and that roll-up sees both.
* `ImportJob`, `Advancing`: all the pieces of the plan before the position of the
  goroutine are written. `Stopping`: the goroutine of a cancelled job is gone or its
  context is cancelled, which is what the order of `CancelImportProject` (end the
  context, then write the status) is for.

**Who is on the way.** The properties "nothing is forgotten once all is quiet" say
what a wake-up that got lost would break, and none is inductive. Each invariant names,
for the state that must not last, whoever is bound to end it.

* `WorkflowRun`, `Attended`: a task in progress has an agent that will report, a
  classification or a report to come, or a goroutine in an update that will hand it
  on (`Pursuer`); the ladder's own update never leaves it in progress with nobody.
  It holds without a hypothesis.
* `TaskAssignment`, `Watched`: a held task whose dependencies have all completed has a
  completion announced but not handled, or a goroutine whose cascade has it still
  before it (`Releasing`), unless the check and the write of blocked raced
  (`AssignLost.cfg`). It needs `OneCall` (a task is assigned at most once) and `OneLevel`
  (a dependency has none of its own). Both are needed: see "Seen while modelling".
* `TaskDecomposition`, `OnePlan`: the plan is not there yet, or one goroutine lays it out
  while the others sleep, or it is complete and watched: for a todo whose
  dependencies are done somebody is on the way to wake it (`EndHandled`), for one with
  a failed dependency somebody who will fail it (`FailureHandled`), and a goroutine
  with the verdict "completed" has read every todo done. While it is laid out only the
  planner's completion may be awake besides (`Laying`), and a parent it completes then is
  `premature`. `Undisturbed` says that nobody calls an RPC or gives a direction: `TodoSkip`
  and `TodoRetry` show what becomes of the properties otherwise. `Numbered` (for
  `NoneForgotten` alone) says that the planner's numbers are distinct and that each
  number depended on is there; a todo that waits for a number nobody has waits for
  ever. `todo_join` is an instance of both.
* `WorkGraph`, `Ordered`: in a project that no task left or joined by itself, and in
  which no two creations overlapped, the members' numbers are distinct and at most as
  many as the members; a goroutine creating one has counted them all (`Counted`,
  `Progress`), however many goroutines are busy in other projects. The step that
  needs arithmetic of cardinalities is one lemma, from `FiniteSetTheorems`.

**The write gate.** That a callback is spawned at most once needs
to know that the gate a run's map entry points to has not fired
(`ActiveIsHeld`), and that a gate which never spawned never fired
(`HeldHasNoCause`), so that an expired timer's late function finds `fired` set; that
a new gate starts clean needs `UnopenedIsClean`; that `remaining = {}` means all
confirmed needs that only confirmed paths were struck off, by `OnFileWritten` or
from the early buffer (`OnlyWrittenIsStruckOff`). `Consistent` is their
conjunction with the three properties. `KeepsPromise`, the safety half of the
refinement, uses it once more: under `Consistent`, an action moves the phase of a
gate along one `Move` of `DeferredCall` or not at all (`PhaseStep`).

**Only model-checked.** Liveness, which is out of the prover's reach: `HeldIsApplied`,
`ParentSettles`, `RollbackEnds`, `JobEnds`, `RecordedIsReviewed`, and the fairness half
of the refinement (`ImplementsDeferredCall`; `KeepsPromise` is its safety half).
That the plan of an import covers its document (`PlanCovers`, the hypothesis of
`ImportIsComplete`): `Plan` flattens and filters sequences, so that is induction over
data; TLC evaluates it for the document of the run. `HeldTaskIsReleased`,
`CompletedOnlyAfterAll` and `NoTodoForgotten` outside the hypotheses above: the
first two fail there (a roll-up that read the first plan done may write completed after
a direction has reopened the task for a second one), and the third fails with a number
that nobody has.

## 5. Not modelled

* The registrar, the configuration and the application's start-up
  (`internal/registrar`, `internal/config`, `internal/app`): wiring, route tables and a
  heartbeat, no state the rest depends on.
* The sweeper that calls the watchdog and answers timeouts: CodeValdCross, not in
  this repository. The per-step stale query. Deadlines as values; a cancellation's
  wait is over at any moment.
* A restart between the scheduling of a cancellation's finalization and its
  execution, which the comment at `workflow_run_cancel_server.go:42-47` accepts.
  A restart in the middle of a handler of `TaskDecomposition`, `TaskAssignment` or
  `WorkflowRun` is an event never handled to its end, which `ReviewGate` is about.
* Refused storage calls in those three modules.
* The schema's declarations, the ArangoDB adapter and the gRPC stubs, as far as no
  conversion goes through them; listing, paging, payload contents, error mapping,
  artifacts: nothing there changes state that two callers share.
* Code outside the repository (AI, Git, Cross) appears only as the events it sends.

## 6. Plan

What is left, in this order:

1. `HeldIsReleased` for deeper dependencies, once it is clear what the code should
   promise there; `NoneForgotten` with operator calls that name todos of other plans.
2. Refused storage calls in `TaskDecomposition`, `TaskAssignment` and `WorkflowRun`.
3. A restart in `WorkflowRun`, with the finalization that it loses.
4. A composition of `WriteGate` with `WorkflowRun`, which takes from it only that a
   completion is applied at most once.
