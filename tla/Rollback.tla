------------------------------ MODULE Rollback ------------------------------
(***************************************************************************)
(* Rolling a WorkflowRun back: the rolling_back lock, the guard against    *)
(* dependents in other runs, the reset of the run's tasks and the deletion *)
(* of its todos (workflow_run_rollback.go), against task updates that are  *)
(* on their way (task_impl_task.go).                                       *)
(*                                                                         *)
(* Every call has a goroutine (a Worker); its first read belongs to the    *)
(* step that receives it, each later storage call is a step.  No task      *)
(* blocks another, and the dependencies do not change.                     *)
(***************************************************************************)
EXTENDS Naturals, FiniteSets, Lifecycle, Goroutines

CONSTANTS
  Run, Task, Todo, NoRun, NoTask,
  DependsOn,    \* depends_on edges: the tasks a task depends on
  Owner,        \* workflow_run_id of each task to begin with
  TodoRun,      \* workflow_run_id of each todo
  MaxRollback,  \* bound on RollbackWorkflowRun calls
  MaxUpdate,    \* bound on task updates
  MaxFault      \* bound on refused storage calls and crashes

ASSUME NullAssumption == NoRun \notin Run /\ NoTask \notin Task
ASSUME ShapeAssumption ==
  /\ Task \cap Todo = {}
  /\ DependsOn \in [Task -> SUBSET Task]
  /\ Owner \in [Task -> Run \cup {NoRun}]
  /\ TodoRun \in [Todo -> Run]
ASSUME BoundAssumption == MaxRollback \in Nat /\ MaxUpdate \in Nat /\ MaxFault \in Nat

VARIABLES
  run,      \* status of each run
  task,     \* stored entity of each task; done: completed_at is not empty
  started,  \* started_task edges, <<run, task>>
  todo,     \* the todos that are left
  rollbacks, updates, faults,  \* spent of the bounds
  stale,    \* history: updates under way whose task another call has written since they read it
  moved,    \* history: tasks an update gave another run or wrote from a stale record
  kept,     \* history: tasks and todos the store refused to reset or delete
  tied,     \* history: tasks whose started_task edge the store refused to remove
  unread,   \* history: dependents the store refused to read to a guard
  lost      \* history: a crash, or a status of a run the store refused

vars == <<run, task, started, todo, worker, rollbacks, updates, faults, stale, moved, kept, tied,
          unread, lost>>
bounds == <<rollbacks, updates, faults>>
refusals == <<kept, tied, unread, lost>>
history == <<stale, moved, refusals>>

Record == [status : TaskStatus, owner : Run \cup {NoRun}, done : BOOLEAN]
Blank == [status |-> "pending", owner |-> NoRun, done |-> FALSE]

Idle == [pc |-> "idle", run |-> NoRun, goal |-> "rolling_back", deps |-> {}, left |-> {},
         task |-> NoTask, new |-> Blank]
PC == {"idle", "checkRun", "writeRun", "list", "guard", "unlink", "reset", "listTodos",
       "delete", "checkTask", "writeTask", "link"}

TypeOK ==
  /\ run \in [Run -> RunStatus]
  /\ task \in [Task -> Record]
  /\ started \subseteq Run \X Task
  /\ todo \subseteq Todo
  /\ \A w \in Worker :
       /\ worker[w].pc \in PC
       /\ worker[w].run \in Run \cup {NoRun}
       /\ worker[w].goal \in {"rolling_back", "rolled_back", "rollback_failed"}
       /\ worker[w].deps \subseteq Task
       /\ worker[w].left \subseteq Task \cup Todo
       /\ worker[w].task \in Task \cup {NoTask}
       /\ worker[w].new \in Record
  /\ rollbacks \in 0..MaxRollback /\ updates \in 0..MaxUpdate /\ faults \in 0..MaxFault
  /\ stale \subseteq Worker /\ moved \subseteq Task /\ kept \subseteq Task \cup Todo
  /\ tied \subseteq Task /\ unread \subseteq Task /\ lost \in BOOLEAN

(* Runs that ended; a task may still be worked on or have failed. *)
Init ==
  /\ run \in [Run -> {"failed", "completed"}]
  /\ task \in [Task -> {r \in Record : r.status \in {"in_progress", "failed"}
                                       /\ r.done = (r.status = "failed")}]
  /\ \A t \in Task : task[t].owner = Owner[t]
  /\ started = {e \in Run \X Task : e[1] = Owner[e[2]]}
  /\ todo = Todo
  /\ worker = [w \in Worker |-> Idle]
  /\ rollbacks = 0 /\ updates = 0 /\ faults = 0
  /\ stale = {} /\ moved = {} /\ kept = {} /\ tied = {} /\ unread = {} /\ lost = FALSE

-----------------------------------------------------------------------------
(* Shared pieces.                                                          *)

Goto(w, pc) == Become(w, [worker[w] EXCEPT !.pc = pc])

(* The sources of the depends_on edges into t.                             *)
(* Mutant: their targets.                                                  *)
Dependencies(t) == DependsOn[t]
Dependents(t) == {d \in Task : t \in DependsOn[d]}

(* The task updates that have read t and not yet written it.               *)
Updating(t) ==
  {w \in Worker : worker[w].task = t /\ worker[w].pc \in {"checkTask", "writeTask"}}

(* A loop goes on at pc while anything is left, and ends at end. *)
NextOf(r, pc, end) == [r EXCEPT !.pc = IF r.left = {} THEN end ELSE pc]

(* The status a call moves the run to next.                                *)
(* Mutant: a rollback that failed is noted as a failed run.                *)
FinishingFailed(r, goal) ==
  [Idle EXCEPT !.pc = "checkRun", !.run = r,
               !.goal = IF goal = "rollback_failed" THEN "failed" ELSE goal]
Finishing(r, goal) == [Idle EXCEPT !.pc = "checkRun", !.run = r, !.goal = goal]

-----------------------------------------------------------------------------
(* RollbackWorkflowRun.                                                    *)

ReceiveRollback(w, r) ==
  /\ At(w, "idle")
  /\ rollbacks < MaxRollback
  /\ RunCanTransition(run[r], "rolling_back")
  /\ rollbacks' = rollbacks + 1
  /\ Become(w, Finishing(r, "rolling_back"))
  /\ UNCHANGED <<run, task, started, todo, updates, faults, history>>

(* UpdateWorkflowRunStatus reads the run again and checks the transition;  *)
(* refused, it ends the call.                                              *)
CheckRun(w) ==
  LET me == worker[w] IN
  /\ At(w, "checkRun")
  /\ Become(w, IF RunCanTransition(run[me.run], me.goal) THEN [me EXCEPT !.pc = "writeRun"] ELSE Idle)
  /\ UNCHANGED <<run, task, started, todo, bounds, history>>

WriteRun(w) ==
  LET me == worker[w] IN
  /\ At(w, "writeRun")
  /\ run' = [run EXCEPT ![me.run] = me.goal]
  /\ Become(w, IF me.goal = "rolling_back" THEN [me EXCEPT !.pc = "list"] ELSE Idle)
  /\ UNCHANGED <<task, started, todo, bounds, history>>

(* DeleteWorkflowRunArtifacts lists the tasks of the run.                  *)
(* Mutant: only those that ended.                                          *)
ListEnded(w) ==
  LET me == worker[w]
      mine == {t \in Task : task[t].owner = me.run /\ task[t].status \in TerminalTask} IN
  /\ At(w, "list")
  /\ Become(w, [me EXCEPT !.pc = "guard", !.left = mine, !.deps = UNION {Dependents(t) : t \in mine}])
  /\ UNCHANGED <<run, task, started, todo, bounds, history>>

ListTasks(w) ==
  LET me == worker[w]
      mine == {t \in Task : task[t].owner = me.run} IN
  /\ At(w, "list")
  /\ Become(w, [me EXCEPT !.pc = "guard", !.left = mine, !.deps = UNION {Dependents(t) : t \in mine}])
  /\ UNCHANGED <<run, task, started, todo, bounds, history>>

(* It reads the dependents of these tasks one by one; one that belongs to  *)
(* another run (ErrForeignRunDependency) fails the rollback.               *)
(* Mutant: the failure is returned without a word to the run.              *)
GuardSilently(w) ==
  LET me == worker[w] IN
  /\ At(w, "guard")
  /\ IF me.deps = {} THEN Become(w, NextOf(me, "unlink", "listTodos"))
     ELSE \E d \in me.deps :
            Become(w, IF task[d].owner \notin {NoRun, me.run} THEN Idle
                      ELSE [me EXCEPT !.deps = @ \ {d}])
  /\ UNCHANGED <<run, task, started, todo, bounds, history>>

Guard(w) ==
  LET me == worker[w] IN
  /\ At(w, "guard")
  /\ IF me.deps = {} THEN Become(w, NextOf(me, "unlink", "listTodos"))
     ELSE \E d \in me.deps :
            Become(w, IF task[d].owner \notin {NoRun, me.run}
                      THEN Finishing(me.run, "rollback_failed")
                      ELSE [me EXCEPT !.deps = @ \ {d}])
  /\ UNCHANGED <<run, task, started, todo, bounds, history>>

(* removeStartedTaskEdge of the next task. *)
Unlink(w) ==
  \E t \in worker[w].left :
    /\ At(w, "unlink")
    /\ started' = started \ (Run \X {t})
    /\ Become(w, [worker[w] EXCEPT !.pc = "reset", !.task = t])
    /\ UNCHANGED <<run, task, todo, bounds, history>>

(* The loop over the tasks of the run. *)
AfterReset(w) ==
  LET me == worker[w] IN
  Become(w, NextOf([me EXCEPT !.left = @ \ {me.task}, !.task = NoTask], "unlink", "listTodos"))

(* Mutant: the reset leaves an empty completed_at out, as taskToProperties *)
(* does.                                                                   *)
ResetButDone(w) ==
  /\ At(w, "reset")
  /\ task' = [task EXCEPT ![worker[w].task] = [Blank EXCEPT !.done = @ \/ task[worker[w].task].done]]
  /\ stale' = stale \cup Updating(worker[w].task)
  /\ AfterReset(w)
  /\ UNCHANGED <<run, started, todo, bounds, moved, refusals>>

ResetTask(w) ==
  /\ At(w, "reset")
  /\ task' = [task EXCEPT ![worker[w].task] = Blank]
  /\ stale' = stale \cup Updating(worker[w].task)
  /\ AfterReset(w)
  /\ UNCHANGED <<run, started, todo, bounds, moved, refusals>>

ListTodos(w) ==
  LET me == worker[w] IN
  /\ At(w, "listTodos")
  /\ Become(w, LET mine == {d \in todo : TodoRun[d] = me.run} IN
               IF mine = {} THEN Finishing(me.run, "rolled_back")
               ELSE [me EXCEPT !.pc = "delete", !.left = mine])
  /\ UNCHANGED <<run, task, started, todo, bounds, history>>

AfterDelete(w, d) ==
  LET left == worker[w].left \ {d} IN
  Become(w, IF left = {} THEN Finishing(worker[w].run, "rolled_back")
            ELSE [worker[w] EXCEPT !.left = left])

(* deleteEntityEdges and DeleteEntity; a todo that is gone is only logged. *)
DeleteTodo(w) ==
  \E d \in worker[w].left :
    /\ At(w, "delete")
    /\ todo' = todo \ {d}
    /\ AfterDelete(w, d)
    /\ UNCHANGED <<run, task, started, bounds, history>>

-----------------------------------------------------------------------------
(* The store refuses a call, or the process stops.                         *)

Fault == faults < MaxFault /\ faults' = faults + 1

(* A dependent that cannot be read, for whatever reason, is taken for a    *)
(* missing task: the guard goes on without it.                             *)
GuardRefused(w) ==
  \E d \in worker[w].deps :
    /\ At(w, "guard") /\ Fault
    /\ unread' = unread \cup {d}
    /\ Become(w, [worker[w] EXCEPT !.deps = @ \ {d}])
    /\ UNCHANGED <<run, task, started, todo, rollbacks, updates, stale, moved, kept, tied, lost>>

(* removeStartedTaskEdge: the list of a task's edges is refused and they   *)
(* all stay, or the deletion of one of them; the task is reset all the     *)
(* same.                                                                   *)
UnlinkRefused(w) ==
  \E t \in worker[w].left :
    LET edges == started \cap (Run \X {t}) IN
    /\ At(w, "unlink") /\ Fault
    /\ \E stay \in {edges} \cup {{e} : e \in edges} : started' = (started \ edges) \cup stay
    /\ tied' = tied \cup {t}
    /\ Become(w, [worker[w] EXCEPT !.pc = "reset", !.task = t])
    /\ UNCHANGED <<run, task, todo, rollbacks, updates, stale, moved, kept, unread, lost>>

(* Logged, and the cleanup goes on. *)
ResetRefused(w) ==
  /\ At(w, "reset") /\ Fault
  /\ kept' = kept \cup {worker[w].task}
  /\ AfterReset(w)
  /\ UNCHANGED <<run, task, started, todo, rollbacks, updates, stale, moved, tied, unread, lost>>

DeleteRefused(w) ==
  \E d \in worker[w].left :
    /\ At(w, "delete") /\ Fault
    /\ kept' = kept \cup {d}
    /\ AfterDelete(w, d)
    /\ UNCHANGED <<run, task, started, todo, rollbacks, updates, stale, moved, tied, unread, lost>>

(* A list that fails, that of the dependents of a task too, ends the       *)
(* cleanup: the rollback failed.                                           *)
ListRefused(w) ==
  /\ worker[w].pc \in {"list", "guard", "listTodos"} /\ Fault
  /\ Become(w, Finishing(worker[w].run, "rollback_failed"))
  /\ UNCHANGED <<run, task, started, todo, rollbacks, updates, history>>

StatusRefused(w) ==
  /\ worker[w].pc \in {"checkRun", "writeRun"} /\ Fault
  /\ Become(w, Idle)
  /\ lost' = TRUE
  /\ UNCHANGED <<run, task, started, todo, rollbacks, updates, stale, moved, kept, tied, unread>>

Crash ==
  /\ Fault
  /\ worker' = [w \in Worker |-> Idle]
  /\ lost' = TRUE /\ stale' = {}
  /\ UNCHANGED <<run, task, started, todo, rollbacks, updates, moved, kept, tied, unread>>

-----------------------------------------------------------------------------
(* Task updates: a report of an agent changes the status, a caller may put *)
(* a task that has no run into one.  The whole record is written back.     *)

ReceiveUpdate(w, t, s, o) ==
  /\ At(w, "idle")
  /\ updates < MaxUpdate
  /\ o # task[t].owner => task[t].owner = NoRun /\ s = task[t].status
  /\ updates' = updates + 1
  /\ Become(w, [Idle EXCEPT !.pc = "checkTask", !.task = t,
                            !.new = [task[t] EXCEPT !.status = s, !.owner = o]])
  /\ stale' = stale \ {w}
  /\ UNCHANGED <<run, task, started, todo, rollbacks, faults, moved, refusals>>

(* UpdateTask reads the task and checks the transition; !.run remembers    *)
(* the run to link when the task has none.                                 *)
CheckTask(w) ==
  LET me == worker[w]
      current == task[me.task] IN
  /\ At(w, "checkTask")
  /\ Become(w, IF current.status = me.new.status \/ TaskCanTransition(current.status, me.new.status)
               THEN [me EXCEPT !.pc = "writeTask",
                               !.run = IF current.owner = NoRun THEN me.new.owner ELSE NoRun]
               ELSE Idle)
  /\ UNCHANGED <<run, task, started, todo, bounds, history>>

(* An empty completed_at is left out, so that the stored one stays. *)
WriteTask(w) ==
  LET me == worker[w]
      t == me.task
      done == me.new.done \/ me.new.status \in TerminalTask \/ task[t].done IN
  /\ At(w, "writeTask")
  /\ task' = [task EXCEPT ![t] = [me.new EXCEPT !.done = done]]
  /\ moved' = IF w \in stale \/ me.new.owner # task[t].owner THEN moved \cup {t} ELSE moved
  /\ stale' = (stale \cup Updating(t)) \ {w}
  /\ Become(w, IF me.run = NoRun THEN Idle ELSE [me EXCEPT !.pc = "link"])
  /\ UNCHANGED <<run, started, todo, bounds, refusals>>

LinkTaskToRun(w) ==
  LET me == worker[w] IN
  /\ At(w, "link")
  /\ started' = started \cup {<<me.run, me.task>>}
  /\ Become(w, Idle)
  /\ UNCHANGED <<run, task, todo, bounds, history>>

-----------------------------------------------------------------------------
Step(w) ==
  \/ CheckRun(w) \/ WriteRun(w) \/ ListTasks(w) \/ Guard(w) \/ Unlink(w) \/ ResetTask(w)
  \/ ListTodos(w) \/ DeleteTodo(w)
  \/ CheckTask(w) \/ WriteTask(w) \/ LinkTaskToRun(w)

Next ==
  \/ \E w \in Worker :
       \/ Step(w)
       \/ \E r \in Run : ReceiveRollback(w, r)
       \/ \E t \in Task, s \in {"pending", "in_progress", "completed", "failed"}, o \in Run \cup {NoRun} :
            ReceiveUpdate(w, t, s, o)
       \/ GuardRefused(w) \/ UnlinkRefused(w) \/ ResetRefused(w) \/ DeleteRefused(w)
       \/ ListRefused(w) \/ StatusRefused(w)
  \/ Crash

(* A goroutine that has started keeps running. *)
Fairness == \A w \in Worker : WF_vars(Step(w))

Spec == Init /\ [][Next]_vars /\ Fairness

-----------------------------------------------------------------------------
(* What a rollback promises.                                               *)

(* A rolled back run has left nothing behind: no task carries its id or    *)
(* its edge, none of its todos is left - but for exactly what the store    *)
(* refused to reset, to unlink or to delete, and tasks that were put back  *)
(* by an update on its way (DeleteWorkflowRunArtifacts, the finalizing     *)
(* UpdateWorkflowRunStatus).                                               *)
NothingLeft ==
  \A r \in Run :
    run[r] = "rolled_back" =>
      /\ \A t \in Task \ (moved \cup kept) : task[t].owner # r
      /\ \A t \in Task \ (moved \cup tied) : <<r, t>> \notin started
      /\ \A d \in todo \ kept : TodoRun[d] # r

(* A rollback takes no task away that a task of another run depends on,    *)
(* unless that one came there by an update while the rollback was under    *)
(* way, or the store refused to read it (ErrForeignRunDependency).         *)
SharedKept ==
  [][\A t \in Task :
       task[t].owner # NoRun /\ task'[t].owner = NoRun /\ t \notin moved' =>
         \A d \in {u \in Task : t \in DependsOn[u]} \ (moved \cup unread) :
           task[d].owner \in {NoRun, task[t].owner}]_vars

(* A pending task has no completed_at, so that its next completion gets    *)
(* its own (the reset bypasses taskToProperties for this).                 *)
NoStaleCompletion == \A t \in Task \ moved : task[t].status = "pending" => ~task[t].done

(* A rollback comes to an end: whatever the guard finds and the store      *)
(* refuses, the run leaves rolling_back, which no other call would do for  *)
(* it (ErrRollbackConflict); only a crash or a lost status keeps it there. *)
RollbackEnds == \A r \in Run : run[r] = "rolling_back" ~> (run[r] # "rolling_back" \/ lost)

=============================================================================
