----------------------------- MODULE WorkflowRun -----------------------------
(***************************************************************************)
(* A WorkflowRun and its tasks under failure: the transitions of the run   *)
(* (internal/server/run_status_handler.go, workflow_run.go), the retry     *)
(* ladder, classification, escalation and direction of a failing task      *)
(* (internal/server/event_dispatcher.go), cancellation                     *)
(* (workflow_run_cancel.go) and the watchdog (workflow_run_watchdog.go).   *)
(*                                                                         *)
(* Every event and every RPC has a goroutine (a Worker).  Its first read   *)
(* belongs to the step that receives the event; each later storage call    *)
(* is a step, and a write puts back the whole record its caller read.      *)
(* The tasks have no todos, blockers, dependencies or split parent.        *)
(***************************************************************************)
EXTENDS Naturals, FiniteSets, Lifecycle, Goroutines

CONSTANTS
  Task, NoTask,
  MaxRecoveryRuns,  \* defaultMaxRecoveryRuns
  Spent,            \* recovery runs the tasks may have used up before
  Delivery,         \* how a task's outcome may reach RunStatusHandler: "bare"
                    \* (no run id in the payload), "direct", or "held" (a
                    \* completion that waits in the write gate)
  MaxFailure,       \* bound on task.failed events of agents
  MaxCall           \* bound on RPCs, watchdog events and external events

ASSUME NoTaskAssumption == NoTask \notin Task
ASSUME BudgetAssumption == MaxRecoveryRuns \in Nat \ {0} /\ MaxFailure \in Nat /\ MaxCall \in Nat
ASSUME SpentAssumption == Spent \subseteq [Task -> 0..(MaxRecoveryRuns - 1)]
ASSUME DeliveryAssumption == Delivery \in [Task -> SUBSET {"bare", "direct", "held"}]

VARIABLES
  status, used,  \* of each task; used is recovery_runs_used
  run,           \* status of the run
  starts,        \* per task, task.started events on their way
  outcomes,      \* per task, AgentRuns that still have to report an outcome
  classify,      \* per task, classification requests not yet answered
  asked,         \* per task, direction forms nobody filled in yet
  notes,         \* events for RunStatusHandler on their way, by topic
  finalizers,    \* AfterFunc timers that will finalize a cancellation
  failures, calls,                 \* spent of MaxFailure, MaxCall
  everClosed, matched, reverted    \* history, read by properties only

vars == <<status, used, run, starts, outcomes, classify, asked, notes, finalizers,
          worker, failures, calls, everClosed, matched, reverted>>
tasks == <<status, used, everClosed, reverted>>
agents == <<starts, outcomes, classify, asked>>

Topic == {"assigned", "completed", "failed"}
Closed == {"completed", "cancelled"}

Idle == [pc |-> "idle", task |-> NoTask, to |-> "pending", used |-> 0, was |-> "pending",
         topic |-> "none", then |-> "stop", goal |-> "pending", left |-> {}, bad |-> FALSE]

PC == {"idle", "checkTask", "writeTask", "readRun", "closure", "checkRun", "writeRun",
       "list", "next"}

TypeOK ==
  /\ status \in [Task -> TaskStatus] /\ used \in [Task -> Nat]
  /\ run \in RunStatus
  /\ {starts, outcomes, classify, asked} \subseteq [Task -> Nat]
  /\ notes \in [Topic -> Nat] /\ finalizers \in Nat
  /\ \A w \in Worker :
       /\ worker[w].pc \in PC
       /\ worker[w].task \in Task \cup {NoTask}
       /\ {worker[w].to, worker[w].was} \subseteq TaskStatus
       /\ worker[w].used \in Nat
       /\ worker[w].topic \in Topic \cup {"none", "terminal"}
       /\ worker[w].goal \in RunStatus
       /\ worker[w].left \subseteq Task \cup (Task \X TaskStatus \X Nat)
  /\ failures \in 0..MaxFailure /\ calls \in 0..MaxCall
  /\ everClosed \subseteq Task /\ reverted \subseteq Task /\ matched \in BOOLEAN

(* The run was created and its tasks were linked to it and assigned. *)
Init ==
  /\ status = [t \in Task |-> "pending"]
  /\ used \in Spent
  /\ run = "pending"
  /\ starts = [t \in Task |-> 1]
  /\ outcomes = [t \in Task |-> 0]
  /\ classify = [t \in Task |-> 0] /\ asked = [t \in Task |-> 0]
  /\ notes = [n \in Topic |-> IF n = "assigned" THEN Cardinality(Task) ELSE 0]
  /\ finalizers = 0
  /\ worker = [w \in Worker |-> Idle]
  /\ failures = 0 /\ calls = 0
  /\ everClosed = {} /\ matched = FALSE /\ reverted = {}

-----------------------------------------------------------------------------
(* Shared pieces.                                                          *)

Inc(c) == IF c THEN 1 ELSE 0
Add(f, t, c) == [f EXCEPT ![t] = @ + Inc(c)]

(* A goroutine with the record of task t, about to UpdateTask it to s. *)
Updating(t, s, then) ==
  [Idle EXCEPT !.pc = "checkTask", !.task = t, !.to = s, !.used = used[t], !.then = then]

SetTask(t, s, u) ==
  /\ status' = [status EXCEPT ![t] = s]
  /\ used' = [used EXCEPT ![t] = u]
  /\ everClosed' = IF s \in Closed THEN everClosed \cup {t} ELSE everClosed

(* RunStatusHandler.HandleEvent once it has read the run; a matching       *)
(* terminal_event is the topic "terminal".                                 *)
RunMoves == { <<"pending", "assigned", "in_progress">>,
              <<"in_progress", "failed", "failed">>,
              <<"in_progress", "terminal", "completed">> }

HandleEvent(topic) ==
  IF \E m \in RunMoves : m[1] = run /\ m[2] = topic
  THEN [Idle EXCEPT !.pc = "checkRun", !.then = "event",
                    !.goal = (CHOOSE m \in RunMoves : m[1] = run /\ m[2] = topic)[3]]
  ELSE IF run = "in_progress" /\ topic = "completed"
  THEN [Idle EXCEPT !.pc = "closure", !.then = "event", !.left = Task]
  ELSE Idle

(* What a goroutine does once its task update is through or was refused.   *)
Onward(r) ==
  CASE r.then = "runTimeout" -> IF r.left = {} THEN Idle ELSE [r EXCEPT !.pc = "next"]
    [] r.topic # "none"      -> [Idle EXCEPT !.pc = "readRun", !.topic = r.topic, !.then = "event"]
    [] OTHER                 -> Idle

(* Escalation goes on to pause the run; a retry, a skip and a cancellation *)
(* by direction go on to resume it.                                        *)
Pausing == [Idle EXCEPT !.pc = "readRun", !.then = "pause"]
Resuming(s) == [Idle EXCEPT !.pc = "readRun", !.then = "resume", !.goal = s]

(* UnblockTask goes on to escalate, with the record its update returned.   *)
Escalating(r) == [r EXCEPT !.pc = "checkTask", !.then = "escalate"]

AfterUpdate(r) ==
  CASE r.then = "escalate"  -> Pausing
    [] r.then = "unblock"   -> Escalating(r)
    [] r.then = "retry"     -> Resuming("in_progress")
    [] r.then = "cancelled" -> Resuming("failed")
    [] OTHER                -> Onward(r)

-----------------------------------------------------------------------------
(* Events of the agents.                                                   *)

(* task.started.  Mutant: a redelivered event is handled once more.        *)
ReceiveStartedTwice(w, t) ==
  /\ At(w, "idle")
  /\ starts' = [starts EXCEPT ![t] = @ - 1]
  /\ Become(w, Updating(t, "in_progress", "started"))
  /\ UNCHANGED <<tasks, run, outcomes, classify, asked, notes, finalizers, failures,
                 calls, matched>>

ReceiveStarted(w, t) ==
  /\ At(w, "idle")
  /\ starts[t] > 0
  /\ starts' = [starts EXCEPT ![t] = @ - 1]
  /\ Become(w, Updating(t, "in_progress", "started"))
  /\ UNCHANGED <<tasks, run, outcomes, classify, asked, notes, finalizers, failures,
                 calls, matched>>

(* task.completed.  A held one reaches RunStatusHandler at once, and the   *)
(* task only when the write gate opens.                                    *)
ReceiveCompleted(w, t, how) ==
  /\ At(w, "idle")
  /\ outcomes[t] > 0
  /\ outcomes' = [outcomes EXCEPT ![t] = @ - 1]
  /\ notes' = Add(notes, "completed", how = "held")
  /\ Become(w, [Updating(t, "completed", "stop") EXCEPT
                  !.topic = IF how = "direct" THEN "completed" ELSE "none"])
  /\ UNCHANGED <<tasks, run, starts, classify, asked, finalizers, failures, calls, matched>>

(* task.failed: the ladder counts one more recovery run, with the status   *)
(* it read, whatever that is.                                              *)
ReceiveFailed(w, t, how) ==
  /\ At(w, "idle")
  /\ outcomes[t] > 0
  /\ failures < MaxFailure
  /\ failures' = failures + 1
  /\ outcomes' = [outcomes EXCEPT ![t] = @ - 1]
  /\ Become(w, [Updating(t, status[t], "ladder") EXCEPT
                  !.used = @ + 1, !.topic = IF how = "direct" THEN "failed" ELSE "none"])
  /\ UNCHANGED <<tasks, run, starts, classify, asked, notes, finalizers, calls, matched>>

(* task.failure-classified: "transient" dispatches the task once more,     *)
(* anything else escalates.                                                *)
ReceiveTransient(t) ==
  /\ classify[t] > 0
  /\ classify' = [classify EXCEPT ![t] = @ - 1]
  /\ starts' = Add(starts, t, TRUE)
  /\ notes' = Add(notes, "assigned", TRUE)
  /\ UNCHANGED <<tasks, run, outcomes, asked, finalizers, worker, failures, calls, matched>>

ReceiveRequiresHuman(w, t) ==
  /\ At(w, "idle")
  /\ classify[t] > 0
  /\ classify' = [classify EXCEPT ![t] = @ - 1]
  /\ Become(w, Updating(t, "awaiting", "escalate"))
  /\ UNCHANGED <<tasks, run, starts, outcomes, asked, notes, finalizers, failures, calls, matched>>

-----------------------------------------------------------------------------
(* Directions, RPCs, watchdog and external events.                         *)

(* task.direction, answering a form: handleTaskDirection.  The task has no *)
(* todo to skip, so that option only resumes the run.                      *)
ReceiveDirection(w, t, option) ==
  /\ At(w, "idle")
  /\ asked[t] > 0
  /\ asked' = [asked EXCEPT ![t] = @ - 1]
  /\ Become(w, CASE option = "retry"  -> Updating(t, "in_progress", "retry")
                 [] option = "skip"   -> Resuming("in_progress")
                 [] option = "block"  -> Updating(t, "blocked", "stop")
                 [] option = "cancel" -> Updating(t, "cancelled", "cancelled"))
  /\ UNCHANGED <<tasks, run, starts, outcomes, classify, notes, finalizers, failures,
                 calls, matched>>

(* A call of those MaxCall bounds; its goroutine goes on as r. *)
Call(w, r) ==
  /\ At(w, "idle")
  /\ calls < MaxCall
  /\ calls' = calls + 1
  /\ Become(w, r)
  /\ UNCHANGED <<tasks, run, agents, notes, failures>>

(* task.update (handleTaskUpdate) patches the branch name. *)
ReceiveUpdate(w, t) ==
  /\ Call(w, Updating(t, status[t], "patch"))
  /\ UNCHANGED <<finalizers, matched>>

(* The UnblockTask RPC: two updates, a form, and the run is paused.        *)
UnblockTask(w, t) ==
  /\ TaskCanTransition(status[t], "awaiting")
  /\ Call(w, Updating(t, "awaiting", "unblock"))
  /\ UNCHANGED <<finalizers, matched>>

(* task.timeout, run.timeout (HandleTaskTimeout, HandleRunTimeout). *)
TaskTimeout(w, t) ==
  /\ status[t] \notin TerminalTask
  /\ Call(w, Updating(t, "failed", "taskTimeout"))
  /\ UNCHANGED <<finalizers, matched>>

RunTimeout(w) ==
  /\ run \notin TerminalRun
  /\ Call(w, [Idle EXCEPT !.pc = "checkRun", !.goal = "failed", !.then = "runTimeout"])
  /\ UNCHANGED <<finalizers, matched>>

(* git.merge.failed and the like, or the event the run's terminal_event    *)
(* names.                                                                  *)
ReceiveExternal(w, topic) ==
  /\ run = "in_progress"
  /\ Call(w, HandleEvent(topic))
  /\ matched' = (matched \/ topic = "terminal")
  /\ UNCHANGED finalizers

(* The CancelWorkflowRun RPC: refused unless in_progress; on a cancelling  *)
(* run it only schedules one more finalization.                            *)
CancelWorkflowRun(w) ==
  /\ run \in {"in_progress", "cancelling"}
  /\ Call(w, IF run = "cancelling" THEN Idle
             ELSE [Idle EXCEPT !.pc = "writeRun", !.goal = "cancelling", !.then = "cancelRun"])
  /\ finalizers' = finalizers + Inc(run = "cancelling")
  /\ UNCHANGED matched

(* The quiesce deadline: FinalizeWorkflowRunCancellation.                  *)
(* Mutant: a run is finalized from in_progress only.                       *)
FinalizeInProgress(w) ==
  /\ At(w, "idle")
  /\ finalizers > 0
  /\ finalizers' = finalizers - 1
  /\ Become(w, IF run # "in_progress" THEN Idle
               ELSE [Idle EXCEPT !.pc = "writeRun", !.goal = "cancelled"])
  /\ UNCHANGED <<tasks, run, agents, notes, failures, calls, matched>>

Finalize(w) ==
  /\ At(w, "idle")
  /\ finalizers > 0
  /\ finalizers' = finalizers - 1
  /\ Become(w, IF run # "cancelling" THEN Idle
               ELSE [Idle EXCEPT !.pc = "writeRun", !.goal = "cancelled"])
  /\ UNCHANGED <<tasks, run, agents, notes, failures, calls, matched>>

(* An own event comes back to RunStatusHandler. *)
ReceiveNote(w, topic) ==
  /\ At(w, "idle")
  /\ notes[topic] > 0
  /\ notes' = [notes EXCEPT ![topic] = @ - 1]
  /\ Become(w, HandleEvent(topic))
  /\ UNCHANGED <<tasks, run, agents, finalizers, failures, calls, matched>>

-----------------------------------------------------------------------------
(* UpdateTask.                                                             *)

(* GetTask and the transition check.  A refused ladder update makes the    *)
(* failure an ordinary one.                                                *)
CheckTask(w) ==
  LET r == worker[w]
      s == status[r.task]
  IN
  /\ At(w, "checkTask")
  /\ IF s = r.to \/ TaskCanTransition(s, r.to)
     THEN Become(w, [r EXCEPT !.pc = "writeTask", !.was = s]) /\ UNCHANGED outcomes
     ELSE /\ Become(w, IF r.then = "ladder"
                       THEN [r EXCEPT !.then = "stop", !.to = "failed", !.used = @ - 1]
                       ELSE Onward(r))
          /\ outcomes' = Add(outcomes, r.task, r.then = "started")
  /\ UNCHANGED <<tasks, run, starts, classify, asked, notes, finalizers, failures,
                 calls, matched>>

(* Whether the caller publishes task.assigned after its update, and        *)
(* whether it asks for a classification.  Mutant: a retry is not published. *)
DirectedOnly(r) == r.then = "retry"
Redispatches(r) == r.then = "retry" \/ (r.then = "ladder" /\ r.used < MaxRecoveryRuns)
Exhausted(r) == r.then = "ladder" /\ r.used >= MaxRecoveryRuns

(* The write and what UpdateTask and its caller publish.  A status change  *)
(* into a terminal status is a task.completed, a timeout a task.failed.    *)
WriteTask(w) ==
  LET r == worker[w]
      t == r.task
      landed == r.to \in TerminalTask /\ r.was # r.to
      timeout == r.then \in {"taskTimeout", "runTimeout"}
  IN
  /\ At(w, "writeTask")
  /\ SetTask(t, r.to, r.used)
  /\ reverted' = IF r.then = "patch" /\ status[t] # r.to THEN reverted \cup {t} ELSE reverted
  /\ starts' = Add(starts, t, Redispatches(r))
  /\ outcomes' = Add(outcomes, t, r.then = "started")
  /\ classify' = Add(classify, t, Exhausted(r))
  /\ asked' = Add(asked, t, r.then = "escalate")
  /\ notes' = [n \in Topic |-> notes[n] +
                 CASE n = "assigned"  -> Inc(Redispatches(r))
                   [] n = "completed" -> Inc(landed)
                   [] n = "failed"    -> Inc(timeout)]
  /\ Become(w, AfterUpdate(r))
  /\ UNCHANGED <<run, finalizers, failures, calls, matched>>

-----------------------------------------------------------------------------
(* The run.                                                                *)

(* GetWorkflowRun after a task update. *)
ReadRun(w) ==
  LET r == worker[w] IN
  /\ At(w, "readRun")
  /\ Become(w,
       CASE r.then = "event"  -> HandleEvent(r.topic)
         [] r.then = "pause"  -> IF RunCanTransition(run, "paused")
                                 THEN [r EXCEPT !.pc = "checkRun", !.goal = "paused"] ELSE Idle
         [] r.then = "resume" -> IF run = "paused"
                                 THEN [r EXCEPT !.pc = "closure", !.left = Task] ELSE Idle)
  /\ UNCHANGED <<tasks, run, agents, notes, finalizers, failures, calls, matched>>

(* The task statuses at which the run is not closed yet, and at which it   *)
(* is not resumed yet.  Mutant: only a pending task keeps it open.         *)
OnlyPendingKeeps(s, then) == IF then = "event" THEN s = "pending" ELSE s = "awaiting"
StillKeeps(s, then) == IF then = "event" THEN s \notin TerminalTask ELSE s = "awaiting"

(* GetWorkflowRunClosure reads task by task (allTasksTerminalStatus,       *)
(* maybeResumeWorkflowRun).                                                *)
ReadClosure(w, t) ==
  LET r == worker[w]
      bad == r.bad \/ status[t] = "failed"
  IN
  /\ At(w, "closure") /\ t \in r.left
  /\ Become(w,
       IF StillKeeps(status[t], r.then) THEN Idle
       ELSE IF r.left # {t} THEN [r EXCEPT !.left = @ \ {t}, !.bad = bad]
       ELSE [r EXCEPT !.pc = "checkRun", !.left = {}, !.bad = FALSE,
                      !.goal = IF r.then = "resume" THEN @
                               ELSE IF bad THEN "failed" ELSE "completed"])
  /\ UNCHANGED <<tasks, run, agents, notes, finalizers, failures, calls, matched>>

(* UpdateWorkflowRunStatus: read, check the transition ... *)
CheckRun(w) ==
  LET r == worker[w] IN
  /\ At(w, "checkRun")
  /\ Become(w, IF RunCanTransition(run, r.goal) THEN [r EXCEPT !.pc = "writeRun"] ELSE Idle)
  /\ UNCHANGED <<tasks, run, agents, notes, finalizers, failures, calls, matched>>

(* ... and write, whatever the status is by now.  CancelWorkflowRun and    *)
(* the finalization write without that check.  run.failed comes back.      *)
WriteRun(w) ==
  LET r == worker[w] IN
  /\ At(w, "writeRun")
  /\ run' = r.goal
  /\ notes' = Add(notes, "failed", r.goal = "failed")
  /\ Become(w, IF r.then \in {"runTimeout", "cancelRun"} THEN [r EXCEPT !.pc = "list"] ELSE Idle)
  /\ UNCHANGED <<tasks, agents, finalizers, failures, calls, matched>>

-----------------------------------------------------------------------------
(* The cascades of HandleRunTimeout and CancelWorkflowRun over one listing *)
(* of the tasks.                                                           *)

ListTasks(w) ==
  LET r == worker[w]
      open == {<<t, status[t], used[t]>> : t \in {u \in Task : status[u] \notin TerminalTask}}
  IN
  /\ At(w, "list")
  /\ Become(w, IF open = {} THEN Idle ELSE [r EXCEPT !.pc = "next", !.left = open])
  /\ finalizers' = finalizers + Inc(open = {} /\ r.then = "cancelRun")
  /\ UNCHANGED <<tasks, run, agents, notes, failures, calls, matched>>

(* HandleRunTimeout fails a listed task through UpdateTask. *)
TimeOutNext(w, item) ==
  LET r == worker[w] IN
  /\ At(w, "next") /\ r.then = "runTimeout" /\ item \in r.left
  /\ Become(w, [r EXCEPT !.pc = "checkTask", !.task = item[1], !.to = "failed",
                         !.used = item[3], !.left = @ \ {item}])
  /\ UNCHANGED <<tasks, run, agents, notes, finalizers, failures, calls, matched>>

(* cancelTask checks the listed status and writes the listed record.  The  *)
(* RPC schedules the finalization once it returns.                         *)
CancelNext(w, item) ==
  LET r == worker[w]
      last == r.left = {item}
  IN
  /\ At(w, "next") /\ r.then = "cancelRun" /\ item \in r.left
  /\ IF TaskCanTransition(item[2], "cancelled")
     THEN SetTask(item[1], "cancelled", item[3])
     ELSE UNCHANGED <<status, used, everClosed>>
  /\ Become(w, IF last THEN Idle ELSE [r EXCEPT !.left = @ \ {item}])
  /\ finalizers' = finalizers + Inc(last)
  /\ UNCHANGED <<reverted, run, agents, notes, failures, calls, matched>>

-----------------------------------------------------------------------------
Work(w) ==
  \/ CheckTask(w)
  \/ WriteTask(w)
  \/ ReadRun(w)
  \/ \E t \in Task : ReadClosure(w, t)
  \/ CheckRun(w)
  \/ WriteRun(w)
  \/ ListTasks(w)
  \/ \E item \in worker[w].left : TimeOutNext(w, item) \/ CancelNext(w, item)

Next ==
  \/ \E t \in Task : ReceiveTransient(t)
  \/ \E w \in Worker :
       \/ Work(w)
       \/ \E t \in Task :
            \/ ReceiveStarted(w, t)
            \/ \E how \in Delivery[t] : ReceiveCompleted(w, t, how)
            \/ \E how \in Delivery[t] \ {"held"} : ReceiveFailed(w, t, how)
            \/ ReceiveRequiresHuman(w, t)
            \/ \E option \in {"retry", "skip", "block", "cancel"} : ReceiveDirection(w, t, option)
            \/ ReceiveUpdate(w, t)
            \/ UnblockTask(w, t)
            \/ TaskTimeout(w, t)
       \/ RunTimeout(w)
       \/ \E topic \in {"failed", "terminal"} : ReceiveExternal(w, topic)
       \/ CancelWorkflowRun(w)
       \/ Finalize(w)
       \/ \E topic \in Topic : ReceiveNote(w, topic)

Spec == Init /\ [][Next]_vars

-----------------------------------------------------------------------------
(* Correctness.                                                            *)

(* Nothing is under way; only a human may still fill in a form. *)
Quiescent ==
  /\ \A w \in Worker : worker[w].pc = "idle"
  /\ \A t \in Task : starts[t] = 0 /\ outcomes[t] = 0 /\ classify[t] = 0
  /\ \A n \in Topic : notes[n] = 0
  /\ finalizers = 0

(* Without a matching terminal_event the run is completed only when every  *)
(* task had been completed or cancelled (comment of allTasksTerminalStatus), *)
(* however the reads of the closure interleave with the tasks' updates.    *)
CompletedOnlyAfterAll == run = "completed" /\ ~matched => Task \subseteq everClosed

(* No task is left in_progress with no agent on it, nothing on its way and *)
(* nobody asked: ladder, classification and escalation always hand it on.  *)
(* (task.update may put back an in_progress it read: reverted.)            *)
NoTaskAbandoned ==
  Quiescent => \A t \in Task \ reverted : status[t] # "in_progress"

(* A cancellation reaches its end: however cancellations, failures and     *)
(* completions race for the run, it is not left cancelling once no         *)
(* finalization is on its way any more.                                    *)
CancellationEnds == Quiescent => run # "cancelling"

(* A paused run is held by a task somebody can still give direction for    *)
(* (comment of WorkflowRunStatusPaused): the run resumes with the last one. *)
PausedRunHasHeldTask ==
  Quiescent /\ run = "paused" => \E t \in Task : status[t] \in {"awaiting", "blocked"}

=============================================================================
