-------------------------- MODULE TaskDecomposition --------------------------
(***************************************************************************)
(* A Task an AI planner decomposed into TaskTodos: creation and dispatch   *)
(* of the todos, their status cascade and the roll-up into the parent      *)
(* (todo.go, internal/server/event_dispatcher.go).                         *)
(*                                                                         *)
(* Every event and every RPC is served by a goroutine of its own (a        *)
(* Worker) against a store without transactions, so each storage call of a *)
(* handler is a step and handlers interleave between any two of them.      *)
(***************************************************************************)
EXTENDS Naturals, FiniteSets, Lifecycle, Goroutines

CONSTANTS
  Todo,          \* the todos of every decomposition
  Ord,           \* ordinalities
  NoTodo,
  OrdOf,         \* Ordinality of a todo
  DependsOn,     \* DependsOn of a todo: ordinalities
  DecompOf,      \* the decomposition (DecompRunID) of a todo, 1, 2, ...
  InOrder,       \* TRUE: the outcome of a todo's AgentRun is sent after the handler
                 \* of its task.started has returned: an agent works for minutes
  MaxOperator,   \* bound on FailTodo and SkipTodo calls
  MaxDirection   \* bound on task.direction events

ASSUME NoTodoAssumption == NoTodo \notin Todo
ASSUME ShapeAssumption ==
  /\ OrdOf \in [Todo -> Ord]
  /\ DependsOn \in [Todo -> SUBSET Ord]
  /\ DecompOf \in [Todo -> Nat \ {0}]

VARIABLES
  status,    \* of each todo; "none" until its has_todo edge exists
  parent,    \* status of the parent task
  starts,    \* per todo, task.started events on their way
  outcomes,  \* per todo, AgentRuns that still have to report their outcome
  plans,     \* AgentRuns about to send todo.created for the parent
  planners,  \* task.completed events of planners, sent right after their plan
  made,      \* decompositions created so far; CreatedAt follows this order
  operator, direction,  \* FailTodo/SkipTodo calls, directions so far
  everDone, everFailed, sent, reported,  \* history, read by properties only
  premature  \* history: the parent's last write is by a planner's completion
             \* that found no todo yet

vars == <<status, parent, starts, outcomes, plans, planners, made, worker,
          operator, direction, everDone, everFailed, sent, reported, premature>>
history == <<everDone, everFailed, sent, reported, premature>>
arrivals == <<plans, planners, made, operator, direction>>

Decomposition == {DecompOf[t] : t \in Todo}
Linked == {t \in Todo : status[t] # "none"}
Items(d) == {t \in Todo : DecompOf[t] = d}
DepsOf(t) == {u \in Todo : DecompOf[u] = DecompOf[t] /\ OrdOf[u] \in DependsOn[t]}

Idle == [pc |-> "idle", todo |-> NoTodo, left |-> {}, seen |-> [o \in Ord |-> "none"],
         ready |-> {}, picked |-> NoTodo, bad |-> FALSE, open |-> FALSE,
         goal |-> "none", then |-> "stop"]

PC == {"idle", "create", "dispatch", "listForUnblock", "unblock", "listForCascade",
       "cascade", "listForRollUp", "rollUp", "readTask", "checkTask", "writeTask",
       "listForSkip", "findFailed", "skip"}

TypeOK ==
  /\ status \in [Todo -> TodoStatus \cup {"none"}]
  /\ parent \in TaskStatus
  /\ starts \in [Todo -> Nat] /\ outcomes \in [Todo -> Nat]
  /\ plans \in Nat /\ planners \in Nat /\ operator \in Nat /\ direction \in Nat
  /\ made \in Nat
  /\ \A w \in Worker :
       /\ worker[w].pc \in PC
       /\ worker[w].todo \in Todo \cup {NoTodo}
       /\ worker[w].left \subseteq Todo \cup (Ord \X Todo)
       /\ worker[w].seen \in [Ord -> TodoStatus \cup {"none"}]
       /\ worker[w].ready \subseteq Todo
       /\ worker[w].picked \in Todo \cup {NoTodo}
       /\ worker[w].goal \in TaskStatus \cup {"none"}
       /\ worker[w].then \in {"stop", "rollUp", "reopen", "replan", "planner"}
  /\ everDone \subseteq Todo /\ everFailed \subseteq Todo
  /\ sent \subseteq Todo /\ reported \subseteq Todo /\ premature \in BOOLEAN

(* The parent is assigned and its planner runs; nothing is decomposed yet. *)
Init ==
  /\ status = [t \in Todo |-> "none"]
  /\ parent = "in_progress"
  /\ starts = [t \in Todo |-> 0]
  /\ outcomes = [t \in Todo |-> 0]
  /\ plans = 1 /\ planners = 0
  /\ made = 0
  /\ worker = [w \in Worker |-> Idle]
  /\ operator = 0 /\ direction = 0
  /\ everDone = {} /\ everFailed = {} /\ sent = {} /\ reported = {} /\ premature = FALSE

-----------------------------------------------------------------------------
(* Shared pieces.                                                          *)

Goto(pc, then) == [Idle EXCEPT !.pc = pc, !.then = then]

(* UpdateEntity of a todo's status, with its history. *)
SetStatus(t, s) ==
  /\ status' = [status EXCEPT ![t] = s]
  /\ everDone' = IF s \in TodoDone THEN everDone \cup {t} ELSE everDone
  /\ everFailed' = IF s = "failed" THEN everFailed \cup {t} ELSE everFailed

(* Publish todo.dispatched: an AgentRun that will report a start and an    *)
(* outcome.                                                                *)
Publish(t) ==
  /\ starts' = [starts EXCEPT ![t] = @ + 1]
  /\ outcomes' = IF InOrder THEN outcomes ELSE [outcomes EXCEPT ![t] = @ + 1]
  /\ sent' = sent \cup {t}

(* What a handler does once its dispatches, or its cascade, are through.   *)
Onward(r) == IF r.then = "stop" THEN Idle ELSE Goto("listForRollUp", r.then)

(* What a handler does once its roll-up is through: a skip direction still *)
(* moves the task back to in_progress.                                     *)
AfterRollUp(r) ==
  IF r.then = "reopen" THEN [Goto("checkTask", "stop") EXCEPT !.goal = "in_progress"]
  ELSE Idle

(* A worker writes a terminal status and then cascades it.                 *)
EndTodo(w, t, s, then) ==
  /\ SetStatus(t, s)
  /\ Become(w, [Goto(IF s = "failed" THEN "listForCascade" ELSE "listForUnblock", then)
                 EXCEPT !.todo = t])

-----------------------------------------------------------------------------
(* Events and calls, each starting a goroutine.                            *)

(* task.started of a todo: updateTodoStatus writes and returns. *)
ReceiveStarted(t) ==
  /\ starts[t] > 0
  /\ starts' = [starts EXCEPT ![t] = @ - 1]
  /\ outcomes' = IF InOrder THEN [outcomes EXCEPT ![t] = @ + 1] ELSE outcomes
  /\ SetStatus(t, "dispatched")
  /\ UNCHANGED <<parent, worker, arrivals, sent, reported, premature>>

(* task.completed or task.failed of a todo: updateTodoStatus.              *)
(* Mutant: a redelivered report is handled once more.                      *)
ReceiveOutcomeTwice(w, t, s) ==
  /\ At(w, "idle")
  /\ t \in sent
  /\ outcomes' = [outcomes EXCEPT ![t] = @ - 1]
  /\ EndTodo(w, t, s, "rollUp")
  /\ reported' = IF s = "failed" THEN reported \cup {t} ELSE reported
  /\ UNCHANGED <<parent, starts, arrivals, sent, premature>>

ReceiveOutcome(w, t, s) ==
  /\ At(w, "idle")
  /\ outcomes[t] > 0
  /\ outcomes' = [outcomes EXCEPT ![t] = @ - 1]
  /\ EndTodo(w, t, s, "rollUp")
  /\ reported' = IF s = "failed" THEN reported \cup {t} ELSE reported
  /\ UNCHANGED <<parent, starts, arrivals, sent, premature>>

(* The FailTodo (FailTodoWithCascade) and SkipTodo RPCs check no status.   *)
OperatorCall(w, t, s) ==
  /\ At(w, "idle")
  /\ operator < MaxOperator
  /\ t \in Linked
  /\ operator' = operator + 1
  /\ EndTodo(w, t, s, "rollUp")
  /\ reported' = IF s = "failed" THEN reported \cup {t} ELSE reported
  /\ UNCHANGED <<parent, starts, outcomes, plans, planners, made, direction, sent, premature>>

(* todo.created: handleAITodoCreated starts on the next decomposition, in  *)
(* a goroutine of its own that the planner's completion does not wait for. *)
ReceivePlan(w) ==
  /\ At(w, "idle")
  /\ plans > 0
  /\ made + 1 \in Decomposition
  /\ plans' = plans - 1
  /\ made' = made + 1
  /\ planners' = planners + 1
  /\ Become(w, [Goto("create", "stop") EXCEPT !.left = Items(made + 1)])
  /\ UNCHANGED <<status, parent, starts, outcomes, operator, direction, history>>

(* The planner's own task.completed.  applyAITaskStatus defers to the      *)
(* todos when the parent has any, and completes the parent when not.       *)
(* Mutant: it does not ask.                                                *)
ReceivePlannerAlways(w) ==
  /\ At(w, "idle")
  /\ planners > 0
  /\ planners' = planners - 1
  /\ Become(w, [Goto("checkTask", IF Linked = {} THEN "planner" ELSE "stop")
                 EXCEPT !.goal = "completed"])
  /\ UNCHANGED <<status, parent, starts, outcomes, plans, made, operator, direction, history>>

ReceivePlanner(w) ==
  /\ At(w, "idle")
  /\ planners > 0
  /\ planners' = planners - 1
  /\ IF Linked # {} THEN UNCHANGED worker
     ELSE Become(w, [Goto("checkTask", "planner") EXCEPT !.goal = "completed"])
  /\ UNCHANGED <<status, parent, starts, outcomes, plans, made, operator, direction, history>>

(* work.task.direction on a failed task: "skip" looks for a failed todo,   *)
(* "retry-with-instructions" reopens the task and has it planned again.    *)
ReceiveDirection(w, option) ==
  /\ At(w, "idle")
  /\ direction < MaxDirection
  /\ parent = "failed"
  /\ option = "retry" => made + 1 \in Decomposition
  /\ direction' = direction + 1
  /\ Become(w, IF option = "skip" THEN Goto("listForSkip", "reopen")
               ELSE [Goto("checkTask", "replan") EXCEPT !.goal = "in_progress"])
  /\ UNCHANGED <<status, parent, starts, outcomes, plans, planners, made, operator, history>>

-----------------------------------------------------------------------------
(* handleAITodoCreated.                                                    *)

(* The status CreateTaskTodo gives: a todo that waits is blocked.          *)
CreateTaskTodo(t) == IF DependsOn[t] = {} THEN "pending" ELSE "blocked"

(* CreateTaskTodo and the has_todo edge: readers reach a todo by its edge, *)
(* so the pair is one step for them.  Roots are dispatched at the end.     *)
(* Mutant: a todo with dependencies starts pending and is dispatched too.  *)
CreateAllReady(w, t) ==
  LET r == worker[w] IN
  /\ At(w, "create") /\ t \in r.left
  /\ SetStatus(t, "pending")
  /\ Become(w, IF r.left = {t}
               THEN [Goto("dispatch", "stop") EXCEPT !.ready = Items(DecompOf[t])]
               ELSE [r EXCEPT !.left = @ \ {t}])
  /\ UNCHANGED <<parent, starts, outcomes, arrivals, sent, reported, premature>>

Create(w, t) ==
  LET r == worker[w]
      roots == {u \in Items(DecompOf[t]) : DependsOn[u] = {}}
  IN
  /\ At(w, "create") /\ t \in r.left
  /\ SetStatus(t, CreateTaskTodo(t))
  /\ Become(w, IF r.left # {t} THEN [r EXCEPT !.left = @ \ {t}]
               ELSE IF roots = {} THEN Idle
               ELSE [Goto("dispatch", "stop") EXCEPT !.ready = roots])
  /\ UNCHANGED <<parent, starts, outcomes, arrivals, sent, reported, premature>>

(* DispatchTaskTodo reads the todo, and writes pending when it is blocked. *)
(* The event is published either way.                                      *)
Dispatched(w, t) ==
  LET r == worker[w]
      rest == [r EXCEPT !.ready = @ \ {t}, !.picked = NoTodo]
  IN
  /\ Publish(t)
  /\ Become(w, IF rest.ready = {} THEN Onward(rest) ELSE rest)

DispatchTaskTodo(w, t) ==
  LET r == worker[w] IN
  /\ At(w, "dispatch") /\ r.picked = NoTodo /\ t \in r.ready
  /\ IF status[t] = "blocked"
     THEN /\ Become(w, [r EXCEPT !.picked = t])
          /\ UNCHANGED <<starts, outcomes, sent>>
     ELSE Dispatched(w, t)
  /\ UNCHANGED <<status, parent, arrivals, everDone, everFailed, reported, premature>>

DispatchUnblock(w) ==
  LET t == worker[w].picked IN
  /\ At(w, "dispatch") /\ t # NoTodo
  /\ SetStatus(t, "pending")
  /\ Dispatched(w, t)
  /\ UNCHANGED <<parent, arrivals, reported, premature>>

-----------------------------------------------------------------------------
(* unblockDependentTodos, blockDependentTodos.                             *)

(* TraverseRelationships over has_todo. *)
ListForUnblock(w) ==
  /\ At(w, "listForUnblock")
  /\ Become(w, [worker[w] EXCEPT !.pc = "unblock", !.left = Linked])
  /\ UNCHANGED <<status, parent, starts, outcomes, arrivals, history>>

(* Mutants: one finished dependency is enough; a skipped one does not count. *)
CompletedOnly(t, seen) == \A o \in DependsOn[t] : seen[o] = "completed"
AnyDependencyDone(t, seen) == \E o \in DependsOn[t] : seen[o] \in TodoDone
AllDependenciesDone(t, seen) == \A o \in DependsOn[t] : seen[o] \in TodoDone

(* Read the siblings one by one into a map keyed by ordinality; once all   *)
(* are read, pick the blocked ones that now have every dependency done.    *)
Unblock(w, t) ==
  LET r    == worker[w]
      seen == [r.seen EXCEPT ![OrdOf[t]] = status[t]]
      cand == IF status[t] = "blocked" /\ OrdOf[r.todo] \in DependsOn[t]
              THEN r.ready \cup {t} ELSE r.ready
      pick == {u \in cand : AllDependenciesDone(u, seen)}
  IN
  /\ At(w, "unblock") /\ t \in r.left
  /\ Become(w,
       IF r.left # {t} THEN [r EXCEPT !.left = @ \ {t}, !.seen = seen, !.ready = cand]
       ELSE IF pick = {} THEN Onward(r)
       ELSE [Goto("dispatch", r.then) EXCEPT !.ready = pick])
  /\ UNCHANGED <<status, parent, starts, outcomes, arrivals, history>>

(* Mutant: only the todo next in line is looked at. *)
ListNextForCascade(w) ==
  LET r == worker[w]
      next == {t \in Linked : OrdOf[t] = OrdOf[r.todo] + 1}
  IN
  /\ At(w, "listForCascade")
  /\ Become(w, IF next = {} THEN Onward(r)
               ELSE [r EXCEPT !.pc = "cascade", !.left = {OrdOf[r.todo]} \X next])
  /\ UNCHANGED <<status, parent, starts, outcomes, arrivals, history>>

ListForCascade(w) ==
  LET r == worker[w] IN
  /\ At(w, "listForCascade")
  /\ Become(w, [r EXCEPT !.pc = "cascade", !.left = {OrdOf[r.todo]} \X Linked])
  /\ UNCHANGED <<status, parent, starts, outcomes, arrivals, history>>

(* Read one sibling on behalf of a failed ordinality.  The recursion's     *)
(* pending <<ordinality, sibling>> pairs are a set, visited in any order.  *)
(* Mutant: every sibling is failed.                                        *)
CascadeToAll(w, o, t) ==
  LET r == worker[w]
      rest == [r EXCEPT !.left = @ \ {<<o, t>>}]
  IN
  /\ At(w, "cascade") /\ r.picked = NoTodo /\ <<o, t>> \in r.left
  /\ Become(w, IF status[t] # "failed" THEN [rest EXCEPT !.picked = t]
               ELSE IF rest.left = {} THEN Onward(r) ELSE rest)
  /\ UNCHANGED <<status, parent, starts, outcomes, arrivals, history>>

Cascade(w, o, t) ==
  LET r == worker[w]
      rest == [r EXCEPT !.left = @ \ {<<o, t>>}]
  IN
  /\ At(w, "cascade") /\ r.picked = NoTodo /\ <<o, t>> \in r.left
  /\ Become(w, IF status[t] = "blocked" /\ o \in DependsOn[t]
               THEN [rest EXCEPT !.picked = t]
               ELSE IF rest.left = {} THEN Onward(r) ELSE rest)
  /\ UNCHANGED <<status, parent, starts, outcomes, arrivals, history>>

(* Fail the blocked dependent, then recurse into its own dependents. *)
CascadeFail(w) ==
  LET r == worker[w] IN
  /\ At(w, "cascade") /\ r.picked # NoTodo
  /\ SetStatus(r.picked, "failed")
  /\ Become(w, [r EXCEPT !.picked = NoTodo,
                         !.left = @ \cup ({OrdOf[r.picked]} \X Linked)])
  /\ UNCHANGED <<parent, starts, outcomes, arrivals, sent, reported, premature>>

-----------------------------------------------------------------------------
(* maybeCompleteParentTask.                                                *)

(* latestDecomposition: older todos are read and ignored. *)
ListForRollUp(w) ==
  LET latest == CHOOSE d \in {DecompOf[t] : t \in Linked} :
                  \A t \in Linked : DecompOf[t] <= d
  IN
  /\ At(w, "listForRollUp")
  /\ Become(w, [worker[w] EXCEPT !.pc = "rollUp", !.left = Items(latest) \cap Linked])
  /\ UNCHANGED <<status, parent, starts, outcomes, arrivals, history>>

(* Statuses at which the roll-up waits. *)
StillOpen(s) == s \in {"pending", "dispatched"}

RollUp(w, t) ==
  LET r == worker[w]
      open == r.open \/ StillOpen(status[t])
      bad  == r.bad \/ status[t] \in {"failed", "blocked"}
  IN
  /\ At(w, "rollUp") /\ t \in r.left
  /\ Become(w,
       IF r.left # {t} THEN [r EXCEPT !.left = @ \ {t}, !.open = open, !.bad = bad]
       ELSE IF open THEN AfterRollUp(r)
       ELSE [Goto("readTask", r.then) EXCEPT !.goal = IF bad THEN "failed" ELSE "completed"])
  /\ UNCHANGED <<status, parent, starts, outcomes, arrivals, history>>

ReadTask(w) ==
  LET r == worker[w] IN
  /\ At(w, "readTask")
  /\ Become(w, IF parent \in {"completed", "failed"} THEN AfterRollUp(r)
               ELSE [r EXCEPT !.pc = "checkTask"])
  /\ UNCHANGED <<status, parent, starts, outcomes, arrivals, history>>

(* UpdateTask: read, check the transition ... *)
CheckTask(w) ==
  LET r == worker[w]
      ok == parent = r.goal \/ TaskCanTransition(parent, r.goal)
  IN
  /\ At(w, "checkTask")
  /\ Become(w, IF ok THEN [r EXCEPT !.pc = "writeTask"] ELSE AfterRollUp(r))
  /\ UNCHANGED <<status, parent, starts, outcomes, arrivals, history>>

(* ... and write, whatever the status is by now.  A retry direction then   *)
(* publishes task.assigned, and the task is planned once more.             *)
(* Mutant: the roll-up's write is lost.                                    *)
WriteTaskNothing(w) ==
  LET r == worker[w] IN
  /\ At(w, "writeTask")
  /\ Become(w, AfterRollUp(r))
  /\ plans' = IF r.then = "replan" THEN plans + 1 ELSE plans
  /\ UNCHANGED <<parent, status, starts, outcomes, planners, made, operator, direction, history>>

WriteTask(w) ==
  LET r == worker[w] IN
  /\ At(w, "writeTask")
  /\ parent' = r.goal
  /\ Become(w, AfterRollUp(r))
  /\ premature' = (r.then = "planner")
  /\ plans' = IF r.then = "replan" THEN plans + 1 ELSE plans
  /\ UNCHANGED <<status, starts, outcomes, planners, made, operator, direction,
                 everDone, everFailed, sent, reported>>

-----------------------------------------------------------------------------
(* handleTaskDirection, option "skip".                                     *)

ListForSkip(w) ==
  /\ At(w, "listForSkip")
  /\ Become(w, [worker[w] EXCEPT !.pc = "findFailed", !.left = Linked])
  /\ UNCHANGED <<status, parent, starts, outcomes, arrivals, history>>

(* The first failed todo in edge order is skipped; without one, nothing. *)
FindFailed(w, t) ==
  LET r == worker[w] IN
  /\ At(w, "findFailed") /\ t \in r.left
  /\ Become(w, IF status[t] = "failed" THEN [Goto("skip", "reopen") EXCEPT !.todo = t]
               ELSE IF r.left = {t} THEN Idle
               ELSE [r EXCEPT !.left = @ \ {t}])
  /\ UNCHANGED <<status, parent, starts, outcomes, arrivals, history>>

SkipTodo(w) ==
  /\ At(w, "skip")
  /\ EndTodo(w, worker[w].todo, "skipped", "reopen")
  /\ UNCHANGED <<parent, starts, outcomes, arrivals, sent, reported, premature>>

-----------------------------------------------------------------------------
Work(w) ==
  \/ \E t \in Todo : \/ Create(w, t)
                     \/ DispatchTaskTodo(w, t)
                     \/ Unblock(w, t)
                     \/ \E o \in Ord : Cascade(w, o, t)
                     \/ RollUp(w, t)
                     \/ FindFailed(w, t)
  \/ DispatchUnblock(w)
  \/ ListForUnblock(w)
  \/ ListForCascade(w)
  \/ CascadeFail(w)
  \/ ListForRollUp(w)
  \/ ReadTask(w)
  \/ CheckTask(w)
  \/ WriteTask(w)
  \/ ListForSkip(w)
  \/ SkipTodo(w)

Next ==
  \/ \E t \in Todo : ReceiveStarted(t)
  \/ \E w \in Worker :
       \/ Work(w)
       \/ \E t \in Todo, s \in {"completed", "failed"} : ReceiveOutcome(w, t, s)
       \/ \E t \in Todo, s \in {"failed", "skipped"} : OperatorCall(w, t, s)
       \/ ReceivePlan(w)
       \/ ReceivePlanner(w)
       \/ \E option \in {"skip", "retry"} : ReceiveDirection(w, option)

(* Goroutines are scheduled, events are delivered, and an AgentRun reports *)
(* in the end.  Nobody has to give a direction or to call an RPC.          *)
Fairness ==
  /\ \A t \in Todo : WF_vars(ReceiveStarted(t))
  /\ \A w \in Worker : WF_vars(Work(w))
  /\ WF_vars(\E w \in Worker : ReceivePlan(w))
  /\ WF_vars(\E w \in Worker : ReceivePlanner(w))
  /\ \A t \in Todo :
       WF_vars(\E w \in Worker, s \in {"completed", "failed"} : ReceiveOutcome(w, t, s))

Spec == Init /\ [][Next]_vars /\ Fairness

-----------------------------------------------------------------------------
(* Correctness.                                                            *)

Quiescent ==
  /\ \A w \in Worker : worker[w].pc = "idle"
  /\ \A t \in Todo : starts[t] = 0 /\ outcomes[t] = 0
  /\ plans = 0 /\ planners = 0

(* No agent is sent to work on a todo of which a dependency was never      *)
(* completed or skipped, however the cascades of its dependencies race.    *)
DispatchedAfterDependencies ==
  \A t \in sent : DepsOf(t) \subseteq everDone

(* When all is done no todo is still blocked although its dependencies are *)
(* all done (a lost wake-up), or although one of them failed (a cascade    *)
(* that missed it): the last handler to finish has seen the others' work.  *)
NoTodoForgotten ==
  Quiescent => \A t \in Linked : status[t] = "blocked" =>
    /\ \E u \in DepsOf(t) : status[u] \notin TodoDone
    /\ \A u \in DepsOf(t) : status[u] # "failed"

(* Across all plans of a task the cascades go by number: a todo is sent to *)
(* an agent only after some todo of each number it depends on was done,    *)
(* and fails without a report or call of its own only after some todo of a *)
(* number it depends on failed (unblockDependentTodos,                     *)
(* blockDependentTodos).                                                   *)
CascadesByNumber ==
  /\ \A t \in sent : \A o \in DependsOn[t] : \E u \in everDone : OrdOf[u] = o
  /\ \A t \in everFailed \ reported : \E u \in everFailed : OrdOf[u] \in DependsOn[t]

(* The parent is completed only when every todo of the decomposition had   *)
(* been completed or skipped, unless the planner's own completion found no *)
(* todo yet.                                                               *)
CompletedOnlyAfterAll ==
  parent = "completed" /\ ~premature => Items(made) \subseteq everDone

(* Without that exception, as the comment of taskHasTodos has it: "the     *)
(* regression-causing case (planner AgentRun flipping the parent to        *)
(* COMPLETED) is prevented when the lookup succeeds".                      *)
PlannerNeverCompletes ==
  parent = "completed" => Items(made) \subseteq everDone

(* The parent fails only when a todo of its latest plan did (comment of    *)
(* maybeCompleteParentTask: "the prior decomposition's FAILED todos must   *)
(* be ignored so the retry can succeed").                                  *)
FailedOnlyAfterFailure ==
  parent = "failed" => \E t \in Items(made) : t \in everFailed

(* Every decomposed task comes to an end once its agents have reported. *)
ParentSettles == <>[](parent \in {"completed", "failed"})

(* A direction to skip makes the task's completion be evaluated again: the *)
(* task is not left in_progress with nothing under way.                    *)
SkipReevaluates == Quiescent => parent # "in_progress"

=============================================================================
