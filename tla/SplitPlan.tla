------------------------------ MODULE SplitPlan ------------------------------
(***************************************************************************)
(* A Task its planner split into child Tasks: their creation and wiring,   *)
(* the dispatch of the first ones and the roll-up of the children into the *)
(* parent (internal/server/split_handler.go, and the handlers of           *)
(* event_dispatcher.go that end in it).                                    *)
(*                                                                         *)
(* Every event and every call has a goroutine (a Worker).  Its first read  *)
(* belongs to the step that receives it, each later storage call is a      *)
(* step.  An agent sends the outcome of a run after its task.started was   *)
(* handled.  The planner reports its own outcome with has_subtasks, which  *)
(* applyAITaskStatus ignores; the retries of a failing child are in        *)
(* WorkflowRun, here it goes straight to awaiting.                         *)
(***************************************************************************)
EXTENDS Naturals, FiniteSets, Lifecycle, Goroutines

CONSTANTS
  Child, Parent, NoTask,
  DependsOn,  \* depends_on of each child spec
  MaxCall,    \* bound on calls of operators and watchdogs
  MaxFault    \* bound on writes the store refuses

Task == Child \cup {Parent}

ASSUME NullAssumption == Parent \notin Child /\ NoTask \notin Task
ASSUME ShapeAssumption == DependsOn \in [Child -> SUBSET Child]
ASSUME BoundAssumption == MaxCall \in Nat /\ MaxFault \in Nat

VARIABLES
  status,         \* of each task; "none" until it is created
  linked,         \* children with their subtask_of edge
  blocks,         \* blocks edges among the children, <<from, to>>
  plan,           \* "asked" (task.request-split is on its way), "open" (children are
                  \* created), "wiring", "wired", "laid" out or "dropped" halfway
  starts,         \* per child, task.started events to come
  outcomes,       \* per child, AgentRuns that still have to report an outcome
  calls, faults,  \* spent of the bounds
  sent,           \* history: children dispatched
  ended,          \* history: <<task, terminal status>> written
  silent,         \* history: tasks whose end, since the last one with a roll-up, had none,
                  \* came before the child was linked, or was overwritten by the plan
  called,         \* history: a call ended the parent itself
  hasty,          \* history: children whose start was checked before the wiring was through
  unwired,        \* history: blocks edges the store refused
  premature       \* history: the parent's last write is by a roll-up that listed the
                  \* children while the plan was still creating some

splitVars == <<status, linked, blocks, plan, starts, outcomes, worker, calls, faults,
          sent, ended, silent, called, hasty, unwired, premature>>
bounds == <<calls, faults>>
excuses == <<hasty, unwired, premature>>
history == <<sent, ended, silent, called, excuses>>
agents == <<starts, outcomes>>
edges == <<linked, blocks>>

Idle == [pc |-> "idle", task |-> NoTask, goal |-> "pending", then |-> "stop",
         left |-> {}, bad |-> FALSE, early |-> FALSE]
PC == {"idle", "create", "link", "wire", "publish", "checkTask", "writeTask",
       "listChildren", "readChild", "readParent"}

(* What follows an update of a task: the roll-up in any case (a report of  *)
(* an agent), the roll-up or a dispatch if the update went through (the    *)
(* directions), nothing; or the rest of the split handler.                 *)
Then == {"stop", "started", "report", "cancel", "retry", "silent", "split"}

SplitTypeOK ==
  /\ status \in [Task -> TaskStatus \cup {"none"}]
  /\ linked \subseteq Child /\ blocks \subseteq Child \X Child
  /\ plan \in {"asked", "open", "wiring", "wired", "laid", "dropped"}
  /\ starts \in [Child -> Nat] /\ outcomes \in [Child -> Nat]
  /\ \A w \in Worker :
       /\ worker[w].pc \in PC
       /\ worker[w].task \in Task \cup {NoTask}
       /\ worker[w].goal \in TaskStatus
       /\ worker[w].then \in Then
       /\ worker[w].left \subseteq Child \cup (Child \X Child)
       /\ worker[w].bad \in BOOLEAN /\ worker[w].early \in BOOLEAN
  /\ calls \in 0..MaxCall /\ faults \in 0..MaxFault
  /\ sent \subseteq Child /\ ended \subseteq Task \X TerminalTask
  /\ silent \subseteq Task /\ called \in BOOLEAN
  /\ hasty \subseteq Child /\ unwired \subseteq Child \X Child /\ premature \in BOOLEAN

SplitInit ==
  /\ status = [t \in Task |-> IF t = Parent THEN "in_progress" ELSE "none"]
  /\ linked = {} /\ blocks = {} /\ plan = "asked"
  /\ starts = [c \in Child |-> 0] /\ outcomes = [c \in Child |-> 0]
  /\ worker = [w \in Worker |-> Idle]
  /\ calls = 0 /\ faults = 0
  /\ sent = {} /\ ended = {} /\ silent = {} /\ called = FALSE
  /\ hasty = {} /\ unwired = {} /\ premature = FALSE

-----------------------------------------------------------------------------
(* Shared pieces.                                                          *)

Updating(t, s, then) == [Idle EXCEPT !.pc = "checkTask", !.task = t, !.goal = s, !.then = then]
RollingUp == [Idle EXCEPT !.pc = "listChildren"]
Fault == faults < MaxFault /\ faults' = faults + 1
Call == calls < MaxCall /\ calls' = calls + 1

Dispatch(c) ==
  /\ starts' = [starts EXCEPT ![c] = @ + 1]
  /\ sent' = sent \cup {c}

(* The children that are dispatched at once. *)
Independent == {c \in Child : DependsOn[c] = {}}

(* The blocks edges of a plan.                                             *)
(* Mutant: the child blocks what it depends on.                            *)
Reversed == {p \in Child \X Child : p[2] \in DependsOn[p[1]]}
Wires == {p \in Child \X Child : p[1] \in DependsOn[p[2]]}

Wiring == [Idle EXCEPT !.pc = "wire", !.left = Wires]
Publishing == [Idle EXCEPT !.pc = "publish", !.left = Independent]

-----------------------------------------------------------------------------
(* handleTaskPlanSplit.                                                    *)

ReceiveSplit(w) ==
  /\ At(w, "idle")
  /\ plan = "asked"
  /\ plan' = "open"
  /\ Become(w, [Idle EXCEPT !.pc = "create", !.goal = status[Parent], !.left = Child])
  /\ UNCHANGED <<status, edges, agents, bounds, history>>

(* A refused CreateTask gives the rest of the plan up. *)
CreateChild(w) ==
  LET me == worker[w] IN
  /\ At(w, "create")
  /\ \E c \in me.left :
       /\ status' = [status EXCEPT ![c] = "pending"]
       /\ Become(w, [me EXCEPT !.pc = "link", !.task = c, !.left = @ \ {c}])
  /\ UNCHANGED <<edges, plan, agents, bounds, history>>

CreateRefused(w) ==
  /\ At(w, "create") /\ Fault
  /\ plan' = "dropped"
  /\ Become(w, Idle)
  /\ UNCHANGED <<status, edges, agents, calls, history>>

(* The subtask_of edge; a refused one is logged.  A child an operator       *)
(* assigned at once may have ended before.                                 *)
AfterLink(w) ==
  LET me == worker[w] IN
  /\ Become(w, IF me.left # {} THEN [me EXCEPT !.pc = "create"]
               ELSE [Wiring EXCEPT !.goal = me.goal])
  /\ plan' = IF me.left # {} THEN plan ELSE "wiring"

LinkChild(w) ==
  LET c == worker[w].task IN
  /\ At(w, "link")
  /\ linked' = linked \cup {c}
  /\ silent' = IF status[c] \in TerminalTask THEN silent \cup {c} ELSE silent
  /\ AfterLink(w)
  /\ UNCHANGED <<status, blocks, agents, bounds, sent, ended, called, excuses>>

LinkRefused(w) ==
  /\ At(w, "link") /\ Fault
  /\ AfterLink(w)
  /\ UNCHANGED <<status, edges, agents, calls, history>>

(* The blocks edges; then the parent is moved to split, if the status read *)
(* at the start allows it.                                                 *)
Wire(w) ==
  LET me == worker[w] IN
  /\ At(w, "wire")
  /\ \/ \E p \in me.left :
          /\ blocks' = blocks \cup {p}
          /\ Become(w, [me EXCEPT !.left = @ \ {p}])
          /\ UNCHANGED plan
     \/ /\ me.left = {}
        /\ plan' = "wired"
        /\ Become(w, IF TaskCanTransition(me.goal, "split")
                     THEN Updating(Parent, "split", "split") ELSE Publishing)
        /\ UNCHANGED blocks
  /\ UNCHANGED <<status, linked, agents, bounds, history>>

(* A refused blocks edge is logged, and the plan goes on without it. *)
WireRefused(w) ==
  \E p \in worker[w].left :
    /\ At(w, "wire") /\ Fault
    /\ unwired' = unwired \cup {p}
    /\ Become(w, [worker[w] EXCEPT !.left = @ \ {p}])
    /\ UNCHANGED <<status, edges, plan, agents, calls, sent, ended, silent, called,
                   hasty, premature>>

PublishChild(w) ==
  LET me == worker[w] IN
  /\ At(w, "publish")
  /\ \/ \E c \in me.left :
          /\ Dispatch(c)
          /\ Become(w, [me EXCEPT !.left = @ \ {c}])
          /\ UNCHANGED plan
     \/ /\ me.left = {}
        /\ plan' = "laid"
        /\ Become(w, Idle)
        /\ UNCHANGED <<starts, sent>>
  /\ UNCHANGED <<status, edges, outcomes, bounds, ended, silent, called, excuses>>

-----------------------------------------------------------------------------
(* Events and calls about one task.                                        *)

ReceiveStarted(w, c) ==
  /\ At(w, "idle")
  /\ starts[c] > 0
  /\ starts' = [starts EXCEPT ![c] = @ - 1]
  /\ Become(w, Updating(c, "in_progress", "started"))
  /\ UNCHANGED <<status, edges, plan, outcomes, bounds, history>>

(* task.completed, or the escalation of a failure.                         *)
(* Mutant: a redelivered report is handled once more.                      *)
ReceiveOutcomeTwice(w, c, s) ==
  /\ At(w, "idle")
  /\ c \in sent
  /\ outcomes' = [outcomes EXCEPT ![c] = @ - 1]
  /\ Become(w, Updating(c, s, IF s = "completed" THEN "report" ELSE "stop"))
  /\ UNCHANGED <<status, edges, plan, starts, bounds, history>>

ReceiveOutcome(w, c, s) ==
  /\ At(w, "idle")
  /\ outcomes[c] > 0
  /\ outcomes' = [outcomes EXCEPT ![c] = @ - 1]
  /\ Become(w, Updating(c, s, IF s = "completed" THEN "report" ELSE "stop"))
  /\ UNCHANGED <<status, edges, plan, starts, bounds, history>>

(* work.task.direction on a child that awaits one. *)
ReceiveDirection(w, c, option) ==
  /\ At(w, "idle") /\ Call
  /\ status[c] = "awaiting"
  /\ Become(w, Updating(c, IF option = "retry" THEN "in_progress" ELSE "cancelled", option))
  /\ UNCHANGED <<status, edges, plan, agents, faults, history>>

(* HandleTaskTimeout, cancelTask and the UpdateTask RPC end a task and     *)
(* roll nothing up.                                                        *)
EndSilently(w, t, s) ==
  /\ At(w, "idle") /\ Call
  /\ status[t] \notin TerminalTask \cup {"none"}
  /\ Become(w, Updating(t, s, "silent"))
  /\ UNCHANGED <<status, edges, plan, agents, faults, history>>

(* AssignTask: the children have no depends_on edges, so nothing holds the *)
(* dispatch back, not even that the plan is still being laid out.          *)
AssignTask(c) ==
  /\ Call
  /\ status[c] = "pending"
  /\ Dispatch(c)
  /\ UNCHANGED <<status, edges, plan, outcomes, worker, faults, ended, silent, called, excuses>>

-----------------------------------------------------------------------------
(* UpdateTask, and what the handler does after it.                         *)

(* findActiveBlockers; their reads one by one are in TaskAssignment. *)
Blocked(t) == \E p \in blocks : p[2] = t /\ status[p[1]] \notin TerminalTask

Refused(r) ==
  CASE r.then = "report" -> RollingUp
    [] r.then = "split" -> Publishing
    [] OTHER -> Idle

CheckTask(w) ==
  LET me == worker[w]
      now == status[me.task] IN
  /\ At(w, "checkTask")
  /\ IF (now = me.goal \/ TaskCanTransition(now, me.goal))
        /\ ~(now = "pending" /\ me.goal = "in_progress" /\ Blocked(me.task))
     THEN /\ Become(w, [me EXCEPT !.pc = "writeTask"])
          /\ hasty' = IF me.goal = "in_progress" /\ now = "pending" /\ plan \notin {"wired", "laid"}
                      THEN hasty \cup {me.task} ELSE hasty
          /\ UNCHANGED outcomes
     ELSE /\ Become(w, Refused(me))
          /\ outcomes' = IF me.then = "started" THEN [outcomes EXCEPT ![me.task] = @ + 1] ELSE outcomes
          /\ UNCHANGED hasty
  /\ UNCHANGED <<status, edges, plan, starts, bounds, sent, ended, silent, called, unwired, premature>>

WriteTask(w) ==
  LET me == worker[w]
      t == me.task IN
  /\ At(w, "writeTask")
  /\ status' = [status EXCEPT ![t] = me.goal]
  /\ ended' = IF me.goal \in TerminalTask THEN ended \cup {<<t, me.goal>>} ELSE ended
  /\ silent' = CASE me.then = "silent" -> silent \cup {t}
                 [] me.then \in {"report", "cancel"} -> {}
                 [] me.then = "split" /\ status[t] \in TerminalTask -> silent \cup {t}
                 [] OTHER -> silent
  /\ called' = (called \/ (me.then = "silent" /\ t = Parent))
  /\ premature' = IF t = Parent THEN me.early ELSE premature
  /\ IF me.then = "retry" THEN Dispatch(t) ELSE UNCHANGED <<starts, sent>>
  /\ outcomes' = IF me.then = "started" THEN [outcomes EXCEPT ![t] = @ + 1] ELSE outcomes
  /\ Become(w, IF me.then = "cancel" THEN RollingUp ELSE Refused(me))
  /\ UNCHANGED <<edges, plan, bounds, hasty, unwired>>

-----------------------------------------------------------------------------
(* maybeCompleteSplitParent.                                               *)

ListChildren(w) ==
  /\ At(w, "listChildren")
  /\ Become(w, IF linked = {} THEN Idle
               ELSE [worker[w] EXCEPT !.pc = "readChild", !.left = linked, !.early = (plan = "open")])
  /\ UNCHANGED <<status, edges, plan, agents, bounds, history>>

(* Mutants: a child somebody works on holds nothing up; one that did not   *)
(* complete holds the parent up for ever.                                  *)
PendingKeeps(s) == s = "pending"
NotCompleted(s) == s # "completed"
StillOpen(s) == s \notin TerminalTask

(* A cancelled child counts as failed. *)
Bad(s) == s \in {"failed", "cancelled"}

ReadChild(w) ==
  LET me == worker[w] IN
  /\ At(w, "readChild")
  /\ \E c \in me.left :
       Become(w, IF StillOpen(status[c]) THEN Idle
                 ELSE [me EXCEPT !.left = @ \ {c}, !.bad = @ \/ Bad(status[c]),
                                 !.pc = IF me.left = {c} THEN "readParent" ELSE "readChild"])
  /\ UNCHANGED <<status, edges, plan, agents, bounds, history>>

ReadParent(w) ==
  LET me == worker[w] IN
  /\ At(w, "readParent")
  /\ Become(w, IF status[Parent] \in {"completed", "failed"} THEN Idle
               ELSE [Updating(Parent, IF me.bad THEN "failed" ELSE "completed", "stop")
                     EXCEPT !.early = me.early])
  /\ UNCHANGED <<status, edges, plan, agents, bounds, history>>

-----------------------------------------------------------------------------
Step(w) ==
  \/ CreateChild(w) \/ LinkChild(w) \/ Wire(w) \/ PublishChild(w)
  \/ CheckTask(w) \/ WriteTask(w)
  \/ ListChildren(w) \/ ReadChild(w) \/ ReadParent(w)

SplitNext ==
  \/ \E w \in Worker :
       \/ Step(w) \/ CreateRefused(w) \/ LinkRefused(w) \/ WireRefused(w)
       \/ ReceiveSplit(w)
       \/ \E c \in Child :
            \/ ReceiveStarted(w, c)
            \/ \E s \in {"completed", "awaiting"} : ReceiveOutcome(w, c, s)
            \/ \E option \in {"retry", "cancel"} : ReceiveDirection(w, c, option)
       \/ \E t \in Task, s \in {"failed", "cancelled"} : EndSilently(w, t, s)
  \/ \E c \in Child : AssignTask(c)

SplitSpec == SplitInit /\ [][SplitNext]_splitVars

Quiescent ==
  /\ \A w \in Worker : At(w, "idle")
  /\ plan \in {"laid", "dropped"}
  /\ \A c \in Child : starts[c] = 0 /\ outcomes[c] = 0

-----------------------------------------------------------------------------
(* What a split plan promises.                                             *)

(* The parent completes only when every child did, the whole plan being    *)
(* laid out before - unless the roll-up listed the children while the plan *)
(* was still creating some, one of which an operator had assigned - and    *)
(* fails only for a child that did not make it, or by a call on the parent *)
(* itself (maybeCompleteSplitParent).                                      *)
OutcomeHasCause ==
  LET Did(c, s) == <<c, s>> \in ended IN
  /\ status[Parent] = "completed" /\ ~premature =>
       /\ \A c \in linked : Did(c, "completed")
       /\ faults = 0 => linked = Child
  /\ status[Parent] = "failed" =>
       \/ called
       \/ \E c \in Child : Did(c, "failed") \/ Did(c, "cancelled")

(* When nothing is under way any more, a plan whose linked children are    *)
(* all terminal has settled its parent, unless the last of them was ended  *)
(* by a call that rolls nothing up, or before it was linked, or the plan's *)
(* own update of the parent overwrote the outcome: of two children that    *)
(* end at once, one roll-up sees both.                                     *)
RollUpNotMissed ==
  Quiescent /\ linked # {} /\ (\A c \in linked : status[c] \in TerminalTask) /\ silent = {} =>
    status[Parent] \in TerminalTask

(* A child starts only after the siblings it depends on have ended, even   *)
(* if an operator assigns it - but for the edges the store refused, and    *)
(* for a child that was assigned and started before the edges were written *)
(* (handleTaskPlanSplit, findActiveBlockers).                              *)
StartedAfterSiblings ==
  [][\A c \in Child \ hasty :
       status[c] = "pending" /\ status'[c] = "in_progress" =>
         \A d \in DependsOn[c] :
           <<d, c>> \in unwired \/ \E s \in TerminalTask : <<d, s>> \in ended]_splitVars

(* TaskPlanSplitChildSpec: DependsOn lists "sibling children that must     *)
(* complete before this child is dispatched": when they have, it is.       *)
DependentsDispatched ==
  Quiescent => \A c \in Child :
    status[c] = "pending" /\ (\A d \in DependsOn[c] : status[d] = "completed") => c \in sent

=============================================================================
