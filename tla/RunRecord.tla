------------------------------ MODULE RunRecord ------------------------------
(***************************************************************************)
(* The WorkflowRun entities themselves: top-level and recovery runs, the   *)
(* failure budget of a root, status updates and the watchdog's mark        *)
(* (workflow_run.go, workflow_run_failure_budget.go,                       *)
(* workflow_run_watchdog.go, internal/server/workflow_run_server.go).      *)
(*                                                                         *)
(* Every RPC has a goroutine (a Worker).  Its first read belongs to the    *)
(* step that receives the call, each later storage call is a step.         *)
(* Callers use the run ids the service returned to them; a caller that     *)
(* names the root of a recovery run names the one it was given.            *)
(***************************************************************************)
EXTENDS Integers, FiniteSets, Lifecycle, Goroutines

CONSTANTS
  Run,        \* entity ids of WorkflowRuns
  Child,      \* child_run_ids Cross charges to a root
  Name,       \* names callers ask for
  Budget,     \* failure_pipeline_budgets; 0 is "unconfigured"
  NoRun, NoChild,
  NoName,     \* no name given: CreateWorkflowRun generates one
  Goal,       \* statuses that UpdateWorkflowRunStatus is asked for
  MaxCall     \* bound on status updates, charges, timeouts and failed writes

ASSUME NullAssumption == NoRun \notin Run /\ NoChild \notin Child /\ NoName \notin Name
ASSUME BudgetAssumption == Budget \subseteq Nat /\ 0 \in Budget
ASSUME ChildAssumption == IsFiniteSet(Child)
ASSUME GoalAssumption == Goal \subseteq RunStatus /\ MaxCall \in Nat

VARIABLES
  run,       \* the stored entity of each id
  known,     \* ids returned to callers
  calls,     \* spent of MaxCall
  admitted,  \* history: <<root, child>> answered with exhausted = false
  timeouts,  \* history: work.run.timeout events published per run
  overtaken  \* history: runs over whose newer record a stale copy was written

vars == <<run, known, worker, calls, admitted, timeouts, overtaken>>

Absent == "absent"
Record == [status : RunStatus \cup {Absent}, name : Name \cup {NoName},
           parent : Run \cup {NoRun}, root : Run \cup {NoRun},
           budget : Budget, used : Nat, counted : SUBSET Child, marked : BOOLEAN]
Blank == [status |-> Absent, name |-> NoName, parent |-> NoRun, root |-> NoRun,
          budget |-> 0, used |-> 0, counted |-> {}, marked |-> FALSE]

PC == {"idle", "lookup", "create", "stamp", "readBudget", "setBudget", "charge",
       "writeStatus", "mark"}
Local == [pc : PC, id : Run \cup {NoRun}, name : Name \cup {NoName},
          parent : Run \cup {NoRun}, root : Run \cup {NoRun}, budget : Budget,
          child : Child \cup {NoChild}, goal : RunStatus, copy : Record]
Idle == [pc |-> "idle", id |-> NoRun, name |-> NoName, parent |-> NoRun, root |-> NoRun,
         budget |-> 0, child |-> NoChild, goal |-> "pending", copy |-> Blank]

TypeOK ==
  /\ run \in [Run -> Record]
  /\ known \subseteq Run
  /\ worker \in [Worker -> Local]
  /\ \A w \in Worker : worker[w].pc \notin {"idle", "lookup", "create"} => worker[w].id \in Run
  /\ \A w \in Worker : worker[w].pc = "charge" => worker[w].child \in Child
  /\ calls \in 0..MaxCall
  /\ admitted \subseteq Run \X Child
  /\ timeouts \in [Run -> Nat]
  /\ overtaken \subseteq Run

Init ==
  /\ run = [r \in Run |-> Blank]
  /\ known = {}
  /\ worker = [w \in Worker |-> Idle]
  /\ calls = 0
  /\ admitted = {} /\ timeouts = [r \in Run |-> 0] /\ overtaken = {}

-----------------------------------------------------------------------------
(* Shared pieces.                                                          *)

history == <<admitted, timeouts, overtaken>>

(* GetWorkflowRunByName.  NoName asks for a generated name, never taken.   *)
Taken(n) == n # NoName /\ \E r \in Run : run[r].status # Absent /\ run[r].name = n

(* The root a recovery run inherits from its parent.                       *)
(* Mutant: the parent is taken for the root.                               *)
RootFromParent(p) == p
RootOf(p) == IF run[p].root # NoRun THEN run[p].root ELSE p

(* Mutant: the dispatch over the line is still admitted.                   *)
ExhaustedLate(used, budget) == budget > 0 /\ used > budget + 1
ExhaustedAt(used, budget) == budget > 0 /\ used > budget

(* Mutant: the charge is taken off the counter.                            *)
Uncharge(used) == used - 1
Charge(used) == used + 1

(* The caller is told whether it may dispatch child c. *)
Answer(r, c, used, budget) ==
  admitted' = IF ExhaustedAt(used, budget) THEN admitted ELSE admitted \cup {<<r, c>>}

(* A write of what was derived from a copy loses what changed since.       *)
Overtakes(r, copy) == overtaken' = IF run[r] = copy THEN overtaken ELSE overtaken \cup {r}

-----------------------------------------------------------------------------
(* CreateWorkflowRun.                                                      *)

(* A top-level run: the name precheck; b is the budget of the request.     *)
ReceiveCreate(w, n, b) ==
  /\ At(w, "idle")
  /\ ~Taken(n)
  /\ Become(w, [Idle EXCEPT !.pc = "create", !.name = n, !.budget = b])
  /\ UNCHANGED <<run, known, calls, history>>

(* A recovery run of parent p: CreateRecoveryWorkflowRun resolves the root *)
(* and goes on to the name precheck.                                       *)
ReceiveRecovery(w, n, p) ==
  /\ At(w, "idle")
  /\ p \in known
  /\ Become(w, [Idle EXCEPT !.pc = "lookup", !.name = n, !.parent = p, !.root = RootOf(p)])
  /\ UNCHANGED <<run, known, calls, history>>

LookUpName(w) ==
  /\ At(w, "lookup")
  /\ Become(w, IF Taken(worker[w].name) THEN Idle ELSE [worker[w] EXCEPT !.pc = "create"])
  /\ UNCHANGED <<run, known, calls, history>>

(* CreateEntity.  A recovery run is stamped next, a requested budget is    *)
(* set next; otherwise the run is returned.                                *)
CreateRun(w, r) ==
  LET me == worker[w]
      next == IF me.parent # NoRun THEN "stamp" ELSE IF me.budget > 0 THEN "readBudget" ELSE "idle" IN
  /\ At(w, "create")
  /\ run[r].status = Absent
  /\ run' = [run EXCEPT ![r] = [Blank EXCEPT !.status = "pending", !.name = me.name]]
  /\ known' = IF next = "idle" THEN known \cup {r} ELSE known
  /\ Become(w, IF next = "idle" THEN Idle ELSE [me EXCEPT !.pc = next, !.id = r])
  /\ UNCHANGED <<calls, history>>

(* The second write of CreateRecoveryWorkflowRun. *)
StampParentage(w) ==
  LET me == worker[w] IN
  /\ At(w, "stamp")
  /\ run' = [run EXCEPT ![me.id].parent = me.parent, ![me.id].root = me.root]
  /\ known' = known \cup {me.id}
  /\ Become(w, Idle)
  /\ UNCHANGED <<calls, history>>

(* SetFailureBudget: a root that has no budget yet. *)
ReadBudget(w) ==
  LET me == worker[w] IN
  /\ At(w, "readBudget")
  /\ Become(w, IF run[me.id].parent = NoRun /\ run[me.id].budget = 0
               THEN [me EXCEPT !.pc = "setBudget"] ELSE Idle)
  /\ UNCHANGED <<run, known, calls, history>>

SetFailureBudget(w) ==
  LET me == worker[w] IN
  /\ At(w, "setBudget")
  /\ run' = [run EXCEPT ![me.id].budget = me.budget, ![me.id].root = me.id]
  /\ known' = known \cup {me.id}
  /\ Become(w, Idle)
  /\ UNCHANGED <<calls, history>>

(* The store refuses a write: the call returns the error and leaves what   *)
(* it wrote before.                                                        *)
Refused(w) ==
  /\ worker[w].pc \in {"create", "stamp", "setBudget", "charge", "writeStatus", "mark"}
  /\ calls < MaxCall
  /\ calls' = calls + 1
  /\ Become(w, Idle)
  /\ UNCHANGED <<run, known, history>>

-----------------------------------------------------------------------------
(* IncrementFailureBudget(r, c).                                           *)

(* Mutant: a child is charged again on a retry of the call.                *)
ReceiveChargeAgain(w, r, c) ==
  /\ At(w, "idle")
  /\ calls < MaxCall
  /\ r \in known
  /\ calls' = calls + 1
  /\ run[r].parent = NoRun
  /\ Become(w, [Idle EXCEPT !.pc = "charge", !.id = r, !.child = c, !.copy = run[r]])
  /\ UNCHANGED <<run, known, history>>

ReceiveCharge(w, r, c) ==
  /\ At(w, "idle")
  /\ calls < MaxCall
  /\ r \in known
  /\ calls' = calls + 1
  /\ CASE run[r].parent # NoRun -> UNCHANGED <<worker, admitted>>
       [] run[r].parent = NoRun /\ c \in run[r].counted ->
            Answer(r, c, run[r].used, run[r].budget) /\ UNCHANGED worker
       [] OTHER ->
            /\ Become(w, [Idle EXCEPT !.pc = "charge", !.id = r, !.child = c, !.copy = run[r]])
            /\ UNCHANGED admitted
  /\ UNCHANGED <<run, known, timeouts, overtaken>>

WriteCharge(w) ==
  LET me == worker[w] IN
  /\ At(w, "charge")
  /\ run' = [run EXCEPT ![me.id].used = Charge(me.copy.used),
                        ![me.id].counted = me.copy.counted \cup {me.child}]
  /\ Answer(me.id, me.child, Charge(me.copy.used), run[me.id].budget)
  /\ Overtakes(me.id, me.copy)
  /\ Become(w, Idle)
  /\ UNCHANGED <<known, calls, timeouts>>

-----------------------------------------------------------------------------
(* UpdateWorkflowRunStatus(r, s).                                          *)

ReceiveStatus(w, r, s) ==
  /\ At(w, "idle")
  /\ calls < MaxCall
  /\ r \in known
  /\ RunCanTransition(run[r].status, s)
  /\ calls' = calls + 1
  /\ Become(w, [Idle EXCEPT !.pc = "writeStatus", !.id = r, !.goal = s, !.copy = run[r]])
  /\ UNCHANGED <<run, known, history>>

(* workflowRunToProperties puts every field of the copy back, except an    *)
(* empty counted_child_run_ids, which it leaves out.                       *)
WriteStatus(w) ==
  LET me == worker[w]
      counted == IF me.copy.counted = {} THEN run[me.id].counted ELSE me.copy.counted IN
  /\ At(w, "writeStatus")
  /\ run' = [run EXCEPT ![me.id] = [me.copy EXCEPT !.status = me.goal, !.counted = counted]]
  /\ Overtakes(me.id, me.copy)
  /\ Become(w, Idle)
  /\ UNCHANGED <<known, calls, admitted, timeouts>>

-----------------------------------------------------------------------------
(* Cross' sweeper: it lists the stale runs, marks one and publishes its    *)
(* timeout.  Which runs are stale depends on the clock alone.              *)

(* Mutant: marked runs are listed too.                                     *)
ListStaleMarked(w, r) ==
  /\ At(w, "idle")
  /\ calls < MaxCall
  /\ \A v \in Worker : ~At(v, "mark")
  /\ run[r].status \notin TerminalRun \cup {Absent}
  /\ calls' = calls + 1
  /\ Become(w, [Idle EXCEPT !.pc = "mark", !.id = r])
  /\ UNCHANGED <<run, known, history>>

ListStale(w, r) ==
  /\ At(w, "idle")
  /\ calls < MaxCall
  /\ \A v \in Worker : ~At(v, "mark")
  /\ run[r].status \notin TerminalRun \cup {Absent}
  /\ ~run[r].marked
  /\ calls' = calls + 1
  /\ Become(w, [Idle EXCEPT !.pc = "mark", !.id = r])
  /\ UNCHANGED <<run, known, history>>

MarkTimeoutPublished(w) ==
  LET me == worker[w] IN
  /\ At(w, "mark")
  /\ run' = [run EXCEPT ![me.id].marked = TRUE]
  /\ timeouts' = [timeouts EXCEPT ![me.id] = @ + 1]
  /\ Become(w, Idle)
  /\ UNCHANGED <<known, calls, admitted, overtaken>>

-----------------------------------------------------------------------------
Next ==
  \E w \in Worker :
    \/ \E n \in Name \cup {NoName}, b \in Budget : ReceiveCreate(w, n, b)
    \/ \E n \in Name \cup {NoName}, p \in Run : ReceiveRecovery(w, n, p)
    \/ LookUpName(w)
    \/ \E r \in Run : CreateRun(w, r)
    \/ StampParentage(w)
    \/ ReadBudget(w)
    \/ SetFailureBudget(w)
    \/ Refused(w)
    \/ \E r \in Run, c \in Child : ReceiveCharge(w, r, c)
    \/ WriteCharge(w)
    \/ \E r \in Run, s \in Goal : ReceiveStatus(w, r, s)
    \/ WriteStatus(w)
    \/ \E r \in Run : ListStale(w, r)
    \/ MarkTimeoutPublished(w)

Spec == Init /\ [][Next]_vars

-----------------------------------------------------------------------------
(* What the handlers promise, whatever their interleaving.                 *)

(* A root never shows more used recoveries than children it recorded, for  *)
(* all the stale copies that are written back: the counter may fall        *)
(* behind the record (IncrementFailureBudget, UpdateWorkflowRunStatus),    *)
(* so that a charge is lost, but never runs ahead of it.                   *)
UsedWithinCounted == \A r \in Run : run[r].used <= Cardinality(run[r].counted)

(* The budget is exceeded, or the counter behind, only if a stale copy was *)
(* written over the run (exhaustedAt, the idempotency of                   *)
(* IncrementFailureBudget).                                                *)
OverrunOnlyIfOvertaken ==
  \A r \in Run \ overtaken :
    /\ run[r].used = Cardinality(run[r].counted)
    /\ run[r].budget > 0 => Cardinality({c \in Child : <<r, c>> \in admitted}) <= run[r].budget

(* The root of a recovery run is a top-level run, in any generation, and   *)
(* recoveries are charged to top-level runs only (CreateRecoveryWorkflow-  *)
(* Run, ErrNotRootWorkflowRun).                                            *)
LineageRooted ==
  \A r \in Run :
    run[r].parent # NoRun =>
      /\ run[r].root \in Run
      /\ run[run[r].root].status # Absent /\ run[run[r].root].parent = NoRun
      /\ run[r].counted = {}

(* The watchdog times a run out once, unless a status update took the mark *)
(* off again (MarkTimeoutPublished: "called before publishing              *)
(* work.run.timeout for idempotency").                                     *)
TimedOutOnce == \A r \in Run \ overtaken : timeouts[r] <= 1

(* IncrementFailureBudget "atomically increments": no root has more        *)
(* recoveries admitted than its budget.                                    *)
AdmittedWithinBudget ==
  \A r \in Run :
    run[r].budget > 0 => Cardinality({c \in Child : <<r, c>> \in admitted}) <= run[r].budget

=============================================================================
