------------------------ MODULE TaskAssignment_proofs ------------------------
(***************************************************************************)
(* Proofs about TaskAssignment for any tasks, edges, goroutines and bounds:*)
(* nothing is dispatched before its dependencies ended, and nothing starts *)
(* before its blockers did.  The inductive invariant says what the status  *)
(* reads of a goroutine are worth later on: a task read as terminal was    *)
(* terminal once, whatever became of it since.  The second half follows    *)
(* the one completion of each dependency, from the report that brings it   *)
(* to the goroutine that looks at the dependents: no task that was held    *)
(* back is forgotten.                                                      *)
(***************************************************************************)
EXTENDS TaskAssignment, TLAPS

USE EdgeAssumption

(* The statuses that these operations write, and those of a started task.  *)
Reached == {"pending", "blocked", "in_progress", "completed", "cancelled"}
Begun == {"in_progress", "completed"}

Fields == {"pc", "task", "to", "asRun", "was", "own", "edge", "left", "todo", "unmet", "then"}

(* What a goroutine with locals r writes, and for whom; what its reads say *)
(* of the tasks done by now.                                               *)
ToOf(r) ==
  /\ r.pc \in {"readForRun", "listEdges", "deleteEdges", "createEdge", "readDeps", "readForStatus",
               "writeStatus", "dependents", "readDepsAgain", "readAssignee"} =>
       r.to \in {"blocked", "pending"}
  /\ r.pc \in {"readTask", "checkTask", "readBlockers", "writeTask"} =>
       r.to \in {"in_progress", "completed", "cancelled"}
  /\ r.pc = "writeRun" => r.to \in Reached
  /\ r.pc \in {"readForRun", "writeRun", "listEdges", "deleteEdges", "createEdge", "readDeps"} =>
       r.then # "unblock"

DepsRead(r, done) ==
  /\ r.pc \in {"readDeps", "readDepsAgain"} /\ ~r.unmet => DependsOn[r.task] \ r.left \subseteq done
  /\ r.pc = "readAssignee" => DependsOn[r.task] \subseteq done
  /\ r.pc \in {"readForStatus", "writeStatus"} /\ r.then = "unblock" => DependsOn[r.task] \subseteq done

BlockersRead(r, done) ==
  /\ r.pc = "readBlockers" /\ ~r.unmet => BlockedBy[r.task] \ r.left \subseteq done
  /\ r.pc \in {"writeRun", "writeTask"} /\ r.to \in Begun => BlockedBy[r.task] \subseteq done

Sound(r, done) ==
  /\ DOMAIN r = Fields
  /\ r.pc \in PC /\ r.unmet \in BOOLEAN
  /\ r.pc \notin {"idle", "dependents"} => r.task \in Task
  /\ ToOf(r) /\ DepsRead(r, done) /\ BlockersRead(r, done)

Careful ==
  /\ DOMAIN worker = Worker /\ DOMAIN sent = Task
  /\ status \in [Task -> Reached]
  /\ \A t \in Task : status[t] \in TerminalTask => t \in everTerminal
  /\ \A w \in Worker : Sound(worker[w], everTerminal)
  /\ DispatchedAfterDependencies
  /\ StartedAfterBlockers

-----------------------------------------------------------------------------
LEMMA IdleSound == \A done : Sound(Idle, done)
BY DEF Idle, Sound, ToOf, DepsRead, BlockersRead, Fields, PC

LEMMA NextSound == \A r, done : Sound(NextDependent(r), done)
<1> SUFFICES ASSUME NEW r, NEW done
             PROVE  Sound(NextDependent(r), done)
  OBVIOUS
<1>1. CASE r.todo = {}
  BY <1>1, IdleSound DEF NextDependent
<1>2. CASE r.todo # {}
  <2> DEFINE n == [Idle EXCEPT !.pc = "dependents", !.then = "unblock", !.todo = r.todo]
  <2>1. /\ DOMAIN n = Fields /\ n.pc = "dependents" /\ n.unmet = FALSE /\ n.to = "pending"
    BY DEF Idle, Fields
  <2>2. NextDependent(r) = n
    BY <1>2 DEF NextDependent
  <2> HIDE DEF n
  <2>3. Sound(n, done)
    BY <2>1 DEF Sound, ToOf, DepsRead, BlockersRead, PC
  <2> QED BY <2>2, <2>3
<1> QED BY <1>1, <1>2

(* What was read stays true as more tasks end.                             *)
LEMMA StillSound ==
  ASSUME NEW r, NEW done, NEW more, Sound(r, done), done \subseteq more
  PROVE  Sound(r, more)
BY DEF Sound, DepsRead, BlockersRead

(* A step that writes no task.                                             *)
LEMMA Reads ==
  ASSUME Careful, NEW w \in Worker, NEW r, Become(w, r), Sound(r, everTerminal), UNCHANGED tasks,
         \/ UNCHANGED sent
         \/ \E t \in Task : DependsOn[t] \subseteq everTerminal /\ Publish(t)
  PROVE  Careful'
<1>1. /\ DOMAIN worker' = Worker /\ worker'[w] = r
      /\ \A v \in Worker \ {w} : worker'[v] = worker[v]
  BY DEF Careful, Become
<1>2. \A v \in Worker : Sound(worker[v], everTerminal)'
  <2> SUFFICES ASSUME NEW v \in Worker
               PROVE  Sound(worker'[v], everTerminal')
    BY DEF Sound, ToOf, DepsRead, BlockersRead
  <2> QED BY <1>1 DEF Careful, tasks
<1>3. DOMAIN sent' = Task /\ DispatchedAfterDependencies'
  BY DEF Careful, DispatchedAfterDependencies, Publish, tasks
<1>4. StartedAfterBlockers' /\ status' \in [Task -> Reached]
      /\ \A t \in Task : status'[t] \in TerminalTask => t \in everTerminal'
  BY DEF Careful, StartedAfterBlockers, tasks
<1> QED BY <1>1, <1>2, <1>3, <1>4 DEF Careful

(* A step that writes a task's status.                                     *)
LEMMA Writes ==
  ASSUME Careful, NEW w \in Worker, NEW r, Become(w, r), \A done : Sound(r, done),
         NEW t \in Task, NEW s \in Reached, NEW a, SetTask(t, s, a),
         s \in Begun => BlockedBy[t] \subseteq everTerminal,
         \/ UNCHANGED sent
         \/ DependsOn[t] \subseteq everTerminal /\ Publish(t)
  PROVE  Careful'
<1>1. /\ DOMAIN worker' = Worker /\ worker'[w] = r
      /\ \A v \in Worker \ {w} : worker'[v] = worker[v]
  BY DEF Careful, Become
<1>2. /\ everTerminal \subseteq everTerminal'
      /\ s \in TerminalTask => t \in everTerminal'
      /\ status' = [status EXCEPT ![t] = s]
  BY DEF SetTask
<1>3. \A v \in Worker : Sound(worker[v], everTerminal)'
  <2> SUFFICES ASSUME NEW v \in Worker
               PROVE  Sound(worker'[v], everTerminal')
    BY DEF Sound, ToOf, DepsRead, BlockersRead
  <2>1. Sound(worker[v], everTerminal)
    BY DEF Careful
  <2> QED BY <1>1, <1>2, <2>1, StillSound
<1>4. DOMAIN sent' = Task /\ DispatchedAfterDependencies'
  BY <1>2 DEF Careful, DispatchedAfterDependencies, Publish
<1>5. status' \in [Task -> Reached]
  BY <1>2 DEF Careful
<1>6. \A u \in Task : status'[u] \in TerminalTask => u \in everTerminal'
  BY <1>2 DEF Careful
<1>7. StartedAfterBlockers'
  BY <1>2 DEF Careful, StartedAfterBlockers, Begun
<1> QED BY <1>1, <1>3, <1>4, <1>5, <1>6, <1>7 DEF Careful

LEMMA Here ==
  ASSUME Careful, NEW w \in Worker
  PROVE  Sound(worker[w], everTerminal)
BY DEF Careful

(* A terminal status read now was reached.                                 *)
LEMMA MetIsTerminal ==
  ASSUME Careful, NEW d \in Task, ~Unmet(status[d])
  PROVE  d \in everTerminal
BY DEF Careful, Unmet

-----------------------------------------------------------------------------
(* The steps, one lemma per action.                                        *)

LEMMA AssignStep ==
  ASSUME Careful, NEW w \in Worker, NEW t \in Task, NEW r, AssignTask(w, t, r)
  PROVE  Careful'
<1> DEFINE n == assigns[t] + 1
           q == IF r # NoRun /\ run[t] = NoRun THEN "readForRun" ELSE "listEdges"
           l == [Idle EXCEPT !.pc = q, !.task = t, !.to = "blocked", !.was = status[t],
                             !.asRun = r, !.own = {n}, !.then = "assign"]
<1>1. Become(w, Idle) \/ Become(w, l)
  BY DEF AssignTask
<1>2. UNCHANGED tasks /\ UNCHANGED sent
  BY DEF AssignTask
<1>3. q \in {"readForRun", "listEdges"}
  OBVIOUS
<1> HIDE DEF n, q
<1>4. /\ DOMAIN l = Fields /\ l.pc = q /\ l.task = t /\ l.to = "blocked" /\ l.unmet = FALSE
      /\ l.then = "assign"
  BY DEF Idle, Fields
<1> HIDE DEF l
<1>5. Sound(l, everTerminal)
  BY <1>3, <1>4 DEF Sound, ToOf, DepsRead, BlockersRead, PC
<1> QED BY <1>1, <1>2, <1>5, IdleSound, Reads

LEMMA ReadForRunStep ==
  ASSUME Careful, NEW w \in Worker, ReadForRun(w)
  PROVE  Careful'
<1> DEFINE r == worker[w]
           s == status[r.task]
           n == [r EXCEPT !.pc = "writeRun", !.to = s]
<1>1. Become(w, n) /\ r.pc = "readForRun" /\ UNCHANGED tasks /\ UNCHANGED sent
  BY DEF ReadForRun, At
<1>2. r.task \in Task /\ DOMAIN r = Fields /\ r.unmet \in BOOLEAN /\ r.then # "unblock"
  BY <1>1, Here DEF Sound, ToOf
<1>3. s \in Reached /\ (s \in Begun => BlockedBy[r.task] \subseteq everTerminal)
  BY <1>2 DEF Careful, StartedAfterBlockers, Begun
<1> HIDE DEF s
<1>4. /\ DOMAIN n = Fields /\ n.pc = "writeRun" /\ n.task = r.task /\ n.to = s /\ n.unmet \in BOOLEAN
      /\ n.then = r.then
  BY <1>2 DEF Fields
<1> HIDE DEF n
<1>5. Sound(n, everTerminal)
  <2> HIDE DEF r
  <2> QED BY <1>2, <1>3, <1>4 DEF Sound, ToOf, DepsRead, BlockersRead, PC
<1> QED BY <1>1, <1>5, Reads

LEMMA WriteRunStep ==
  ASSUME Careful, NEW w \in Worker, WriteRun(w)
  PROVE  Careful'
<1> DEFINE r == worker[w]
           n == [r EXCEPT !.pc = "listEdges", !.to = "blocked"]
<1>1. /\ Become(w, n) /\ r.pc = "writeRun" /\ UNCHANGED sent
      /\ SetTask(r.task, r.to, r.asRun)
  BY DEF WriteRun, At
<1>2. /\ r.task \in Task /\ DOMAIN r = Fields /\ r.unmet \in BOOLEAN /\ r.to \in Reached
      /\ r.to \in Begun => BlockedBy[r.task] \subseteq everTerminal
      /\ r.then # "unblock"
  BY <1>1, Here DEF Sound, ToOf, BlockersRead
<1>3. /\ DOMAIN n = Fields /\ n.pc = "listEdges" /\ n.task = r.task /\ n.to = "blocked"
      /\ n.unmet \in BOOLEAN /\ n.then = r.then
  BY <1>2 DEF Fields
<1> HIDE DEF n, r
<1>4. \A done : Sound(n, done)
  BY <1>2, <1>3 DEF Sound, ToOf, DepsRead, BlockersRead, PC
<1> QED BY <1>1, <1>2, <1>4, Writes

LEMMA AfterDeleteSound ==
  ASSUME NEW r, NEW done, DOMAIN r = Fields, r.unmet \in BOOLEAN, r.task \in Task,
         r.to \in {"blocked", "pending"}, r.then # "unblock"
  PROVE  Sound(AfterDelete(r), done)
<1> DEFINE n == [r EXCEPT !.pc = "createEdge", !.edge = {}]
<1>1. /\ DOMAIN n = Fields /\ n.pc = "createEdge" /\ n.task = r.task /\ n.to = r.to
      /\ n.unmet = r.unmet /\ n.then = r.then
  BY DEF Fields
<1>2. AfterDelete(r) = n \/ AfterDelete(r) = Idle
  BY DEF AfterDelete
<1> HIDE DEF n
<1>3. Sound(n, done)
  BY <1>1 DEF Sound, ToOf, DepsRead, BlockersRead, PC
<1> QED BY <1>2, <1>3, IdleSound

LEMMA ListEdgesStep ==
  ASSUME Careful, NEW w \in Worker, ListEdges(w)
  PROVE  Careful'
<1> DEFINE r == worker[w]
           e == assignee[r.task]
           n == [r EXCEPT !.pc = "deleteEdges", !.edge = e]
<1>1. /\ Become(w, AfterDelete(r)) \/ Become(w, n)
      /\ r.pc = "listEdges" /\ UNCHANGED tasks /\ UNCHANGED sent
  BY DEF ListEdges, At
<1>2. /\ r.task \in Task /\ DOMAIN r = Fields /\ r.unmet \in BOOLEAN /\ r.to \in {"blocked", "pending"}
      /\ r.then # "unblock"
  BY <1>1, Here DEF Sound, ToOf
<1> HIDE DEF e
<1>3. /\ DOMAIN n = Fields /\ n.pc = "deleteEdges" /\ n.task = r.task /\ n.to = r.to
      /\ n.unmet = r.unmet /\ n.then = r.then
  BY <1>2 DEF Fields
<1> HIDE DEF n, r
<1>4. Sound(n, everTerminal)
  BY <1>2, <1>3 DEF Sound, ToOf, DepsRead, BlockersRead, PC
<1>5. Sound(AfterDelete(r), everTerminal)
  BY <1>2, AfterDeleteSound
<1> QED BY <1>1, <1>4, <1>5, Reads

LEMMA DeleteEdgeStep ==
  ASSUME Careful, NEW w \in Worker, NEW e, DeleteEdge(w, e)
  PROVE  Careful'
<1> DEFINE r == worker[w]
           left == r.edge \ {e}
           n == [r EXCEPT !.edge = left]
<1>1. /\ Become(w, Idle) \/ Become(w, AfterDelete(r)) \/ Become(w, n)
      /\ r.pc = "deleteEdges" /\ UNCHANGED tasks /\ UNCHANGED sent
  BY DEF DeleteEdge, At
<1>2. /\ r.task \in Task /\ DOMAIN r = Fields /\ r.unmet \in BOOLEAN /\ r.to \in {"blocked", "pending"}
      /\ r.then # "unblock"
  BY <1>1, Here DEF Sound, ToOf
<1> HIDE DEF left
<1>3. /\ DOMAIN n = Fields /\ n.pc = r.pc /\ n.task = r.task /\ n.to = r.to
      /\ n.unmet = r.unmet /\ n.then = r.then
  BY <1>2 DEF Fields
<1> HIDE DEF n
<1>4. Sound(n, everTerminal)
  <2> HIDE DEF r
  <2> QED BY <1>1, <1>2, <1>3 DEF Sound, ToOf, DepsRead, BlockersRead, PC
<1> HIDE DEF r
<1>5. Sound(AfterDelete(r), everTerminal)
  BY <1>2, AfterDeleteSound
<1> QED BY <1>1, <1>4, <1>5, IdleSound, Reads

LEMMA CreateEdgeStep ==
  ASSUME Careful, NEW w \in Worker, CreateEdge(w)
  PROVE  Careful'
<1> DEFINE r == worker[w]
           n == [r EXCEPT !.pc = "readDeps", !.own = {}, !.left = DependsOn[r.task]]
<1>1. /\ \/ DependsOn[r.task] = {} /\ Become(w, Idle) /\ Publish(r.task)
         \/ Become(w, n) /\ UNCHANGED sent
      /\ r.pc = "createEdge" /\ UNCHANGED tasks
  BY DEF CreateEdge, At
<1>2. /\ r.task \in Task /\ DOMAIN r = Fields /\ r.unmet \in BOOLEAN /\ r.to \in {"blocked", "pending"}
      /\ r.then # "unblock"
  BY <1>1, Here DEF Sound, ToOf
<1>3. /\ DOMAIN n = Fields /\ n.pc = "readDeps" /\ n.task = r.task /\ n.to = r.to
      /\ n.unmet = r.unmet /\ n.then = r.then /\ n.left = DependsOn[n.task]
  BY <1>2 DEF Fields
<1> HIDE DEF n, r
<1>4. Sound(n, everTerminal)
  BY <1>2, <1>3 DEF Sound, ToOf, DepsRead, BlockersRead, PC
<1> QED BY <1>1, <1>2, <1>4, IdleSound, Reads

(* One more dependency or blocker read: those no longer left have ended.   *)
LEMMA OneMore ==
  ASSUME Careful, NEW r, NEW d \in Task, NEW all, d \in r.left, r.unmet \in BOOLEAN,
         ~r.unmet => all \ r.left \subseteq everTerminal
  PROVE  /\ (r.unmet \/ Unmet(status[d])) \in BOOLEAN
         /\ ~(r.unmet \/ Unmet(status[d])) =>
              /\ all \ (r.left \ {d}) \subseteq everTerminal
              /\ r.left = {d} => all \subseteq everTerminal
<1>1. (r.unmet \/ Unmet(status[d])) \in BOOLEAN
  BY DEF Unmet
<1>2. ASSUME ~(r.unmet \/ Unmet(status[d]))
      PROVE  d \in everTerminal /\ ~r.unmet
  BY <1>2, MetIsTerminal
<1> QED BY <1>1, <1>2

LEMMA ReadDepStep ==
  ASSUME Careful, NEW w \in Worker, NEW d \in Task, ReadDep(w, d)
  PROVE  Careful'
<1> DEFINE r == worker[w]
           u == r.unmet \/ Unmet(status[d])
           left == r.left \ {d}
           n == [r EXCEPT !.left = left, !.unmet = u]
           b == [r EXCEPT !.pc = "readForStatus", !.left = {}, !.unmet = FALSE]
<1>1. /\ \/ Become(w, n) /\ UNCHANGED sent
         \/ r.left = {d} /\ ~u /\ Become(w, Idle) /\ Publish(r.task)
         \/ (Become(w, b) \/ Become(w, Idle)) /\ UNCHANGED sent
      /\ r.pc = "readDeps" /\ UNCHANGED tasks /\ d \in r.left
  BY DEF ReadDep, At
<1>2. /\ r.task \in Task /\ DOMAIN r = Fields /\ r.unmet \in BOOLEAN /\ r.to \in {"blocked", "pending"}
      /\ ~r.unmet => DependsOn[r.task] \ r.left \subseteq everTerminal
      /\ r.then # "unblock"
  BY <1>1, Here DEF Sound, ToOf, DepsRead
<1>3. /\ u \in BOOLEAN
      /\ ~u => /\ DependsOn[r.task] \ left \subseteq everTerminal
               /\ r.left = {d} => DependsOn[r.task] \subseteq everTerminal
  BY <1>1, <1>2, OneMore
<1> HIDE DEF u, left
<1>4. /\ DOMAIN n = Fields /\ n.pc = r.pc /\ n.task = r.task /\ n.to = r.to
      /\ n.unmet = u /\ n.left = left /\ n.then = r.then
  BY <1>2 DEF Fields
<1>5. /\ DOMAIN b = Fields /\ b.pc = "readForStatus" /\ b.task = r.task /\ b.to = r.to
      /\ b.unmet = FALSE /\ b.then = r.then
  BY <1>2 DEF Fields
<1>6. Sound(n, everTerminal)
  <2> HIDE DEF n, r
  <2> QED BY <1>1, <1>2, <1>3, <1>4 DEF Sound, ToOf, DepsRead, BlockersRead, PC
<1>7. Sound(b, everTerminal)
  <2> HIDE DEF b, r
  <2> QED BY <1>1, <1>2, <1>5 DEF Sound, ToOf, DepsRead, BlockersRead, PC
<1> HIDE DEF n, b, r
<1> QED BY <1>1, <1>2, <1>3, <1>6, <1>7, IdleSound, Reads

LEMMA ReadForStatusStep ==
  ASSUME Careful, NEW w \in Worker, ReadForStatus(w)
  PROVE  Careful'
<1> DEFINE r == worker[w]
           n == [r EXCEPT !.pc = "writeStatus", !.asRun = run[r.task]]
<1>1. Become(w, n) /\ r.pc = "readForStatus" /\ UNCHANGED tasks /\ UNCHANGED sent
  BY DEF ReadForStatus, At
<1>2. /\ r.task \in Task /\ DOMAIN r = Fields /\ r.unmet \in BOOLEAN /\ r.to \in {"blocked", "pending"}
      /\ r.then = "unblock" => DependsOn[r.task] \subseteq everTerminal
  BY <1>1, Here DEF Sound, ToOf, DepsRead
<1>3. /\ DOMAIN n = Fields /\ n.pc = "writeStatus" /\ n.task = r.task /\ n.to = r.to
      /\ n.unmet = r.unmet /\ n.then = r.then
  BY <1>2 DEF Fields
<1> HIDE DEF n, r
<1>4. Sound(n, everTerminal)
  BY <1>2, <1>3 DEF Sound, ToOf, DepsRead, BlockersRead, PC
<1> QED BY <1>1, <1>4, Reads

LEMMA WriteStatusStep ==
  ASSUME Careful, NEW w \in Worker, WriteStatus(w)
  PROVE  Careful'
<1> DEFINE r == worker[w]
<1>1. /\ r.pc = "writeStatus" /\ SetTask(r.task, r.to, r.asRun)
      /\ \/ r.then = "unblock" /\ Become(w, NextDependent(r)) /\ Publish(r.task)
         \/ Become(w, Idle) /\ UNCHANGED sent
  BY DEF WriteStatus, At
<1>2. /\ r.task \in Task /\ r.to \in {"blocked", "pending"}
      /\ r.then = "unblock" => DependsOn[r.task] \subseteq everTerminal
  BY <1>1, Here DEF Sound, ToOf, DepsRead
<1>3. r.to \in Reached /\ r.to \notin Begun
  BY <1>2 DEF Reached, Begun
<1> HIDE DEF r
<1> QED BY <1>1, <1>2, <1>3, IdleSound, NextSound, Writes

(* The calls and events that begin with nothing read.                      *)
LEMMA BeginStep ==
  ASSUME Careful, NEW w \in Worker, NEW t \in Task, NEW s \in {"in_progress", "completed"},
         \/ UnassignTask(w, t) \/ CancelTask(w, t) \/ ReceiveReport(w, t, s)
  PROVE  Careful'
<1> DEFINE u == [Idle EXCEPT !.pc = "listEdges", !.task = t]
           c == [Idle EXCEPT !.pc = "readTask", !.task = t, !.to = "cancelled"]
           p == [Idle EXCEPT !.pc = "readTask", !.task = t, !.to = s]
<1>1. /\ Become(w, u) \/ Become(w, c) \/ Become(w, p)
      /\ UNCHANGED tasks /\ UNCHANGED sent
  BY DEF UnassignTask, CancelTask, ReceiveReport
<1>2. /\ DOMAIN u = Fields /\ u.pc = "listEdges" /\ u.task = t /\ u.to = "pending"
      /\ u.unmet = FALSE /\ u.then = "stop"
  BY DEF Idle, Fields
<1>3. /\ DOMAIN c = Fields /\ c.pc = "readTask" /\ c.task = t /\ c.to = "cancelled"
      /\ c.unmet = FALSE
  BY DEF Idle, Fields
<1>4. DOMAIN p = Fields /\ p.pc = "readTask" /\ p.task = t /\ p.to = s /\ p.unmet = FALSE
  BY DEF Idle, Fields
<1> HIDE DEF u, c, p
<1>5. Sound(u, everTerminal) /\ Sound(c, everTerminal) /\ Sound(p, everTerminal)
  BY <1>2, <1>3, <1>4 DEF Sound, ToOf, DepsRead, BlockersRead, PC
<1> QED BY <1>1, <1>5, Reads

LEMMA ReadTaskStep ==
  ASSUME Careful, NEW w \in Worker, ReadTask(w)
  PROVE  Careful'
<1> DEFINE r == worker[w]
           n == [r EXCEPT !.pc = "checkTask", !.asRun = run[r.task]]
<1>1. Become(w, n) /\ r.pc = "readTask" /\ UNCHANGED tasks /\ UNCHANGED sent
  BY DEF ReadTask, At
<1>2. /\ r.task \in Task /\ DOMAIN r = Fields /\ r.unmet \in BOOLEAN
      /\ r.to \in {"in_progress", "completed", "cancelled"}
  BY <1>1, Here DEF Sound, ToOf
<1>3. /\ DOMAIN n = Fields /\ n.pc = "checkTask" /\ n.task = r.task /\ n.to = r.to
      /\ n.unmet = r.unmet
  BY <1>2 DEF Fields
<1> HIDE DEF n, r
<1>4. Sound(n, everTerminal)
  BY <1>2, <1>3 DEF Sound, ToOf, DepsRead, BlockersRead, PC
<1> QED BY <1>1, <1>4, Reads

(* Of the transitions to a started status only the one from pending looks  *)
(* at the blockers: the others start from a started task.                  *)
LEMMA CheckTaskStep ==
  ASSUME Careful, NEW w \in Worker, CheckTask(w)
  PROVE  Careful'
<1> DEFINE r == worker[w]
           s == status[r.task]
           gated == s = "pending" /\ r.to = "in_progress" /\ BlockedBy[r.task] # {}
           b == [r EXCEPT !.pc = "readBlockers", !.was = s, !.left = BlockedBy[r.task]]
           n == [r EXCEPT !.pc = "writeTask", !.was = s]
<1>1. /\ \/ Become(w, Idle)
         \/ gated /\ Become(w, b)
         \/ (s = r.to \/ TaskCanTransition(s, r.to)) /\ ~gated /\ Become(w, n)
      /\ r.pc = "checkTask" /\ UNCHANGED tasks /\ UNCHANGED sent
  BY DEF CheckTask, At
<1>2. /\ r.task \in Task /\ DOMAIN r = Fields /\ r.unmet \in BOOLEAN
      /\ r.to \in {"in_progress", "completed", "cancelled"}
  BY <1>1, Here DEF Sound, ToOf
<1>3. s \in Reached /\ (s \in Begun => BlockedBy[r.task] \subseteq everTerminal)
  BY <1>2 DEF Careful, StartedAfterBlockers, Begun
<1>4. /\ DOMAIN b = Fields /\ b.pc = "readBlockers" /\ b.task = r.task /\ b.to = r.to
      /\ b.unmet = r.unmet /\ b.left = BlockedBy[b.task]
  BY <1>2 DEF Fields
<1>5. /\ DOMAIN n = Fields /\ n.pc = "writeTask" /\ n.task = r.task /\ n.to = r.to
      /\ n.unmet = r.unmet
  BY <1>2 DEF Fields
<1>6. Sound(b, everTerminal)
  <2> HIDE DEF b, r
  <2> QED BY <1>2, <1>4 DEF Sound, ToOf, DepsRead, BlockersRead, PC
<1>7. ASSUME s = r.to \/ TaskCanTransition(s, r.to), ~gated
      PROVE  Sound(n, everTerminal)
  <2>1. r.to \in Begun => s \in Begun \/ BlockedBy[r.task] = {}
    <3> HIDE DEF s, r
    <3> QED BY <1>2, <1>3, <1>7 DEF Begun, Reached, TaskCanTransition, TaskTransitions
  <2>2. r.to \in Begun => BlockedBy[r.task] \subseteq everTerminal
    BY <1>3, <2>1
  <2> HIDE DEF n, r, s, gated
  <2> QED BY <1>2, <1>5, <2>2 DEF Sound, ToOf, DepsRead, BlockersRead, PC
<1> HIDE DEF n, b, r, s, gated
<1> QED BY <1>1, <1>6, <1>7, IdleSound, Reads

LEMMA ReadBlockerStep ==
  ASSUME Careful, NEW w \in Worker, NEW d \in Task, ReadBlocker(w, d)
  PROVE  Careful'
<1> DEFINE r == worker[w]
           u == r.unmet \/ Unmet(status[d])
           left == r.left \ {d}
           n == [r EXCEPT !.left = left, !.unmet = u]
           b == [r EXCEPT !.pc = "writeTask", !.left = {}]
<1>1. /\ \/ Become(w, n)
         \/ Become(w, Idle)
         \/ r.left = {d} /\ ~u /\ Become(w, b)
      /\ r.pc = "readBlockers" /\ UNCHANGED tasks /\ UNCHANGED sent /\ d \in r.left
  BY DEF ReadBlocker, At
<1>2. /\ r.task \in Task /\ DOMAIN r = Fields /\ r.unmet \in BOOLEAN
      /\ r.to \in {"in_progress", "completed", "cancelled"}
      /\ ~r.unmet => BlockedBy[r.task] \ r.left \subseteq everTerminal
  BY <1>1, Here DEF Sound, ToOf, BlockersRead
<1>3. /\ u \in BOOLEAN
      /\ ~u => /\ BlockedBy[r.task] \ left \subseteq everTerminal
               /\ r.left = {d} => BlockedBy[r.task] \subseteq everTerminal
  BY <1>1, <1>2, OneMore
<1> HIDE DEF u, left
<1>4. /\ DOMAIN n = Fields /\ n.pc = r.pc /\ n.task = r.task /\ n.to = r.to
      /\ n.unmet = u /\ n.left = left
  BY <1>2 DEF Fields
<1>5. /\ DOMAIN b = Fields /\ b.pc = "writeTask" /\ b.task = r.task /\ b.to = r.to
      /\ b.unmet = r.unmet
  BY <1>2 DEF Fields
<1>6. Sound(n, everTerminal)
  <2> HIDE DEF n, r
  <2> QED BY <1>1, <1>2, <1>3, <1>4 DEF Sound, ToOf, DepsRead, BlockersRead, PC
<1>7. ASSUME r.left = {d}, ~u
      PROVE  Sound(b, everTerminal)
  <2> HIDE DEF b, r
  <2> QED BY <1>2, <1>3, <1>5, <1>7 DEF Sound, ToOf, DepsRead, BlockersRead, PC
<1> HIDE DEF n, b, r
<1> QED BY <1>1, <1>6, <1>7, IdleSound, Reads

LEMMA WriteTaskStep ==
  ASSUME Careful, NEW w \in Worker, WriteTask(w)
  PROVE  Careful'
<1> DEFINE r == worker[w]
<1>1. r.pc = "writeTask" /\ SetTask(r.task, r.to, r.asRun) /\ Become(w, Idle) /\ UNCHANGED sent
  BY DEF WriteTask, At
<1>2. /\ r.task \in Task /\ r.to \in {"in_progress", "completed", "cancelled"}
      /\ r.to \in Begun => BlockedBy[r.task] \subseteq everTerminal
  BY <1>1, Here DEF Sound, ToOf, BlockersRead
<1>3. r.to \in Reached
  BY <1>2 DEF Reached
<1> HIDE DEF r
<1> QED BY <1>1, <1>2, <1>3, IdleSound, Writes

LEMMA ReceiveLandedStep ==
  ASSUME Careful, NEW w \in Worker, NEW t \in Task, NEW s, ReceiveLanded(w, t, s)
  PROVE  Careful'
<1> DEFINE n == [Idle EXCEPT !.pc = "dependents", !.then = "unblock", !.todo = Dependents(t)]
<1>1. Become(w, n) \/ UNCHANGED worker
  BY DEF ReceiveLanded
<1>2. UNCHANGED tasks /\ UNCHANGED sent
  BY DEF ReceiveLanded
<1>3. DOMAIN n = Fields /\ n.pc = "dependents" /\ n.to = "pending" /\ n.unmet = FALSE
  BY DEF Idle, Fields
<1> HIDE DEF n
<1>4. Sound(n, everTerminal)
  BY <1>3 DEF Sound, ToOf, DepsRead, BlockersRead, PC
<1>5. CASE Become(w, n)
  BY <1>2, <1>4, <1>5, Reads
<1>6. CASE UNCHANGED worker
  BY <1>2, <1>6 DEF Careful, tasks, Sound, ToOf, DepsRead, BlockersRead,
                    DispatchedAfterDependencies, StartedAfterBlockers
<1> QED BY <1>1, <1>5, <1>6

LEMMA ReadDependentStep ==
  ASSUME Careful, NEW w \in Worker, NEW t \in Task, ReadDependent(w, t)
  PROVE  Careful'
<1> DEFINE r == worker[w]
           rest == [r EXCEPT !.todo = r.todo \ {t}]
           n == [rest EXCEPT !.pc = "readDepsAgain", !.task = t, !.left = DependsOn[t]]
<1>1. /\ Become(w, NextDependent(rest)) \/ Become(w, n)
      /\ r.pc = "dependents" /\ UNCHANGED tasks /\ UNCHANGED sent
  BY DEF ReadDependent, At
<1>2. DOMAIN r = Fields /\ r.unmet \in BOOLEAN /\ r.to \in {"blocked", "pending"}
  BY <1>1, Here DEF Sound, ToOf
<1>3. DOMAIN rest = Fields /\ rest.unmet = r.unmet /\ rest.to = r.to
  BY <1>2 DEF Fields
<1> HIDE DEF rest
<1>4. /\ DOMAIN n = Fields /\ n.pc = "readDepsAgain" /\ n.task = t /\ n.to = r.to
      /\ n.unmet = r.unmet /\ n.left = DependsOn[t]
  BY <1>3 DEF Fields
<1> HIDE DEF n, r
<1>5. Sound(n, everTerminal)
  BY <1>2, <1>4 DEF Sound, ToOf, DepsRead, BlockersRead, PC
<1> QED BY <1>1, <1>5, NextSound, Reads

LEMMA ReadDepAgainStep ==
  ASSUME Careful, NEW w \in Worker, NEW d \in Task, ReadDepAgain(w, d)
  PROVE  Careful'
<1> DEFINE r == worker[w]
           u == r.unmet \/ Unmet(status[d])
           left == r.left \ {d}
           n == [r EXCEPT !.left = left, !.unmet = u]
           b == [r EXCEPT !.pc = "readAssignee", !.left = {}]
<1>1. /\ \/ Become(w, n)
         \/ Become(w, NextDependent(r))
         \/ r.left = {d} /\ ~u /\ Become(w, b)
      /\ r.pc = "readDepsAgain" /\ UNCHANGED tasks /\ UNCHANGED sent /\ d \in r.left
  BY DEF ReadDepAgain, At
<1>2. /\ r.task \in Task /\ DOMAIN r = Fields /\ r.unmet \in BOOLEAN /\ r.to \in {"blocked", "pending"}
      /\ ~r.unmet => DependsOn[r.task] \ r.left \subseteq everTerminal
  BY <1>1, Here DEF Sound, ToOf, DepsRead
<1>3. /\ u \in BOOLEAN
      /\ ~u => /\ DependsOn[r.task] \ left \subseteq everTerminal
               /\ r.left = {d} => DependsOn[r.task] \subseteq everTerminal
  BY <1>1, <1>2, OneMore
<1> HIDE DEF u, left
<1>4. /\ DOMAIN n = Fields /\ n.pc = r.pc /\ n.task = r.task /\ n.to = r.to
      /\ n.unmet = u /\ n.left = left
  BY <1>2 DEF Fields
<1>5. /\ DOMAIN b = Fields /\ b.pc = "readAssignee" /\ b.task = r.task /\ b.to = r.to
      /\ b.unmet = r.unmet
  BY <1>2 DEF Fields
<1>6. Sound(n, everTerminal)
  <2> HIDE DEF n, r
  <2> QED BY <1>1, <1>2, <1>3, <1>4 DEF Sound, ToOf, DepsRead, BlockersRead, PC
<1>7. ASSUME r.left = {d}, ~u
      PROVE  Sound(b, everTerminal)
  <2> HIDE DEF b, r
  <2> QED BY <1>2, <1>3, <1>5, <1>7 DEF Sound, ToOf, DepsRead, BlockersRead, PC
<1> HIDE DEF n, b, r
<1> QED BY <1>1, <1>6, <1>7, NextSound, Reads

LEMMA ReadAssigneeStep ==
  ASSUME Careful, NEW w \in Worker, ReadAssignee(w)
  PROVE  Careful'
<1> DEFINE r == worker[w]
           n == [r EXCEPT !.pc = "readForStatus"]
<1>1. /\ Become(w, NextDependent(r)) \/ Become(w, n)
      /\ r.pc = "readAssignee" /\ UNCHANGED tasks /\ UNCHANGED sent
  BY DEF ReadAssignee, At
<1>2. /\ r.task \in Task /\ DOMAIN r = Fields /\ r.unmet \in BOOLEAN /\ r.to \in {"blocked", "pending"}
      /\ DependsOn[r.task] \subseteq everTerminal
  BY <1>1, Here DEF Sound, ToOf, DepsRead
<1>3. /\ DOMAIN n = Fields /\ n.pc = "readForStatus" /\ n.task = r.task /\ n.to = r.to
      /\ n.unmet = r.unmet
  BY <1>2 DEF Fields
<1> HIDE DEF n, r
<1>4. Sound(n, everTerminal)
  BY <1>2, <1>3 DEF Sound, ToOf, DepsRead, BlockersRead, PC
<1> QED BY <1>1, <1>4, NextSound, Reads

-----------------------------------------------------------------------------
LEMMA CarefulStep ==
  ASSUME Careful, [Next]_vars
  PROVE  Careful'
<1>1. ASSUME NEW w \in Worker, Work(w)
      PROVE  Careful'
  BY <1>1, ReadForRunStep, WriteRunStep, ListEdgesStep, DeleteEdgeStep, CreateEdgeStep,
     ReadDepStep, ReadBlockerStep, ReadDependentStep, ReadDepAgainStep, ReadForStatusStep,
     WriteStatusStep, ReadTaskStep, CheckTaskStep, WriteTaskStep, ReadAssigneeStep DEF Work
<1>2. ASSUME NEW w \in Worker, NEW t \in Task, NEW r, AssignTask(w, t, r)
      PROVE  Careful'
  BY <1>2, AssignStep
<1>3. ASSUME NEW w \in Worker, NEW t \in Task, UnassignTask(w, t) \/ CancelTask(w, t)
      PROVE  Careful'
  BY <1>3, BeginStep
<1>4. ASSUME NEW w \in Worker, NEW t \in Task, NEW s \in Report, ReceiveReport(w, t, s)
      PROVE  Careful'
  BY <1>4, BeginStep DEF Report
<1>5. ASSUME NEW w \in Worker, NEW t \in Task, NEW s, ReceiveLanded(w, t, s)
      PROVE  Careful'
  BY <1>5, ReceiveLandedStep
<1>6. CASE UNCHANGED vars
  BY <1>6 DEF vars, Careful, Sound, ToOf, DepsRead, BlockersRead,
              DispatchedAfterDependencies, StartedAfterBlockers
<1> QED BY <1>1, <1>2, <1>3, <1>4, <1>5, <1>6 DEF Next

LEMMA CarefulInit == Init => Careful
<1> SUFFICES ASSUME Init
             PROVE  Careful
  OBVIOUS
<1>1. \A w \in Worker : Sound(worker[w], everTerminal)
  BY IdleSound DEF Init
<1>2. status \in [Task -> Reached] /\ \A t \in Task : status[t] = "pending"
  BY DEF Init, Reached
<1>3. DOMAIN sent = Task /\ DispatchedAfterDependencies
  BY DEF Init, DispatchedAfterDependencies
<1>4. StartedAfterBlockers /\ \A t \in Task : status[t] \notin TerminalTask
  BY <1>2 DEF StartedAfterBlockers, TerminalTask
<1> QED BY <1>1, <1>2, <1>3, <1>4 DEF Init, Careful

(* Nothing is dispatched before each of its dependencies has ended once.   *)
THEOREM DispatchedInOrder == Spec => []DispatchedAfterDependencies
<1>1. Careful => DispatchedAfterDependencies
  BY DEF Careful
<1> QED BY <1>1, CarefulInit, CarefulStep, PTL DEF Spec

(* Nothing is started before each of its blockers has ended once.          *)
THEOREM StartedInOrder == Spec => []StartedAfterBlockers
<1>1. Careful => StartedAfterBlockers
  BY DEF Careful
<1> QED BY <1>1, CarefulInit, CarefulStep, PTL DEF Spec

-----------------------------------------------------------------------------
(* Each task assigned once, and no dependency that waits for others: then  *)
(* no dependency is ever sent twice, so it completes at most once.         *)
OneCall == MaxAssign \in [Task -> {0, 1}]
OneLevel == \A t \in Task : \A d \in DependsOn[t] : DependsOn[d] = {}

CallOf(r) ==
  /\ r.then \in {"stop", "assign", "unblock"}
  /\ r.pc \in {"idle", "readTask", "checkTask", "readBlockers", "writeTask"} => r.then = "stop"
  /\ r.pc \in {"listEdges", "deleteEdges"} => r.then # "unblock"
  /\ r.pc \in {"readForRun", "writeRun", "createEdge", "readDeps"} => r.then = "assign"
  /\ r.pc \in {"dependents", "readDepsAgain", "readAssignee"} => r.then = "unblock"
  /\ r.pc \in {"readForStatus", "writeStatus"} => r.then # "stop"
  /\ r.pc \in {"readDeps", "readDepsAgain", "readAssignee", "readForStatus", "writeStatus"} =>
       DependsOn[r.task] # {}
  /\ r.then = "unblock" => r.to = "pending" /\ \A u \in r.todo : DependsOn[u] # {}
  /\ r.pc = "dependents" => r.unmet = FALSE
  /\ r.pc = "readDepsAgain" => r.left \subseteq DependsOn[r.task]

Assigning(r, t) == r.then = "assign" /\ r.task = t
Ending(r, d) ==
  r.pc \in {"readTask", "checkTask", "readBlockers", "writeTask"} /\ r.task = d /\ r.to = "completed"

(* AssignTask runs once for a task; a task is held only once that is over. *)
AssignedOnce(t) ==
  /\ assigns[t] \in {0, 1}
  /\ t \in held => assigns[t] = 1
  /\ \A w \in Worker : Assigning(worker[w], t) => assigns[t] = 1 /\ t \notin held
  /\ \A v, w \in Worker : Assigning(worker[v], t) /\ Assigning(worker[w], t) => v = w

(* The one report that completes a task without dependencies, before it is *)
(* sent, on its way, and while UpdateTask handles it.                      *)
EndsOnce(d) ==
  /\ reports[<<d, "completed">>] \in {0, 1}
  /\ \A v, w \in Worker : Ending(worker[v], d) /\ Ending(worker[w], d) => v = w
  /\ reports[<<d, "completed">>] = 1 => \A w \in Worker : ~Ending(worker[w], d)
  /\ \/ assigns[d] = 0
     \/ \E w \in Worker : Assigning(worker[w], d)
     => reports[<<d, "completed">>] = 0 /\ \A w \in Worker : ~Ending(worker[w], d)
  /\ \/ assigns[d] = 0
     \/ reports[<<d, "completed">>] = 1
     \/ \E w \in Worker : Assigning(worker[w], d) \/ Ending(worker[w], d)
     => status[d] # "completed"
  /\ \A w \in Worker :
       /\ Assigning(worker[w], d) /\ worker[w].pc = "writeRun" => worker[w].to # "completed"
       /\ Ending(worker[w], d) /\ worker[w].pc \in {"readBlockers", "writeTask"} =>
            worker[w].was # "completed"

(* A goroutine still on its way to release t.                              *)
Releasing(r, t) ==
  /\ r.then = "unblock"
  /\ \/ t \in r.todo
     \/ r.pc = "readDepsAgain" /\ r.task = t /\ ~r.unmet
     \/ r.pc \in {"readAssignee", "readForStatus", "writeStatus"} /\ r.task = t

Ready(t) ==
  t \in held /\ status[t] = "blocked" /\ assignee[t] # {}
  /\ \A d \in DependsOn[t] : status[d] = "completed"

ReleaseComes(t) ==
  \/ \E d \in DependsOn[t] : landed[<<d, "completed">>] > 0
  \/ \E w \in Worker : Releasing(worker[w], t)

Watched ==
  /\ reports \in [Task \X Report -> Nat] /\ landed \in [Task \X TerminalTask -> Nat]
  /\ DOMAIN assigns = Task /\ DOMAIN assignee = Task
  /\ held \subseteq Task /\ \A t \in held : DependsOn[t] # {}
  /\ \A w \in Worker : CallOf(worker[w])
  /\ \A t \in Task : AssignedOnce(t)
  /\ \A d \in Task : DependsOn[d] = {} => EndsOnce(d)
  /\ \A t \in Task : Ready(t) => ReleaseComes(t)

-----------------------------------------------------------------------------
LEMMA IdleCall ==
  /\ CallOf(Idle) /\ \A t : ~Assigning(Idle, t) /\ ~Ending(Idle, t) /\ ~Releasing(Idle, t)
BY DEF Idle, CallOf, Assigning, Ending, Releasing

LEMMA Turned ==
  ASSUME Careful, NEW w \in Worker, NEW r, Become(w, r)
  PROVE  worker'[w] = r /\ \A v \in Worker \ {w} : worker'[v] = worker[v]
BY DEF Careful, Become

LEMMA AssignedKept ==
  ASSUME Watched, Careful, NEW w \in Worker, NEW r, Become(w, r), NEW t \in Task,
         UNCHANGED assigns,
         Assigning(r, t) => Assigning(worker[w], t),
         t \in held' => t \in held \/ (Assigning(worker[w], t) /\ ~Assigning(r, t))
  PROVE  AssignedOnce(t)'
<1>1. /\ AssignedOnce(t)
      /\ worker'[w] = r /\ \A v \in Worker \ {w} : worker'[v] = worker[v]
  BY Turned DEF Watched
<1>2. \A v \in Worker : Assigning(worker'[v], t) => Assigning(worker[v], t)
  BY <1>1
<1>3. \A v \in Worker : Assigning(worker'[v], t) => t \notin held'
  BY <1>1, <1>2 DEF AssignedOnce
<1> QED BY <1>1, <1>2, <1>3 DEF AssignedOnce, Assigning

LEMMA EndsKept ==
  ASSUME Watched, Careful, NEW w \in Worker, NEW r, Become(w, r), NEW d \in Task,
         DependsOn[d] = {}, UNCHANGED assigns,
         reports'[<<d, "completed">>] = reports[<<d, "completed">>],
         Assigning(r, d) =>
           Assigning(worker[w], d) /\ (r.pc = "writeRun" => r.to # "completed"),
         Ending(r, d) =>
           /\ Ending(worker[w], d)
           /\ r.pc \in {"readBlockers", "writeTask"} => r.was # "completed",
         status'[d] = "completed" =>
           status[d] = "completed" \/ (Ending(worker[w], d) /\ ~Ending(r, d))
  PROVE  EndsOnce(d)'
<1>1. /\ EndsOnce(d)
      /\ worker'[w] = r /\ \A v \in Worker \ {w} : worker'[v] = worker[v]
  BY Turned DEF Watched
<1>2. \A v \in Worker : /\ Assigning(worker'[v], d) => Assigning(worker[v], d)
                        /\ Ending(worker'[v], d) => Ending(worker[v], d)
  BY <1>1
<1>3. \A v \in Worker :
        /\ Assigning(worker'[v], d) /\ worker'[v].pc = "writeRun" => worker'[v].to # "completed"
        /\ Ending(worker'[v], d) /\ worker'[v].pc \in {"readBlockers", "writeTask"} =>
             worker'[v].was # "completed"
  BY <1>1 DEF EndsOnce
<1>4. /\ \/ assigns'[d] = 0
         \/ reports'[<<d, "completed">>] = 1
         \/ \E v \in Worker : Assigning(worker'[v], d) \/ Ending(worker'[v], d)
         => status'[d] # "completed"
  <2>1. CASE status[d] = "completed"
    BY <1>1, <1>2, <2>1 DEF EndsOnce
  <2>2. CASE Ending(worker[w], d) /\ ~Ending(r, d)
    <3>1. \A v \in Worker : ~Ending(worker'[v], d)
      BY <1>1, <1>2, <2>2 DEF EndsOnce
    <3>2. assigns[d] # 0 /\ reports[<<d, "completed">>] # 1
          /\ \A v \in Worker : ~Assigning(worker[v], d)
      BY <1>1, <2>2 DEF EndsOnce
    <3> QED BY <1>2, <3>1, <3>2
  <2> QED BY <2>1, <2>2
<1>5. /\ reports'[<<d, "completed">>] \in {0, 1}
      /\ \A v, u \in Worker : Ending(worker'[v], d) /\ Ending(worker'[u], d) => v = u
      /\ reports'[<<d, "completed">>] = 1 => \A v \in Worker : ~Ending(worker'[v], d)
      /\ \/ assigns'[d] = 0
         \/ \E v \in Worker : Assigning(worker'[v], d)
         => reports'[<<d, "completed">>] = 0 /\ \A v \in Worker : ~Ending(worker'[v], d)
  BY <1>1, <1>2 DEF EndsOnce
<1> QED BY <1>3, <1>4, <1>5 DEF EndsOnce, Assigning, Ending

(* Who was to be released still is, if the goroutine goes on with it and   *)
(* nothing becomes ready that was not.                                     *)
LEMMA ReadyKept ==
  ASSUME Watched, Careful, NEW w \in Worker, NEW r, Become(w, r), NEW t \in Task,
         Ready(t)' => Ready(t) \/ ReleaseComes(t)',
         Ready(t)' /\ Releasing(worker[w], t) => Releasing(r, t),
         \A d \in DependsOn[t] : landed[<<d, "completed">>] > 0 =>
           landed'[<<d, "completed">>] > 0 \/ Releasing(r, t)
  PROVE  (Ready(t) => ReleaseComes(t))'
<1>1. worker'[w] = r /\ \A v \in Worker \ {w} : worker'[v] = worker[v]
  BY Turned
<1>2. SUFFICES ASSUME Ready(t)', Ready(t)
               PROVE  ReleaseComes(t)'
  OBVIOUS
<1>3. CASE \E d \in DependsOn[t] : landed[<<d, "completed">>] > 0
  BY <1>1, <1>3 DEF ReleaseComes, Releasing
<1>4. ASSUME NEW v \in Worker, Releasing(worker[v], t)
      PROVE  ReleaseComes(t)'
  <2>1. Releasing(worker'[v], t)
    BY <1>1, <1>2, <1>4
  <2> QED BY <2>1 DEF ReleaseComes, Releasing
<1>5. ReleaseComes(t)
  BY <1>2 DEF Watched
<1> QED BY <1>3, <1>4, <1>5 DEF ReleaseComes

(* A step that writes nothing but, perhaps, assigned_to edges of tasks     *)
(* that are not held, and takes no report.                                 *)
LEMMA QuietStep ==
  ASSUME Watched, Careful, NEW w \in Worker, NEW r, Become(w, r), CallOf(r),
         UNCHANGED <<status, reports, landed, assigns, held>>,
         DOMAIN assignee' = Task,
         \A t \in held : assignee[t] = {} => assignee'[t] = {},
         \A t \in Task : Assigning(r, t) => Assigning(worker[w], t),
         r.pc = "writeRun" => \A d \in Task :
           DependsOn[d] = {} /\ Assigning(r, d) => r.to # "completed",
         \A d \in Task : DependsOn[d] = {} /\ Ending(r, d) =>
           /\ Ending(worker[w], d)
           /\ r.pc \in {"readBlockers", "writeTask"} => r.was # "completed",
         \A t \in Task : Ready(t) /\ Releasing(worker[w], t) => Releasing(r, t)
  PROVE  Watched'
<1>1. worker'[w] = r /\ \A v \in Worker \ {w} : worker'[v] = worker[v]
  BY Turned
<1>2. \A v \in Worker : CallOf(worker'[v])
  BY <1>1 DEF Watched
<1>3. \A t \in Task : AssignedOnce(t)'
  BY AssignedKept
<1>4. \A d \in Task : DependsOn[d] = {} => EndsOnce(d)'
  BY EndsKept
<1>5. \A t \in Task : (Ready(t) => ReleaseComes(t))'
  <2> SUFFICES ASSUME NEW t \in Task
               PROVE  (Ready(t) => ReleaseComes(t))'
    OBVIOUS
  <2>1. Ready(t)' => Ready(t)
    BY DEF Ready
  <2>2. \A d \in DependsOn[t] : landed[<<d, "completed">>] > 0 =>
          landed'[<<d, "completed">>] > 0
    OBVIOUS
  <2> QED BY <2>1, <2>2, ReadyKept
<1>6. /\ reports' \in [Task \X Report -> Nat] /\ landed' \in [Task \X TerminalTask -> Nat]
      /\ DOMAIN assigns' = Task /\ held' \subseteq Task /\ \A t \in held' : DependsOn[t] # {}
  BY DEF Watched
<1> QED BY <1>2, <1>3, <1>4, <1>5, <1>6 DEF Watched, CallOf

LEMMA StepWatched ==
  ASSUME Watched, Careful, NEW w \in Worker, NEW r, Become(w, r), CallOf(r), UNCHANGED assigns,
         DOMAIN assignee' = Task, reports' \in [Task \X Report -> Nat],
         landed' \in [Task \X TerminalTask -> Nat],
         held' \subseteq Task, \A t \in held' : DependsOn[t] # {},
         \A t \in Task : /\ Assigning(r, t) => Assigning(worker[w], t)
                         /\ t \in held' => t \in held \/ (Assigning(worker[w], t) /\ ~Assigning(r, t)),
         \A d \in Task : DependsOn[d] = {} => EndsOnce(d)',
         \A t \in Task : (Ready(t) => ReleaseComes(t))'
  PROVE  Watched'
<1>1. worker'[w] = r /\ \A v \in Worker \ {w} : worker'[v] = worker[v]
  BY Turned
<1>2. \A v \in Worker : CallOf(worker'[v])
  BY <1>1 DEF Watched
<1>3. \A t \in Task : AssignedOnce(t)'
  BY AssignedKept
<1>4. DOMAIN assigns' = Task
  BY DEF Watched
<1> QED BY <1>2, <1>3, <1>4 DEF Watched, CallOf

LEMMA There ==
  ASSUME Watched, Careful, NEW w \in Worker
  PROVE  /\ CallOf(worker[w]) /\ DOMAIN worker[w] = Fields /\ worker[w].unmet \in BOOLEAN
         /\ worker[w].pc \notin {"idle", "dependents"} => worker[w].task \in Task
BY DEF Watched, Careful, Sound

(* The goroutine gives up, or ends, without a write.                       *)
LEMMA GoneStep ==
  ASSUME Watched, Careful, NEW w \in Worker, Become(w, Idle),
         UNCHANGED <<status, reports, landed, assigns, held>>,
         DOMAIN assignee' = Task,
         \A t \in held : assignee[t] = {} => assignee'[t] = {},
         worker[w].then # "unblock"
  PROVE  Watched'
<1>1. \A t : ~Releasing(worker[w], t)
  BY DEF Releasing
<1> QED BY <1>1, IdleCall, QuietStep

-----------------------------------------------------------------------------
(* AssignTask.                                                             *)
LEMMA WatchAssign ==
  ASSUME OneCall, Watched, Careful, NEW w \in Worker, NEW t \in Task, NEW a,
         AssignTask(w, t, a)
  PROVE  Watched'
<1> DEFINE n == assigns[t] + 1
           q == IF a # NoRun /\ run[t] = NoRun THEN "readForRun" ELSE "listEdges"
           l == [Idle EXCEPT !.pc = q, !.task = t, !.to = "blocked", !.was = status[t],
                             !.asRun = a, !.own = {n}, !.then = "assign"]
           r == IF a # NoRun /\ run[t] \notin {a, NoRun} THEN Idle ELSE l
<1>1. /\ Become(w, r) /\ worker[w].pc = "idle"
      /\ n <= MaxAssign[t] /\ assigns' = [assigns EXCEPT ![t] = n]
      /\ UNCHANGED <<status, assignee, reports, landed, held>>
  BY DEF AssignTask, At, tasks
<1>2. q \in {"readForRun", "listEdges"}
  OBVIOUS
<1>3. /\ assigns[t] = 0 /\ assigns'[t] = 1 /\ AssignedOnce(t)
      /\ \A u \in Task : u # t => assigns'[u] = assigns[u]
  BY <1>1 DEF OneCall, Watched, AssignedOnce
<1> HIDE DEF q, n
<1>4. l.pc = q /\ l.task = t /\ l.then = "assign"
  BY DEF Idle
<1> HIDE DEF l
<1>5. /\ CallOf(r)
      /\ \A u : /\ Assigning(r, u) => u = t
                /\ ~Ending(r, u) /\ ~Releasing(r, u)
      /\ r.pc # "writeRun"
  BY <1>2, <1>4, IdleCall DEF CallOf, Assigning, Ending, Releasing, Idle
<1>6. \A u : ~Assigning(worker[w], u) /\ ~Ending(worker[w], u) /\ ~Releasing(worker[w], u)
  BY <1>1, There DEF CallOf, Assigning, Ending, Releasing
<1> HIDE DEF r
<1>7. worker'[w] = r /\ \A v \in Worker \ {w} : worker'[v] = worker[v]
  BY <1>1, Turned
<1>8. \A v \in Worker : CallOf(worker'[v])
  BY <1>5, <1>7 DEF Watched
<1>9. \A v \in Worker : ~Assigning(worker[v], t)
  BY <1>3 DEF AssignedOnce
<1>10. ASSUME NEW u \in Task
       PROVE  AssignedOnce(u)'
  <2>1. AssignedOnce(u)
    BY DEF Watched
  <2>2. CASE u = t
    <3>1. \A v \in Worker : Assigning(worker'[v], t) => v = w
      BY <1>7, <1>9
    <3>2. t \notin held'
      BY <1>1, <1>3 DEF AssignedOnce
    <3> QED BY <1>3, <2>2, <3>1, <3>2 DEF AssignedOnce, Assigning
  <2>3. CASE u # t
    <3>1. \A v \in Worker : Assigning(worker'[v], u) => Assigning(worker[v], u)
      BY <1>5, <1>7, <2>3
    <3> QED BY <1>1, <1>3, <2>1, <2>3, <3>1 DEF AssignedOnce, Assigning
  <2> QED BY <2>2, <2>3
<1>11. ASSUME NEW u \in Task, DependsOn[u] = {}
       PROVE  EndsOnce(u)'
  <2>1. EndsOnce(u)
    BY <1>11 DEF Watched
  <2>2. \A v \in Worker : /\ Ending(worker'[v], u) => v # w /\ Ending(worker[v], u)
                          /\ Assigning(worker'[v], u) => v = w \/ Assigning(worker[v], u)
    BY <1>5, <1>7
  <2>3. \A v \in Worker :
          /\ Assigning(worker'[v], u) /\ worker'[v].pc = "writeRun" => worker'[v].to # "completed"
          /\ Ending(worker'[v], u) /\ worker'[v].pc \in {"readBlockers", "writeTask"} =>
               worker'[v].was # "completed"
    BY <1>5, <1>7, <2>1 DEF EndsOnce
  <2>4. CASE u = t
    <3>1. /\ reports'[<<u, "completed">>] = 0 /\ status'[u] # "completed"
          /\ \A v \in Worker : ~Ending(worker[v], u)
      BY <1>1, <1>3, <2>1, <2>4 DEF EndsOnce
    <3> QED BY <2>2, <2>3, <3>1 DEF EndsOnce, Assigning, Ending
  <2>5. CASE u # t
    <3>1. \A v \in Worker : Assigning(worker'[v], u) => Assigning(worker[v], u)
      BY <1>5, <1>7, <2>5
    <3>2. assigns'[u] = assigns[u]
      BY <1>3, <2>5
    <3> QED BY <1>1, <2>1, <2>2, <2>3, <3>1, <3>2 DEF EndsOnce, Assigning, Ending
  <2> QED BY <2>4, <2>5
<1>12. ASSUME NEW u \in Task
       PROVE  (Ready(u) => ReleaseComes(u))'
  <2>1. Ready(u)' => Ready(u)
    BY <1>1 DEF Ready
  <2> QED BY <1>1, <1>6, <2>1, ReadyKept
<1>13. /\ reports' \in [Task \X Report -> Nat] /\ landed' \in [Task \X TerminalTask -> Nat]
       /\ DOMAIN assigns' = Task /\ DOMAIN assignee' = Task
       /\ held' \subseteq Task /\ \A u \in held' : DependsOn[u] # {}
  BY <1>1 DEF Watched
<1> QED BY <1>8, <1>10, <1>11, <1>12, <1>13 DEF Watched, CallOf

LEMMA WatchReadForRun ==
  ASSUME Watched, Careful, NEW w \in Worker, ReadForRun(w)
  PROVE  Watched'
<1> DEFINE r == worker[w]
           n == [r EXCEPT !.pc = "writeRun", !.to = status[r.task]]
<1>1. /\ r.pc = "readForRun" /\ Become(w, n)
      /\ UNCHANGED <<status, assignee, reports, landed, assigns, held>>
  BY DEF ReadForRun, At, tasks, calls
<1>2. CallOf(r) /\ DOMAIN r = Fields /\ r.task \in Task /\ r.then = "assign"
  BY <1>1, There DEF CallOf
<1>3. n.pc = "writeRun" /\ n.to = status[r.task] /\ n.task = r.task /\ n.then = r.then
  BY <1>2 DEF Fields
<1>4. DependsOn[r.task] = {} => status[r.task] # "completed"
  BY <1>2 DEF Watched, EndsOnce, Assigning
<1> HIDE DEF n, r
<1>5. /\ CallOf(n) /\ \A t : /\ Assigning(n, t) <=> t = r.task
                             /\ ~Ending(n, t) /\ ~Releasing(n, t) /\ ~Releasing(r, t)
                             /\ Assigning(r, t) <=> t = r.task
  BY <1>1, <1>2, <1>3 DEF CallOf, Assigning, Ending, Releasing
<1>6. DOMAIN assignee' = Task
  BY <1>1 DEF Watched
<1> QED BY <1>1, <1>3, <1>4, <1>5, <1>6, QuietStep DEF r

(* What a write of a task's status can make ready.                         *)
LEMMA WrittenReady ==
  ASSUME Careful, NEW t \in Task, NEW s, NEW a, SetTask(t, s, a), NEW u \in Task,
         Ready(u)', assignee' = assignee, u \in held,
         t = u => s # "blocked" \/ status[u] = "blocked",
         t \in DependsOn[u] => s # "completed"
  PROVE  Ready(u)
<1>1. status' = [status EXCEPT ![t] = s] /\ DOMAIN status = Task
  BY DEF SetTask, Careful
<1> QED BY <1>1 DEF Ready

LEMMA WatchWriteRun ==
  ASSUME OneLevel, Watched, Careful, NEW w \in Worker, WriteRun(w)
  PROVE  Watched'
<1> DEFINE r == worker[w]
           n == [r EXCEPT !.pc = "listEdges", !.to = "blocked"]
<1>1. /\ r.pc = "writeRun" /\ Become(w, n) /\ SetTask(r.task, r.to, r.asRun)
      /\ UNCHANGED <<assignee, reports, landed, assigns, held>>
  BY DEF WriteRun, At, calls
<1>2. CallOf(r) /\ DOMAIN r = Fields /\ r.task \in Task /\ r.then = "assign"
  BY <1>1, There DEF CallOf
<1>3. n.pc = "listEdges" /\ n.task = r.task /\ n.then = r.then
  BY <1>2 DEF Fields
<1>4. /\ DependsOn[r.task] = {} => r.to # "completed"
      /\ r.task \notin held
  BY <1>1, <1>2 DEF Watched, EndsOnce, AssignedOnce, Assigning
<1> HIDE DEF n, r
<1>5. /\ CallOf(n) /\ \A t : /\ Assigning(n, t) <=> t = r.task
                             /\ ~Ending(n, t) /\ ~Releasing(n, t) /\ ~Releasing(r, t)
                             /\ Assigning(r, t) <=> t = r.task
      /\ n.pc # "writeRun"
  BY <1>1, <1>2, <1>3 DEF CallOf, Assigning, Ending, Releasing
<1>6. \A d \in Task : DependsOn[d] = {} =>
        (status'[d] = "completed" => status[d] = "completed")
  BY <1>1, <1>2, <1>4 DEF SetTask, Careful
<1>7. \A d \in Task : DependsOn[d] = {} => EndsOnce(d)'
  BY <1>1, <1>5, <1>6, EndsKept DEF r
<1>8. ASSUME NEW t \in Task
      PROVE  (Ready(t) => ReleaseComes(t))'
  <2>1. Ready(t)' => Ready(t)
    BY <1>1, <1>2, <1>4, <1>8, WrittenReady DEF OneLevel, Ready
  <2> QED BY <1>1, <1>5, <2>1, ReadyKept DEF r
<1>9. /\ DOMAIN assignee' = Task /\ reports' \in [Task \X Report -> Nat]
      /\ landed' \in [Task \X TerminalTask -> Nat]
      /\ held' \subseteq Task /\ \A t \in held' : DependsOn[t] # {}
  BY <1>1 DEF Watched
<1> QED BY <1>1, <1>5, <1>7, <1>8, <1>9, StepWatched DEF r

-----------------------------------------------------------------------------
(* The edges.                                                              *)
LEMMA EdgeCall ==
  ASSUME NEW r, NEW x, CallOf(r), DOMAIN r = Fields, r.pc \in {"listEdges", "deleteEdges"},
         NEW n, \/ n = AfterDelete(r)
                \/ n = Idle
                \/ n = [r EXCEPT !.pc = "deleteEdges", !.edge = x]
                \/ n = [r EXCEPT !.edge = x]
  PROVE  /\ CallOf(n) /\ n.pc # "writeRun"
         /\ \A t : /\ Assigning(n, t) => Assigning(r, t)
                   /\ ~Ending(n, t) /\ ~Releasing(n, t) /\ ~Releasing(r, t)
<1>1. r.then \in {"stop", "assign"}
  BY DEF CallOf
<1>2. CASE n = Idle
  BY <1>1, <1>2, IdleCall DEF Idle, Releasing
<1>3. CASE n # Idle
  <2>1. /\ n.pc \in {"listEdges", "deleteEdges", "createEdge"} /\ n.then = r.then /\ n.task = r.task
        /\ n.pc = "createEdge" => r.then = "assign"
    BY <1>3 DEF AfterDelete, Fields
  <2> QED BY <1>1, <2>1 DEF CallOf, Assigning, Ending, Releasing
<1> QED BY <1>2, <1>3

LEMMA WatchListEdges ==
  ASSUME Watched, Careful, NEW w \in Worker, ListEdges(w)
  PROVE  Watched'
<1> DEFINE r == worker[w]
           edges == assignee[r.task]
           n == IF edges = {} THEN AfterDelete(r)
                ELSE [r EXCEPT !.pc = "deleteEdges", !.edge = edges]
<1>1. /\ r.pc = "listEdges" /\ Become(w, n)
      /\ UNCHANGED <<status, assignee, reports, landed, assigns, held>>
  BY DEF ListEdges, At, tasks, calls
<1>2. CallOf(r) /\ DOMAIN r = Fields
  BY There
<1>3. \/ n = AfterDelete(r)
      \/ n = [r EXCEPT !.pc = "deleteEdges", !.edge = edges]
  OBVIOUS
<1> HIDE DEF n, r, edges
<1>4. /\ CallOf(n) /\ n.pc # "writeRun"
      /\ \A t : /\ Assigning(n, t) => Assigning(r, t)
                /\ ~Ending(n, t) /\ ~Releasing(n, t) /\ ~Releasing(r, t)
  BY <1>1, <1>2, <1>3, EdgeCall
<1>5. DOMAIN assignee' = Task
  BY <1>1 DEF Watched
<1> QED BY <1>1, <1>4, <1>5, QuietStep DEF r

LEMMA WatchDeleteEdge ==
  ASSUME Watched, Careful, NEW w \in Worker, NEW e, DeleteEdge(w, e)
  PROVE  Watched'
<1> DEFINE r == worker[w]
           n == IF e \notin assignee[r.task] THEN Idle
                ELSE IF r.edge = {e} THEN AfterDelete(r)
                ELSE [r EXCEPT !.edge = @ \ {e}]
           x == r.edge \ {e}
<1>1. /\ r.pc = "deleteEdges" /\ Become(w, n)
      /\ assignee' = [assignee EXCEPT ![r.task] = @ \ {e}]
      /\ UNCHANGED <<status, reports, landed, assigns, held>>
  BY DEF DeleteEdge, At, tasks, calls
<1>2. CallOf(r) /\ DOMAIN r = Fields
  BY There
<1>3. n = Idle \/ n = AfterDelete(r) \/ n = [r EXCEPT !.edge = x]
  OBVIOUS
<1> HIDE DEF n, r, x
<1>4. /\ CallOf(n) /\ n.pc # "writeRun"
      /\ \A t : /\ Assigning(n, t) => Assigning(r, t)
                /\ ~Ending(n, t) /\ ~Releasing(n, t) /\ ~Releasing(r, t)
  BY <1>1, <1>2, <1>3, EdgeCall
<1>5. DOMAIN assignee' = Task /\ \A t \in held : assignee[t] = {} => assignee'[t] = {}
  BY <1>1 DEF Watched
<1> QED BY <1>1, <1>4, <1>5, QuietStep DEF r

(* The dispatch of a task with dependencies reports the end of that task,  *)
(* not of one that others wait for.                                        *)
LEMMA Published ==
  ASSUME Watched, NEW t \in Task, Publish(t)
  PROVE  /\ reports' \in [Task \X Report -> Nat]
         /\ \A d \in Task : d # t => reports'[<<d, "completed">>] = reports[<<d, "completed">>]
         /\ reports'[<<t, "completed">>] = reports[<<t, "completed">>] + 1
<1>1. reports' = [e \in Task \X Report |-> IF e[1] = t THEN reports[e] + 1 ELSE reports[e]]
  BY DEF Publish
<1>2. reports \in [Task \X Report -> Nat]
  BY DEF Watched
<1>3. reports' \in [Task \X Report -> Nat]
  BY <1>1, <1>2
<1>4. \A d \in Task : <<d, "completed">> \in Task \X Report
  BY DEF Report
<1> QED BY <1>1, <1>3, <1>4

LEMMA WatchCreateEdge ==
  ASSUME Watched, Careful, NEW w \in Worker, CreateEdge(w)
  PROVE  Watched'
<1> DEFINE r == worker[w]
           n == [r EXCEPT !.pc = "readDeps", !.own = {}, !.left = DependsOn[r.task]]
<1>0. r.pc = "createEdge" /\ CallOf(r) /\ DOMAIN r = Fields /\ r.task \in Task
  BY There DEF CreateEdge, At
<1> PICK t \in Task : t = r.task
  BY <1>0
<1>1. /\ r.pc = "createEdge"
      /\ assignee' = [assignee EXCEPT ![t] = @ \cup r.own]
      /\ UNCHANGED <<status, landed, assigns, held>>
  BY DEF CreateEdge, At, tasks, calls
<1>2. CallOf(r) /\ DOMAIN r = Fields /\ t = r.task /\ r.then = "assign"
  BY <1>0 DEF CallOf
<1>3. Assigning(r, t) /\ AssignedOnce(t) /\ t \notin held
  BY <1>2 DEF Assigning, AssignedOnce, Watched
<1>4. DOMAIN assignee' = Task /\ \A u \in held : assignee'[u] = assignee[u]
  BY <1>1, <1>2, <1>3 DEF Watched
<1>5. CASE DependsOn[t] # {}
  <2>1. Become(w, n) /\ UNCHANGED reports
    BY <1>5 DEF CreateEdge
  <2>2. n.pc = "readDeps" /\ n.task = t /\ n.then = r.then
    BY <1>2 DEF Fields
  <2> HIDE DEF n
  <2>3. /\ CallOf(n) /\ n.pc # "writeRun"
        /\ \A u : /\ Assigning(n, u) => Assigning(r, u)
                  /\ ~Ending(n, u) /\ ~Releasing(n, u) /\ ~Releasing(r, u)
    BY <1>2, <1>5, <2>2 DEF CallOf, Assigning, Ending, Releasing
  <2> HIDE DEF r
  <2> QED BY <1>1, <1>4, <2>1, <2>3, QuietStep DEF r
<1>6. CASE DependsOn[t] = {}
  <2>1. Become(w, Idle) /\ Publish(t)
    BY <1>6 DEF CreateEdge
  <2> HIDE DEF r
  <2>2. /\ reports' \in [Task \X Report -> Nat]
        /\ \A d \in Task : d # t => reports'[<<d, "completed">>] = reports[<<d, "completed">>]
        /\ reports'[<<t, "completed">>] = reports[<<t, "completed">>] + 1
    BY <1>2, <2>1, Published
  <2>3. worker'[w] = Idle /\ \A v \in Worker \ {w} : worker'[v] = worker[v]
    BY <2>1, Turned
  <2>4. EndsOnce(t)'
    <3>1. EndsOnce(t)
      BY <1>2, <1>6 DEF Watched
    <3>2. /\ reports[<<t, "completed">>] = 0 /\ \A v \in Worker : ~Ending(worker[v], t)
          /\ status[t] # "completed"
      BY <1>3, <3>1 DEF EndsOnce, r
    <3>3. \A v \in Worker : ~Assigning(worker'[v], t)
      BY <1>3, <2>3, IdleCall DEF AssignedOnce, r
    <3>4. \A v \in Worker : ~Ending(worker'[v], t)
      BY <2>3, <3>2, IdleCall
    <3>5. assigns'[t] = 1
      BY <1>1, <1>3 DEF AssignedOnce, r
    <3>6. reports'[<<t, "completed">>] = 1 /\ status'[t] # "completed"
      BY <1>1, <2>2, <3>2
    <3> QED BY <3>3, <3>4, <3>5, <3>6 DEF EndsOnce, Assigning, Ending
  <2>5. \A d \in Task : DependsOn[d] = {} /\ d # t => EndsOnce(d)'
    BY <1>1, <2>1, <2>2, IdleCall, EndsKept
  <2>6. \A u \in Task : ~Releasing(worker[w], u)
    BY <1>2 DEF Releasing, r
  <2>7. ASSUME NEW u \in Task
        PROVE  (Ready(u) => ReleaseComes(u))'
    <3>1. Ready(u)' => Ready(u)
      BY <1>1, <1>4 DEF Ready
    <3> QED BY <1>1, <2>1, <2>6, <3>1, ReadyKept
  <2>8. /\ landed' \in [Task \X TerminalTask -> Nat]
        /\ held' \subseteq Task /\ \A u \in held' : DependsOn[u] # {}
    BY <1>1 DEF Watched
  <2>9. \A d \in Task : DependsOn[d] = {} => EndsOnce(d)'
    BY <2>4, <2>5
  <2>10. UNCHANGED <<assigns, held>>
    BY <1>1
  <2> QED BY <1>4, <2>1, <2>2, <2>7, <2>8, <2>9, <2>10, IdleCall, StepWatched
<1> QED BY <1>5, <1>6

(* A dispatch of a task that waits for others, by either of its readers.   *)
LEMMA SentStep ==
  ASSUME Watched, Careful, NEW w \in Worker, NEW r, Become(w, r), CallOf(r),
         NEW t \in Task, Publish(t), DependsOn[t] # {},
         UNCHANGED <<assignee, landed, assigns, held>>,
         \A u : ~Assigning(r, u) /\ ~Ending(r, u),
         \A d \in Task : DependsOn[d] = {} /\ status'[d] = "completed" => status[d] = "completed",
         \A u \in Task : Ready(u)' => Ready(u) /\ (Releasing(worker[w], u) => Releasing(r, u))
  PROVE  Watched'
<1>1. /\ reports' \in [Task \X Report -> Nat]
      /\ \A d \in Task : d # t => reports'[<<d, "completed">>] = reports[<<d, "completed">>]
  BY Published
<1>2. \A d \in Task : DependsOn[d] = {} => EndsOnce(d)'
  BY <1>1, EndsKept
<1>3. \A u \in Task : (Ready(u) => ReleaseComes(u))'
  BY ReadyKept
<1>4. /\ landed' \in [Task \X TerminalTask -> Nat] /\ DOMAIN assignee' = Task
      /\ held' \subseteq Task /\ \A u \in held' : DependsOn[u] # {}
  BY DEF Watched
<1> QED BY <1>1, <1>2, <1>3, <1>4, StepWatched

LEMMA WatchReadDep ==
  ASSUME Watched, Careful, NEW w \in Worker, NEW d, ReadDep(w, d)
  PROVE  Watched'
<1> DEFINE r == worker[w]
           u == r.unmet \/ Unmet(status[d])
           x == [r EXCEPT !.left = @ \ {d}, !.unmet = u]
           b == [r EXCEPT !.pc = "readForStatus", !.left = {}, !.unmet = FALSE]
           n == IF r.left # {d} THEN x ELSE IF TaskCanTransition(r.was, "blocked") THEN b ELSE Idle
<1>1. /\ r.pc = "readDeps" /\ UNCHANGED <<status, assignee, landed, assigns, held>>
  BY DEF ReadDep, At, tasks, calls
<1>2. CallOf(r) /\ DOMAIN r = Fields /\ r.task \in Task /\ r.then = "assign"
      /\ DependsOn[r.task] # {}
  BY <1>1, There DEF CallOf
<1>3. CASE Become(w, Idle) /\ Publish(r.task)
  <2> HIDE DEF r
  <2>1. \A t \in Task : Ready(t)' => Ready(t)
    BY <1>1 DEF Ready
  <2>2. \A t \in Task : ~Releasing(r, t)
    BY <1>2 DEF Releasing
  <2> QED BY <1>1, <1>2, <1>3, <2>1, <2>2, IdleCall, SentStep DEF r
<1>4. CASE Become(w, n) /\ UNCHANGED reports
  <2>1. /\ x.pc = "readDeps" /\ x.task = r.task /\ x.then = r.then
        /\ b.pc = "readForStatus" /\ b.task = r.task /\ b.then = r.then
    BY <1>1, <1>2 DEF Fields
  <2>2. n \in {x, b, Idle}
    OBVIOUS
  <2> HIDE DEF x, b, n, r
  <2>3. n = Idle \/ (n.pc \in {"readDeps", "readForStatus"} /\ n.task = r.task /\ n.then = "assign")
    BY <1>2, <2>1, <2>2
  <2>4. /\ CallOf(n) /\ n.pc # "writeRun"
        /\ \A t : /\ Assigning(n, t) => Assigning(r, t)
                  /\ ~Ending(n, t) /\ ~Releasing(r, t)
    <3>1. CASE n = Idle
      BY <1>2, <3>1, IdleCall DEF Releasing, Idle
    <3>2. CASE n # Idle
      BY <1>2, <2>3, <3>2 DEF CallOf, Assigning, Ending, Releasing
    <3> QED BY <3>1, <3>2
  <2>5. DOMAIN assignee' = Task
    BY <1>1 DEF Watched
  <2> QED BY <1>1, <1>4, <2>4, <2>5, QuietStep DEF r
<1> QED BY <1>3, <1>4 DEF ReadDep

LEMMA WatchReadForStatus ==
  ASSUME Watched, Careful, NEW w \in Worker, ReadForStatus(w)
  PROVE  Watched'
<1> DEFINE r == worker[w]
           n == [r EXCEPT !.pc = "writeStatus", !.asRun = run[r.task]]
<1>1. /\ r.pc = "readForStatus" /\ Become(w, n)
      /\ UNCHANGED <<status, assignee, reports, landed, assigns, held>>
  BY DEF ReadForStatus, At, tasks, calls
<1>2. CallOf(r) /\ DOMAIN r = Fields
  BY There
<1>3. /\ n.pc = "writeStatus" /\ n.task = r.task /\ n.then = r.then /\ n.todo = r.todo
      /\ n.to = r.to
  BY <1>2 DEF Fields
<1> HIDE DEF n, r
<1>4. /\ CallOf(n)
      /\ \A t : /\ Assigning(n, t) => Assigning(r, t)
                /\ ~Ending(n, t) /\ (Releasing(r, t) => Releasing(n, t))
  BY <1>1, <1>2, <1>3 DEF CallOf, Assigning, Ending, Releasing
<1>5. DOMAIN assignee' = Task
  BY <1>1 DEF Watched
<1> QED BY <1>1, <1>3, <1>4, <1>5, QuietStep DEF r

LEMMA NextCall ==
  ASSUME NEW r, \A u \in r.todo : DependsOn[u] # {}
  PROVE  /\ CallOf(NextDependent(r)) /\ NextDependent(r).pc \in {"idle", "dependents"}
         /\ \A t : /\ ~Assigning(NextDependent(r), t) /\ ~Ending(NextDependent(r), t)
                   /\ Releasing(NextDependent(r), t) <=> t \in r.todo
<1>1. CASE r.todo = {}
  BY <1>1, IdleCall DEF NextDependent, Idle
<1>2. CASE r.todo # {}
  <2> DEFINE n == [Idle EXCEPT !.pc = "dependents", !.then = "unblock", !.todo = r.todo]
  <2>1. /\ n.pc = "dependents" /\ n.then = "unblock" /\ n.todo = r.todo
        /\ n.unmet = FALSE /\ n.to = "pending"
    BY DEF Idle
  <2>2. NextDependent(r) = n
    BY <1>2 DEF NextDependent
  <2> HIDE DEF n
  <2> QED BY <2>1, <2>2 DEF CallOf, Assigning, Ending, Releasing
<1> QED BY <1>1, <1>2

LEMMA WatchWriteStatus ==
  ASSUME OneLevel, Watched, Careful, NEW w \in Worker, WriteStatus(w)
  PROVE  Watched'
<1> DEFINE r == worker[w]
<1>0. r.pc = "writeStatus" /\ CallOf(r) /\ DOMAIN r = Fields /\ r.task \in Task
  BY There DEF WriteStatus, At
<1> PICK t \in Task : t = r.task
  BY <1>0
<1>1. /\ r.pc = "writeStatus" /\ SetTask(t, r.to, r.asRun)
      /\ UNCHANGED <<assignee, landed, assigns>>
  BY DEF WriteStatus, At, calls
<1>2. CallOf(r) /\ DOMAIN r = Fields /\ t = r.task /\ r.then \in {"assign", "unblock"}
      /\ DependsOn[t] # {}
  BY <1>0 DEF CallOf
<1>3. \A d \in Task : d # t => status'[d] = status[d]
  BY <1>1 DEF SetTask, Careful
<1>4. \A d \in Task : DependsOn[d] = {} /\ status'[d] = "completed" => status[d] = "completed"
  BY <1>2, <1>3
<1>5. status'[t] = r.to
  BY <1>1, <1>2 DEF SetTask, Careful
<1>6. CASE r.then = "unblock"
  <2>1. Become(w, NextDependent(r)) /\ Publish(t) /\ UNCHANGED held
    BY <1>6 DEF WriteStatus
  <2>2. r.to = "pending" /\ \A u \in r.todo : DependsOn[u] # {}
    BY <1>2, <1>6 DEF CallOf
  <2> HIDE DEF r
  <2>3. \A u \in Task : Ready(u)' => u # t /\ Ready(u)
    <3>1. \A u \in Task : Ready(u)' => u # t
      BY <1>5, <2>2 DEF Ready
    <3>2. \A u \in Task : Ready(u)' => \A d \in DependsOn[u] : d # t
      BY <1>5, <2>2 DEF Ready
    <3> QED BY <1>1, <1>3, <2>1, <3>1, <3>2 DEF Ready
  <2>4. \A u \in Task : u # t /\ Releasing(r, u) => Releasing(NextDependent(r), u)
    BY <1>1, <2>2, NextCall DEF Releasing
  <2> QED BY <1>1, <1>2, <1>4, <2>1, <2>2, <2>3, <2>4, NextCall, SentStep DEF r
<1>7. CASE r.then = "assign"
  <2>1. /\ Become(w, Idle) /\ UNCHANGED reports
        /\ held' = IF \E d \in DependsOn[t] : Unmet(status[d]) THEN held \cup {t} ELSE held \ {t}
    BY <1>7 DEF WriteStatus
  <2>2. Assigning(r, t) /\ \A u : ~Releasing(r, u)
    BY <1>7 DEF Assigning, Releasing
  <2> HIDE DEF r
  <2>3. ASSUME NEW u \in Task
        PROVE  /\ u \in held' => u \in held \/ Assigning(r, u)
               /\ Ready(u)' => Ready(u)
    <3>1. CASE u = t
      <4>1. \A d \in DependsOn[t] : d # t
        BY <1>2 DEF OneLevel
      <4>2. \A d \in DependsOn[t] : d \in Task
        BY <1>2, EdgeAssumption
      <4>3. \A d \in DependsOn[t] : status'[d] = status[d]
        BY <1>3, <4>1, <4>2
      <4>4. ~Ready(t)'
        <5>1. CASE \E d \in DependsOn[t] : Unmet(status[d])
          BY <4>3, <5>1 DEF Ready, Unmet, TerminalTask
        <5>2. CASE ~\E d \in DependsOn[t] : Unmet(status[d])
          BY <2>1, <5>2 DEF Ready
        <5> QED BY <5>1, <5>2
      <4> QED BY <2>2, <3>1, <4>4
    <3>2. CASE u # t
      <4>1. \A d \in DependsOn[u] : d # t
        BY <1>2 DEF OneLevel
      <4>2. \A d \in DependsOn[u] : d \in Task
        BY EdgeAssumption
      <4>3. \A d \in DependsOn[u] : status'[d] = status[d]
        BY <1>3, <4>1, <4>2
      <4>4. status'[u] = status[u] /\ (u \in held' <=> u \in held)
        BY <1>3, <2>1, <3>2
      <4> QED BY <1>1, <4>3, <4>4 DEF Ready
    <3> QED BY <3>1, <3>2
  <2>4. \A d \in Task : DependsOn[d] = {} => EndsOnce(d)'
    BY <1>1, <1>4, <2>1, IdleCall, EndsKept
  <2>5. \A u \in Task : (Ready(u) => ReleaseComes(u))'
    BY <1>1, <2>1, <2>2, <2>3, ReadyKept DEF r
  <2>6. /\ landed' \in [Task \X TerminalTask -> Nat] /\ DOMAIN assignee' = Task
        /\ reports' \in [Task \X Report -> Nat]
        /\ held' \subseteq Task /\ \A u \in held' : DependsOn[u] # {}
    BY <1>1, <1>2, <2>1 DEF Watched
  <2> QED BY <1>1, <2>1, <2>3, <2>4, <2>5, <2>6, IdleCall, StepWatched DEF r
<1> QED BY <1>2, <1>6, <1>7

-----------------------------------------------------------------------------
(* UnassignTask and UpdateTask.                                            *)
LEMMA WatchCalls ==
  ASSUME Watched, Careful, NEW w \in Worker, NEW t \in Task,
         UnassignTask(w, t) \/ CancelTask(w, t)
  PROVE  Watched'
<1> DEFINE a == [Idle EXCEPT !.pc = "listEdges", !.task = t]
           c == [Idle EXCEPT !.pc = "readTask", !.task = t, !.to = "cancelled"]
<1>1. PICK n \in {a, c} :
        /\ worker[w].pc = "idle" /\ Become(w, n)
        /\ UNCHANGED <<status, assignee, reports, landed, assigns, held>>
  BY DEF UnassignTask, CancelTask, At, tasks
<1>2. /\ a.pc = "listEdges" /\ a.then = "stop"
      /\ c.pc = "readTask" /\ c.then = "stop" /\ c.to = "cancelled"
  BY DEF Idle
<1> HIDE DEF a, c
<1>3. CallOf(n) /\ n.pc # "writeRun" /\ \A u : ~Assigning(n, u) /\ ~Ending(n, u)
  BY <1>2 DEF CallOf, Assigning, Ending
<1>4. \A u : ~Releasing(worker[w], u)
  BY <1>1, There DEF CallOf, Releasing
<1>5. DOMAIN assignee' = Task
  BY <1>1 DEF Watched
<1> QED BY <1>1, <1>3, <1>4, <1>5, QuietStep

LEMMA WatchReport ==
  ASSUME Watched, Careful, NEW w \in Worker, NEW t \in Task, NEW s \in Report,
         ReceiveReport(w, t, s)
  PROVE  Watched'
<1> DEFINE n == [Idle EXCEPT !.pc = "readTask", !.task = t, !.to = s]
<1>1. /\ worker[w].pc = "idle" /\ Become(w, n) /\ reports[<<t, s>>] > 0
      /\ reports' = [reports EXCEPT ![<<t, s>>] = @ - 1]
      /\ UNCHANGED <<status, assignee, landed, assigns, held>>
  BY DEF ReceiveReport, At, tasks, calls
<1>2. n.pc = "readTask" /\ n.then = "stop" /\ n.task = t /\ n.to = s
  BY DEF Idle
<1> HIDE DEF n
<1>3. /\ CallOf(n) /\ \A u : /\ ~Assigning(n, u) /\ ~Releasing(n, u)
                             /\ Ending(n, u) <=> u = t /\ s = "completed"
  BY <1>2 DEF CallOf, Assigning, Ending, Releasing
<1>4. \A u : ~Releasing(worker[w], u) /\ ~Assigning(worker[w], u) /\ ~Ending(worker[w], u)
  BY <1>1, There DEF CallOf, Releasing, Assigning, Ending
<1>5. /\ reports \in [Task \X Report -> Nat] /\ <<t, s>> \in Task \X Report
      /\ \A d \in Task : <<d, "completed">> \in Task \X Report
  BY DEF Watched, Report
<1>6. reports' \in [Task \X Report -> Nat]
  <2>1. reports[<<t, s>>] - 1 \in Nat
    BY <1>1, <1>5
  <2> QED BY <1>1, <1>5, <2>1
<1>7. worker'[w] = n /\ \A v \in Worker \ {w} : worker'[v] = worker[v]
  BY <1>1, Turned
<1>8. ASSUME NEW d \in Task, DependsOn[d] = {}
      PROVE  EndsOnce(d)'
  <2>1. EndsOnce(d)
    BY <1>8 DEF Watched
  <2>2. CASE d = t /\ s = "completed"
    <3>1. reports[<<d, "completed">>] = 1 /\ reports'[<<d, "completed">>] = 0
      BY <1>1, <1>5, <2>1, <2>2 DEF EndsOnce
    <3>2. \A v \in Worker : /\ ~Ending(worker[v], d)
                            /\ ~Assigning(worker[v], d)
      BY <2>1, <3>1 DEF EndsOnce
    <3>3. assigns'[d] # 0 /\ status'[d] # "completed"
      BY <1>1, <2>1, <3>1 DEF EndsOnce
    <3>4. \A v \in Worker : /\ ~Assigning(worker'[v], d)
                            /\ Ending(worker'[v], d) => v = w
      BY <1>3, <1>7, <3>2
    <3>5. \A v \in Worker : Ending(worker'[v], d) => worker'[v].pc = "readTask"
      BY <1>2, <1>7, <3>4
    <3> QED BY <3>1, <3>3, <3>4, <3>5 DEF EndsOnce, Assigning, Ending
  <2>3. CASE ~(d = t /\ s = "completed")
    <3>1. reports'[<<d, "completed">>] = reports[<<d, "completed">>]
      BY <1>1, <1>5, <2>3
    <3> QED BY <1>1, <1>3, <1>8, <2>3, <3>1, EndsKept
  <2> QED BY <2>2, <2>3
<1>9. ASSUME NEW u \in Task
      PROVE  (Ready(u) => ReleaseComes(u))'
  <2>1. Ready(u)' => Ready(u)
    BY <1>1 DEF Ready
  <2> QED BY <1>1, <1>4, <2>1, ReadyKept
<1>10. /\ landed' \in [Task \X TerminalTask -> Nat] /\ DOMAIN assignee' = Task
       /\ held' \subseteq Task /\ \A u \in held' : DependsOn[u] # {}
  BY <1>1 DEF Watched
<1> QED BY <1>1, <1>3, <1>6, <1>8, <1>9, <1>10, StepWatched

LEMMA WatchReadTask ==
  ASSUME Watched, Careful, NEW w \in Worker, ReadTask(w)
  PROVE  Watched'
<1> DEFINE r == worker[w]
           n == [r EXCEPT !.pc = "checkTask", !.asRun = run[r.task]]
<1>1. /\ r.pc = "readTask" /\ Become(w, n)
      /\ UNCHANGED <<status, assignee, reports, landed, assigns, held>>
  BY DEF ReadTask, At, tasks, calls
<1>2. CallOf(r) /\ DOMAIN r = Fields
  BY There
<1>3. /\ n.pc = "checkTask" /\ n.task = r.task /\ n.then = r.then /\ n.to = r.to
      /\ r.then = "stop"
  BY <1>1, <1>2 DEF Fields, CallOf
<1> HIDE DEF n, r
<1>4. /\ CallOf(n)
      /\ \A t : /\ ~Assigning(n, t) /\ ~Releasing(r, t)
                /\ Ending(n, t) => Ending(r, t)
  BY <1>1, <1>2, <1>3 DEF CallOf, Assigning, Ending, Releasing
<1>5. DOMAIN assignee' = Task
  BY <1>1 DEF Watched
<1> QED BY <1>1, <1>3, <1>4, <1>5, QuietStep DEF r

LEMMA WatchCheckTask ==
  ASSUME Watched, Careful, NEW w \in Worker, CheckTask(w)
  PROVE  Watched'
<1> DEFINE r == worker[w]
           s == status[r.task]
           b == [r EXCEPT !.pc = "readBlockers", !.was = s, !.left = BlockedBy[r.task]]
           x == [r EXCEPT !.pc = "writeTask", !.was = s]
<1>1. PICK n \in {Idle, b, x} :
        /\ r.pc = "checkTask" /\ Become(w, n)
        /\ UNCHANGED <<status, assignee, reports, landed, assigns, held>>
  BY DEF CheckTask, At, tasks, calls
<1>2. CallOf(r) /\ DOMAIN r = Fields
  BY There
<1>3. /\ b.pc = "readBlockers" /\ b.task = r.task /\ b.then = r.then /\ b.to = r.to /\ b.was = s
      /\ x.pc = "writeTask" /\ x.task = r.task /\ x.then = r.then /\ x.to = r.to /\ x.was = s
      /\ r.then = "stop"
  BY <1>1, <1>2 DEF Fields, CallOf
<1>4. \A d \in Task : DependsOn[d] = {} /\ Ending(r, d) => s # "completed"
  BY DEF Watched, EndsOnce, Ending
<1> HIDE DEF b, x, r, s
<1>5. CASE n = Idle
  BY <1>1, <1>3, <1>5, GoneStep DEF r, Watched
<1>6. CASE n # Idle
  <2>1. /\ n.pc \in {"readBlockers", "writeTask"} /\ n.task = r.task /\ n.then = "stop"
        /\ n.to = r.to /\ n.was = s
    BY <1>1, <1>3, <1>6
  <2>2. /\ CallOf(n) /\ n.pc # "writeRun"
        /\ \A t : /\ ~Assigning(n, t) /\ ~Releasing(r, t)
                  /\ Ending(n, t) => Ending(r, t)
    BY <1>1, <1>3, <2>1 DEF CallOf, Assigning, Ending, Releasing
  <2>3. DOMAIN assignee' = Task
    BY <1>1 DEF Watched
  <2> QED BY <1>1, <1>4, <2>1, <2>2, <2>3, QuietStep DEF r
<1> QED BY <1>5, <1>6

LEMMA WatchReadBlocker ==
  ASSUME Watched, Careful, NEW w \in Worker, NEW d, ReadBlocker(w, d)
  PROVE  Watched'
<1> DEFINE r == worker[w]
           u == r.unmet \/ Unmet(status[d])
           b == [r EXCEPT !.left = @ \ {d}, !.unmet = u]
           x == [r EXCEPT !.pc = "writeTask", !.left = {}]
<1>1. PICK n \in {Idle, b, x} :
        /\ r.pc = "readBlockers" /\ Become(w, n)
        /\ UNCHANGED <<status, assignee, reports, landed, assigns, held>>
  BY DEF ReadBlocker, At, tasks, calls
<1>2. CallOf(r) /\ DOMAIN r = Fields
  BY There
<1>3. /\ b.pc = "readBlockers" /\ b.task = r.task /\ b.then = r.then /\ b.to = r.to
      /\ b.was = r.was
      /\ x.pc = "writeTask" /\ x.task = r.task /\ x.then = r.then /\ x.to = r.to
      /\ x.was = r.was
      /\ r.then = "stop"
  BY <1>1, <1>2 DEF Fields, CallOf
<1>4. \A t \in Task : DependsOn[t] = {} /\ Ending(r, t) => r.was # "completed"
  BY <1>1 DEF Watched, EndsOnce
<1> HIDE DEF b, x, r
<1>5. CASE n = Idle
  BY <1>1, <1>3, <1>5, GoneStep DEF r, Watched
<1>6. CASE n # Idle
  <2>1. /\ n.pc \in {"readBlockers", "writeTask"} /\ n.task = r.task /\ n.then = "stop"
        /\ n.to = r.to /\ n.was = r.was
    BY <1>1, <1>3, <1>6
  <2>2. /\ CallOf(n) /\ n.pc # "writeRun"
        /\ \A t : /\ ~Assigning(n, t) /\ ~Releasing(r, t)
                  /\ Ending(n, t) => Ending(r, t)
    BY <1>1, <1>3, <2>1 DEF CallOf, Assigning, Ending, Releasing
  <2>3. DOMAIN assignee' = Task
    BY <1>1 DEF Watched
  <2> QED BY <1>1, <1>4, <2>1, <2>2, <2>3, QuietStep DEF r
<1> QED BY <1>5, <1>6

(* A dependency that completes announces it, so whoever is ready now will  *)
(* be looked at.                                                           *)
LEMMA WatchWriteTask ==
  ASSUME OneLevel, Watched, Careful, NEW w \in Worker, WriteTask(w)
  PROVE  Watched'
<1> DEFINE r == worker[w]
<1>0. r.pc = "writeTask" /\ CallOf(r) /\ DOMAIN r = Fields /\ r.task \in Task
  BY There DEF WriteTask, At
<1> PICK t \in Task : t = r.task
  BY <1>0
<1> PICK s : s = r.to
  OBVIOUS
<1>1. /\ Become(w, Idle) /\ SetTask(t, s, r.asRun)
      /\ UNCHANGED <<assignee, reports, assigns, held>>
      /\ landed' = IF s \in TerminalTask /\ r.was # s
                   THEN [landed EXCEPT ![<<t, s>>] = @ + 1] ELSE landed
  BY DEF WriteTask, calls
<1>2. s \in {"in_progress", "completed", "cancelled"} /\ r.then = "stop"
  BY <1>0 DEF Careful, Sound, ToOf, CallOf
<1>3. s = "completed" => Ending(r, t)
  BY <1>0 DEF Ending
<1>4. s = "completed" /\ DependsOn[t] = {} => r.was # s
  BY <1>0, <1>3 DEF Watched, EndsOnce
<1> HIDE DEF r
<1>5. landed \in [Task \X TerminalTask -> Nat]
  BY DEF Watched
<1>6. /\ landed' \in [Task \X TerminalTask -> Nat]
      /\ \A e \in Task \X TerminalTask : landed[e] > 0 => landed'[e] > 0
      /\ s = "completed" /\ DependsOn[t] = {} => landed'[<<t, "completed">>] > 0
  <2>1. CASE s \in TerminalTask /\ r.was # s
    <3>1. <<t, s>> \in Task \X TerminalTask
      BY <2>1
    <3>2. landed' = [landed EXCEPT ![<<t, s>>] = landed[<<t, s>>] + 1]
      BY <1>1, <2>1
    <3> QED BY <1>5, <3>1, <3>2
  <2>2. CASE ~(s \in TerminalTask /\ r.was # s)
    <3>1. ~(s = "completed" /\ DependsOn[t] = {})
      BY <1>4, <2>2 DEF TerminalTask
    <3> QED BY <1>1, <1>5, <2>2, <3>1
  <2> QED BY <2>1, <2>2
<1>7. \A d \in Task : status'[d] = "completed" => status[d] = "completed" \/ Ending(r, d)
  BY <1>1, <1>3 DEF SetTask, Careful
<1>8. \A d \in Task : DependsOn[d] = {} => EndsOnce(d)'
  BY <1>1, <1>7, IdleCall, EndsKept DEF r
<1>9. ASSUME NEW u \in Task
      PROVE  (Ready(u) => ReleaseComes(u))'
  <2>1. \A v : ~Releasing(r, v)
    BY <1>2 DEF Releasing
  <2>2. CASE s = "completed" /\ t \in DependsOn[u]
    <3>1. landed'[<<t, "completed">>] > 0
      BY <1>6, <2>2 DEF OneLevel
    <3> QED BY <2>2, <3>1 DEF ReleaseComes
  <2>3. CASE ~(s = "completed" /\ t \in DependsOn[u])
    <3>1. Ready(u)' => Ready(u)
      <4>1. Ready(u)' => u \in held
        BY <1>1 DEF Ready
      <4> QED BY <1>1, <1>2, <2>3, <4>1, WrittenReady
    <3>2. \A d \in DependsOn[u] : landed[<<d, "completed">>] > 0 => landed'[<<d, "completed">>] > 0
      BY <1>6, EdgeAssumption DEF TerminalTask
    <3> QED BY <1>1, <2>1, <3>1, <3>2, ReadyKept DEF r
  <2> QED BY <2>2, <2>3
<1>10. /\ reports' \in [Task \X Report -> Nat] /\ DOMAIN assignee' = Task
       /\ held' \subseteq Task /\ \A u \in held' : DependsOn[u] # {}
  BY <1>1 DEF Watched
<1>11. UNCHANGED <<assigns, held>>
  BY <1>1
<1> QED BY <1>1, <1>6, <1>8, <1>9, <1>10, <1>11, IdleCall, StepWatched

-----------------------------------------------------------------------------
(* UnblockDependents.                                                      *)
LEMMA WatchLanded ==
  ASSUME Watched, Careful, NEW w \in Worker, NEW t \in Task, NEW s \in TerminalTask,
         ReceiveLanded(w, t, s)
  PROVE  Watched'
<1> DEFINE n == [Idle EXCEPT !.pc = "dependents", !.then = "unblock", !.todo = Dependents(t)]
<1>1. /\ worker[w].pc = "idle" /\ landed[<<t, s>>] > 0
      /\ landed' = [landed EXCEPT ![<<t, s>>] = @ - 1]
      /\ UNCHANGED <<status, assignee, reports, assigns, held>>
  BY DEF ReceiveLanded, At, tasks, calls
<1>2. /\ landed \in [Task \X TerminalTask -> Nat] /\ <<t, s>> \in Task \X TerminalTask
  BY DEF Watched
<1>3. landed' \in [Task \X TerminalTask -> Nat]
  <2>1. landed[<<t, s>>] - 1 \in Nat
    BY <1>1, <1>2
  <2> QED BY <1>1, <1>2, <2>1
<1>4. \A d \in Task : d # t \/ s # "completed" =>
        landed'[<<d, "completed">>] = landed[<<d, "completed">>]
  BY <1>1, <1>2 DEF TerminalTask
<1>5. \A u : ~Releasing(worker[w], u) /\ ~Assigning(worker[w], u) /\ ~Ending(worker[w], u)
  BY <1>1, There DEF CallOf, Releasing, Assigning, Ending
<1>6. \A u \in Task : Ready(u)' => Ready(u)
  BY <1>1 DEF Ready
<1>7. /\ reports' \in [Task \X Report -> Nat] /\ DOMAIN assignee' = Task
      /\ held' \subseteq Task /\ \A u \in held' : DependsOn[u] # {}
  BY <1>1 DEF Watched
<1>8. CASE s = "completed" /\ Dependents(t) # {}
  <2>1. Become(w, n)
    BY <1>8 DEF ReceiveLanded
  <2>2. /\ n.pc = "dependents" /\ n.then = "unblock" /\ n.todo = Dependents(t)
        /\ n.unmet = FALSE /\ n.to = "pending"
    BY DEF Idle
  <2> HIDE DEF n
  <2>3. \A u \in Dependents(t) : DependsOn[u] # {}
    BY DEF Dependents
  <2>4. /\ CallOf(n) /\ \A u : /\ ~Assigning(n, u) /\ ~Ending(n, u)
                               /\ u \in Dependents(t) => Releasing(n, u)
    BY <2>2, <2>3 DEF CallOf, Assigning, Ending, Releasing
  <2>5. \A d \in Task : DependsOn[d] = {} => EndsOnce(d)'
    BY <1>1, <2>1, <2>4, EndsKept
  <2>6. ASSUME NEW u \in Task
        PROVE  (Ready(u) => ReleaseComes(u))'
    <3>1. \A d \in DependsOn[u] : landed[<<d, "completed">>] > 0 =>
            landed'[<<d, "completed">>] > 0 \/ Releasing(n, u)
      BY <1>4, <2>4, EdgeAssumption DEF Dependents
    <3> QED BY <1>5, <1>6, <2>1, <3>1, ReadyKept
  <2>7. UNCHANGED <<assigns, held>>
    BY <1>1
  <2> QED BY <1>3, <1>7, <2>1, <2>4, <2>5, <2>6, <2>7, StepWatched
<1>9. CASE ~(s = "completed" /\ Dependents(t) # {})
  <2>1. UNCHANGED worker
    BY <1>9 DEF ReceiveLanded
  <2>2. \A v \in Worker : CallOf(worker'[v])
    BY <2>1 DEF Watched
  <2>3. \A u \in Task : AssignedOnce(u)'
    BY <1>1, <2>1 DEF Watched, AssignedOnce, Assigning
  <2>4. \A d \in Task : DependsOn[d] = {} => EndsOnce(d)'
    BY <1>1, <2>1 DEF Watched, EndsOnce, Assigning, Ending
  <2>5. \A u \in Task : (Ready(u) => ReleaseComes(u))'
    <3> SUFFICES ASSUME NEW u \in Task, Ready(u)
                 PROVE  ReleaseComes(u)'
      BY <1>6
    <3>1. CASE \E d \in DependsOn[u] : landed[<<d, "completed">>] > 0
      <4>1. \A d \in DependsOn[u] : d \in Task /\ (d # t \/ s # "completed")
        BY <1>9, EdgeAssumption DEF Dependents
      <4> QED BY <1>4, <3>1, <4>1 DEF ReleaseComes
    <3>2. CASE \E v \in Worker : Releasing(worker[v], u)
      BY <2>1, <3>2 DEF ReleaseComes, Releasing
    <3> QED BY <3>1, <3>2 DEF Watched, ReleaseComes
  <2>6. DOMAIN assigns' = Task
    BY <1>1 DEF Watched
  <2> QED BY <1>3, <1>7, <2>2, <2>3, <2>4, <2>5, <2>6 DEF Watched, CallOf
<1> QED BY <1>8, <1>9

LEMMA WatchReadDependent ==
  ASSUME Watched, Careful, NEW w \in Worker, NEW t \in Task, ReadDependent(w, t)
  PROVE  Watched'
<1> DEFINE r == worker[w]
           rest == [r EXCEPT !.todo = @ \ {t}]
           x == [rest EXCEPT !.pc = "readDepsAgain", !.task = t, !.left = DependsOn[t]]
           n == IF status[t] # "blocked" THEN NextDependent(rest) ELSE x
<1>1. /\ r.pc = "dependents" /\ t \in r.todo /\ Become(w, n)
      /\ UNCHANGED <<status, assignee, reports, landed, assigns, held>>
  BY DEF ReadDependent, At, tasks, calls
<1>2. /\ CallOf(r) /\ DOMAIN r = Fields /\ r.then = "unblock" /\ r.to = "pending"
      /\ \A u \in r.todo : DependsOn[u] # {}
      /\ r.unmet = FALSE
  BY <1>1, There DEF CallOf
<1>3. /\ rest.todo = r.todo \ {t}
      /\ x.pc = "readDepsAgain" /\ x.task = t /\ x.left = DependsOn[t] /\ x.then = "unblock"
      /\ x.to = "pending" /\ x.todo = r.todo \ {t} /\ x.unmet = FALSE
  BY <1>2 DEF Fields
<1>4. n = IF status[t] # "blocked" THEN NextDependent(rest) ELSE x
  OBVIOUS
<1> HIDE DEF r, rest, x, n
<1>5. /\ CallOf(x)
      /\ \A u : ~Assigning(x, u) /\ ~Ending(x, u) /\ (u \in r.todo => Releasing(x, u))
  BY <1>1, <1>2, <1>3 DEF CallOf, Assigning, Ending, Releasing
<1>6. /\ CallOf(n) /\ n.pc # "writeRun"
      /\ \A u : ~Assigning(n, u) /\ ~Ending(n, u)
  BY <1>2, <1>3, <1>4, <1>5, NextCall
<1>7. \A u \in Task : Ready(u) /\ Releasing(r, u) => Releasing(n, u)
  <2>1. \A u : Releasing(r, u) => u \in r.todo
    BY <1>1 DEF Releasing
  <2>2. CASE status[t] # "blocked"
    <3>1. \A u : u # t /\ u \in r.todo => Releasing(n, u)
      BY <1>2, <1>3, <1>4, <2>2, NextCall
    <3> QED BY <2>1, <2>2, <3>1 DEF Ready
  <2>3. CASE status[t] = "blocked"
    BY <1>4, <1>5, <2>1, <2>3
  <2> QED BY <2>2, <2>3
<1>8. DOMAIN assignee' = Task
  BY <1>1 DEF Watched
<1> QED BY <1>1, <1>6, <1>7, <1>8, QuietStep DEF r

LEMMA WatchReadDepAgain ==
  ASSUME Watched, Careful, NEW w \in Worker, NEW d, ReadDepAgain(w, d)
  PROVE  Watched'
<1> DEFINE r == worker[w]
           unmet == r.unmet \/ Unmet(status[d])
           x == [r EXCEPT !.left = @ \ {d}, !.unmet = unmet]
           y == [r EXCEPT !.pc = "readAssignee", !.left = {}]
           n == IF r.left # {d} THEN x ELSE IF unmet THEN NextDependent(r) ELSE y
<1>1. /\ r.pc = "readDepsAgain" /\ d \in r.left /\ Become(w, n)
      /\ UNCHANGED <<status, assignee, reports, landed, assigns, held>>
  BY DEF ReadDepAgain, At, tasks, calls
<1>2. /\ CallOf(r) /\ DOMAIN r = Fields /\ r.then = "unblock" /\ r.to = "pending"
      /\ \A u \in r.todo : DependsOn[u] # {}
      /\ DependsOn[r.task] # {} /\ r.left \subseteq DependsOn[r.task] /\ r.unmet \in BOOLEAN
  BY <1>1, There DEF CallOf
<1>3. /\ x.pc = "readDepsAgain" /\ x.task = r.task /\ x.left = r.left \ {d} /\ x.then = r.then
      /\ x.to = r.to /\ x.todo = r.todo /\ x.unmet = unmet
      /\ y.pc = "readAssignee" /\ y.task = r.task /\ y.then = r.then
      /\ y.to = r.to /\ y.todo = r.todo
  BY <1>1, <1>2 DEF Fields
<1>4. n = IF r.left # {d} THEN x ELSE IF unmet THEN NextDependent(r) ELSE y
  OBVIOUS
<1>5. unmet <=> r.unmet \/ Unmet(status[d])
  OBVIOUS
<1> HIDE DEF r, x, y, n, unmet
<1>6. CallOf(x) /\ CallOf(y) /\ \A u : /\ ~Assigning(x, u) /\ ~Ending(x, u)
                                       /\ ~Assigning(y, u) /\ ~Ending(y, u)
  BY <1>2, <1>3 DEF CallOf, Assigning, Ending
<1>7. /\ CallOf(n) /\ n.pc # "writeRun"
      /\ \A u : ~Assigning(n, u) /\ ~Ending(n, u)
  BY <1>2, <1>3, <1>4, <1>6, NextCall
<1>8. ASSUME NEW u \in Task, Ready(u), Releasing(r, u)
      PROVE  Releasing(n, u)
  <2>1. CASE u \in r.todo
    <3>1. Releasing(x, u) /\ Releasing(y, u)
      BY <1>2, <1>3, <2>1 DEF Releasing
    <3>2. Releasing(NextDependent(r), u)
      BY <1>2, <2>1, NextCall
    <3> QED BY <1>4, <3>1, <3>2
  <2>2. CASE u \notin r.todo
    <3>1. r.task = u /\ ~r.unmet
      BY <1>1, <1>8, <2>2 DEF Releasing
    <3>2. ~unmet
      BY <1>1, <1>2, <1>5, <1>8, <3>1 DEF Ready, Unmet, TerminalTask
    <3> QED BY <1>2, <1>3, <1>4, <3>1, <3>2 DEF Releasing
  <2> QED BY <2>1, <2>2
<1>9. DOMAIN assignee' = Task
  BY <1>1 DEF Watched
<1> QED BY <1>1, <1>7, <1>8, <1>9, QuietStep DEF r

LEMMA WatchReadAssignee ==
  ASSUME Watched, Careful, NEW w \in Worker, ReadAssignee(w)
  PROVE  Watched'
<1> DEFINE r == worker[w]
           x == [r EXCEPT !.pc = "readForStatus"]
           n == IF assignee[r.task] = {} THEN NextDependent(r) ELSE x
<1>1. /\ r.pc = "readAssignee" /\ Become(w, n)
      /\ UNCHANGED <<status, assignee, reports, landed, assigns, held>>
  BY DEF ReadAssignee, At, tasks, calls
<1>2. /\ CallOf(r) /\ DOMAIN r = Fields /\ r.then = "unblock" /\ r.to = "pending"
      /\ DependsOn[r.task] # {} /\ \A u \in r.todo : DependsOn[u] # {}
  BY <1>1, There DEF CallOf
<1>3. /\ x.pc = "readForStatus" /\ x.task = r.task /\ x.then = r.then
      /\ x.to = r.to /\ x.todo = r.todo
  BY <1>1, <1>2 DEF Fields
<1>4. n = IF assignee[r.task] = {} THEN NextDependent(r) ELSE x
  OBVIOUS
<1> HIDE DEF r, x, n
<1>5. CallOf(x) /\ \A u : /\ ~Assigning(x, u) /\ ~Ending(x, u)
                          /\ Releasing(r, u) => Releasing(x, u)
  BY <1>1, <1>2, <1>3 DEF CallOf, Assigning, Ending, Releasing
<1>6. /\ CallOf(n) /\ n.pc # "writeRun"
      /\ \A u : ~Assigning(n, u) /\ ~Ending(n, u)
  BY <1>2, <1>3, <1>4, <1>5, NextCall
<1>7. ASSUME NEW u \in Task, Ready(u), Releasing(r, u)
      PROVE  Releasing(n, u)
  <2>1. CASE assignee[r.task] = {}
    <3>1. u # r.task
      BY <1>7, <2>1 DEF Ready
    <3>2. u \in r.todo
      BY <1>1, <1>7, <3>1 DEF Releasing
    <3> QED BY <1>2, <1>4, <2>1, <3>2, NextCall
  <2>2. CASE assignee[r.task] # {}
    BY <1>4, <1>5, <1>7, <2>2
  <2> QED BY <2>1, <2>2
<1>8. DOMAIN assignee' = Task
  BY <1>1 DEF Watched
<1> QED BY <1>1, <1>6, <1>7, <1>8, QuietStep DEF r

-----------------------------------------------------------------------------
LEMMA WatchedStep ==
  ASSUME OneCall, OneLevel, Watched, Careful, [Next]_vars
  PROVE  Watched'
<1>1. ASSUME NEW w \in Worker, Work(w)
      PROVE  Watched'
  BY <1>1, WatchReadForRun, WatchWriteRun, WatchListEdges, WatchDeleteEdge, WatchCreateEdge,
     WatchReadDep, WatchReadBlocker, WatchReadDependent, WatchReadDepAgain, WatchReadForStatus,
     WatchWriteStatus, WatchReadTask, WatchCheckTask, WatchWriteTask, WatchReadAssignee
     DEF Work
<1>2. ASSUME NEW w \in Worker, NEW t \in Task,
             \/ \E a \in Run \cup {NoRun} : AssignTask(w, t, a)
             \/ UnassignTask(w, t)
             \/ CancelTask(w, t)
             \/ \E s \in Report : ReceiveReport(w, t, s)
             \/ \E s \in TerminalTask : ReceiveLanded(w, t, s)
      PROVE  Watched'
  BY <1>2, WatchAssign, WatchCalls, WatchReport, WatchLanded
<1>3. CASE UNCHANGED vars
  <2>1. \A v \in Worker : CallOf(worker'[v])
    BY <1>3 DEF vars, Watched
  <2>2. \A u \in Task : AssignedOnce(u)'
    BY <1>3 DEF vars, Watched, AssignedOnce, Assigning
  <2>3. \A d \in Task : DependsOn[d] = {} => EndsOnce(d)'
    BY <1>3 DEF vars, Watched, EndsOnce, Assigning, Ending
  <2>4. \A u \in Task : (Ready(u) => ReleaseComes(u))'
    <3>1. \A u \in Task : Ready(u)' => Ready(u)
      BY <1>3 DEF vars, Ready
    <3>2. \A u \in Task : (\E w \in Worker : Releasing(worker[w], u)) =>
            \E w \in Worker : Releasing(worker'[w], u)
      BY <1>3 DEF vars
    <3>3. \A u \in Task : ReleaseComes(u) => ReleaseComes(u)'
      BY <1>3, <3>2 DEF vars, ReleaseComes, Releasing
    <3> QED BY <3>1, <3>3 DEF Watched
  <2>5. /\ reports' \in [Task \X Report -> Nat] /\ landed' \in [Task \X TerminalTask -> Nat]
        /\ DOMAIN assigns' = Task /\ DOMAIN assignee' = Task
        /\ held' \subseteq Task /\ \A u \in held' : DependsOn[u] # {}
    BY <1>3 DEF vars, Watched
  <2> QED BY <2>1, <2>2, <2>3, <2>4, <2>5 DEF Watched, CallOf
<1> QED BY <1>1, <1>2, <1>3 DEF Next

LEMMA WatchedInit ==
  ASSUME Init
  PROVE  Watched
<1>1. \A w \in Worker : worker[w] = Idle
  BY DEF Init
<1>2. \A w \in Worker : /\ CallOf(worker[w])
                        /\ \A t : ~Assigning(worker[w], t) /\ ~Ending(worker[w], t)
  BY <1>1, IdleCall
<1>3. \A t \in Task : AssignedOnce(t)
  BY <1>2 DEF Init, AssignedOnce
<1>4. \A d \in Task : <<d, "completed">> \in Task \X Report
  BY DEF Report
<1>5. \A d \in Task : EndsOnce(d)
  BY <1>2, <1>4 DEF Init, EndsOnce
<1> QED BY <1>2, <1>3, <1>5 DEF Init, Watched, Ready

(* A task that was held back while a dependency was open, and kept an      *)
(* assignee, is not left blocked once its dependencies have completed,     *)
(* however their completions interleave (UnblockDependents), when each     *)
(* task is assigned once and dependencies wait for nothing themselves.     *)
THEOREM HeldIsReleased == ASSUME OneCall, OneLevel PROVE Spec => []HeldTaskIsReleased
<1>1. Init => Watched
  BY WatchedInit
<1>2. Watched /\ Careful /\ [Next]_vars => Watched'
  BY WatchedStep
<1>3. Watched => HeldTaskIsReleased
  <2> SUFFICES ASSUME Watched, Quiescent, NEW t \in held, Ready(t)
               PROVE  FALSE
    BY DEF HeldTaskIsReleased, Ready
  <2>1. t \in Task /\ ReleaseComes(t)
    BY DEF Watched
  <2>2. \A d \in DependsOn[t] : <<d, "completed">> \in Task \X TerminalTask
    BY <2>1, EdgeAssumption DEF TerminalTask
  <2>3. \A w \in Worker : ~Releasing(worker[w], t)
    BY DEF Quiescent, Watched, CallOf, Releasing
  <2>4. \A d \in DependsOn[t] : landed[<<d, "completed">>] = 0
    BY <2>2 DEF Quiescent
  <2>5. \A d \in DependsOn[t] : ~(landed[<<d, "completed">>] > 0)
    <3> SUFFICES ASSUME NEW d \in DependsOn[t], landed[<<d, "completed">>] > 0
                 PROVE  FALSE
      OBVIOUS
    <3>1. landed[<<d, "completed">>] = 0
      BY <2>4
    <3> QED BY <3>1
  <2> QED BY <2>1, <2>3, <2>5 DEF ReleaseComes
<1> QED BY <1>1, <1>2, <1>3, CarefulInit, CarefulStep, PTL DEF Spec

=============================================================================
