------------------------- MODULE Rollback_proofs -------------------------
(***************************************************************************)
(* Proofs about Rollback for any runs, tasks, todos, edges, goroutines and *)
(* bounds.  Orderly says what a rollback in progress has still to deal     *)
(* with (Tidy), what its guard has found (Guarded), and what an update     *)
(* that no other call has overtaken knows of its task (Current, Joining);  *)
(* a run that was rolled back is empty (RolledBack).  Loosened is all that *)
(* a step can do to the tasks, and keeps what other goroutines rely on.    *)
(***************************************************************************)
EXTENDS Rollback, TLAPS

(* Rollback: what a goroutine has read and done so far.                    *)

Local == [pc : PC, run : Run \cup {NoRun}, goal : {"rolling_back", "rolled_back",
  "rollback_failed"},
          deps : SUBSET Task, left : SUBSET (Task \cup Todo), task : Task \cup {NoTask},
            new : Record]

(* The statuses a task has; no task here is blocked.                       *)
Reported == {"pending", "in_progress", "completed", "failed"}

(* A goroutine in the middle of a call has what the call is about.         *)
Placed(r) ==
  /\ r.pc \in {"checkRun", "writeRun", "list", "guard", "unlink", "reset", "listTodos", "delete",
                "link"} => r.run \in Run
  /\ r.pc \in {"guard", "unlink", "reset"} => r.left \subseteq Task
  /\ r.pc = "delete" => r.left \subseteq Todo
  /\ r.pc \in {"unlink", "reset"} => r.deps = {}
  /\ r.pc = "reset" => r.task \in r.left
  /\ r.pc \in {"checkTask", "writeTask", "link"} => r.task \in Task
  /\ r.pc \in {"checkTask", "writeTask"} => r.new.status \in Reported

Typed ==
  /\ run \in [Run -> RunStatus]
  /\ task \in [Task -> Record] /\ \A t \in Task : task[t].status \in Reported
  /\ worker \in [Worker -> Local] /\ \A w \in Worker : Placed(worker[w])

(* The tasks and the todos of run q are dealt with.                        *)
Swept(q) == \A t \in Task \ (moved \cup kept) : task[t].owner # q
Cleared(q) == \A d \in todo \ kept : TodoRun[d] # q

(* What a rollback has still to deal with is what it has listed.           *)
Tidy(r) ==
  /\ r.pc \in {"guard", "unlink", "reset"} =>
       \A t \in Task \ (moved \cup kept) : task[t].owner = r.run => t \in r.left
  /\ r.pc \in {"listTodos", "delete"} => Swept(r.run)
  /\ r.pc = "delete" => \A d \in todo \ kept : TodoRun[d] = r.run => d \in r.left
  /\ r.pc \in {"checkRun", "writeRun"} /\ r.goal = "rolled_back" => Swept(r.run) /\ Cleared(r.run)
  /\ r.pc = "reset" => r.task \in moved \cup tied \/ \A q \in Run : <<q, r.task>> \notin started
  /\ r.pc = "link" => r.task \in moved

(* The tasks it has listed are the run's, and the guard has passed over    *)
(* none that a task of another run depends on and the store let it read.   *)
Guarded(r) ==
  r.pc \in {"guard", "unlink", "reset"} =>
    \A t \in r.left \ moved :
      /\ task[t].owner \in {NoRun, r.run}
      /\ \A d \in Dependents(t) \ (moved \cup unread) :
           d \in r.deps \/ task[d].owner \in {NoRun, r.run}

(* What an update under way knows of its task, if no other call wrote it.  *)
Current(r) ==
  /\ r.pc \in {"checkTask", "writeTask"} => r.new.done = task[r.task].done
  /\ r.pc = "writeTask" =>
       \/ r.new.status = task[r.task].status
       \/ TaskCanTransition(task[r.task].status, r.new.status)

(* A task is linked to a run it has just joined.                           *)
Joins(r) == r.pc = "writeTask" /\ r.run # NoRun => r.new.owner = r.run
Joining(r) == r.pc = "writeTask" /\ r.run # NoRun => task[r.task].owner = NoRun

(* An edge to a task is that of its run, and a task that was not reset has *)
(* lost its edge; unless an update moved it or the store kept the edge.    *)
Linked ==
  \A t \in Task \ (moved \cup tied), q \in Run :
    <<q, t>> \in started => task[t].owner = q /\ t \notin kept
RolledBack == \A q \in Run : run[q] = "rolled_back" => Swept(q) /\ Cleared(q)

Orderly ==
  /\ \A w \in Worker :
       /\ Tidy(worker[w]) /\ Guarded(worker[w]) /\ Joins(worker[w])
       /\ w \notin stale => Current(worker[w]) /\ Joining(worker[w])
  /\ started \subseteq Run \X Task /\ todo \subseteq Todo
  /\ Linked /\ RolledBack /\ NoStaleCompletion

(* Whatever a step does, an unmoved task stays with its run or leaves it   *)
(* for none, no todo comes back and only a moved task is linked anew.      *)
Loosened ==
  /\ moved \subseteq moved' /\ kept \subseteq kept' /\ todo' \subseteq todo
  /\ tied \subseteq tied' /\ unread \subseteq unread'
  /\ \A t \in Task \ moved' : task'[t].owner \in {NoRun, task[t].owner}
  /\ \A q \in Run, t \in Task : <<q, t>> \in started' => <<q, t>> \in started \/ t \in moved'

LEMMA SweptStays ==
  ASSUME Loosened, NEW q \in Run
  PROVE  /\ Swept(q) => Swept(q)'
         /\ Cleared(q) => Cleared(q)'
BY NullAssumption DEF Loosened, Swept, Cleared

LEMMA TidyStays ==
  ASSUME Loosened, NEW r, Placed(r), Tidy(r), Guarded(r)
  PROVE  Tidy(r)' /\ Guarded(r)'
<1>1. r.pc \in {"guard", "unlink", "reset"} =>
        \A t \in Task \ (moved' \cup kept') : task'[t].owner = r.run => t \in r.left
  BY NullAssumption DEF Loosened, Placed, Tidy
<1>2. /\ r.pc \in {"listTodos", "delete"} => Swept(r.run)'
      /\ r.pc \in {"checkRun", "writeRun"} /\ r.goal = "rolled_back" =>
           Swept(r.run)' /\ Cleared(r.run)'
  BY SweptStays DEF Placed, Tidy
<1>3. r.pc = "delete" => \A d \in todo' \ kept' : TodoRun[d] = r.run => d \in r.left
  BY DEF Loosened, Tidy
<1>4. r.pc = "reset" => r.task \in moved' \cup tied' \/ \A q \in Run : <<q, r.task>> \notin started'
  BY DEF Loosened, Tidy, Placed
<1>5. r.pc = "link" => r.task \in moved'
  BY DEF Loosened, Tidy
<1>6. Tidy(r)'
  BY <1>1, <1>2, <1>3, <1>4, <1>5 DEF Tidy, Swept, Cleared
<1>7. Guarded(r)'
  <2> SUFFICES ASSUME r.pc \in {"guard", "unlink", "reset"}, NEW t \in r.left \ moved'
               PROVE  /\ task'[t].owner \in {NoRun, r.run}
                      /\ \A d \in Dependents(t) \ (moved' \cup unread') :
                           d \in r.deps \/ task'[d].owner \in {NoRun, r.run}
    BY DEF Guarded, Dependents
  <2>1. t \in Task /\ t \notin moved /\ Dependents(t) \subseteq Task
    BY DEF Placed, Loosened, Dependents
  <2>2. /\ task[t].owner \in {NoRun, r.run}
        /\ \A d \in Dependents(t) \ (moved \cup unread) :
             d \in r.deps \/ task[d].owner \in {NoRun, r.run}
    BY <2>1 DEF Guarded
  <2> QED BY <2>1, <2>2 DEF Loosened
<1> QED BY <1>6, <1>7

LEMMA Becomes ==
  ASSUME Typed, NEW w \in Worker, NEW r, Become(w, r)
  PROVE  /\ worker'[w] = r /\ \A v \in Worker \ {w} : worker'[v] = worker[v]
         /\ r \in Local => worker' \in [Worker -> Local]
BY DEF Become, Typed

LEMMA Here ==
  ASSUME Typed, NEW w \in Worker
  PROVE  worker[w] \in Local /\ Placed(worker[w])
BY DEF Typed

LEMMA IdleIs ==
  /\ Idle.pc = "idle" /\ Placed(Idle)
  /\ Idle \in Local
BY DEF Idle, Placed, Local, PC, Blank, Record, TaskStatus

(* Where a goroutine is that goes on to set the status of its run.         *)
LEMMA Finishes ==
  ASSUME NEW q \in Run, NEW goal \in {"rolling_back", "rolled_back", "rollback_failed"}
  PROVE  /\ Finishing(q, goal) \in Local /\ Placed(Finishing(q, goal))
         /\ Finishing(q, goal).pc = "checkRun" /\ Finishing(q, goal).run = q
         /\ Finishing(q, goal).goal = goal
BY DEF Finishing, Idle, Placed, Local, PC, Blank, Record, TaskStatus

(* A step of w to locals r.                                                *)
LEMMA Moves ==
  ASSUME Typed, Orderly, NEW w \in Worker, NEW r \in Local, Become(w, r), Placed(r), Loosened,
         run' \in [Run -> RunStatus],
         task' \in [Task -> Record], \A t \in Task : task'[t].status \in Reported,
         Tidy(r)', Guarded(r)', Joins(r), w \notin stale' => Current(r)' /\ Joining(r)',
         \A v \in Worker \ {w} : v \notin stale' =>
           /\ v \notin stale
           /\ worker[v].pc \in {"checkTask", "writeTask"} =>
                task'[worker[v].task] = task[worker[v].task],
         started' \subseteq Run \X Task, Linked', RolledBack', NoStaleCompletion'
  PROVE  Typed' /\ Orderly'
<1>1. worker'[w] = r /\ (\A v \in Worker \ {w} : worker'[v] = worker[v])
        /\ worker' \in [Worker -> Local]
  BY Becomes
<1>2. \A v \in Worker : Placed(worker'[v])
  BY <1>1 DEF Typed
<1>3. Typed'
  BY <1>1, <1>2 DEF Typed, Placed
<1>4. ASSUME NEW v \in Worker \ {w}
      PROVE  /\ Tidy(worker[v])' /\ Guarded(worker[v])' /\ Joins(worker[v])'
             /\ v \notin stale' => Current(worker[v])' /\ Joining(worker[v])'
  <2> DEFINE me == worker[v]
  <2>1. worker'[v] = me /\ Placed(me) /\ Tidy(me) /\ Guarded(me) /\ Joins(me)
    BY <1>1 DEF Typed, Orderly
  <2>2. v \notin stale' =>
          Current(me) /\ Joining(me) /\ (me.pc \in {"checkTask", "writeTask"}
            => task'[me.task] = task[me.task])
    BY DEF Orderly
  <2> HIDE DEF me
  <2>3. PICK x : x = me
    OBVIOUS
  <2>4. Tidy(x)' /\ Guarded(x)'
    BY <2>1, <2>3, TidyStays
  <2>5. v \notin stale' => Current(x)' /\ Joining(x)'
    BY <2>2, <2>3 DEF Current, Joining
  <2>6. worker'[v] = x
    BY <2>1, <2>3
  <2>7. Tidy(worker[v])' /\ Guarded(worker[v])'
    BY <2>4, <2>6 DEF Tidy, Guarded, Swept, Cleared, Dependents
  <2>8. v \notin stale' => Current(worker[v])' /\ Joining(worker[v])'
    BY <2>5, <2>6 DEF Current, Joining
  <2>9. Joins(worker[v])'
    BY <2>1 DEF Joins
  <2> QED BY <2>7, <2>8, <2>9
<1>5. /\ Tidy(worker[w])' /\ Guarded(worker[w])' /\ Joins(worker[w])'
      /\ w \notin stale' => Current(worker[w])' /\ Joining(worker[w])'
  <2>1. Tidy(worker[w])' /\ Guarded(worker[w])'
    BY <1>1 DEF Tidy, Guarded, Swept, Cleared, Dependents
  <2>2. Joins(worker[w])' /\ (w \notin stale' => Current(worker[w])' /\ Joining(worker[w])')
    BY <1>1 DEF Joins, Current, Joining
  <2> QED BY <2>1, <2>2
<1>6. todo' \subseteq Todo
  BY DEF Loosened, Orderly
<1> QED BY <1>3, <1>4, <1>5, <1>6 DEF Orderly

(* One that leaves everything but the goroutines as it was.                *)
LEMMA MovesQuietly ==
  ASSUME Typed, Orderly, NEW w \in Worker, NEW r \in Local, Become(w, r), Placed(r),
         UNCHANGED <<run, task, started, todo, moved, kept, tied, unread>>,
         stale \ {w} \subseteq stale',
         Tidy(r), Guarded(r), Joins(r), w \notin stale' => Current(r) /\ Joining(r)
  PROVE  Typed' /\ Orderly'
<1>1. Loosened
  BY DEF Loosened
<1>2. /\ Tidy(r)' /\ Guarded(r)' /\ (w \notin stale' => Current(r)' /\ Joining(r)')
      /\ Linked' /\ RolledBack' /\ NoStaleCompletion'
  BY DEF Tidy, Guarded, Current, Joining, Linked, RolledBack, NoStaleCompletion, Orderly,
         Swept, Cleared, Dependents
<1>3. /\ run' \in [Run -> RunStatus] /\ task' \in [Task -> Record]
      /\ (\A t \in Task : task'[t].status \in Reported) /\ started' \subseteq Run \X Task
  BY DEF Typed, Orderly
<1>4. \A v \in Worker \ {w} : v \notin stale' =>
        /\ v \notin stale
        /\ worker[v].pc \in {"checkTask", "writeTask"} =>
             task'[worker[v].task] = task[worker[v].task]
  OBVIOUS
<1> QED BY <1>1, <1>2, <1>3, <1>4, Moves

LEMMA ToIdle ==
  Tidy(Idle) /\ Guarded(Idle) /\ Joins(Idle) /\ Current(Idle) /\ Joining(Idle)
BY IdleIs DEF Tidy, Guarded, Joins, Current, Joining

LEMMA MovesIdle ==
  ASSUME Typed, Orderly, NEW w \in Worker, Become(w, Idle),
         UNCHANGED <<run, task, started, todo, moved, kept, tied, unread>>,
         stale \ {w} \subseteq stale'
  PROVE  Typed' /\ Orderly'
BY IdleIs, ToIdle, MovesQuietly

-----------------------------------------------------------------------------
(* One lemma for each action.                                              *)

LEMMA Receives ==
  ASSUME Typed, Orderly, NEW w \in Worker, NEW r \in Run, ReceiveRollback(w, r)
  PROVE  Typed' /\ Orderly'
<1> DEFINE me == Finishing(r, "rolling_back")
<1>1. /\ me \in Local /\ Placed(me) /\ me.pc = "checkRun" /\ me.run = r /\ me.goal = "rolling_back"
  BY Finishes
<1>2. Become(w, me) /\ UNCHANGED <<run, task, started, todo, moved, kept, tied, unread, stale>>
  BY DEF ReceiveRollback, history, refusals
<1> HIDE DEF me
<1>3. Tidy(me) /\ Guarded(me) /\ Joins(me) /\ Current(me) /\ Joining(me)
  BY <1>1 DEF Tidy, Guarded, Joins, Current, Joining
<1> QED BY <1>1, <1>2, <1>3, MovesQuietly

(* A step to a status of the run that is not the end of a rollback.        *)
LEMMA Gives ==
  ASSUME Typed, Orderly, NEW w \in Worker, NEW q \in Run, Become(w, Finishing(q,
         "rollback_failed")),
         UNCHANGED <<run, task, started, todo, moved, kept, tied, unread>>,
         stale \ {w} \subseteq stale'
  PROVE  Typed' /\ Orderly'
<1> DEFINE me == Finishing(q, "rollback_failed")
<1>1. /\ me \in Local /\ Placed(me) /\ me.pc = "checkRun" /\ me.run = q
           /\ me.goal = "rollback_failed"
  BY Finishes
<1>2. Become(w, me)
  OBVIOUS
<1> HIDE DEF me
<1>3. Tidy(me) /\ Guarded(me) /\ Joins(me) /\ Current(me) /\ Joining(me)
  BY <1>1 DEF Tidy, Guarded, Joins, Current, Joining
<1> QED BY <1>1, <1>2, <1>3, MovesQuietly

LEMMA ChecksRun ==
  ASSUME Typed, Orderly, NEW w \in Worker, CheckRun(w)
  PROVE  Typed' /\ Orderly'
<1> DEFINE me == worker[w]
           r == [me EXCEPT !.pc = "writeRun"]
<1>1. me \in Local /\ Placed(me) /\ Tidy(me) /\ me.pc = "checkRun"
  BY Here DEF Orderly, CheckRun, At
<1>2. UNCHANGED <<run, task, started, todo, moved, kept, tied, unread, stale>>
  BY DEF CheckRun, history, refusals
<1>3. Become(w, r) \/ Become(w, Idle)
  BY DEF CheckRun
<1>4. /\ r \in Local /\ r.pc = "writeRun" /\ r.run = me.run /\ r.goal = me.goal
  BY <1>1 DEF Local, PC
<1> HIDE DEF me, r
<1>5. Placed(r)
  BY <1>1, <1>4 DEF Placed
<1>6. Tidy(r) /\ Guarded(r) /\ Joins(r) /\ Current(r) /\ Joining(r)
  BY <1>1, <1>4 DEF Tidy, Guarded, Joins, Current, Joining
<1>7. CASE Become(w, r)
  BY <1>2, <1>4, <1>5, <1>6, <1>7, MovesQuietly
<1>8. CASE Become(w, Idle)
  BY <1>2, <1>8, MovesIdle
<1> QED BY <1>3, <1>7, <1>8

LEMMA WritesRun ==
  ASSUME Typed, Orderly, NEW w \in Worker, WriteRun(w)
  PROVE  Typed' /\ Orderly'
<1> DEFINE me == worker[w]
           there == [me EXCEPT !.pc = "list"]
<1>0. PICK r : r = IF me.goal = "rolling_back" THEN there ELSE Idle
  OBVIOUS
<1>1. me \in Local /\ Placed(me) /\ Tidy(me) /\ me.pc = "writeRun" /\ me.run \in Run
  BY Here DEF Orderly, WriteRun, At, Placed
<1>2. /\ run' = [run EXCEPT ![me.run] = me.goal] /\ Become(w, r)
      /\ UNCHANGED <<task, started, todo, moved, kept, tied, unread, stale>>
  BY <1>0 DEF WriteRun, history, refusals
<1>3. me.goal \in {"rolling_back", "rolled_back", "rollback_failed"}
  BY <1>1 DEF Local
<1>4. there \in Local /\ there.pc = "list" /\ there.run = me.run
  BY <1>1 DEF Local, PC
<1>5. Placed(there) /\ Tidy(there) /\ Guarded(there) /\ Joins(there) /\ Current(there)
        /\ Joining(there)
  BY <1>1, <1>4 DEF Placed, Tidy, Guarded, Joins, Current, Joining
<1>6. r \in Local /\ Placed(r) /\ Tidy(r) /\ Guarded(r) /\ Joins(r) /\ Current(r) /\ Joining(r)
  BY <1>0, <1>4, <1>5, IdleIs, ToIdle
<1> HIDE DEF there, me
<1>7. Loosened
  BY <1>2 DEF Loosened
<1>8. run' \in [Run -> RunStatus]
  BY <1>1, <1>2, <1>3 DEF Typed, RunStatus
<1>9. RolledBack'
  <2> SUFFICES ASSUME NEW q \in Run, run'[q] = "rolled_back" PROVE Swept(q)' /\ Cleared(q)'
    BY DEF RolledBack
  <2>1. Swept(q) /\ Cleared(q)
    BY <1>1, <1>2 DEF Tidy, Typed, Orderly, RolledBack
  <2> QED BY <2>1, <1>7, SweptStays
<1>10. /\ Tidy(r)' /\ Guarded(r)' /\ Current(r)' /\ Joining(r)'
       /\ Linked' /\ NoStaleCompletion'
  BY <1>2, <1>6 DEF Tidy, Guarded, Current, Joining, Linked, NoStaleCompletion, Orderly,
         Swept, Cleared, Dependents
<1>11. /\ task' \in [Task -> Record] /\ (\A t \in Task : task'[t].status \in Reported)
       /\ started' \subseteq Run \X Task
  BY <1>2 DEF Typed, Orderly
<1>12. \A v \in Worker \ {w} : v \notin stale' =>
        /\ v \notin stale
        /\ worker[v].pc \in {"checkTask", "writeTask"} =>
             task'[worker[v].task] = task[worker[v].task]
  BY <1>2
<1> QED BY <1>2, <1>6, <1>7, <1>8, <1>9, <1>10, <1>11, <1>12, Moves

(* A list of tasks taken here, with all that depend on them.               *)
LEMMA Lists ==
  ASSUME Typed, Orderly, NEW w \in Worker, ListTasks(w)
  PROVE  Typed' /\ Orderly'
<1> DEFINE me == worker[w]
           mine == {t \in Task : task[t].owner = me.run}
           deps == UNION {Dependents(t) : t \in mine}
           r == [me EXCEPT !.pc = "guard", !.left = mine, !.deps = deps]
<1>1. me \in Local /\ Placed(me) /\ me.pc = "list" /\ me.run \in Run
  BY Here DEF ListTasks, At, Placed
<1>2. Become(w, r) /\ UNCHANGED <<run, task, started, todo, moved, kept, tied, unread, stale>>
  BY DEF ListTasks, history, refusals
<1>3. mine \subseteq Task /\ deps \subseteq Task /\ \A t \in mine : Dependents(t) \subseteq deps
  BY DEF Dependents
<1>4. \A t \in Task : t \in mine <=> task[t].owner = me.run
  OBVIOUS
<1> HIDE DEF mine, deps
<1>5. /\ r \in Local /\ r.pc = "guard" /\ r.run = me.run /\ r.left = mine /\ r.deps = deps
  BY <1>1, <1>3 DEF Local, PC
<1> HIDE DEF r, me
<1>6. Placed(r)
  BY <1>1, <1>3, <1>5 DEF Placed
<1>7. Tidy(r)
  BY <1>4, <1>5 DEF Tidy
<1>8. Guarded(r)
  BY <1>3, <1>4, <1>5 DEF Guarded
<1>9. Joins(r) /\ Current(r) /\ Joining(r)
  BY <1>5 DEF Joins, Current, Joining
<1> QED BY <1>2, <1>5, <1>6, <1>7, <1>8, <1>9, MovesQuietly

(* What comes next in a list; NextOf leaves the rest of the locals alone.  *)
LEMMA Next1 ==
  ASSUME NEW me \in Local, NEW there \in PC, NEW end \in PC
  PROVE  LET r == NextOf(me, there, end) IN
         /\ r \in Local /\ r.run = me.run /\ r.goal = me.goal /\ r.deps = me.deps
              /\ r.left = me.left
         /\ r.task = me.task /\ r.new = me.new
         /\ r.pc = IF me.left = {} THEN end ELSE there
BY DEF NextOf, Local

LEMMA Guards ==
  ASSUME Typed, Orderly, NEW w \in Worker, Guard(w)
  PROVE  Typed' /\ Orderly'
<1> DEFINE me == worker[w]
<1>1. /\ me \in Local /\ Placed(me) /\ Tidy(me) /\ Guarded(me) /\ me.pc = "guard"
      /\ me.run \in Run /\ me.left \subseteq Task
  BY Here DEF Orderly, Guard, At, Placed
<1>2. UNCHANGED <<run, task, started, todo, moved, kept, tied, unread, stale>>
  BY DEF Guard, history, refusals
<1>3. CASE me.deps = {}
  <2> DEFINE r == NextOf(me, "unlink", "listTodos")
  <2>1. /\ r \in Local /\ r.run = me.run /\ r.deps = me.deps /\ r.left = me.left
        /\ r.pc = IF me.left = {} THEN "listTodos" ELSE "unlink"
    BY <1>1, Next1 DEF PC
  <2>2. Become(w, r)
    BY <1>3 DEF Guard
  <2> HIDE DEF r, me
  <2>3. Placed(r)
    BY <1>1, <1>3, <2>1 DEF Placed
  <2>4. Tidy(r)
    BY <1>1, <2>1 DEF Tidy, Swept
  <2>5. Guarded(r) /\ Joins(r) /\ Current(r) /\ Joining(r)
    BY <1>1, <2>1 DEF Guarded, Joins, Current, Joining
  <2> QED BY <1>2, <2>1, <2>2, <2>3, <2>4, <2>5, MovesQuietly
<1>4. CASE me.deps # {}
  <2>1. PICK d \in me.deps :
          Become(w, IF task[d].owner \notin {NoRun, me.run}
                    THEN Finishing(me.run, "rollback_failed")
                    ELSE [me EXCEPT !.deps = @ \ {d}])
    BY <1>4 DEF Guard
  <2>2. CASE task[d].owner \notin {NoRun, me.run}
    BY <1>1, <1>2, <2>1, <2>2, Gives
  <2>3. CASE task[d].owner \in {NoRun, me.run}
    <3> DEFINE r == [me EXCEPT !.deps = @ \ {d}]
    <3>1. Become(w, r)
      BY <2>1, <2>3
    <3>2. /\ r \in Local /\ r.run = me.run /\ r.deps = me.deps \ {d} /\ r.left = me.left
          /\ r.pc = "guard"
      BY <1>1 DEF Local
    <3> HIDE DEF r, me
    <3>3. Placed(r) /\ Tidy(r)
      BY <1>1, <3>2 DEF Placed, Tidy
    <3>4. Guarded(r)
      BY <1>1, <2>3, <3>2 DEF Guarded
    <3>5. Joins(r) /\ Current(r) /\ Joining(r)
      BY <3>2 DEF Joins, Current, Joining
    <3> QED BY <1>2, <3>1, <3>2, <3>3, <3>4, <3>5, MovesQuietly
  <2> QED BY <2>2, <2>3
<1> QED BY <1>3, <1>4

LEMMA GuardsWithout ==
  ASSUME Typed, Orderly, NEW w \in Worker, GuardRefused(w)
  PROVE  Typed' /\ Orderly'
<1> DEFINE me == worker[w]
<1>0. PICK d \in me.deps :
        /\ me.pc = "guard" /\ unread' = unread \cup {d}
        /\ Become(w, [me EXCEPT !.deps = @ \ {d}])
        /\ UNCHANGED <<run, task, started, todo, moved, kept, tied, stale>>
  BY DEF GuardRefused, At
<1>1. /\ me \in Local /\ Placed(me) /\ Tidy(me) /\ Guarded(me)
      /\ me.run \in Run /\ me.left \subseteq Task
  BY <1>0, Here DEF Orderly, Placed
<1>2. PICK r : r = [me EXCEPT !.deps = @ \ {d}]
  OBVIOUS
<1>3. /\ r \in Local /\ r.pc = "guard" /\ r.run = me.run /\ r.left = me.left
      /\ r.deps = me.deps \ {d}
  BY <1>0, <1>1, <1>2 DEF Local
<1>4. Become(w, r)
  BY <1>0, <1>2
<1> HIDE DEF me
<1>5. Placed(r)
  BY <1>0, <1>1, <1>3 DEF Placed
<1>6. Loosened
  BY <1>0 DEF Loosened
<1>7. Tidy(r)'
  BY <1>0, <1>1, <1>3 DEF Tidy
<1>8. Guarded(r)'
  BY <1>0, <1>1, <1>3 DEF Guarded, Dependents
<1>9. Joins(r) /\ Current(r)' /\ Joining(r)'
  BY <1>3 DEF Joins, Current, Joining
<1>10. /\ run' \in [Run -> RunStatus] /\ task' \in [Task -> Record]
       /\ (\A u \in Task : task'[u].status \in Reported) /\ started' \subseteq Run \X Task
  BY <1>0 DEF Typed, Orderly
<1>11. \A v \in Worker \ {w} : v \notin stale' =>
        /\ v \notin stale
        /\ worker[v].pc \in {"checkTask", "writeTask"} =>
             task'[worker[v].task] = task[worker[v].task]
  BY <1>0
<1>12. Linked' /\ RolledBack' /\ NoStaleCompletion'
  BY <1>0 DEF Linked, RolledBack, NoStaleCompletion, Orderly, Swept, Cleared
<1> QED BY <1>3, <1>4, <1>5, <1>6, <1>7, <1>8, <1>9, <1>10, <1>11, <1>12, Moves

(* The edges to a task are gone, or the store has kept some.               *)
LEMMA Unlinks ==
  ASSUME Typed, Orderly, NEW w \in Worker, Unlink(w) \/ UnlinkRefused(w)
  PROVE  Typed' /\ Orderly'
<1> DEFINE me == worker[w]
<1>0. PICK t \in me.left :
        /\ At(w, "unlink") /\ started' \subseteq started
        /\ tied \subseteq tied' /\ (t \in tied' \/ started' = started \ (Run \X {t}))
        /\ Become(w, [me EXCEPT !.pc = "reset", !.task = t])
        /\ UNCHANGED <<run, task, todo, moved, kept, unread, stale>>
  <2>1. CASE Unlink(w)
    BY <2>1 DEF Unlink, history, refusals
  <2>2. CASE UnlinkRefused(w)
    <3>1. PICK t \in me.left :
            LET edges == started \cap (Run \X {t}) IN
            /\ At(w, "unlink")
            /\ \E stay \in {edges} \cup {{e} : e \in edges} : started' = (started \ edges) \cup stay
            /\ tied' = tied \cup {t}
            /\ Become(w, [me EXCEPT !.pc = "reset", !.task = t])
            /\ UNCHANGED <<run, task, todo, moved, kept, unread, stale>>
      BY <2>2 DEF UnlinkRefused
    <3>2. started' \subseteq started
      BY <3>1
    <3> QED BY <3>1, <3>2
  <2> QED BY <2>1, <2>2
<1>1. /\ me \in Local /\ Placed(me) /\ Tidy(me) /\ Guarded(me) /\ me.pc = "unlink"
      /\ me.run \in Run /\ me.left \subseteq Task /\ me.deps = {} /\ t \in Task
  BY <1>0, Here DEF Orderly, At, Placed
<1>12. PICK r : r = [me EXCEPT !.pc = "reset", !.task = t]
  OBVIOUS
<1>2. /\ r \in Local /\ r.pc = "reset" /\ r.run = me.run /\ r.left = me.left /\ r.deps = me.deps
      /\ r.task = t
  BY <1>1, <1>12 DEF Local, PC
<1>3. Become(w, r)
  BY <1>0, <1>12
<1> HIDE DEF me
<1>4. Placed(r)
  BY <1>1, <1>2, <1>0 DEF Placed
<1>5. Loosened
  BY <1>0 DEF Loosened
<1>6. Tidy(r)'
  BY <1>0, <1>1, <1>2 DEF Tidy
<1>7. Guarded(r)'
  BY <1>0, <1>1, <1>2 DEF Guarded, Dependents
<1>8. Joins(r) /\ (w \notin stale' => Current(r)' /\ Joining(r)')
  BY <1>2 DEF Joins, Current, Joining
<1>9. /\ run' \in [Run -> RunStatus] /\ task' \in [Task -> Record]
      /\ (\A u \in Task : task'[u].status \in Reported) /\ started' \subseteq Run \X Task
  BY <1>0 DEF Typed, Orderly
<1>10. \A v \in Worker \ {w} : v \notin stale' =>
        /\ v \notin stale
        /\ worker[v].pc \in {"checkTask", "writeTask"} =>
             task'[worker[v].task] = task[worker[v].task]
  BY <1>0
<1>11. Linked' /\ RolledBack' /\ NoStaleCompletion'
  BY <1>0 DEF Linked, RolledBack, NoStaleCompletion, Orderly, Swept, Cleared
<1> QED BY <1>2, <1>3, <1>4, <1>5, <1>6, <1>7, <1>8, <1>9, <1>10, <1>11, Moves

(* What AfterReset leaves of the goroutine that dealt with a task.         *)
LEMMA Rests ==
  ASSUME Typed, Orderly, NEW w \in Worker, At(w, "reset"), AfterReset(w)
  PROVE  \E r \in Local :
           /\ Become(w, r) /\ Placed(r) /\ r.run = worker[w].run /\ r.deps = {}
           /\ r.left = worker[w].left \ {worker[w].task}
           /\ r.pc = IF r.left = {} THEN "listTodos" ELSE "unlink"
<1> DEFINE me == worker[w]
           there == [me EXCEPT !.left = @ \ {me.task}, !.task = NoTask]
<1>1. me \in Local /\ Placed(me) /\ me.pc = "reset"
  BY Here DEF At
<1>2. there \in Local /\ there.run = me.run /\ there.deps = me.deps
        /\ there.left = me.left \ {me.task}
  BY <1>1 DEF Local
<1>3. Become(w, NextOf(there, "unlink", "listTodos"))
  BY DEF AfterReset
<1> HIDE DEF there, me
<1>4. PICK r : r = NextOf(there, "unlink", "listTodos")
  OBVIOUS
<1>5. /\ r \in Local /\ r.run = there.run /\ r.deps = there.deps /\ r.left = there.left
      /\ r.pc = IF there.left = {} THEN "listTodos" ELSE "unlink"
  BY <1>2, <1>4, Next1 DEF PC
<1>6. Placed(r)
  BY <1>1, <1>2, <1>5 DEF Placed
<1>7. me.deps = {}
  BY <1>1 DEF Placed
<1>8. Become(w, r)
  BY <1>3, <1>4
<1> QED BY <1>2, <1>5, <1>6, <1>7, <1>8 DEF me

LEMMA Resets ==
  ASSUME Typed, Orderly, NEW w \in Worker, ResetTask(w)
  PROVE  Typed' /\ Orderly'
<1> DEFINE me == worker[w]
           x == me.task
<1>1. /\ me \in Local /\ Placed(me) /\ Tidy(me) /\ Guarded(me) /\ me.pc = "reset"
      /\ me.run \in Run /\ me.left \subseteq Task /\ x \in me.left /\ x \in Task
  BY Here DEF Orderly, ResetTask, At, Placed
<1>2. /\ task' = [task EXCEPT ![x] = Blank] /\ stale' = stale \cup Updating(x)
      /\ UNCHANGED <<run, started, todo, moved, kept, tied, unread>>
  BY DEF ResetTask, refusals
<1>3. PICK r \in Local :
        /\ Become(w, r) /\ Placed(r) /\ r.run = me.run /\ r.deps = {} /\ r.left = me.left \ {x}
        /\ r.pc = IF r.left = {} THEN "listTodos" ELSE "unlink"
  BY Rests DEF ResetTask
<1>4. Updating(x) = {v \in Worker : worker[v].task = x
        /\ worker[v].pc \in {"checkTask", "writeTask"}}
  BY DEF Updating
<1>5. /\ Blank \in Record /\ Blank.owner = NoRun /\ Blank.status = "pending" /\ Blank.done = FALSE
  BY DEF Blank, Record, TaskStatus
<1> HIDE DEF me, x
<1>6. /\ task' \in [Task -> Record] /\ task'[x] = Blank
      /\ \A t \in Task \ {x} : task'[t] = task[t]
  BY <1>1, <1>2, <1>5 DEF Typed
<1>7. \A t \in Task : task'[t].status \in Reported
  BY <1>5, <1>6 DEF Typed, Reported
<1>8. Loosened
  BY <1>2, <1>5, <1>6 DEF Loosened
<1>9. Tidy(r)'
  <2>1. \A t \in Task \ (moved' \cup kept') : task'[t].owner = r.run => t \in r.left
    BY <1>1, <1>2, <1>3, <1>5, <1>6, NullAssumption DEF Tidy
  <2>2. r.left = {} => Swept(r.run)'
    BY <2>1 DEF Swept
  <2> QED BY <1>3, <2>1, <2>2 DEF Tidy
<1>10. Guarded(r)'
  <2> SUFFICES ASSUME NEW t \in r.left \ moved'
               PROVE  /\ task'[t].owner \in {NoRun, r.run}
                      /\ \A d \in Dependents(t) \ (moved' \cup unread') :
                           d \in r.deps \/ task'[d].owner \in {NoRun, r.run}
    BY DEF Guarded, Dependents
  <2>1. /\ t \in Task /\ task[t].owner \in {NoRun, r.run} /\ Dependents(t) \subseteq Task
        /\ \A d \in Dependents(t) \ (moved \cup unread) :
             d \in me.deps \/ task[d].owner \in {NoRun, r.run}
    BY <1>1, <1>2, <1>3 DEF Guarded, Dependents
  <2>2. me.deps = {}
    BY <1>1 DEF Placed
  <2> QED BY <2>1, <2>2, <1>2, <1>5, <1>6
<1>11. Joins(r) /\ (w \notin stale' => Current(r)' /\ Joining(r)')
  BY <1>3 DEF Joins, Current, Joining
<1>12. \A v \in Worker \ {w} : v \notin stale' =>
        /\ v \notin stale
        /\ worker[v].pc \in {"checkTask", "writeTask"} =>
             task'[worker[v].task] = task[worker[v].task]
  <2> SUFFICES ASSUME NEW v \in Worker \ {w}, v \notin stale', worker[v].pc \in {"checkTask",
                      "writeTask"}
               PROVE  task'[worker[v].task] = task[worker[v].task]
    BY <1>2
  <2>1. worker[v].task \in Task /\ worker[v].task # x
    BY <1>2, <1>4, Here DEF Placed
  <2> QED BY <1>6, <2>1
<1>13. Linked'
  <2>1. x \in moved \cup tied \/ \A q \in Run : <<q, x>> \notin started
    BY <1>1 DEF Tidy, x
  <2> QED BY <1>2, <1>6, <2>1 DEF Linked, Orderly
<1>14. RolledBack'
  BY <1>2, <1>8, SweptStays DEF RolledBack, Orderly
<1>15. NoStaleCompletion'
  BY <1>2, <1>5, <1>6 DEF NoStaleCompletion, Orderly
<1>16. run' \in [Run -> RunStatus] /\ started' \subseteq Run \X Task
  BY <1>2 DEF Typed, Orderly
<1> QED BY <1>3, <1>6, <1>7, <1>8, <1>9, <1>10, <1>11, <1>12, <1>13, <1>14, <1>15, <1>16, Moves

(* The todos of the run, when its tasks have been dealt with.              *)
LEMMA ListsTodos ==
  ASSUME Typed, Orderly, NEW w \in Worker, ListTodos(w)
  PROVE  Typed' /\ Orderly'
<1> DEFINE me == worker[w]
           mine == {d \in todo : TodoRun[d] = me.run}
<1>1. /\ me \in Local /\ Placed(me) /\ Tidy(me) /\ me.pc = "listTodos" /\ me.run \in Run
      /\ Swept(me.run)
  BY Here DEF Orderly, ListTodos, At, Placed, Tidy
<1>2. UNCHANGED <<run, task, started, todo, moved, kept, tied, unread, stale>>
  BY DEF ListTodos, history, refusals
<1>3. CASE mine = {}
  <2>1. PICK r : r = Finishing(me.run, "rolled_back")
    OBVIOUS
  <2>2. /\ r \in Local /\ Placed(r) /\ r.pc = "checkRun" /\ r.run = me.run /\ r.goal = "rolled_back"
    BY <1>1, <2>1, Finishes
  <2>3. Become(w, r)
    BY <1>3, <2>1 DEF ListTodos
  <2>4. Cleared(me.run)
    BY <1>3 DEF Cleared
  <2> HIDE DEF me
  <2>5. Tidy(r) /\ Guarded(r) /\ Joins(r) /\ Current(r) /\ Joining(r)
    BY <1>1, <2>2, <2>4 DEF Tidy, Guarded, Joins, Current, Joining
  <2> QED BY <1>2, <2>2, <2>3, <2>5, MovesQuietly
<1>4. CASE mine # {}
  <2>1. PICK r : r = [me EXCEPT !.pc = "delete", !.left = mine]
    OBVIOUS
  <2>2. mine \subseteq Todo
    BY DEF Orderly
  <2>3. /\ r \in Local /\ r.pc = "delete" /\ r.run = me.run /\ r.left = mine
    BY <1>1, <2>1, <2>2 DEF Local, PC
  <2>4. Become(w, r)
    BY <1>4, <2>1 DEF ListTodos
  <2>5. \A d \in todo : TodoRun[d] = me.run => d \in mine
    OBVIOUS
  <2> HIDE DEF me, mine
  <2>6. Placed(r)
    BY <1>1, <2>2, <2>3 DEF Placed
  <2>7. Tidy(r)
    BY <1>1, <2>3, <2>5 DEF Tidy
  <2>8. Guarded(r) /\ Joins(r) /\ Current(r) /\ Joining(r)
    BY <2>3 DEF Guarded, Joins, Current, Joining
  <2> QED BY <1>2, <2>3, <2>4, <2>6, <2>7, <2>8, MovesQuietly
<1> QED BY <1>3, <1>4

(* A todo is gone, or the store has kept it.                               *)
LEMMA Deletes ==
  ASSUME Typed, Orderly, NEW w \in Worker, At(w, "delete"), NEW d \in worker[w].left,
         AfterDelete(w, d), todo' \subseteq todo, kept \subseteq kept',
         kept' \subseteq kept \cup {d}, d \notin todo' \/ d \in kept',
         UNCHANGED <<run, task, started, moved, tied, unread, stale>>
  PROVE  Typed' /\ Orderly'
<1> DEFINE me == worker[w]
<1>1. /\ me \in Local /\ Placed(me) /\ Tidy(me) /\ me.pc = "delete" /\ me.run \in Run
           /\ Swept(me.run) /\ d \notin Task
           /\ me.left \subseteq Todo
      /\ \A u \in todo \ kept : TodoRun[u] = me.run => u \in me.left
  BY Here, ShapeAssumption DEF Orderly, At, Placed, Tidy
<1>2. Loosened
  BY DEF Loosened
<1>3. \A u \in todo' \ kept' : TodoRun[u] = me.run => u \in me.left \ {d}
  BY <1>1
<1>4. /\ run' \in [Run -> RunStatus] /\ task' \in [Task -> Record]
      /\ (\A u \in Task : task'[u].status \in Reported) /\ started' \subseteq Run \X Task
  BY DEF Typed, Orderly
<1>5. \A v \in Worker \ {w} : v \notin stale' =>
        /\ v \notin stale
        /\ worker[v].pc \in {"checkTask", "writeTask"} =>
             task'[worker[v].task] = task[worker[v].task]
  OBVIOUS
<1>6. Linked' /\ NoStaleCompletion'
  BY <1>1 DEF Linked, NoStaleCompletion, Orderly
<1>7. RolledBack'
  BY <1>2, SweptStays DEF RolledBack, Orderly
<1>9. PICK q \in Run : q = me.run
  BY <1>1
<1>10. PICK left : left = me.left \ {d}
  OBVIOUS
<1>11. CASE left = {}
  <2>1. PICK r : r = Finishing(q, "rolled_back")
    OBVIOUS
  <2>2. /\ r \in Local /\ Placed(r) /\ r.pc = "checkRun" /\ r.run = q /\ r.goal = "rolled_back"
    BY <1>1, <2>1, Finishes
  <2>3. Become(w, r)
    BY <1>9, <1>10, <1>11, <2>1 DEF AfterDelete
  <2>4. Cleared(q)' /\ Swept(q)'
    <3>1. Cleared(q)'
      BY <1>3, <1>9, <1>10, <1>11 DEF Cleared
    <3>2. Swept(q)
      BY <1>1, <1>9
    <3> QED BY <1>2, <3>1, <3>2, SweptStays
  <2>5. Tidy(r)' /\ Guarded(r)' /\ Joins(r) /\ Current(r)' /\ Joining(r)'
    BY <2>2, <2>4 DEF Tidy, Guarded, Joins, Current, Joining
  <2> QED BY <1>2, <1>4, <1>5, <1>6, <1>7, <2>2, <2>3, <2>5, Moves
<1>12. CASE left # {}
  <2>1. PICK r : r = [me EXCEPT !.left = left]
    OBVIOUS
  <2>2. /\ r \in Local /\ r.pc = "delete" /\ r.run = q /\ r.left = left
    BY <1>1, <1>9, <1>10, <2>1 DEF Local
  <2>3. Become(w, r)
    BY <1>10, <1>12, <2>1 DEF AfterDelete
  <2>4. \A u \in todo' \ kept' : TodoRun[u] = q => u \in left
    BY <1>3, <1>9, <1>10
  <2>5. Swept(q)'
    <3>1. Swept(q)
      BY <1>1, <1>9
    <3> QED BY <1>2, <3>1, SweptStays
  <2> HIDE DEF me
  <2>6. Placed(r)
    BY <1>1, <1>10, <2>2 DEF Placed
  <2>7. Tidy(r)' /\ Guarded(r)' /\ Joins(r) /\ Current(r)' /\ Joining(r)'
    BY <2>2, <2>4, <2>5 DEF Tidy, Guarded, Joins, Current, Joining
  <2> QED BY <1>2, <1>4, <1>5, <1>6, <1>7, <2>2, <2>3, <2>6, <2>7, Moves
<1> QED BY <1>11, <1>12

LEMMA DeletesTodo ==
  ASSUME Typed, Orderly, NEW w \in Worker, DeleteTodo(w)
  PROVE  Typed' /\ Orderly'
<1>1. PICK d \in worker[w].left :
        /\ At(w, "delete") /\ todo' = todo \ {d} /\ AfterDelete(w, d)
        /\ UNCHANGED <<run, task, started, kept, moved, tied, unread, stale>>
  BY DEF DeleteTodo, history, refusals
<1> QED BY <1>1, Deletes

LEMMA KeepsTodo ==
  ASSUME Typed, Orderly, NEW w \in Worker, DeleteRefused(w)
  PROVE  Typed' /\ Orderly'
<1>1. PICK d \in worker[w].left :
        /\ At(w, "delete") /\ kept' = kept \cup {d} /\ AfterDelete(w, d)
        /\ UNCHANGED <<run, task, started, todo, moved, tied, unread, stale>>
  BY DEF DeleteRefused
<1> QED BY <1>1, Deletes

LEMMA KeepsTask ==
  ASSUME Typed, Orderly, NEW w \in Worker, ResetRefused(w)
  PROVE  Typed' /\ Orderly'
<1> DEFINE me == worker[w]
           x == me.task
<1>1. /\ me \in Local /\ Placed(me) /\ Tidy(me) /\ Guarded(me) /\ me.pc = "reset"
      /\ me.run \in Run /\ me.left \subseteq Task /\ x \in me.left /\ x \in Task
  BY Here DEF Orderly, ResetRefused, At, Placed
<1>2. /\ kept' = kept \cup {x} /\ UNCHANGED <<run, task, started, todo, moved, tied, unread, stale>>
  BY DEF ResetRefused
<1>3. PICK r \in Local :
        /\ Become(w, r) /\ Placed(r) /\ r.run = me.run /\ r.deps = {} /\ r.left = me.left \ {x}
        /\ r.pc = IF r.left = {} THEN "listTodos" ELSE "unlink"
  BY Rests DEF ResetRefused
<1>4. /\ \A t \in Task \ (moved \cup kept) : task[t].owner = me.run => t \in me.left
      /\ \A t \in me.left \ moved :
           /\ task[t].owner \in {NoRun, me.run}
           /\ \A d \in Dependents(t) \ (moved \cup unread) : task[d].owner \in {NoRun, me.run}
  BY <1>1 DEF Tidy, Guarded, Placed
<1> HIDE DEF me, x
<1>5. Loosened
  BY <1>2 DEF Loosened
<1>6. Tidy(r)' /\ Guarded(r)'
  <2>1. \A t \in Task \ (moved' \cup kept') : task'[t].owner = r.run => t \in r.left
    BY <1>2, <1>3, <1>4
  <2>2. r.left = {} => Swept(r.run)'
    BY <2>1 DEF Swept
  <2>3. Tidy(r)'
    BY <1>3, <2>1, <2>2 DEF Tidy
  <2>4. Guarded(r)'
    BY <1>2, <1>3, <1>4 DEF Guarded, Dependents
  <2> QED BY <2>3, <2>4
<1>7. Joins(r) /\ Current(r)' /\ Joining(r)'
  BY <1>3 DEF Joins, Current, Joining
<1>8. /\ run' \in [Run -> RunStatus] /\ task' \in [Task -> Record]
      /\ (\A u \in Task : task'[u].status \in Reported) /\ started' \subseteq Run \X Task
  BY <1>2 DEF Typed, Orderly
<1>9. \A v \in Worker \ {w} : v \notin stale' =>
        /\ v \notin stale
        /\ worker[v].pc \in {"checkTask", "writeTask"} =>
             task'[worker[v].task] = task[worker[v].task]
  BY <1>2
<1>10. Linked' /\ NoStaleCompletion'
  <2>1. x \in moved \cup tied \/ \A q \in Run : <<q, x>> \notin started
    BY <1>1 DEF Tidy, x
  <2> QED BY <1>2, <2>1 DEF Linked, NoStaleCompletion, Orderly
<1>11. RolledBack'
  BY <1>2, <1>5, SweptStays DEF RolledBack, Orderly
<1> QED BY <1>3, <1>5, <1>6, <1>7, <1>8, <1>9, <1>10, <1>11, Moves

LEMMA Refuses ==
  ASSUME Typed, Orderly, NEW w \in Worker, ListRefused(w) \/ StatusRefused(w)
  PROVE  Typed' /\ Orderly'
<1>1. CASE ListRefused(w)
  <2>1. worker[w].run \in Run
    BY <1>1, Here DEF ListRefused, Placed
  <2>2. /\ Become(w, Finishing(worker[w].run, "rollback_failed"))
        /\ UNCHANGED <<run, task, started, todo, moved, kept, tied, unread, stale>>
    BY <1>1 DEF ListRefused, history, refusals
  <2> QED BY <2>1, <2>2, Gives
<1>2. CASE StatusRefused(w)
  <2>1. Become(w, Idle) /\ UNCHANGED <<run, task, started, todo, moved, kept, tied, unread, stale>>
    BY <1>2 DEF StatusRefused
  <2> QED BY <2>1, MovesIdle
<1> QED BY <1>1, <1>2

(* After a crash no goroutine is left, and what is stored is as it was.    *)
LEMMA Crashes ==
  ASSUME Typed, Orderly, Crash
  PROVE  Typed' /\ Orderly'
<1>1. /\ worker' = [w \in Worker |-> Idle]
      /\ UNCHANGED <<run, task, started, todo, moved, kept, tied, unread>>
  BY DEF Crash
<1>2. Typed'
  BY <1>1, IdleIs DEF Typed
<1>3. Linked' /\ RolledBack' /\ NoStaleCompletion' /\ started' \subseteq Run \X Task
        /\ todo' \subseteq Todo
  BY <1>1 DEF Linked, RolledBack, NoStaleCompletion, Orderly, Swept, Cleared
<1>4. PICK r : r = Idle
  OBVIOUS
<1>5. r.pc = "idle"
  BY <1>4, IdleIs
<1>6. Tidy(r)' /\ Guarded(r)' /\ Joins(r) /\ Current(r)' /\ Joining(r)'
  BY <1>5 DEF Tidy, Guarded, Joins, Current, Joining
<1>7. ASSUME NEW w \in Worker
      PROVE  /\ Tidy(worker[w])' /\ Guarded(worker[w])' /\ Joins(worker[w])'
             /\ Current(worker[w])' /\ Joining(worker[w])'
  <2>1. worker'[w] = r
    BY <1>1, <1>4
  <2>2. Tidy(worker[w])' /\ Guarded(worker[w])'
    BY <1>6, <2>1 DEF Tidy, Guarded, Swept, Cleared, Dependents
  <2>3. Joins(worker[w])' /\ Current(worker[w])' /\ Joining(worker[w])'
    BY <1>6, <2>1 DEF Joins, Current, Joining
  <2> QED BY <2>2, <2>3
<1> QED BY <1>2, <1>3, <1>7 DEF Orderly

LEMMA TakesUpdate ==
  ASSUME Typed, Orderly, NEW w \in Worker, NEW t \in Task,
         NEW s \in {"pending", "in_progress", "completed", "failed"}, NEW o \in Run \cup {NoRun},
         ReceiveUpdate(w, t, s, o)
  PROVE  Typed' /\ Orderly'
<1> DEFINE new == [task[t] EXCEPT !.status = s, !.owner = o]
<1>1. /\ Become(w, [Idle EXCEPT !.pc = "checkTask", !.task = t, !.new = new])
      /\ stale' = stale \ {w} /\ UNCHANGED <<run, task, started, todo, moved, kept, tied, unread>>
  BY DEF ReceiveUpdate, refusals
<1>2. /\ new \in Record /\ new.status = s /\ new.done = task[t].done
  BY DEF Typed, Record, TaskStatus
<1> HIDE DEF new
<1>3. PICK r : r = [Idle EXCEPT !.pc = "checkTask", !.task = t, !.new = new]
  OBVIOUS
<1>4. /\ r \in Local /\ r.pc = "checkTask" /\ r.task = t /\ r.new = new
  BY <1>2, <1>3 DEF Idle, Local, PC
<1>5. Placed(r)
  BY <1>2, <1>4 DEF Placed, Reported
<1>6. Tidy(r) /\ Guarded(r) /\ Joins(r) /\ Current(r) /\ Joining(r)
  BY <1>2, <1>4 DEF Tidy, Guarded, Joins, Current, Joining
<1> QED BY <1>1, <1>3, <1>4, <1>5, <1>6, MovesQuietly

LEMMA ChecksTask ==
  ASSUME Typed, Orderly, NEW w \in Worker, CheckTask(w)
  PROVE  Typed' /\ Orderly'
<1> DEFINE me == worker[w]
           current == task[me.task]
           on == IF current.owner = NoRun THEN me.new.owner ELSE NoRun
           may == current.status = me.new.status \/ TaskCanTransition(current.status, me.new.status)
           there == [me EXCEPT !.pc = "writeTask", !.run = on]
<1>1. /\ me \in Local /\ Placed(me) /\ me.pc = "checkTask" /\ me.task \in Task
      /\ me.new.status \in Reported /\ me.new \in Record
      /\ w \notin stale => Current(me)
  BY Here DEF Orderly, CheckTask, At, Placed, Local
<1>2. /\ Become(w, IF may THEN there ELSE Idle)
      /\ UNCHANGED <<run, task, started, todo, moved, kept, tied, unread, stale>>
  BY DEF CheckTask, history, refusals
<1>3. current \in Record /\ on \in Run \cup {NoRun}
  BY <1>1 DEF Typed, Record
<1>4. /\ on # NoRun => me.new.owner = on /\ current.owner = NoRun
  OBVIOUS
<1> HIDE DEF on
<1>5. /\ there \in Local /\ there.pc = "writeTask" /\ there.run = on /\ there.task = me.task
      /\ there.new = me.new
  BY <1>1, <1>3 DEF Local, PC
<1>6. CASE may
  <2>1. PICK r : r = there
    OBVIOUS
  <2>2. Become(w, r)
    BY <1>2, <1>6, <2>1
  <2>3. Joins(r) /\ Joining(r)
    BY <1>4, <1>5, <2>1 DEF Joins, Joining
  <2>4. w \notin stale => Current(r)
    BY <1>1, <1>5, <1>6, <2>1 DEF Current
  <2> HIDE DEF me, there, current, may
  <2>5. Placed(r) /\ Tidy(r) /\ Guarded(r)
    BY <1>1, <1>5, <2>1 DEF Placed, Tidy, Guarded
  <2> QED BY <1>2, <1>5, <2>1, <2>2, <2>3, <2>4, <2>5, MovesQuietly
<1>7. CASE ~may
  BY <1>2, <1>7, MovesIdle
<1> QED BY <1>6, <1>7

(* A task that is written from what is still so stays what it was.         *)
LEMMA Writes ==
  ASSUME Typed, Orderly, NEW w \in Worker, WriteTask(w)
  PROVE  Typed' /\ Orderly'
<1> DEFINE me == worker[w]
           x == me.task
           done == me.new.done \/ me.new.status \in TerminalTask \/ task[x].done
           new == [me.new EXCEPT !.done = done]
           there == [me EXCEPT !.pc = "link"]
<1>1. /\ me \in Local /\ Placed(me) /\ me.pc = "writeTask" /\ x \in Task
      /\ me.new.status \in Reported /\ me.new \in Record /\ me.run \in Run \cup {NoRun}
      /\ Joins(me) /\ (w \notin stale => Current(me) /\ Joining(me))
  BY Here DEF Orderly, WriteTask, At, Placed, Local
<1>2. /\ task' = [task EXCEPT ![x] = new]
      /\ moved' = IF w \in stale \/ me.new.owner # task[x].owner THEN moved \cup {x} ELSE moved
      /\ stale' = (stale \cup Updating(x)) \ {w}
      /\ Become(w, IF me.run = NoRun THEN Idle ELSE there)
      /\ UNCHANGED <<run, started, todo, kept, tied, unread>>
  BY DEF WriteTask, refusals
<1>3. task[x] \in Record /\ task[x].done \in BOOLEAN
  BY <1>1 DEF Typed, Record
<1>4. /\ new \in Record /\ new.status = me.new.status /\ new.owner = me.new.owner /\ new.done = done
  BY <1>1, <1>3 DEF Record
<1>5. Updating(x) = {v \in Worker : worker[v].task = x
        /\ worker[v].pc \in {"checkTask", "writeTask"}}
  BY DEF Updating
<1>6. x \notin moved' => new.owner = task[x].owner /\ w \notin stale
  BY <1>2, <1>4
<1>7. x \notin moved' /\ new.status = "pending" => task[x].status = "pending"
        /\ new.done = task[x].done
  <2>1. ~TaskCanTransition(task[x].status, "pending")
    BY <1>1 DEF Typed, Reported, TaskCanTransition, TaskTransitions
  <2>2. "pending" \notin TerminalTask
    BY DEF TerminalTask
  <2>3. ASSUME w \notin stale, new.status = "pending"
        PROVE  task[x].status = "pending" /\ me.new.done = task[x].done
    BY <1>1, <1>4, <2>1, <2>3 DEF Current
  <2>4. x \notin moved' /\ new.status = "pending" => done = task[x].done
    BY <1>3, <1>4, <1>6, <2>2, <2>3
  <2> QED BY <1>4, <1>6, <2>3, <2>4
<1>8. me.run # NoRun => x \in moved'
  BY <1>1, <1>2 DEF Joins, Joining
<1> HIDE DEF new, done
<1>9. /\ task' \in [Task -> Record] /\ task'[x] = new
      /\ \A t \in Task \ {x} : task'[t] = task[t]
  BY <1>1, <1>2, <1>4 DEF Typed
<1>10. \A t \in Task : task'[t].status \in Reported
  BY <1>1, <1>4, <1>9 DEF Typed
<1>11. moved \subseteq moved'
  BY <1>2
<1>12. Loosened
  BY <1>2, <1>6, <1>9, <1>11 DEF Loosened
<1>13. PICK r : r = IF me.run = NoRun THEN Idle ELSE there
  OBVIOUS
<1>14. Become(w, r)
  BY <1>2, <1>13
<1>15. /\ there \in Local /\ there.pc = "link" /\ there.task = x /\ there.run = me.run
  BY <1>1 DEF Local, PC
<1>16. /\ r \in Local /\ Placed(r) /\ r.pc \in {"idle", "link"} /\ (r.pc = "link"
            => r.task \in moved')
  <2>1. me.run # NoRun => Placed(there)
    BY <1>1, <1>15 DEF Placed
  <2> HIDE DEF there, me
  <2> QED BY <1>8, <1>13, <1>15, <2>1, IdleIs
<1>17. Tidy(r)' /\ Guarded(r)' /\ Joins(r) /\ Current(r)' /\ Joining(r)'
  BY <1>16 DEF Tidy, Guarded, Joins, Current, Joining
<1> HIDE DEF me, x
<1>18. \A v \in Worker \ {w} : v \notin stale' =>
        /\ v \notin stale
        /\ worker[v].pc \in {"checkTask", "writeTask"} =>
             task'[worker[v].task] = task[worker[v].task]
  <2> SUFFICES ASSUME NEW v \in Worker \ {w}, v \notin stale', worker[v].pc \in {"checkTask",
                      "writeTask"}
               PROVE  task'[worker[v].task] = task[worker[v].task]
    BY <1>2
  <2>1. worker[v].task \in Task /\ worker[v].task # x
    BY <1>2, <1>5, Here DEF Placed
  <2> QED BY <1>9, <2>1
<1>19. Linked'
  BY <1>2, <1>6, <1>9, <1>11 DEF Linked, Orderly
<1>20. RolledBack'
  BY <1>2, <1>12, SweptStays DEF RolledBack, Orderly
<1>21. NoStaleCompletion'
  BY <1>7, <1>9, <1>11 DEF NoStaleCompletion, Orderly
<1>22. run' \in [Run -> RunStatus] /\ started' \subseteq Run \X Task
  BY <1>2 DEF Typed, Orderly
<1> QED BY <1>9, <1>10, <1>12, <1>14, <1>16, <1>17, <1>18, <1>19, <1>20, <1>21, <1>22, Moves

LEMMA Links ==
  ASSUME Typed, Orderly, NEW w \in Worker, LinkTaskToRun(w)
  PROVE  Typed' /\ Orderly'
<1> DEFINE me == worker[w]
<1>1. me.run \in Run /\ me.task \in Task /\ me.task \in moved
  BY Here DEF Orderly, LinkTaskToRun, At, Placed, Tidy
<1>2. /\ started' = started \cup {<<me.run, me.task>>} /\ Become(w, Idle)
      /\ UNCHANGED <<run, task, todo, moved, kept, tied, unread, stale>>
  BY DEF LinkTaskToRun, history, refusals
<1>3. PICK q \in Run, t \in Task : q = me.run /\ t = me.task
  BY <1>1
<1>4. started' = started \cup {<<q, t>>} /\ t \in moved
  BY <1>1, <1>2, <1>3
<1> HIDE DEF me
<1>5. Loosened
  BY <1>2, <1>4 DEF Loosened
<1>6. PICK r : r = Idle
  OBVIOUS
<1>7. r \in Local /\ Placed(r) /\ r.pc = "idle" /\ Become(w, r)
  BY <1>2, <1>6, IdleIs
<1>8. Tidy(r)' /\ Guarded(r)' /\ Joins(r) /\ Current(r)' /\ Joining(r)'
  BY <1>7 DEF Tidy, Guarded, Joins, Current, Joining
<1>9. /\ run' \in [Run -> RunStatus] /\ task' \in [Task -> Record]
      /\ (\A u \in Task : task'[u].status \in Reported) /\ started' \subseteq Run \X Task
  BY <1>2, <1>4 DEF Typed, Orderly
<1>10. \A v \in Worker \ {w} : v \notin stale' =>
        /\ v \notin stale
        /\ worker[v].pc \in {"checkTask", "writeTask"} =>
             task'[worker[v].task] = task[worker[v].task]
  BY <1>2
<1>11. Linked'
  BY <1>2, <1>4 DEF Linked, Orderly
<1>12. NoStaleCompletion' /\ RolledBack'
  BY <1>2, <1>5, SweptStays DEF NoStaleCompletion, RolledBack, Orderly
<1> QED BY <1>5, <1>7, <1>8, <1>9, <1>10, <1>11, <1>12, Moves

LEMMA Stutters ==
  ASSUME Typed, Orderly, UNCHANGED vars
  PROVE  Typed' /\ Orderly'
BY DEF vars, history, refusals, Typed, Orderly, Tidy, Guarded, Joins, Current, Joining, Linked, RolledBack,
       NoStaleCompletion, Swept, Cleared, Dependents

LEMMA Stays ==
  ASSUME Typed, Orderly, [Next]_vars
  PROVE  Typed' /\ Orderly'
<1>1. ASSUME NEW w \in Worker, Step(w) PROVE Typed' /\ Orderly'
  BY <1>1, ChecksRun, WritesRun, Lists, Guards, Unlinks, Resets, ListsTodos, DeletesTodo,
    ChecksTask,
     Writes, Links DEF Step
<1> QED
  BY <1>1, Receives, TakesUpdate, GuardsWithout, Unlinks, KeepsTask, KeepsTodo, Refuses, Crashes,
     Stutters DEF Next

LEMMA Begins ==
  ASSUME Init
  PROVE  Typed /\ Orderly
<1>1. /\ run \in [Run -> {"failed", "completed"}]
      /\ task \in [Task -> {r \in Record : r.status \in {"in_progress", "failed"}
                                           /\ r.done = (r.status = "failed")}]
      /\ \A t \in Task : task[t].owner = Owner[t]
      /\ started = {e \in Run \X Task : e[1] = Owner[e[2]]}
      /\ todo = Todo /\ kept = {} /\ worker = [w \in Worker |-> Idle]
  BY DEF Init
<1>2. run \in [Run -> RunStatus] /\ \A q \in Run : run[q] # "rolled_back"
  BY <1>1 DEF RunStatus
<1>3. task \in [Task -> Record] /\ \A t \in Task : task[t].status \in {"in_progress", "failed"}
  BY <1>1
<1>4. Typed
  BY <1>1, <1>2, <1>3, IdleIs DEF Typed, Reported
<1>5. Linked /\ RolledBack /\ NoStaleCompletion /\ started \subseteq Run \X Task
  BY <1>1, <1>2, <1>3 DEF Linked, RolledBack, NoStaleCompletion
<1> QED BY <1>1, <1>4, <1>5, ToIdle DEF Orderly

LEMMA Always == Spec => [](Typed /\ Orderly)
<1>1. Init => Typed /\ Orderly
  BY Begins
<1>2. Typed /\ Orderly /\ [Next]_vars => (Typed /\ Orderly)'
  BY Stays
<1> QED BY <1>1, <1>2, PTL DEF Spec

(* A rolled back run has left nothing behind, but for exactly what the     *)
(* store refused to reset, unlink or delete and the tasks an update on its *)
(* way has put back (DeleteWorkflowRunArtifacts).                          *)
THEOREM LeavesNothing == Spec => []NothingLeft
<1>1. Orderly => NothingLeft
  <2> SUFFICES ASSUME Orderly, NEW r \in Run, run[r] = "rolled_back"
               PROVE  /\ \A t \in Task \ (moved \cup kept) : task[t].owner # r
                      /\ \A t \in Task \ (moved \cup tied) : <<r, t>> \notin started
                      /\ \A d \in todo \ kept : TodoRun[d] # r
    BY DEF NothingLeft
  <2>1. Swept(r) /\ Cleared(r) /\ Linked
    BY DEF Orderly, RolledBack
  <2> QED BY <2>1 DEF Swept, Cleared, Linked
<1> QED BY <1>1, Always, PTL

(* A pending task has no completed_at (the reset bypasses                  *)
(* taskToProperties), unless a stale record was written over it.           *)
THEOREM CompletionIsFresh == Spec => []NoStaleCompletion
<1>1. Orderly => NoStaleCompletion
  BY DEF Orderly
<1> QED BY <1>1, Always, PTL

(* A rollback takes no task away that a task of another run depends on     *)
(* (ErrForeignRunDependency), unless that one came there on the way or the *)
(* store refused to read it.                                               *)
THEOREM KeepsShared == Spec => SharedKept
<1> DEFINE Taken == \A t \in Task :
       task[t].owner # NoRun /\ task'[t].owner = NoRun /\ t \notin moved' =>
         \A d \in {u \in Task : t \in DependsOn[u]} \ (moved \cup unread) :
           task[d].owner \in {NoRun, task[t].owner}
<1>1. ASSUME Typed, Orderly, [Next]_vars PROVE Taken
  <2> SUFFICES ASSUME NEW t \in Task, task[t].owner # NoRun, task'[t].owner = NoRun,
                      t \notin moved',
                      NEW d \in {u \in Task : t \in DependsOn[u]} \ (moved \cup unread)
               PROVE  task[d].owner \in {NoRun, task[t].owner}
    OBVIOUS
  <2>1. CASE \E w \in Worker : ResetTask(w)
    <3>1. PICK w \in Worker : ResetTask(w)
      BY <2>1
    <3> DEFINE me == worker[w]
    <3>2. /\ me.pc = "reset" /\ Placed(me) /\ Guarded(me) /\ moved' = moved
          /\ task' = [task EXCEPT ![me.task] = Blank]
      <4>1. Placed(me) /\ Guarded(me)
        BY <1>1, <3>1, Here DEF Orderly
      <4>2. me.pc = "reset" /\ moved' = moved /\ task' = [task EXCEPT ![me.task] = Blank]
        BY <3>1 DEF ResetTask, At
      <4> QED BY <4>1, <4>2
    <3>3. t = me.task
      BY <3>2 DEF Typed
    <3> HIDE DEF me
    <3>4. t \in me.left \ moved /\ me.deps = {} /\ d \in Dependents(t) \ (moved \cup unread)
      BY <3>2, <3>3 DEF Placed, Dependents
    <3>5. /\ task[t].owner \in {NoRun, me.run} /\ task[d].owner \in {NoRun, me.run}
      BY <3>2, <3>4 DEF Guarded
    <3> QED BY <3>5
  <2>2. CASE \E w \in Worker : WriteTask(w)
    <3>1. PICK w \in Worker : WriteTask(w)
      BY <2>2
    <3> DEFINE me == worker[w]
               done == me.new.done \/ me.new.status \in TerminalTask \/ task[me.task].done
    <3>2. /\ me.pc = "writeTask" /\ me \in Local /\ Placed(me)
          /\ task' = [task EXCEPT ![me.task] = [me.new EXCEPT !.done = done]]
          /\ moved' = IF w \in stale \/ me.new.owner # task[me.task].owner THEN moved \cup {me.task}
                      ELSE moved
      BY <3>1, Here DEF WriteTask, At
    <3>3. t = me.task
      BY <3>2 DEF Typed
    <3>4. me.new \in Record
      BY <3>2 DEF Local
    <3> HIDE DEF done
    <3>5. task'[t].owner = me.new.owner
      BY <3>2, <3>3, <3>4 DEF Typed, Record
    <3> QED BY <3>2, <3>3, <3>5
  <2>3. CASE task' = task
    BY <2>3
  <2>4. ASSUME ~\E w \in Worker : ResetTask(w), ~\E w \in Worker : WriteTask(w)
        PROVE  task' = task
    BY <1>1, <2>4 DEF Next, Step, vars, CheckRun, WriteRun, ListTasks, Guard, Unlink, ListTodos,
      DeleteTodo,
         CheckTask, LinkTaskToRun, ReceiveRollback, ReceiveUpdate, GuardRefused, UnlinkRefused,
         ResetRefused, DeleteRefused,
         ListRefused, StatusRefused, Crash, history, refusals
  <2> QED BY <2>1, <2>2, <2>3, <2>4
<1>2. Typed /\ Orderly /\ [Next]_vars => [Taken]_vars
  BY <1>1
<1> QED BY <1>2, Always, PTL DEF Spec, SharedKept
=============================================================================
