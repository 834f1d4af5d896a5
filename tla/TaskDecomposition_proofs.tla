----------------------- MODULE TaskDecomposition_proofs -----------------------
(***************************************************************************)
(* Proofs about TaskDecomposition for any plans, goroutines and bounds.    *)
(* The cascades go by ordinality, so what holds of every plan is said by   *)
(* number: a todo is sent once, for each number it depends on, some todo   *)
(* of that number was done, and fails with no report of its own once some  *)
(* todo whose number it depends on failed.  What the comments promise of   *)
(* one plan follows where no two todos of the task share a number.  The    *)
(* second half is about one plan nobody interferes with, phase by phase:   *)
(* its roll-ups complete the parent last, and it forgets no todo.          *)
(*                                                                         *)
(* The last part is about EntityRecord, one stored entity of any kind, for *)
(* any workers, values and number of calls.  Nothing here composes it with *)
(* TaskDecomposition.                                                      *)
(*   Guarded says what the transition check of UpdateTask is worth until   *)
(* its write: while no other write came between, the stored status still   *)
(* admits the one to be written; the writers that check nothing are left   *)
(* out.  An entity of another kind has one status throughout.              *)
(*   Faithful says what a call in progress holds of the field followed:    *)
(* what is stored, or a read makes of it (a task's tags are the names at   *)
(* its edges), what is to be stored, or nothing it could not be sent.      *)
(***************************************************************************)
EXTENDS TaskDecomposition, EntityRecord, TLAPS

USE ShapeAssumption

Fields == {"pc", "todo", "left", "seen", "ready", "picked", "bad", "open", "goal", "then"}

DoneAt(o, done) == \E u \in Todo : u \in done /\ OrdOf[u] = o
FailedAt(o, failed) == \E u \in Todo : u \in failed /\ OrdOf[u] = o
MayStart(t, done) == \A o \in DependsOn[t] : DoneAt(o, done)
MustFail(t, failed) == \E o \in DependsOn[t] : FailedAt(o, failed)

(* What the locals of a goroutine are worth, whatever happened since: the  *)
(* statuses it has seen, the todos it is about to send, and the numbers it *)
(* fails the dependents of.                                                *)
SeenOf(r, done) ==
  /\ DOMAIN r.seen = Ord
  /\ \A o \in Ord : r.seen[o] \in TodoDone => DoneAt(o, done)

ReadyOf(r, done) ==
  r.pc = "dispatch" =>
    /\ \A t \in r.ready \cap Todo : MayStart(t, done)
    /\ r.picked # NoTodo => r.picked \in Todo /\ MayStart(r.picked, done)

CascadeOf(r, failed) ==
  /\ r.pc \in {"listForCascade", "skip"} => r.todo \in Todo
  /\ r.pc = "listForCascade" => r.todo \in failed /\ r.picked = NoTodo
  /\ r.pc = "cascade" =>
       /\ \A p \in r.left : FailedAt(p[1], failed)
       /\ r.picked # NoTodo => r.picked \in Todo /\ MustFail(r.picked, failed)

Sound(r, done, failed) ==
  DOMAIN r = Fields /\ SeenOf(r, done) /\ ReadyOf(r, done) /\ CascadeOf(r, failed)

(* A todo is sent once each number it depends on was done by some todo.    *)
SentByNumber == sent \subseteq Todo /\ \A t \in sent : MayStart(t, everDone)

(* A todo that fails without a report depends on a number that failed.     *)
FailedByNumber ==
  everFailed \subseteq Todo /\ \A t \in everFailed \ reported : MustFail(t, everFailed)

Careful ==
  /\ DOMAIN worker = Worker /\ DOMAIN status = Todo
  /\ \A t \in Todo : status[t] \in TodoDone => t \in everDone
  /\ \A w \in Worker : Sound(worker[w], everDone, everFailed)
  /\ SentByNumber
  /\ FailedByNumber

-----------------------------------------------------------------------------
LEMMA Grows ==
  ASSUME NEW done, NEW failed, NEW done2, NEW failed2, NEW r, Sound(r, done, failed),
         done \subseteq done2, failed \subseteq failed2
  PROVE  Sound(r, done2, failed2)
<1>1. \A o : /\ DoneAt(o, done) => DoneAt(o, done2)
             /\ FailedAt(o, failed) => FailedAt(o, failed2)
  BY DEF DoneAt, FailedAt
<1>2. \A t : /\ MayStart(t, done) => MayStart(t, done2)
             /\ MustFail(t, failed) => MustFail(t, failed2)
  BY <1>1 DEF MayStart, MustFail
<1> QED BY <1>1, <1>2 DEF Sound, SeenOf, ReadyOf, CascadeOf

(* Outside the dispatch and the cascades only the seen statuses matter.    *)
LEMMA PlainSound ==
  ASSUME NEW r, NEW done, NEW failed, DOMAIN r = Fields, SeenOf(r, done),
         r.pc \notin {"dispatch", "listForCascade", "cascade", "skip"}
  PROVE  Sound(r, done, failed)
BY DEF Sound, ReadyOf, CascadeOf

LEMMA IdleSeen ==
  ASSUME NEW r, NEW done, r.seen = Idle.seen
  PROVE  SeenOf(r, done)
BY DEF SeenOf, Idle, TodoDone

LEMMA IdleSound == \A done, failed : Sound(Idle, done, failed)
<1>1. DOMAIN Idle = Fields /\ Idle.pc = "idle"
  BY DEF Idle, Fields
<1> QED BY <1>1, IdleSeen, PlainSound

LEMMA GotoShape ==
  ASSUME NEW pc, NEW then
  PROVE  /\ DOMAIN Goto(pc, then) = Fields /\ Goto(pc, then).pc = pc
         /\ Goto(pc, then).then = then /\ Goto(pc, then).seen = Idle.seen
         /\ Goto(pc, then).picked = NoTodo
BY DEF Goto, Idle, Fields

LEMMA GotoSound ==
  ASSUME NEW pc, NEW then, NEW done, NEW failed,
         pc \notin {"dispatch", "listForCascade", "cascade", "skip"}
  PROVE  Sound(Goto(pc, then), done, failed)
BY GotoShape, IdleSeen, PlainSound

LEMMA OnwardSound == \A r, done, failed : Sound(Onward(r), done, failed)
BY IdleSound, GotoSound DEF Onward

LEMMA AfterRollUpSound == \A r, done, failed : Sound(AfterRollUp(r), done, failed)
<1> DEFINE g == [Goto("checkTask", "stop") EXCEPT !.goal = "in_progress"]
<1>1. DOMAIN g = Fields /\ g.pc = "checkTask" /\ g.seen = Idle.seen
  BY GotoShape DEF Fields
<1>2. \A done, failed : Sound(g, done, failed)
  <2> HIDE DEF g
  <2> QED BY <1>1, IdleSeen, PlainSound
<1> QED BY <1>2, IdleSound DEF AfterRollUp

(* A step of one goroutine that writes at most one todo and sends at most  *)
(* one: what it must respect for the invariant to survive.                 *)
LEMMA OneStep ==
  ASSUME Careful, NEW w \in Worker, NEW r, Become(w, r),
         Sound(r, everDone', everFailed'), reported \subseteq reported',
         \/ UNCHANGED <<status, everDone, everFailed>>
         \/ \E t \in Todo : \E s :
              /\ SetStatus(t, s)
              /\ s = "failed" => t \in reported' \/ MustFail(t, everFailed),
         \/ UNCHANGED sent
         \/ \E t \in Todo : MayStart(t, everDone) /\ sent' = sent \cup {t}
  PROVE  Careful'
<1>1. /\ DOMAIN worker' = Worker /\ worker'[w] = r
      /\ \A v \in Worker \ {w} : worker'[v] = worker[v]
  BY DEF Careful, Become
<1>2. everDone \subseteq everDone' /\ everFailed \subseteq everFailed'
  BY DEF SetStatus
<1>3. \A v \in Worker : Sound(worker[v], everDone, everFailed)'
  <2> SUFFICES ASSUME NEW v \in Worker
               PROVE  Sound(worker'[v], everDone', everFailed')
    BY DEF Sound, SeenOf, ReadyOf, CascadeOf, MayStart, MustFail, DoneAt, FailedAt
  <2>1. Sound(worker[v], everDone, everFailed)
    BY DEF Careful
  <2> QED BY <1>1, <1>2, <2>1, Grows
<1>4. /\ DOMAIN status' = Todo
      /\ \A t \in Todo : status'[t] \in TodoDone => t \in everDone'
  BY DEF Careful, SetStatus
<1>5. SentByNumber'
  BY <1>2 DEF Careful, SentByNumber, MayStart, DoneAt
<1>6. FailedByNumber'
  <2>1. \A t : MustFail(t, everFailed) => MustFail(t, everFailed')
    BY <1>2 DEF MustFail, FailedAt
  <2>2. everFailed' \subseteq Todo
        /\ \A t \in everFailed' : t \in everFailed \/ t \in reported' \/ MustFail(t, everFailed)
    BY DEF Careful, FailedByNumber, SetStatus
  <2>3. \A t \in everFailed' \ reported' : MustFail(t, everFailed')
    BY <2>1, <2>2 DEF Careful, FailedByNumber
  <2> QED BY <2>2, <2>3 DEF FailedByNumber, MustFail, FailedAt
<1> QED BY <1>1, <1>3, <1>4, <1>5, <1>6 DEF Careful

LEMMA Here ==
  ASSUME Careful, NEW w \in Worker
  PROVE  Sound(worker[w], everDone, everFailed)
BY DEF Careful

(* A step that only reads, and goes on to what is neither a dispatch nor a *)
(* cascade.                                                                *)
LEMMA Reads ==
  ASSUME Careful, NEW w \in Worker, NEW r, Become(w, r), Sound(r, everDone, everFailed),
         UNCHANGED <<status, everDone, everFailed, sent, reported>>
  PROVE  Careful'
BY OneStep

-----------------------------------------------------------------------------
(* The end of a todo, written and then cascaded.                           *)
LEMMA EndStep ==
  ASSUME Careful, NEW w \in Worker, NEW t \in Todo, NEW s, NEW then, EndTodo(w, t, s, then),
         UNCHANGED sent, reported \subseteq reported', s = "failed" => t \in reported'
  PROVE  Careful'
<1> DEFINE pc == IF s = "failed" THEN "listForCascade" ELSE "listForUnblock"
           r == [Goto(pc, then) EXCEPT !.todo = t]
<1>1. Become(w, r) /\ SetStatus(t, s)
  BY DEF EndTodo
<1>2. DOMAIN r = Fields /\ r.pc = pc /\ r.todo = t /\ r.seen = Idle.seen /\ r.picked = NoTodo
  BY GotoShape DEF Fields
<1>3. s = "failed" => t \in everFailed'
  BY <1>1 DEF SetStatus
<1>4. pc \in {"listForCascade", "listForUnblock"} /\ (pc = "listForCascade" => s = "failed")
  OBVIOUS
<1> HIDE DEF r, pc
<1>5. Sound(r, everDone', everFailed')
  BY <1>2, <1>3, <1>4, IdleSeen DEF Sound, ReadyOf, CascadeOf
<1> QED BY <1>1, <1>5, OneStep

LEMMA StartedStep ==
  ASSUME Careful, NEW t \in Todo, ReceiveStarted(t)
  PROVE  Careful'
<1>1. /\ everDone' = everDone /\ everFailed' = everFailed
      /\ status' = [status EXCEPT ![t] = "dispatched"]
      /\ UNCHANGED <<worker, sent, reported>>
  BY DEF ReceiveStarted, SetStatus, TodoDone
<1>2. /\ DOMAIN status' = Todo
      /\ \A u \in Todo : status'[u] \in TodoDone => u \in everDone'
  BY <1>1 DEF Careful, TodoDone
<1> QED BY <1>1, <1>2 DEF Careful, Sound, SeenOf, ReadyOf, CascadeOf, MayStart, MustFail,
                          DoneAt, FailedAt, SentByNumber, FailedByNumber

LEMMA OutcomeStep ==
  ASSUME Careful, NEW w \in Worker, NEW t \in Todo, NEW s,
         ReceiveOutcome(w, t, s) \/ OperatorCall(w, t, s)
  PROVE  Careful'
<1>1. /\ EndTodo(w, t, s, "rollUp") /\ UNCHANGED sent
      /\ reported' = IF s = "failed" THEN reported \cup {t} ELSE reported
  BY DEF ReceiveOutcome, OperatorCall
<1> QED BY <1>1, EndStep

LEMMA SkipTodoStep ==
  ASSUME Careful, NEW w \in Worker, SkipTodo(w)
  PROVE  Careful'
<1>1. /\ EndTodo(w, worker[w].todo, "skipped", "reopen")
      /\ UNCHANGED <<sent, reported>> /\ worker[w].pc = "skip"
  BY DEF SkipTodo, At
<1>2. worker[w].todo \in Todo
  BY <1>1, Here DEF Sound, CascadeOf
<1> QED BY <1>1, <1>2, EndStep

(* The events that start a goroutine on something other than a todo.       *)
LEMMA BeginStep ==
  ASSUME Careful, NEW w \in Worker, NEW option,
         ReceivePlan(w) \/ ReceivePlanner(w) \/ ReceiveDirection(w, option)
  PROVE  Careful'
<1> DEFINE c == [Goto("create", "stop") EXCEPT !.left = Items(made + 1)]
           p == [Goto("checkTask", "planner") EXCEPT !.goal = "completed"]
           d == [Goto("checkTask", "replan") EXCEPT !.goal = "in_progress"]
           k == Goto("listForSkip", "reopen")
<1>1. /\ \/ Become(w, c) \/ Become(w, p) \/ Become(w, d) \/ Become(w, k) \/ UNCHANGED worker
      /\ UNCHANGED <<status, everDone, everFailed, sent, reported>>
  BY DEF ReceivePlan, ReceivePlanner, ReceiveDirection, history
<1>2. /\ DOMAIN c = Fields /\ c.pc = "create" /\ c.seen = Idle.seen
      /\ DOMAIN p = Fields /\ p.pc = "checkTask" /\ p.seen = Idle.seen
      /\ DOMAIN d = Fields /\ d.pc = "checkTask" /\ d.seen = Idle.seen
  BY GotoShape DEF Fields
<1>3. Sound(k, everDone, everFailed)
  BY GotoSound
<1> HIDE DEF c, p, d, k
<1>4. /\ Sound(c, everDone, everFailed) /\ Sound(p, everDone, everFailed)
      /\ Sound(d, everDone, everFailed)
  BY <1>2, IdleSeen, PlainSound
<1>5. CASE UNCHANGED worker
  BY <1>1, <1>5 DEF Careful, Sound, SeenOf, ReadyOf, CascadeOf, MayStart, MustFail,
                    DoneAt, FailedAt, SentByNumber, FailedByNumber
<1> QED BY <1>1, <1>3, <1>4, <1>5, Reads

LEMMA CreateStep ==
  ASSUME Careful, NEW w \in Worker, NEW t \in Todo, Create(w, t)
  PROVE  Careful'
<1> DEFINE r == worker[w]
           roots == {u \in Items(DecompOf[t]) : DependsOn[u] = {}}
           left == r.left \ {t}
           n == [r EXCEPT !.left = left]
           d == [Goto("dispatch", "stop") EXCEPT !.ready = roots]
<1>1. /\ Become(w, n) \/ Become(w, Idle) \/ Become(w, d)
      /\ SetStatus(t, CreateTaskTodo(t)) /\ UNCHANGED <<sent, reported>> /\ r.pc = "create"
  BY DEF Create, At
<1>2. CreateTaskTodo(t) \in {"pending", "blocked"}
  BY DEF CreateTaskTodo
<1>3. Sound(r, everDone, everFailed)
  BY Here
<1>4. \A u \in roots : MayStart(u, everDone')
  BY DEF Items, MayStart
<1>5. DOMAIN n = Fields /\ n.pc = r.pc /\ n.seen = r.seen
  BY <1>3 DEF Sound, Fields
<1>6. DOMAIN d = Fields /\ d.pc = "dispatch" /\ d.seen = Idle.seen /\ d.ready = roots
      /\ d.picked = NoTodo
  BY GotoShape DEF Fields
<1>7. everDone' = everDone /\ everFailed' = everFailed
  BY <1>1, <1>2 DEF SetStatus, TodoDone
<1> HIDE DEF n, d, r, roots, left
<1>8. Sound(n, everDone', everFailed')
  BY <1>1, <1>3, <1>5, <1>7, PlainSound DEF Sound, SeenOf
<1>9. Sound(d, everDone', everFailed')
  BY <1>4, <1>6, IdleSeen DEF Sound, ReadyOf, CascadeOf
<1> QED BY <1>1, <1>2, <1>8, <1>9, IdleSound, OneStep

(* The publication, and on to the next todo that is ready.                 *)
LEMMA DispatchedStep ==
  ASSUME Careful, NEW w \in Worker, NEW t \in Todo, Dispatched(w, t), MayStart(t, everDone),
         worker[w].pc = "dispatch", UNCHANGED reported,
         \/ UNCHANGED <<status, everDone, everFailed>>
         \/ SetStatus(t, "pending")
  PROVE  Careful'
<1> DEFINE r == worker[w]
           ready == r.ready \ {t}
           rest == [r EXCEPT !.ready = ready, !.picked = NoTodo]
<1>1. /\ Become(w, Onward(rest)) \/ Become(w, rest)
      /\ sent' = sent \cup {t}
  BY DEF Dispatched, Publish
<1>2. Sound(r, everDone, everFailed)
  BY Here
<1>3. everDone' = everDone /\ everFailed' = everFailed
  BY DEF SetStatus, TodoDone
<1>4. /\ DOMAIN rest = Fields /\ rest.pc = r.pc /\ rest.seen = r.seen
      /\ rest.ready = ready /\ rest.picked = NoTodo
  BY <1>2 DEF Sound, Fields
<1>5. ready \subseteq r.ready
  OBVIOUS
<1> HIDE DEF rest, ready, r
<1>6. Sound(rest, everDone', everFailed')
  BY <1>2, <1>3, <1>4, <1>5 DEF Sound, SeenOf, ReadyOf, CascadeOf, r
<1> QED BY <1>1, <1>6, OnwardSound, OneStep

LEMMA DispatchStep ==
  ASSUME Careful, NEW w \in Worker, NEW t \in Todo, DispatchTaskTodo(w, t)
  PROVE  Careful'
<1> DEFINE r == worker[w]
           n == [r EXCEPT !.picked = t]
<1>1. /\ r.pc = "dispatch" /\ t \in r.ready
      /\ UNCHANGED <<status, everDone, everFailed, reported>>
  BY DEF DispatchTaskTodo, At
<1>2. Sound(r, everDone, everFailed)
  BY Here
<1>3. MayStart(t, everDone)
  BY <1>1, <1>2 DEF Sound, ReadyOf
<1>4. CASE Dispatched(w, t)
  BY <1>1, <1>3, <1>4, DispatchedStep
<1>5. CASE Become(w, n) /\ UNCHANGED sent
  <2>1. /\ DOMAIN n = Fields /\ n.pc = r.pc /\ n.seen = r.seen /\ n.ready = r.ready
        /\ n.picked = t
    BY <1>2 DEF Sound, Fields
  <2> HIDE DEF n, r
  <2>2. Sound(n, everDone, everFailed)
    BY <1>1, <1>2, <1>3, <2>1 DEF Sound, SeenOf, ReadyOf, CascadeOf
  <2> QED BY <1>1, <1>5, <2>2, Reads
<1> QED BY <1>4, <1>5 DEF DispatchTaskTodo

LEMMA DispatchUnblockStep ==
  ASSUME Careful, NEW w \in Worker, DispatchUnblock(w)
  PROVE  Careful'
<1> DEFINE t == worker[w].picked
<1>1. /\ worker[w].pc = "dispatch" /\ t # NoTodo /\ UNCHANGED reported
      /\ SetStatus(t, "pending") /\ Dispatched(w, t)
  BY DEF DispatchUnblock, At
<1>2. t \in Todo /\ MayStart(t, everDone)
  BY <1>1, Here DEF Sound, ReadyOf
<1> QED BY <1>1, <1>2, DispatchedStep

LEMMA UnblockStep ==
  ASSUME Careful, NEW w \in Worker, NEW t \in Todo, Unblock(w, t)
  PROVE  Careful'
<1> DEFINE r == worker[w]
           seen == [r.seen EXCEPT ![OrdOf[t]] = status[t]]
           cand == IF status[t] = "blocked" /\ OrdOf[r.todo] \in DependsOn[t]
                   THEN r.ready \cup {t} ELSE r.ready
           pick == {u \in cand : AllDependenciesDone(u, seen)}
           left == r.left \ {t}
           n == [r EXCEPT !.left = left, !.seen = seen, !.ready = cand]
           d == [Goto("dispatch", r.then) EXCEPT !.ready = pick]
<1>1. /\ Become(w, n) \/ Become(w, Onward(r)) \/ Become(w, d)
      /\ r.pc = "unblock"
      /\ UNCHANGED <<status, everDone, everFailed, sent, reported>>
  BY DEF Unblock, At, history
<1>2. Sound(r, everDone, everFailed)
  BY Here
<1>3. /\ DOMAIN seen = Ord
      /\ \A o \in Ord : seen[o] \in TodoDone => DoneAt(o, everDone)
  BY <1>2 DEF Careful, Sound, SeenOf, DoneAt
<1>4. \A u \in pick \cap Todo : MayStart(u, everDone)
  BY <1>3 DEF AllDependenciesDone, MayStart
<1> HIDE DEF seen, pick, left
<1>5. DOMAIN n = Fields /\ n.pc = r.pc /\ n.seen = seen
  BY <1>2 DEF Sound, Fields
<1>6. DOMAIN d = Fields /\ d.pc = "dispatch" /\ d.seen = Idle.seen /\ d.ready = pick
      /\ d.picked = NoTodo
  BY GotoShape DEF Fields
<1> HIDE DEF n, d, r, cand
<1>7. Sound(n, everDone, everFailed)
  BY <1>1, <1>3, <1>5, PlainSound DEF SeenOf
<1>8. Sound(d, everDone, everFailed)
  BY <1>4, <1>6, IdleSeen DEF Sound, ReadyOf, CascadeOf
<1> QED BY <1>1, <1>7, <1>8, OnwardSound, Reads

LEMMA ListForCascadeStep ==
  ASSUME Careful, NEW w \in Worker, ListForCascade(w)
  PROVE  Careful'
<1> DEFINE r == worker[w]
           left == {OrdOf[r.todo]} \X Linked
           n == [r EXCEPT !.pc = "cascade", !.left = left]
<1>1. /\ Become(w, n) /\ r.pc = "listForCascade"
      /\ UNCHANGED <<status, everDone, everFailed, sent, reported>>
  BY DEF ListForCascade, At, history
<1>2. Sound(r, everDone, everFailed) /\ r.todo \in Todo /\ r.todo \in everFailed
  BY <1>1, Here DEF Sound, CascadeOf
<1>3. \A p \in left : FailedAt(p[1], everFailed)
  BY <1>2 DEF FailedAt
<1>4. /\ DOMAIN n = Fields /\ n.pc = "cascade" /\ n.left = left /\ n.seen = r.seen
      /\ n.picked = r.picked
  BY <1>2 DEF Sound, Fields
<1>5. r.picked = NoTodo
  BY <1>1, <1>2 DEF Sound, CascadeOf
<1> HIDE DEF n, r, left
<1>6. Sound(n, everDone, everFailed)
  BY <1>2, <1>3, <1>4, <1>5 DEF Sound, SeenOf, ReadyOf, CascadeOf
<1> QED BY <1>1, <1>6, Reads

LEMMA CascadeStep ==
  ASSUME Careful, NEW w \in Worker, NEW o \in Ord, NEW t \in Todo, Cascade(w, o, t)
  PROVE  Careful'
<1> DEFINE r == worker[w]
           left == r.left \ {<<o, t>>}
           rest == [r EXCEPT !.left = left]
           n == [rest EXCEPT !.picked = t]
<1>1. /\ \/ o \in DependsOn[t] /\ Become(w, n)
         \/ Become(w, Onward(r))
         \/ Become(w, rest)
      /\ r.pc = "cascade" /\ r.picked = NoTodo /\ <<o, t>> \in r.left
      /\ UNCHANGED <<status, everDone, everFailed, sent, reported>>
  BY DEF Cascade, At, history
<1>2. Sound(r, everDone, everFailed) /\ \A p \in r.left : FailedAt(p[1], everFailed)
  BY <1>1, Here DEF Sound, CascadeOf
<1>3. FailedAt(o, everFailed)
  BY <1>1, <1>2
<1>4. \A p \in left : FailedAt(p[1], everFailed)
  BY <1>2
<1> HIDE DEF left
<1>5. /\ DOMAIN rest = Fields /\ rest.pc = r.pc /\ rest.left = left /\ rest.seen = r.seen
      /\ rest.picked = r.picked
  BY <1>2 DEF Sound, Fields
<1> HIDE DEF rest
<1>6. /\ DOMAIN n = Fields /\ n.pc = r.pc /\ n.left = left /\ n.seen = r.seen
      /\ n.picked = t
  BY <1>5 DEF Fields
<1> HIDE DEF n, r
<1>7. Sound(rest, everDone, everFailed)
  BY <1>1, <1>2, <1>4, <1>5 DEF Sound, SeenOf, ReadyOf, CascadeOf
<1>8. ASSUME o \in DependsOn[t]
      PROVE  Sound(n, everDone, everFailed)
  <2>1. MustFail(t, everFailed)
    BY <1>3, <1>8 DEF MustFail
  <2> QED BY <1>1, <1>2, <1>4, <1>6, <2>1 DEF Sound, SeenOf, ReadyOf, CascadeOf
<1> QED BY <1>1, <1>7, <1>8, OnwardSound, Reads

LEMMA CascadeFailStep ==
  ASSUME Careful, NEW w \in Worker, CascadeFail(w)
  PROVE  Careful'
<1> DEFINE r == worker[w]
           t == r.picked
           more == {OrdOf[t]} \X Linked
           left == r.left \cup more
           n == [r EXCEPT !.picked = NoTodo, !.left = left]
<1>1. /\ Become(w, n) /\ r.pc = "cascade" /\ t # NoTodo /\ SetStatus(t, "failed")
      /\ UNCHANGED <<sent, reported>>
  BY DEF CascadeFail, At
<1>2. /\ Sound(r, everDone, everFailed) /\ t \in Todo /\ MustFail(t, everFailed)
      /\ \A p \in r.left : FailedAt(p[1], everFailed)
  BY <1>1, Here DEF Sound, CascadeOf
<1>3. everDone' = everDone /\ everFailed' = everFailed \cup {t}
  BY <1>1 DEF SetStatus, TodoDone
<1>4. \A p \in left : FailedAt(p[1], everFailed')
  <2>1. \A p \in more : p[1] = OrdOf[t]
    OBVIOUS
  <2> HIDE DEF more
  <2> QED BY <1>2, <1>3, <2>1 DEF FailedAt
<1> HIDE DEF left
<1>5. DOMAIN n = Fields /\ n.pc = r.pc /\ n.left = left /\ n.seen = r.seen /\ n.picked = NoTodo
  BY <1>2 DEF Sound, Fields
<1> HIDE DEF n, r, t
<1>6. Sound(n, everDone', everFailed')
  BY <1>1, <1>2, <1>3, <1>4, <1>5 DEF Sound, SeenOf, ReadyOf, CascadeOf
<1> QED BY <1>1, <1>2, <1>6, OneStep

(* Lists and reads that go on with the same goroutine.                     *)
LEMMA ListStep ==
  ASSUME Careful, NEW w \in Worker,
         ListForUnblock(w) \/ ListForRollUp(w) \/ ListForSkip(w)
  PROVE  Careful'
<1> DEFINE r == worker[w]
           latest == CHOOSE d \in {DecompOf[t] : t \in Linked} :
                       \A t \in Linked : DecompOf[t] <= d
           these == Items(latest) \cap Linked
           u == [r EXCEPT !.pc = "unblock", !.left = Linked]
           p == [r EXCEPT !.pc = "rollUp", !.left = these]
           k == [r EXCEPT !.pc = "findFailed", !.left = Linked]
<1>1. /\ Become(w, u) \/ Become(w, p) \/ Become(w, k)
      /\ UNCHANGED <<status, everDone, everFailed, sent, reported>>
  BY DEF ListForUnblock, ListForRollUp, ListForSkip, At, history
<1>2. Sound(r, everDone, everFailed)
  BY Here
<1> HIDE DEF these
<1>3. /\ DOMAIN u = Fields /\ u.pc = "unblock" /\ u.seen = r.seen
      /\ DOMAIN p = Fields /\ p.pc = "rollUp" /\ p.seen = r.seen
      /\ DOMAIN k = Fields /\ k.pc = "findFailed" /\ k.seen = r.seen
  BY <1>2 DEF Sound, Fields
<1> HIDE DEF r, u, p, k
<1>4. SeenOf(u, everDone) /\ SeenOf(p, everDone) /\ SeenOf(k, everDone)
  BY <1>2, <1>3 DEF Sound, SeenOf
<1>5. /\ Sound(u, everDone, everFailed) /\ Sound(p, everDone, everFailed)
      /\ Sound(k, everDone, everFailed)
  BY <1>3, <1>4, PlainSound
<1> QED BY <1>1, <1>5, Reads

LEMMA RollUpStep ==
  ASSUME Careful, NEW w \in Worker, NEW t \in Todo, RollUp(w, t)
  PROVE  Careful'
<1> DEFINE r == worker[w]
           open == r.open \/ StillOpen(status[t])
           bad == r.bad \/ status[t] \in {"failed", "blocked"}
           left == r.left \ {t}
           goal == IF bad THEN "failed" ELSE "completed"
           n == [r EXCEPT !.left = left, !.open = open, !.bad = bad]
           d == [Goto("readTask", r.then) EXCEPT !.goal = goal]
<1>1. /\ Become(w, n) \/ Become(w, AfterRollUp(r)) \/ Become(w, d)
      /\ r.pc = "rollUp" /\ UNCHANGED <<status, everDone, everFailed, sent, reported>>
  BY DEF RollUp, At, history
<1>2. Sound(r, everDone, everFailed)
  BY Here
<1> HIDE DEF open, bad, left, goal
<1>3. DOMAIN n = Fields /\ n.pc = r.pc /\ n.seen = r.seen
  BY <1>2 DEF Sound, Fields
<1>4. DOMAIN d = Fields /\ d.pc = "readTask" /\ d.seen = Idle.seen
  BY GotoShape DEF Fields
<1> HIDE DEF r, n, d
<1>5. SeenOf(n, everDone) /\ SeenOf(d, everDone)
  BY <1>2, <1>3, <1>4, IdleSeen DEF Sound, SeenOf
<1>6. Sound(n, everDone, everFailed) /\ Sound(d, everDone, everFailed)
  BY <1>1, <1>3, <1>4, <1>5, PlainSound
<1> QED BY <1>1, <1>6, AfterRollUpSound, Reads

LEMMA TaskStep ==
  ASSUME Careful, NEW w \in Worker, ReadTask(w) \/ CheckTask(w) \/ WriteTask(w)
  PROVE  Careful'
<1> DEFINE r == worker[w]
           c == [r EXCEPT !.pc = "checkTask"]
           t == [r EXCEPT !.pc = "writeTask"]
<1>1. /\ Become(w, AfterRollUp(r)) \/ Become(w, c) \/ Become(w, t)
      /\ UNCHANGED <<status, everDone, everFailed, sent, reported>>
  BY DEF ReadTask, CheckTask, WriteTask, At, history
<1>2. Sound(r, everDone, everFailed)
  BY Here
<1>3. /\ DOMAIN c = Fields /\ c.pc = "checkTask" /\ c.seen = r.seen
      /\ DOMAIN t = Fields /\ t.pc = "writeTask" /\ t.seen = r.seen
  BY <1>2 DEF Sound, Fields
<1> HIDE DEF r, c, t
<1>4. SeenOf(c, everDone) /\ SeenOf(t, everDone)
  BY <1>2, <1>3 DEF Sound, SeenOf
<1>5. Sound(c, everDone, everFailed) /\ Sound(t, everDone, everFailed)
  BY <1>3, <1>4, PlainSound
<1> QED BY <1>1, <1>5, AfterRollUpSound, Reads

LEMMA FindFailedStep ==
  ASSUME Careful, NEW w \in Worker, NEW t \in Todo, FindFailed(w, t)
  PROVE  Careful'
<1> DEFINE r == worker[w]
           left == r.left \ {t}
           n == [r EXCEPT !.left = left]
           k == [Goto("skip", "reopen") EXCEPT !.todo = t]
<1>1. /\ Become(w, k) \/ Become(w, Idle) \/ Become(w, n)
      /\ r.pc = "findFailed" /\ UNCHANGED <<status, everDone, everFailed, sent, reported>>
  BY DEF FindFailed, At, history
<1>2. Sound(r, everDone, everFailed)
  BY Here
<1> HIDE DEF left
<1>3. DOMAIN n = Fields /\ n.pc = r.pc /\ n.seen = r.seen
  BY <1>2 DEF Sound, Fields
<1>4. DOMAIN k = Fields /\ k.pc = "skip" /\ k.seen = Idle.seen /\ k.todo = t
  BY GotoShape DEF Fields
<1> HIDE DEF r, n, k
<1>5. Sound(n, everDone, everFailed)
  BY <1>1, <1>2, <1>3, PlainSound DEF Sound, SeenOf
<1>6. Sound(k, everDone, everFailed)
  BY <1>4, IdleSeen DEF Sound, ReadyOf, CascadeOf
<1> QED BY <1>1, <1>5, <1>6, IdleSound, Reads

-----------------------------------------------------------------------------
LEMMA CarefulStep ==
  ASSUME Careful, [Next]_vars
  PROVE  Careful'
<1>1. ASSUME NEW t \in Todo, ReceiveStarted(t)
      PROVE  Careful'
  BY <1>1, StartedStep
<1>2. ASSUME NEW w \in Worker, Work(w)
      PROVE  Careful'
  BY <1>2, CreateStep, DispatchStep, UnblockStep, CascadeStep, RollUpStep, FindFailedStep,
     DispatchUnblockStep, ListStep, ListForCascadeStep, CascadeFailStep, TaskStep, SkipTodoStep
     DEF Work
<1>3. ASSUME NEW w \in Worker, NEW t \in Todo, NEW s,
             ReceiveOutcome(w, t, s) \/ OperatorCall(w, t, s)
      PROVE  Careful'
  BY <1>3, OutcomeStep
<1>4. ASSUME NEW w \in Worker, NEW option,
             ReceivePlan(w) \/ ReceivePlanner(w) \/ ReceiveDirection(w, option)
      PROVE  Careful'
  BY <1>4, BeginStep
<1>5. CASE UNCHANGED vars
  BY <1>5 DEF vars, Careful, Sound, SeenOf, ReadyOf, CascadeOf, MayStart, MustFail,
              DoneAt, FailedAt, SentByNumber, FailedByNumber
<1> QED BY <1>1, <1>2, <1>3, <1>4, <1>5 DEF Next

LEMMA CarefulInit == Init => Careful
<1> SUFFICES ASSUME Init
             PROVE  Careful
  OBVIOUS
<1>1. \A w \in Worker : Sound(worker[w], everDone, everFailed)
  BY IdleSound DEF Init
<1>2. SentByNumber /\ FailedByNumber
  BY DEF Init, SentByNumber, FailedByNumber
<1> QED BY <1>1, <1>2 DEF Init, Careful, TodoDone

(* What all plans of a task get together, whatever their numbering: an     *)
(* agent is sent to a todo only after its dependencies' numbers were done, *)
(* and the cascade fails only todos that depend on a number that failed.   *)
THEOREM ByNumber == Spec => []CascadesByNumber
<1>1. Careful => CascadesByNumber
  <2> SUFFICES ASSUME Careful
               PROVE  CascadesByNumber
    OBVIOUS
  <2>1. \A t \in sent : \A o \in DependsOn[t] : \E u \in everDone : OrdOf[u] = o
    BY DEF Careful, SentByNumber, MayStart, DoneAt
  <2>2. \A t \in everFailed \ reported : \E u \in everFailed : OrdOf[u] \in DependsOn[t]
    BY DEF Careful, FailedByNumber, MustFail, FailedAt
  <2> QED BY <2>1, <2>2 DEF CascadesByNumber
<1> QED BY <1>1, CarefulInit, CarefulStep, PTL DEF Spec

(* If no two todos of the task share a number, nothing is dispatched       *)
(* before its dependencies were completed or skipped.                      *)
THEOREM DispatchedInOrder ==
  ASSUME \A t, u \in Todo : OrdOf[t] = OrdOf[u] => t = u
  PROVE  Spec => []DispatchedAfterDependencies
<1>1. Careful => DispatchedAfterDependencies
  <2> SUFFICES ASSUME Careful, NEW t \in sent, NEW u \in DepsOf(t)
               PROVE  u \in everDone
    BY DEF DispatchedAfterDependencies
  <2>1. u \in Todo /\ t \in Todo /\ OrdOf[u] \in DependsOn[t]
    BY DEF DepsOf, Careful, SentByNumber
  <2>2. DoneAt(OrdOf[u], everDone)
    BY <2>1 DEF Careful, SentByNumber, MayStart
  <2> QED BY <2>1, <2>2 DEF DoneAt
<1> QED BY <1>1, CarefulInit, CarefulStep, PTL DEF Spec

-----------------------------------------------------------------------------
(* One plan, left to itself: nobody calls an RPC or gives a direction.     *)
Undisturbed == MaxOperator = 0 /\ MaxDirection = 0

Plan == Items(1)
Needs(t, u) == OrdOf[u] \in DependsOn[t]

(* The numbers of the plan tell its todos apart, and a todo depends only   *)
(* on numbers the plan has.                                                *)
Numbered ==
  /\ \A t, u \in Plan : OrdOf[t] = OrdOf[u] => t = u
  /\ \A t \in Plan : \A o \in DependsOn[t] : \E u \in Plan : OrdOf[u] = o

NothingSent == starts = [t \in Todo |-> 0] /\ outcomes = [t \in Todo |-> 0]

(* The planner's own completion, which may be handled while the todos are  *)
(* being created.                                                          *)
Claims(r) == r.pc \in {"checkTask", "writeTask"} /\ r.then = "planner"

(* A roll-up, not the planner, completed the parent: every todo was done.  *)
CompletedLate == parent = "completed" /\ ~premature => Plan \subseteq everDone

(* Before the plan, *)
Unplanned ==
  /\ plans = 1 /\ planners = 0 /\ made = 0 /\ NothingSent /\ parent # "completed"
  /\ \A t \in Todo : status[t] = "none"
  /\ \A w \in Worker : worker[w] = Idle

(* while one goroutine creates its todos and nobody else is awake but for  *)
(* the planner's completion,                                               *)
Laying(w) ==
  /\ plans = 0 /\ made = 1 /\ NothingSent /\ (parent = "completed" => premature)
  /\ worker[w].pc = "create" /\ worker[w].left \subseteq Plan
  /\ \A v \in Worker \ {w} : worker[v] = Idle \/ Claims(worker[v])
  /\ \A t \in Todo : IF t \in Plan \ worker[w].left THEN status[t] = CreateTaskTodo(t)
                     ELSE status[t] = "none"

(* and once all of them exist.  What a goroutine then carries: todos of    *)
(* the plan only, and a verdict "completed" once every todo was done.      *)
LaidPC == {"idle", "dispatch", "listForUnblock", "unblock", "listForCascade", "cascade",
           "listForRollUp", "rollUp", "readTask", "checkTask", "writeTask"}

Fine(r, done) ==
  /\ r.pc \in LaidPC /\ r.then \in {"stop", "rollUp", "planner"}
  /\ r.pc \in {"listForUnblock", "unblock", "listForCascade"} => r.todo \in Plan
  /\ r.pc \in {"listForUnblock", "unblock", "dispatch"} => r.ready \subseteq Plan
  /\ r.pc \in {"dispatch", "cascade"} /\ r.picked # NoTodo => r.picked \in Plan
  /\ r.pc = "unblock" => r.left \subseteq Plan
  /\ r.pc = "cascade" => r.left \subseteq Ord \X Plan
  /\ r.pc = "listForRollUp" => r.bad = FALSE /\ r.open = FALSE
  /\ r.pc = "rollUp" => /\ r.bad \in BOOLEAN /\ r.open \in BOOLEAN
                        /\ ~r.bad /\ ~r.open => Plan \ r.left \subseteq done
  /\ /\ r.pc \in {"readTask", "checkTask", "writeTask"}
     /\ r.goal = "completed" /\ r.then # "planner"
     => Plan \subseteq done

Laid ==
  /\ plans = 0 /\ made = 1 /\ Plan # {}
  /\ starts \in [Todo -> Nat] /\ outcomes \in [Todo -> Nat]
  /\ \A t \in Todo : IF t \in Plan THEN status[t] \in TodoStatus
                     ELSE status[t] = "none" /\ starts[t] = 0 /\ outcomes[t] = 0
  /\ CompletedLate
  /\ \A w \in Worker : Fine(worker[w], everDone)

(* A goroutine still on its way to fail t because u failed, and one still  *)
(* on its way to find that t may start.                                    *)
Failing(r, u, t) ==
  \/ r.pc = "listForCascade" /\ r.todo = u
  \/ r.pc = "cascade" /\ (<<OrdOf[u], t>> \in r.left \/ r.picked = t)

Waking(r, t) ==
  \/ r.pc = "listForUnblock" /\ Needs(t, r.todo)
  \/ /\ r.pc = "unblock" /\ Needs(t, r.todo) /\ t \in r.left \cup r.ready
     /\ \A u \in Plan : Needs(t, u) => u \in r.left \/ r.seen[OrdOf[u]] \in TodoDone
  \/ r.pc = "dispatch" /\ t \in r.ready

AllDone(t) == \A u \in Plan : Needs(t, u) => status[u] \in TodoDone

FailureHandled ==
  \A t, u \in Plan : status[t] = "blocked" /\ status[u] = "failed" /\ Needs(t, u) =>
    \E w \in Worker : Failing(worker[w], u, t)

EndHandled ==
  \A t \in Plan : status[t] = "blocked" /\ AllDone(t) =>
    \E w \in Worker : Waking(worker[w], t)

Watched == Laid /\ FailureHandled /\ (Numbered => EndHandled)

OnePlan ==
  /\ operator = 0 /\ direction = 0
  /\ Unplanned \/ (\E w \in Worker : Laying(w)) \/ Watched

-----------------------------------------------------------------------------
LEMMA GotoRest ==
  ASSUME NEW pc, NEW then
  PROVE  /\ Goto(pc, then).todo = NoTodo /\ Goto(pc, then).ready = {}
         /\ Goto(pc, then).left = {} /\ Goto(pc, then).goal = "none"
         /\ Goto(pc, then).bad = FALSE /\ Goto(pc, then).open = FALSE
BY DEF Goto, Idle

LEMMA IdleFine == \A done : Fine(Idle, done)
<1>1. Idle.pc = "idle" /\ Idle.then = "stop"
  BY DEF Idle
<1> QED BY <1>1 DEF Fine, LaidPC

LEMMA OnwardFine ==
  ASSUME NEW r, r.then \in {"stop", "rollUp", "planner"}
  PROVE  \A done : Fine(Onward(r), done)
<1> DEFINE g == Goto("listForRollUp", r.then)
<1>1. g.pc = "listForRollUp" /\ g.then = r.then /\ g.bad = FALSE /\ g.open = FALSE
  BY DEF Goto, Idle
<1> HIDE DEF g
<1>2. \A done : Fine(g, done)
  BY <1>1 DEF Fine, LaidPC
<1> QED BY <1>2, IdleFine DEF Onward, g

LEMMA AfterRollUpFine ==
  ASSUME NEW r, r.then \in {"stop", "rollUp", "planner"}
  PROVE  AfterRollUp(r) = Idle
BY DEF AfterRollUp

LEMMA FineGrows ==
  ASSUME NEW r, NEW done, NEW done2, Fine(r, done), done \subseteq done2
  PROVE  Fine(r, done2)
BY DEF Fine

(* A step of one goroutine once the plan is laid, that writes at most one  *)
(* todo: what it must not drop, and what it must take on.                  *)
LEMMA Turn ==
  ASSUME Watched, Careful, NEW w \in Worker, NEW r, Become(w, r), Fine(r, everDone'),
         UNCHANGED <<plans, made>>,
         starts' \in [Todo -> Nat], outcomes' \in [Todo -> Nat],
         \A t \in Todo \ Plan : starts'[t] = 0 /\ outcomes'[t] = 0,
         CompletedLate',
         \/ UNCHANGED <<status, everDone>>
         \/ \E t \in Plan, s \in TodoStatus \ {"blocked"} : SetStatus(t, s),
         \A t, u \in Plan :
           Failing(worker[w], u, t) /\ Needs(t, u) /\ status'[t] = "blocked" => Failing(r, u, t),
         \A t, u \in Plan :
           /\ status'[u] = "failed" /\ status[u] # "failed"
           /\ Needs(t, u) /\ status'[t] = "blocked"
           => Failing(r, u, t),
         Numbered => \A t \in Plan :
           Waking(worker[w], t) /\ AllDone(t) /\ status'[t] = "blocked" => Waking(r, t),
         \A t, u \in Plan :
           /\ status'[u] \in TodoDone /\ status[u] \notin TodoDone
           /\ Needs(t, u) /\ status'[t] = "blocked"
           => Waking(r, t)
  PROVE  Watched'
<1>1. /\ worker'[w] = r /\ \A v \in Worker \ {w} : worker'[v] = worker[v]
  BY DEF Careful, Become
<1>2. everDone \subseteq everDone'
  BY DEF SetStatus
<1>3. Plan \subseteq Todo
  BY DEF Plan, Items
<1>4. /\ \A t \in Todo : IF t \in Plan THEN status'[t] \in TodoStatus ELSE status'[t] = "none"
      /\ \A t \in Plan : status'[t] = "blocked" => status[t] = "blocked"
  BY <1>3 DEF Careful, SetStatus, Watched, Laid
<1>5. \A v \in Worker : Fine(worker'[v], everDone')
  BY <1>1, <1>2, FineGrows DEF Watched, Laid
<1>6. Laid'
  BY <1>3, <1>4, <1>5 DEF Watched, Laid, Plan, Items, Fine, LaidPC
<1>7. FailureHandled'
  <2> SUFFICES ASSUME NEW t \in Plan, NEW u \in Plan,
                      status'[t] = "blocked", status'[u] = "failed", Needs(t, u)
               PROVE  \E v \in Worker : Failing(worker'[v], u, t)
    BY DEF FailureHandled, Failing, Needs, Plan, Items
  <2>1. CASE status[u] # "failed"
    BY <1>1, <2>1
  <2>2. CASE status[u] = "failed"
    <3>1. PICK v \in Worker : Failing(worker[v], u, t)
      BY <1>4, <2>2 DEF Watched, FailureHandled
    <3> QED BY <1>1, <3>1
  <2> QED BY <2>1, <2>2
<1>8. ASSUME Numbered
      PROVE  EndHandled'
  <2> SUFFICES ASSUME NEW t \in Plan, status'[t] = "blocked",
                      \A u \in Plan : Needs(t, u) => status'[u] \in TodoDone
               PROVE  \E v \in Worker : Waking(worker'[v], t)
    BY DEF EndHandled, Waking, AllDone, Needs, Plan, Items
  <2>1. CASE AllDone(t)
    <3>1. PICK v \in Worker : Waking(worker[v], t)
      BY <1>4, <1>8, <2>1 DEF Watched, EndHandled
    <3> QED BY <1>1, <1>8, <2>1, <3>1
  <2>2. CASE ~AllDone(t)
    <3>1. PICK u \in Plan : Needs(t, u) /\ status[u] \notin TodoDone
      BY <2>2 DEF AllDone
    <3> QED BY <1>1, <3>1
  <2> QED BY <2>1, <2>2
<1>9. Numbered' <=> Numbered
  BY DEF Numbered, Plan, Items
<1> QED BY <1>6, <1>7, <1>8, <1>9 DEF Watched

(* A step of one goroutine that writes nothing others can see.             *)
LEMMA ReadTurn ==
  ASSUME Watched, Careful, NEW w \in Worker, NEW r, Become(w, r), Fine(r, everDone),
         UNCHANGED <<status, parent, premature, starts, outcomes, plans, made, everDone>>,
         \A t, u \in Plan :
           Failing(worker[w], u, t) /\ Needs(t, u) /\ status[t] = "blocked" => Failing(r, u, t),
         Numbered => \A t \in Plan :
           Waking(worker[w], t) /\ AllDone(t) /\ status[t] = "blocked" => Waking(r, t)
  PROVE  Watched'
<1>1. /\ starts' \in [Todo -> Nat] /\ outcomes' \in [Todo -> Nat]
      /\ \A t \in Todo \ Plan : starts'[t] = 0 /\ outcomes'[t] = 0
      /\ CompletedLate'
  BY DEF Watched, Laid, CompletedLate, Plan, Items
<1>2. Fine(r, everDone') /\ status' = status
  OBVIOUS
<1> QED BY <1>1, <1>2, Turn

-----------------------------------------------------------------------------
(* Once the plan is laid, one lemma per action.                            *)
LEMMA There ==
  ASSUME Watched, Careful, NEW w \in Worker
  PROVE  /\ Fine(worker[w], everDone) /\ DOMAIN worker[w] = Fields
         /\ DOMAIN worker[w].seen = Ord /\ Plan \subseteq Todo
BY DEF Watched, Laid, Careful, Sound, SeenOf, Plan, Items

LEMMA PlanLinked ==
  ASSUME Watched
  PROVE  Linked = Plan /\ Linked # {}
BY DEF Watched, Laid, Linked, Plan, Items, TodoStatus

(* task.started: no goroutine is involved.                                 *)
LEMMA LaidStarted ==
  ASSUME Watched, Careful, NEW t \in Todo, ReceiveStarted(t)
  PROVE  Watched'
<1>1. /\ starts[t] > 0 /\ starts' = [starts EXCEPT ![t] = @ - 1]
      /\ outcomes' = [outcomes EXCEPT ![t] = @ + 1] \/ outcomes' = outcomes
      /\ status' = [status EXCEPT ![t] = "dispatched"] /\ everDone' = everDone
      /\ UNCHANGED <<parent, premature, worker, plans, made>>
  BY DEF ReceiveStarted, SetStatus, arrivals, TodoDone
<1>2. t \in Plan
  BY <1>1 DEF Watched, Laid
<1>3. starts[t] \in Nat /\ outcomes[t] \in Nat
  BY DEF Watched, Laid
<1>4. /\ starts' \in [Todo -> Nat] /\ outcomes' \in [Todo -> Nat]
      /\ \A u \in Todo \ Plan : starts'[u] = 0 /\ outcomes'[u] = 0
  BY <1>1, <1>2, <1>3 DEF Watched, Laid
<1>5. /\ \A u \in Todo : u # t => status'[u] = status[u]
      /\ status'[t] = "dispatched"
  BY <1>1 DEF Careful
<1>6. \A u \in Todo : IF u \in Plan THEN status'[u] \in TodoStatus ELSE status'[u] = "none"
  BY <1>2, <1>5 DEF Watched, Laid, TodoStatus
<1>7. Laid'
  BY <1>1, <1>4, <1>6 DEF Watched, Laid, CompletedLate, Fine, LaidPC, Plan, Items
<1>8. FailureHandled'
  BY <1>1, <1>5 DEF Watched, FailureHandled, Failing, Needs, Plan, Items
<1>9. Numbered => EndHandled'
  <2>1. \A u \in Plan : AllDone(u)' => AllDone(u)
    BY <1>5 DEF AllDone, Needs, Plan, Items, TodoDone
  <2> QED BY <1>1, <1>5, <2>1 DEF Watched, EndHandled, Waking, Needs, Plan, Items
<1>10. Numbered' <=> Numbered
  BY DEF Numbered, Plan, Items
<1> QED BY <1>7, <1>8, <1>9, <1>10 DEF Watched

(* task.completed or task.failed: the goroutine takes the cascade on.      *)
LEMMA LaidOutcome ==
  ASSUME Watched, Careful, NEW w \in Worker, NEW t \in Todo, NEW s \in {"completed", "failed"},
         ReceiveOutcome(w, t, s)
  PROVE  Watched'
<1> DEFINE pc == IF s = "failed" THEN "listForCascade" ELSE "listForUnblock"
           r == [Goto(pc, "rollUp") EXCEPT !.todo = t]
<1>1. /\ worker[w].pc = "idle" /\ outcomes[t] > 0
      /\ outcomes' = [outcomes EXCEPT ![t] = @ - 1]
      /\ SetStatus(t, s) /\ Become(w, r)
      /\ UNCHANGED <<parent, premature, starts, plans, made>>
  BY DEF ReceiveOutcome, EndTodo, At, arrivals
<1>2. t \in Plan /\ outcomes[t] \in Nat
  BY <1>1 DEF Watched, Laid
<1>3. /\ r.pc = pc /\ r.todo = t /\ r.then = "rollUp" /\ r.ready = {}
  BY DEF Goto, Idle
<1>4. pc \in {"listForCascade", "listForUnblock"} /\ (pc = "listForCascade" <=> s = "failed")
  OBVIOUS
<1> HIDE DEF r, pc
<1>5. Fine(r, everDone')
  BY <1>2, <1>3, <1>4 DEF Fine, LaidPC
<1>6. /\ starts' \in [Todo -> Nat] /\ outcomes' \in [Todo -> Nat]
      /\ \A u \in Todo \ Plan : starts'[u] = 0 /\ outcomes'[u] = 0
      /\ CompletedLate'
  BY <1>1, <1>2 DEF Watched, Laid, CompletedLate, SetStatus, Plan, Items
<1>7. \A u, v : ~Failing(worker[w], u, v) /\ ~Waking(worker[w], v)
  BY <1>1 DEF Failing, Waking
<1>8. \A u \in Plan : status'[u] = IF u = t THEN s ELSE status[u]
  BY <1>1, There DEF Careful, SetStatus
<1>9. s \in TodoStatus \ {"blocked"}
  BY DEF TodoStatus
<1>10. \A v, u \in Plan : status'[u] = "failed" /\ status[u] # "failed" => Failing(r, u, v)
  BY <1>3, <1>4, <1>8 DEF Failing
<1>11. \A v, u \in Plan :
         status'[u] \in TodoDone /\ status[u] \notin TodoDone /\ Needs(v, u) => Waking(r, v)
  BY <1>3, <1>4, <1>8 DEF Waking, TodoDone
<1> QED BY <1>1, <1>2, <1>5, <1>6, <1>7, <1>9, <1>10, <1>11, Turn

(* The planner's own completion is left to the todos: there are some.      *)
LEMMA LaidPlanner ==
  ASSUME Watched, NEW w \in Worker, ReceivePlanner(w)
  PROVE  Watched'
<1>1. UNCHANGED <<worker, status, parent, premature, starts, outcomes, plans, made, everDone>>
  BY PlanLinked DEF ReceivePlanner, history
<1> QED BY <1>1 DEF Watched, Laid, CompletedLate, Fine, LaidPC, FailureHandled, EndHandled,
                    Failing, Waking, AllDone, Needs, Numbered, Plan, Items

(* DispatchTaskTodo publishes, and the goroutine goes on to the next.      *)
LEMMA LaidDispatched ==
  ASSUME Watched, Careful, NEW w \in Worker, NEW t \in Plan, Dispatched(w, t),
         worker[w].pc = "dispatch", UNCHANGED <<parent, premature, plans, made>>,
         \/ UNCHANGED <<status, everDone>> /\ status[t] # "blocked"
         \/ SetStatus(t, "pending")
  PROVE  Watched'
<1> DEFINE r == worker[w]
           ready == r.ready \ {t}
           rest == [r EXCEPT !.ready = ready, !.picked = NoTodo]
           n == IF ready = {} THEN Onward(rest) ELSE rest
<1>1. Fine(r, everDone) /\ DOMAIN r = Fields /\ t \in Todo
  BY There
<1>2. /\ rest.pc = "dispatch" /\ rest.ready = ready /\ rest.picked = NoTodo
      /\ rest.then = r.then
  BY <1>1 DEF Fields
<1>3. /\ starts' = [starts EXCEPT ![t] = @ + 1]
      /\ outcomes' = [outcomes EXCEPT ![t] = @ + 1] \/ outcomes' = outcomes
  BY DEF Dispatched, Publish
<1>4. Become(w, n)
  BY <1>2 DEF Dispatched
<1>5. ready \subseteq Plan /\ r.then \in {"stop", "rollUp", "planner"}
  BY <1>1 DEF Fine
<1>6. \A u, v : ~Failing(r, u, v)
  BY DEF Failing
<1>7. \A v : Waking(r, v) => v \in r.ready
  BY DEF Waking
<1> HIDE DEF rest, r
<1>8. \A done : Fine(rest, done)
  BY <1>2, <1>5 DEF Fine, LaidPC
<1>9. \A done : Fine(n, done)
  BY <1>2, <1>5, <1>8, OnwardFine
<1>10. /\ starts' \in [Todo -> Nat] /\ outcomes' \in [Todo -> Nat]
       /\ \A u \in Todo \ Plan : starts'[u] = 0 /\ outcomes'[u] = 0
  BY <1>1, <1>3 DEF Watched, Laid
<1>11. /\ CompletedLate'
       /\ "pending" \in TodoStatus \ {"blocked"}
  BY DEF Watched, Laid, CompletedLate, SetStatus, TodoDone, TodoStatus, Plan, Items
<1>12. /\ status'[t] # "blocked"
       /\ \A u \in Plan : u # t => status'[u] = status[u]
       /\ status'[t] = status[t] \/ status'[t] = "pending"
  BY <1>1 DEF SetStatus, Careful, Plan, Items
<1>13. \A v \in Plan : Waking(r, v) /\ status'[v] = "blocked" => Waking(n, v)
  <2> SUFFICES ASSUME NEW v \in Plan, v \in r.ready, status'[v] = "blocked"
               PROVE  Waking(n, v)
    BY <1>7
  <2>1. v \in ready
    BY <1>12
  <2> QED BY <1>2, <2>1 DEF Waking
<1>14. \A v, u \in Plan : ~(status'[u] = "failed" /\ status[u] # "failed")
  BY <1>12
<1>15. \A v, u \in Plan : ~(status'[u] \in TodoDone /\ status[u] \notin TodoDone)
  BY <1>12 DEF TodoDone
<1> HIDE DEF n
<1> QED BY <1>4, <1>6, <1>9, <1>10, <1>11, <1>13, <1>14, <1>15, Turn DEF r

LEMMA LaidDispatch ==
  ASSUME Watched, Careful, NEW w \in Worker, NEW t \in Todo, DispatchTaskTodo(w, t)
  PROVE  Watched'
<1> DEFINE r == worker[w]
           n == [r EXCEPT !.picked = t]
<1>1. /\ r.pc = "dispatch" /\ t \in r.ready
      /\ UNCHANGED <<status, parent, premature, plans, made, everDone>>
  BY DEF DispatchTaskTodo, At, arrivals
<1>2. Fine(r, everDone) /\ DOMAIN r = Fields /\ t \in Plan
  BY <1>1, There DEF Fine
<1>3. CASE Dispatched(w, t) /\ status[t] # "blocked"
  BY <1>1, <1>2, <1>3, LaidDispatched
<1>4. CASE Become(w, n) /\ UNCHANGED <<starts, outcomes>>
  <2>1. n.pc = "dispatch" /\ n.ready = r.ready /\ n.picked = t /\ n.then = r.then
    BY <1>1, <1>2 DEF Fields
  <2> HIDE DEF n, r
  <2>2. Fine(n, everDone)
    BY <1>1, <1>2, <2>1 DEF Fine, LaidPC
  <2>3. \A u, v : ~Failing(r, u, v) /\ (Waking(r, v) => Waking(n, v))
    BY <1>1, <2>1 DEF Failing, Waking
  <2> QED BY <1>1, <1>4, <2>2, <2>3, ReadTurn DEF r
<1> QED BY <1>3, <1>4 DEF DispatchTaskTodo

LEMMA LaidDispatchUnblock ==
  ASSUME Watched, Careful, NEW w \in Worker, DispatchUnblock(w)
  PROVE  Watched'
<1> DEFINE t == worker[w].picked
<1>1. /\ worker[w].pc = "dispatch" /\ t # NoTodo /\ UNCHANGED <<parent, premature, plans, made>>
      /\ SetStatus(t, "pending") /\ Dispatched(w, t)
  BY DEF DispatchUnblock, At, arrivals
<1>2. t \in Plan
  BY <1>1, There DEF Fine
<1> QED BY <1>1, <1>2, LaidDispatched

LEMMA LaidListForUnblock ==
  ASSUME Watched, Careful, NEW w \in Worker, ListForUnblock(w)
  PROVE  Watched'
<1> DEFINE r == worker[w]
           n == [r EXCEPT !.pc = "unblock", !.left = Linked]
<1>1. /\ r.pc = "listForUnblock" /\ Become(w, n)
      /\ UNCHANGED <<status, parent, premature, starts, outcomes, plans, made, everDone>>
  BY DEF ListForUnblock, At, arrivals, history
<1>2. Fine(r, everDone) /\ DOMAIN r = Fields
  BY There
<1>3. /\ n.pc = "unblock" /\ n.left = Plan /\ n.todo = r.todo /\ n.then = r.then
      /\ n.ready = r.ready /\ n.picked = r.picked
  BY <1>2, PlanLinked DEF Fields
<1> HIDE DEF n, r
<1>4. Fine(n, everDone)
  BY <1>1, <1>2, <1>3 DEF Fine, LaidPC
<1>5. \A u, v : ~Failing(r, u, v)
  BY <1>1 DEF Failing
<1>6. \A v \in Plan : Waking(r, v) => Waking(n, v)
  BY <1>1, <1>3 DEF Waking
<1> QED BY <1>1, <1>4, <1>5, <1>6, ReadTurn DEF r

(* The last of the siblings read: whoever has every dependency done, and   *)
(* was found blocked, is sent.                                             *)
LEMMA LaidUnblock ==
  ASSUME Watched, Careful, NEW w \in Worker, NEW t \in Todo, Unblock(w, t)
  PROVE  Watched'
<1> DEFINE r == worker[w]
           seen == [r.seen EXCEPT ![OrdOf[t]] = status[t]]
           cand == IF status[t] = "blocked" /\ OrdOf[r.todo] \in DependsOn[t]
                   THEN r.ready \cup {t} ELSE r.ready
           pick == {u \in cand : AllDependenciesDone(u, seen)}
           left == r.left \ {t}
           n == [r EXCEPT !.left = left, !.seen = seen, !.ready = cand]
           d == [Goto("dispatch", r.then) EXCEPT !.ready = pick]
           x == IF r.left # {t} THEN n ELSE IF pick = {} THEN Onward(r) ELSE d
<1>1. /\ r.pc = "unblock" /\ t \in r.left /\ Become(w, x)
      /\ UNCHANGED <<status, parent, premature, starts, outcomes, plans, made, everDone>>
  BY DEF Unblock, At, arrivals, history
<1>2. Fine(r, everDone) /\ DOMAIN r = Fields /\ DOMAIN r.seen = Ord /\ Plan \subseteq Todo
  BY There
<1>3. /\ \A o \in Ord : seen[o] = IF o = OrdOf[t] THEN status[t] ELSE r.seen[o]
      /\ t \in Plan
  BY <1>1, <1>2 DEF Fine
<1>4. /\ cand \subseteq Plan /\ pick \subseteq cand /\ r.then \in {"stop", "rollUp", "planner"}
      /\ left \subseteq Plan
  BY <1>1, <1>2, <1>3 DEF Fine
<1>5. \A u : u \in pick <=> u \in cand /\ AllDependenciesDone(u, seen)
  OBVIOUS
<1>6. \A u : u \in cand <=> u \in r.ready \/ (u = t /\ status[t] = "blocked" /\ Needs(t, r.todo))
  BY DEF Needs
<1>7. /\ n.pc = "unblock" /\ n.left = left /\ n.seen = seen /\ n.ready = cand
      /\ n.todo = r.todo /\ n.then = r.then
  BY <1>1, <1>2 DEF Fields
<1>8. d.pc = "dispatch" /\ d.ready = pick /\ d.picked = NoTodo /\ d.then = r.then
  BY DEF Goto, Idle
<1>9. \A u, v : ~Failing(r, u, v)
  BY <1>1 DEF Failing
<1> HIDE DEF seen, cand, pick, n, d
<1>10. Fine(n, everDone)
  BY <1>1, <1>2, <1>4, <1>7 DEF Fine, LaidPC
<1>11. Fine(d, everDone)
  BY <1>4, <1>8 DEF Fine, LaidPC
<1>12. Fine(x, everDone)
  BY <1>4, <1>10, <1>11, OnwardFine
<1>13. ASSUME Numbered, NEW v \in Plan, Waking(r, v), AllDone(v), status[v] = "blocked"
       PROVE  Waking(x, v)
  <2>1. /\ Needs(v, r.todo) /\ v \in r.left \cup r.ready
        /\ \A u \in Plan : Needs(v, u) => u \in r.left \/ r.seen[OrdOf[u]] \in TodoDone
    BY <1>1, <1>13 DEF Waking
  <2>2. v \in left \cup cand
    BY <1>6, <1>13, <2>1
  <2>3. ASSUME NEW u \in Plan, Needs(v, u)
        PROVE  u \in left \/ seen[OrdOf[u]] \in TodoDone
    <3>1. CASE u = t
      BY <1>2, <1>3, <1>13, <2>3, <3>1 DEF AllDone
    <3>2. CASE u # t
      <4>1. OrdOf[u] # OrdOf[t] /\ OrdOf[u] \in Ord
        BY <1>2, <1>3, <1>13, <3>2 DEF Numbered
      <4> QED BY <1>3, <2>1, <2>3, <3>2, <4>1
    <3> QED BY <3>1, <3>2
  <2>4. CASE r.left # {t}
    BY <1>7, <2>1, <2>2, <2>3, <2>4 DEF Waking
  <2>5. CASE r.left = {t}
    <3>1. v \in cand /\ left = {}
      BY <2>2, <2>5
    <3>2. AllDependenciesDone(v, seen)
      BY <1>13, <2>3, <3>1 DEF AllDependenciesDone, Numbered, Needs
    <3>3. v \in pick /\ pick # {}
      BY <1>5, <3>1, <3>2
    <3> QED BY <1>8, <2>5, <3>3 DEF Waking
  <2> QED BY <2>4, <2>5
<1> HIDE DEF x, r
<1> QED BY <1>1, <1>9, <1>12, <1>13, ReadTurn DEF r

LEMMA LaidListForCascade ==
  ASSUME Watched, Careful, NEW w \in Worker, ListForCascade(w)
  PROVE  Watched'
<1> DEFINE r == worker[w]
           left == {OrdOf[r.todo]} \X Linked
           n == [r EXCEPT !.pc = "cascade", !.left = left]
<1>1. /\ r.pc = "listForCascade" /\ Become(w, n)
      /\ UNCHANGED <<status, parent, premature, starts, outcomes, plans, made, everDone>>
  BY DEF ListForCascade, At, arrivals, history
<1>2. /\ Fine(r, everDone) /\ DOMAIN r = Fields /\ Plan \subseteq Todo
      /\ Sound(r, everDone, everFailed)
  BY There, Here
<1>3. r.todo \in Plan /\ OrdOf[r.todo] \in Ord /\ r.picked = NoTodo
  BY <1>1, <1>2 DEF Fine, Sound, CascadeOf
<1>4. left = {OrdOf[r.todo]} \X Plan
  BY PlanLinked
<1>5. left \subseteq Ord \X Plan /\ \A v \in Plan : <<OrdOf[r.todo], v>> \in left
  BY <1>3, <1>4
<1> HIDE DEF left
<1>6. n.pc = "cascade" /\ n.left = left /\ n.picked = r.picked /\ n.then = r.then
  BY <1>2 DEF Fields
<1> HIDE DEF n, r
<1>7. Fine(n, everDone)
  BY <1>1, <1>2, <1>3, <1>5, <1>6 DEF Fine, LaidPC
<1>8. \A u : \A v \in Plan : Failing(r, u, v) => Failing(n, u, v)
  BY <1>1, <1>5, <1>6 DEF Failing
<1>9. \A v : ~Waking(r, v)
  BY <1>1 DEF Waking
<1> QED BY <1>1, <1>7, <1>8, <1>9, ReadTurn DEF r

LEMMA LaidCascade ==
  ASSUME Watched, Careful, NEW w \in Worker, NEW o \in Ord, NEW t \in Todo, Cascade(w, o, t)
  PROVE  Watched'
<1> DEFINE r == worker[w]
           left == r.left \ {<<o, t>>}
           rest == [r EXCEPT !.left = left]
           n == [rest EXCEPT !.picked = t]
           x == IF status[t] = "blocked" /\ o \in DependsOn[t] THEN n
                ELSE IF left = {} THEN Onward(r) ELSE rest
<1>1. DOMAIN r = Fields /\ Fine(r, everDone) /\ Plan \subseteq Todo
  BY There
<1>2. /\ rest.pc = r.pc /\ rest.left = left /\ rest.picked = r.picked /\ rest.then = r.then
      /\ DOMAIN rest = Fields
  BY <1>1 DEF Fields
<1>3. /\ r.pc = "cascade" /\ r.picked = NoTodo /\ <<o, t>> \in r.left /\ Become(w, x)
      /\ UNCHANGED <<status, parent, premature, starts, outcomes, plans, made, everDone>>
  BY <1>2 DEF Cascade, At, arrivals, history
<1>4. r.left \subseteq Ord \X Plan /\ r.then \in {"stop", "rollUp", "planner"}
  BY <1>1, <1>3 DEF Fine
<1>5. t \in Plan /\ left \subseteq Ord \X Plan
  BY <1>3, <1>4
<1>6. \A u, v : <<OrdOf[u], v>> \in r.left => <<OrdOf[u], v>> \in left \/ (v = t /\ OrdOf[u] = o)
  OBVIOUS
<1> HIDE DEF left, rest
<1>7. n.pc = r.pc /\ n.left = left /\ n.picked = t /\ n.then = r.then
  BY <1>2 DEF Fields
<1> HIDE DEF n
<1>8. Fine(n, everDone) /\ Fine(rest, everDone)
  BY <1>2, <1>3, <1>4, <1>5, <1>7 DEF Fine, LaidPC
<1>9. Fine(x, everDone)
  BY <1>4, <1>8, OnwardFine
<1>10. ASSUME NEW v \in Plan, NEW u \in Plan, Failing(r, u, v), Needs(v, u),
              status[v] = "blocked"
       PROVE  Failing(x, u, v)
  <2>1. <<OrdOf[u], v>> \in r.left
    BY <1>1, <1>3, <1>10, NoTodoAssumption DEF Failing
  <2>2. CASE <<OrdOf[u], v>> \in left
    BY <1>2, <1>3, <1>7, <2>2 DEF Failing
  <2>3. CASE v = t /\ OrdOf[u] = o
    BY <1>3, <1>7, <1>10, <2>3 DEF Failing, Needs
  <2> QED BY <1>6, <2>1, <2>2, <2>3
<1>11. \A v : ~Waking(r, v)
  BY <1>3 DEF Waking
<1> HIDE DEF x, r
<1> QED BY <1>3, <1>9, <1>10, <1>11, ReadTurn DEF r

(* One more todo fails: its own dependents are now on the list.            *)
LEMMA LaidCascadeFail ==
  ASSUME Watched, Careful, NEW w \in Worker, CascadeFail(w)
  PROVE  Watched'
<1> DEFINE r == worker[w]
           t == r.picked
           left == r.left \cup ({OrdOf[t]} \X Linked)
           n == [r EXCEPT !.picked = NoTodo, !.left = left]
<1>1. /\ r.pc = "cascade" /\ t # NoTodo /\ SetStatus(t, "failed") /\ Become(w, n)
      /\ UNCHANGED <<parent, premature, starts, outcomes, plans, made>>
  BY DEF CascadeFail, At, arrivals
<1>2. DOMAIN r = Fields /\ Fine(r, everDone) /\ Plan \subseteq Todo
  BY There
<1>3. t \in Plan /\ OrdOf[t] \in Ord /\ r.left \subseteq Ord \X Plan
      /\ r.then \in {"stop", "rollUp", "planner"}
  BY <1>1, <1>2 DEF Fine
<1>4. left = r.left \cup ({OrdOf[t]} \X Plan)
  BY PlanLinked
<1>5. /\ left \subseteq Ord \X Plan /\ r.left \subseteq left
      /\ \A v \in Plan : <<OrdOf[t], v>> \in left
  BY <1>3, <1>4
<1> HIDE DEF left
<1>6. n.pc = r.pc /\ n.left = left /\ n.picked = NoTodo /\ n.then = r.then
  BY <1>2 DEF Fields
<1>7. everDone' = everDone /\ \A u \in Plan : status'[u] = IF u = t THEN "failed" ELSE status[u]
  BY <1>1, <1>2 DEF SetStatus, Careful, TodoDone
<1> HIDE DEF n, r, t
<1>8. Fine(n, everDone')
  BY <1>1, <1>3, <1>5, <1>6 DEF Fine, LaidPC
<1>9. \A v, u \in Plan :
        Failing(r, u, v) /\ status'[v] = "blocked" => Failing(n, u, v)
  BY <1>1, <1>5, <1>6, <1>7 DEF Failing, t
<1>10. \A v, u \in Plan : status'[u] = "failed" /\ status[u] # "failed" => Failing(n, u, v)
  BY <1>1, <1>5, <1>6, <1>7 DEF Failing
<1>11. \A v : ~Waking(r, v)
  BY <1>1 DEF Waking
<1>12. \A u \in Plan : status'[u] \in TodoDone => status[u] \in TodoDone
  BY <1>7 DEF TodoDone
<1>13. /\ starts' \in [Todo -> Nat] /\ outcomes' \in [Todo -> Nat]
       /\ \A u \in Todo \ Plan : starts'[u] = 0 /\ outcomes'[u] = 0
       /\ CompletedLate'
       /\ "failed" \in TodoStatus \ {"blocked"}
  BY <1>1, <1>7 DEF Watched, Laid, CompletedLate, TodoStatus, Plan, Items
<1> QED BY <1>1, <1>3, <1>8, <1>9, <1>10, <1>11, <1>12, <1>13, Turn DEF r

(* The roll-up reads all of the plan, for it is the latest there is.       *)
LEMMA LaidListForRollUp ==
  ASSUME Watched, Careful, NEW w \in Worker, ListForRollUp(w)
  PROVE  Watched'
<1> DEFINE r == worker[w]
           latest == CHOOSE d \in {DecompOf[t] : t \in Linked} :
                       \A t \in Linked : DecompOf[t] <= d
           left == Items(latest) \cap Linked
           n == [r EXCEPT !.pc = "rollUp", !.left = left]
<1>1. /\ r.pc = "listForRollUp" /\ Become(w, n)
      /\ UNCHANGED <<status, parent, premature, starts, outcomes, plans, made, everDone>>
  BY DEF ListForRollUp, At, arrivals, history
<1>2. DOMAIN r = Fields /\ Fine(r, everDone)
  BY There
<1>3. left = Plan
  <2>1. {DecompOf[t] : t \in Linked} = {1}
    BY PlanLinked DEF Plan, Items
  <2>2. \A t \in Linked : DecompOf[t] <= 1
    BY PlanLinked DEF Plan, Items
  <2>3. latest = 1
    BY <2>1, <2>2
  <2> HIDE DEF latest
  <2> QED BY <2>3, PlanLinked DEF Plan
<1> HIDE DEF left
<1>4. /\ n.pc = "rollUp" /\ n.left = Plan /\ n.then = r.then
      /\ n.bad = r.bad /\ n.open = r.open
  BY <1>2, <1>3 DEF Fields
<1> HIDE DEF n, r
<1>5. Fine(n, everDone)
  BY <1>1, <1>2, <1>4 DEF Fine, LaidPC
<1>6. \A u, v : ~Failing(r, u, v) /\ ~Waking(r, v)
  BY <1>1 DEF Failing, Waking
<1> QED BY <1>1, <1>5, <1>6, ReadTurn DEF r

(* A verdict "completed" only when no todo read was open, failed or        *)
(* blocked: each had been done when it was read.                           *)
LEMMA LaidRollUp ==
  ASSUME Watched, Careful, NEW w \in Worker, NEW t \in Todo, RollUp(w, t)
  PROVE  Watched'
<1> DEFINE r == worker[w]
           open == r.open \/ StillOpen(status[t])
           bad == r.bad \/ status[t] \in {"failed", "blocked"}
           left == r.left \ {t}
           goal == IF bad THEN "failed" ELSE "completed"
           n == [r EXCEPT !.left = left, !.open = open, !.bad = bad]
           d == [Goto("readTask", r.then) EXCEPT !.goal = goal]
           x == IF r.left # {t} THEN n ELSE IF open THEN AfterRollUp(r) ELSE d
<1>1. /\ r.pc = "rollUp" /\ t \in r.left /\ Become(w, x)
      /\ UNCHANGED <<status, parent, premature, starts, outcomes, plans, made, everDone>>
  BY DEF RollUp, At, arrivals, history
<1>2. DOMAIN r = Fields /\ Fine(r, everDone)
  BY There
<1>3. /\ r.bad \in BOOLEAN /\ r.open \in BOOLEAN /\ r.then \in {"stop", "rollUp", "planner"}
      /\ ~r.bad /\ ~r.open => Plan \ r.left \subseteq everDone
  BY <1>1, <1>2 DEF Fine
<1>4. t \in Plan /\ ~StillOpen(status[t]) /\ status[t] \notin {"failed", "blocked"} =>
        t \in everDone
  BY DEF Watched, Laid, Careful, StillOpen, TodoStatus, TodoDone
<1>5. /\ bad \in BOOLEAN /\ open \in BOOLEAN
      /\ ~bad => ~r.bad /\ status[t] \notin {"failed", "blocked"}
      /\ ~open => ~r.open /\ ~StillOpen(status[t])
  BY <1>3 DEF StillOpen
<1>6. ~bad /\ ~open => Plan \ left \subseteq everDone
  BY <1>3, <1>4, <1>5
<1>7. goal = "completed" => ~bad
  OBVIOUS
<1>8. r.left = {t} => left = {}
  OBVIOUS
<1> HIDE DEF open, bad, left, goal
<1>9. /\ n.pc = r.pc /\ n.left = left /\ n.then = r.then /\ n.open = open /\ n.bad = bad
  BY <1>2 DEF Fields
<1>10. d.pc = "readTask" /\ d.goal = goal /\ d.then = r.then
  BY DEF Goto, Idle
<1> HIDE DEF n, d
<1>11. Fine(n, everDone)
  BY <1>1, <1>3, <1>5, <1>6, <1>9 DEF Fine, LaidPC
<1>12. ~open /\ r.left = {t} => Fine(d, everDone)
  BY <1>3, <1>6, <1>7, <1>8, <1>10 DEF Fine, LaidPC
<1>13. Fine(x, everDone)
  BY <1>3, <1>11, <1>12, AfterRollUpFine, IdleFine
<1>14. \A u, v : ~Failing(r, u, v) /\ ~Waking(r, v)
  BY <1>1 DEF Failing, Waking
<1> HIDE DEF x, r
<1> QED BY <1>1, <1>13, <1>14, ReadTurn DEF r

LEMMA LaidReadTask ==
  ASSUME Watched, Careful, NEW w \in Worker, ReadTask(w) \/ CheckTask(w)
  PROVE  Watched'
<1> DEFINE r == worker[w]
           c == [r EXCEPT !.pc = "checkTask"]
           n == [r EXCEPT !.pc = "writeTask"]
<1>1. /\ Become(w, AfterRollUp(r)) \/ Become(w, c) \/ Become(w, n)
      /\ r.pc \in {"readTask", "checkTask"}
      /\ UNCHANGED <<status, parent, premature, starts, outcomes, plans, made, everDone>>
  BY DEF ReadTask, CheckTask, At, arrivals, history
<1>2. DOMAIN r = Fields /\ Fine(r, everDone) /\ r.then \in {"stop", "rollUp", "planner"}
  BY There DEF Fine
<1>3. /\ c.pc = "checkTask" /\ c.goal = r.goal /\ c.then = r.then
      /\ n.pc = "writeTask" /\ n.goal = r.goal /\ n.then = r.then
  BY <1>2 DEF Fields
<1> HIDE DEF c, n, r
<1>4. /\ Fine(c, everDone) /\ Fine(n, everDone)
      /\ AfterRollUp(r) = Idle /\ Fine(Idle, everDone)
  <2>1. AfterRollUp(r) = Idle
    BY <1>2, AfterRollUpFine
  <2>2. Fine(c, everDone)
    BY <1>1, <1>2, <1>3 DEF Fine, LaidPC
  <2>3. Fine(n, everDone)
    BY <1>1, <1>2, <1>3 DEF Fine, LaidPC
  <2> QED BY <2>1, <2>2, <2>3, IdleFine
<1>5. \A u, v : ~Failing(r, u, v) /\ ~Waking(r, v)
  BY <1>1 DEF Failing, Waking
<1> QED BY <1>1, <1>4, <1>5, ReadTurn DEF r

LEMMA LaidWriteTask ==
  ASSUME Watched, Careful, NEW w \in Worker, WriteTask(w)
  PROVE  Watched'
<1> DEFINE r == worker[w]
<1>1. /\ r.pc = "writeTask" /\ parent' = r.goal /\ Become(w, AfterRollUp(r))
      /\ plans' = IF r.then = "replan" THEN plans + 1 ELSE plans
      /\ premature' = (r.then = "planner")
      /\ UNCHANGED <<status, starts, outcomes, made, everDone>>
  BY DEF WriteTask, At, history
<1>2. Fine(r, everDone) /\ r.then \in {"stop", "rollUp", "planner"}
  BY There DEF Fine
<1>3. plans' = plans /\ AfterRollUp(r) = Idle /\ Fine(Idle, everDone')
  BY <1>1, <1>2, AfterRollUpFine, IdleFine
<1>4. CompletedLate'
  BY <1>1, <1>2 DEF Fine, CompletedLate, Plan, Items
<1>5. \A u, v : ~Failing(r, u, v) /\ ~Waking(r, v)
  BY <1>1 DEF Failing, Waking
<1>6. /\ starts' \in [Todo -> Nat] /\ outcomes' \in [Todo -> Nat]
      /\ \A u \in Todo \ Plan : starts'[u] = 0 /\ outcomes'[u] = 0
  BY <1>1 DEF Watched, Laid
<1> HIDE DEF r
<1> QED BY <1>1, <1>3, <1>4, <1>5, <1>6, Turn DEF r

-----------------------------------------------------------------------------
(* From the first to the last phase.                                       *)
LEMMA WatchedStep ==
  ASSUME Undisturbed, Watched, Careful, operator = 0, direction = 0, Next
  PROVE  Watched' /\ operator' = 0 /\ direction' = 0
<1>1. ~(operator < MaxOperator) /\ ~(direction < MaxDirection) /\ plans = 0
  BY DEF Undisturbed, Watched, Laid
<1>2. ASSUME NEW t \in Todo, ReceiveStarted(t)
      PROVE  Watched' /\ operator' = 0 /\ direction' = 0
  BY <1>1, <1>2, LaidStarted DEF ReceiveStarted, arrivals
<1>3. ASSUME NEW w \in Worker, NEW t \in Todo, NEW s \in {"completed", "failed"},
             ReceiveOutcome(w, t, s)
      PROVE  Watched' /\ operator' = 0 /\ direction' = 0
  BY <1>3, LaidOutcome DEF ReceiveOutcome, arrivals
<1>4. ASSUME NEW w \in Worker, ReceivePlanner(w)
      PROVE  Watched' /\ operator' = 0 /\ direction' = 0
  BY <1>4, LaidPlanner DEF ReceivePlanner
<1>5. ASSUME NEW w \in Worker, Work(w)
      PROVE  Watched' /\ operator' = 0 /\ direction' = 0
  <2>1. worker[w].pc \in LaidPC
    BY There DEF Fine
  <2>2. \A t \in Todo : ~Create(w, t) /\ ~FindFailed(w, t)
    BY <2>1 DEF Create, FindFailed, At, LaidPC
  <2>3. ~ListForSkip(w) /\ ~SkipTodo(w)
    BY <2>1 DEF ListForSkip, SkipTodo, At, LaidPC
  <2>4. operator' = operator /\ direction' = direction
    BY <1>5, <2>2, <2>3 DEF Work, DispatchTaskTodo, Dispatched, Unblock, Cascade, RollUp,
       DispatchUnblock, ListForUnblock, ListForCascade, CascadeFail, ListForRollUp, ReadTask,
       CheckTask, WriteTask, arrivals
  <2>5. Watched'
    BY <1>1, <1>5, <2>2, <2>3, LaidDispatch, LaidUnblock, LaidCascade, LaidRollUp,
       LaidDispatchUnblock, LaidListForUnblock, LaidListForCascade, LaidCascadeFail,
       LaidListForRollUp, LaidReadTask, LaidWriteTask DEF Work
  <2> QED BY <2>4, <2>5
<1>6. \A w \in Worker : ~ReceivePlan(w)
  BY <1>1 DEF ReceivePlan
<1>7. \A w \in Worker : \A t \in Todo : \A s : ~OperatorCall(w, t, s)
  BY <1>1 DEF OperatorCall
<1>8. \A w \in Worker : \A option : ~ReceiveDirection(w, option)
  BY <1>1 DEF ReceiveDirection
<1> QED BY <1>2, <1>3, <1>4, <1>5, <1>6, <1>7, <1>8 DEF Next

(* What a goroutine can do from where it is.                               *)
LEMMA WorkPC ==
  ASSUME NEW w \in Worker, Work(w)
  PROVE  /\ worker[w].pc # "idle"
         /\ worker[w].pc = "create" => \E t \in Todo : Create(w, t)
         /\ Claims(worker[w]) => CheckTask(w) \/ WriteTask(w)
<1> DEFINE early == {"idle", "create", "checkTask", "writeTask"}
<1>1. \A t \in Todo : DispatchTaskTodo(w, t) \/ Unblock(w, t) \/ RollUp(w, t) \/ FindFailed(w, t)
        => worker[w].pc \notin early
  BY DEF DispatchTaskTodo, Unblock, RollUp, FindFailed, At
<1>2. \A t \in Todo, o \in Ord : Cascade(w, o, t) => worker[w].pc \notin early
  BY DEF Cascade, At
<1>3. \/ DispatchUnblock(w) \/ ListForUnblock(w) \/ ListForCascade(w) \/ CascadeFail(w)
      \/ ListForRollUp(w) \/ ReadTask(w) \/ ListForSkip(w) \/ SkipTodo(w)
      => worker[w].pc \notin early
  BY DEF DispatchUnblock, ListForUnblock, ListForCascade, CascadeFail, ListForRollUp, ReadTask,
         ListForSkip, SkipTodo, At
<1>4. /\ \A t \in Todo : Create(w, t) => worker[w].pc = "create"
      /\ CheckTask(w) \/ WriteTask(w) => worker[w].pc \in {"checkTask", "writeTask"}
  BY DEF Create, CheckTask, WriteTask, At
<1> QED BY <1>1, <1>2, <1>3, <1>4 DEF Work, Claims

(* Only the plan itself can arrive first.                                  *)
LEMMA UnplannedStep ==
  ASSUME Undisturbed, Unplanned, Careful, operator = 0, direction = 0, Next
  PROVE  (\E w \in Worker : Laying(w))' /\ operator' = 0 /\ direction' = 0
<1>1. ~(operator < MaxOperator) /\ ~(direction < MaxDirection) /\ planners = 0
  BY DEF Undisturbed, Unplanned
<1>2. \A t \in Todo : starts[t] = 0 /\ outcomes[t] = 0
  BY DEF Unplanned, NothingSent
<1>3. PICK w \in Worker : ReceivePlan(w)
  <2>1. \A w \in Worker : ~Work(w)
    BY WorkPC DEF Unplanned, Idle
  <2>2. \A t \in Todo : ~ReceiveStarted(t)
    BY <1>2 DEF ReceiveStarted
  <2>3. \A w \in Worker : \A t \in Todo : \A s : ~ReceiveOutcome(w, t, s) /\ ~OperatorCall(w, t, s)
    BY <1>1, <1>2 DEF ReceiveOutcome, OperatorCall
  <2>4. \A w \in Worker : \A option : ~ReceivePlanner(w) /\ ~ReceiveDirection(w, option)
    BY <1>1 DEF ReceivePlanner, ReceiveDirection
  <2> QED BY <2>1, <2>2, <2>3, <2>4 DEF Next
<1> DEFINE n == [Goto("create", "stop") EXCEPT !.left = Items(made + 1)]
<1>4. made = 0 /\ Items(made + 1) = Plan
  BY DEF Unplanned, Plan
<1>5. n.pc = "create" /\ n.left = Plan
  BY <1>4 DEF Goto, Idle
<1>6. /\ plans' = plans - 1 /\ made' = made + 1 /\ Become(w, n)
      /\ UNCHANGED <<status, parent, starts, outcomes, operator, direction>>
  BY <1>3 DEF ReceivePlan
<1> HIDE DEF n
<1>7. worker'[w] = n /\ \A v \in Worker \ {w} : worker'[v] = worker[v]
  BY <1>6 DEF Become, Careful
<1>8. Laying(w)'
  BY <1>5, <1>6, <1>7 DEF Unplanned, Laying, NothingSent, Plan, Items, CreateTaskTodo
<1> QED BY <1>6, <1>8

(* The planner's completion, handled while the todos are being created.    *)
LEMMA ClaimStep ==
  ASSUME NEW w \in Worker, Laying(w), Careful, NEW v \in Worker \ {w},
         ReceivePlanner(v) \/ (Claims(worker[v]) /\ (CheckTask(v) \/ WriteTask(v)))
  PROVE  Laying(w)' /\ operator' = operator /\ direction' = direction
<1> DEFINE r == worker[v]
           p == [Goto("checkTask", "planner") EXCEPT !.goal = "completed"]
           n == [r EXCEPT !.pc = "writeTask"]
<1>1. p.pc = "checkTask" /\ p.then = "planner"
  BY DEF Goto, Idle
<1>2. Claims(r) => n.pc = "writeTask" /\ n.then = "planner" /\ AfterRollUp(r) = Idle
  BY Here DEF Sound, Fields, Claims, AfterRollUp
<1>3. /\ UNCHANGED worker \/ Become(v, p) \/ (Claims(r) /\ (Become(v, n) \/ Become(v, Idle)))
      /\ UNCHANGED <<status, starts, outcomes, plans, made, operator, direction>>
      /\ UNCHANGED <<parent, premature>> \/ premature' = TRUE
  BY <1>2 DEF ReceivePlanner, CheckTask, WriteTask, Claims, history, arrivals
<1> HIDE DEF p, n, r
<1>4. /\ worker'[w] = worker[w] /\ \A u \in Worker \ {v} : worker'[u] = worker[u]
      /\ worker'[v] = worker[v] \/ worker'[v] = Idle \/ Claims(worker'[v])
  BY <1>1, <1>2, <1>3 DEF Become, Careful, Claims
<1>5. \A u \in Worker \ {w} : worker'[u] = Idle \/ Claims(worker'[u])
  BY <1>4 DEF Laying
<1>6. NothingSent'
  BY <1>3 DEF Laying, NothingSent
<1>7. \A u \in Todo : (IF u \in Plan \ worker[w].left THEN status[u] = CreateTaskTodo(u)
                     ELSE status[u] = "none")'
  BY <1>3, <1>4 DEF Laying, Plan, Items, CreateTaskTodo
<1>8. /\ plans' = 0 /\ made' = 1 /\ (parent' = "completed" => premature')
      /\ worker'[w].pc = "create" /\ worker'[w].left \subseteq Plan
  BY <1>3, <1>4 DEF Laying
<1>9. Plan' = Plan
  BY DEF Plan, Items
<1>10. Laying(w)'
  BY <1>5, <1>6, <1>7, <1>8, <1>9 DEF Laying, Claims, Idle
<1> QED BY <1>3, <1>10

(* One more todo is created; with the last one the plan is laid.           *)
LEMMA LayStep ==
  ASSUME NEW w \in Worker, Laying(w), Careful, operator = 0, direction = 0,
         NEW t \in Todo, Create(w, t)
  PROVE  /\ Laying(w)' \/ Watched'
         /\ operator' = 0 /\ direction' = 0
<1>1. starts \in [Todo -> Nat] /\ outcomes \in [Todo -> Nat]
  BY DEF Laying, NothingSent
<1> DEFINE r == worker[w]
           roots == {u \in Items(DecompOf[t]) : DependsOn[u] = {}}
           left == r.left \ {t}
           n == [r EXCEPT !.left = left]
           d == [Goto("dispatch", "stop") EXCEPT !.ready = roots]
           x == IF roots = {} THEN Idle ELSE d
<1>2. t \in r.left /\ r.left \subseteq Plan /\ t \in Plan /\ Plan \subseteq Todo
  BY DEF Create, Laying, Plan, Items
<1>3. /\ SetStatus(t, CreateTaskTodo(t))
      /\ Become(w, IF r.left # {t} THEN n ELSE x)
      /\ UNCHANGED <<parent, premature, starts, outcomes, plans, made, operator, direction>>
  BY DEF Create, arrivals
<1>4. /\ \A u \in Todo : status'[u] = IF u = t THEN CreateTaskTodo(t) ELSE status[u]
      /\ everDone \subseteq everDone'
  BY <1>3 DEF SetStatus, Careful
<1>5. DOMAIN r = Fields /\ r.pc = "create"
  BY DEF Careful, Sound, Laying
<1>6. /\ worker'[w] = IF r.left # {t} THEN n ELSE x
      /\ \A v \in Worker \ {w} : worker'[v] = worker[v]
  BY <1>3 DEF Become, Careful
<1>7. CASE r.left # {t}
  <2>1. n.pc = "create" /\ n.left = left
    BY <1>5 DEF Fields
  <2> HIDE DEF n
  <2>2. Laying(w)'
    BY <1>2, <1>3, <1>4, <1>6, <1>7, <2>1
       DEF Laying, NothingSent, Plan, Items, CreateTaskTodo, Claims, Idle
  <2> QED BY <1>3, <2>2
<1>8. CASE r.left = {t}
  <2>1. d.pc = "dispatch" /\ d.ready = roots /\ d.picked = NoTodo /\ d.then = "stop"
    BY DEF Goto, Idle
  <2>2. roots \subseteq Plan
    BY <1>2 DEF Plan, Items
  <2> HIDE DEF d, roots
  <2>3. \A done : Fine(d, done)
    BY <2>1, <2>2 DEF Fine, LaidPC
  <2>4. \A done : Fine(x, done)
    BY <2>3, IdleFine
  <2> HIDE DEF x
  <2>5. \A u \in Todo : status'[u] = IF u \in Plan THEN CreateTaskTodo(u) ELSE "none"
    BY <1>2, <1>4, <1>8 DEF Laying
  <2>6. \A u \in Plan : status'[u] \in TodoStatus /\ status'[u] # "failed"
                        /\ status'[u] \notin TodoDone
    BY <1>2, <2>5 DEF CreateTaskTodo, TodoStatus, TodoDone
  <2>7. \A v \in Worker : Fine(worker'[v], everDone')
    <3>1. \A v \in Worker \ {w} : \A done : Fine(worker[v], done)
      <4> SUFFICES ASSUME NEW v \in Worker \ {w}, NEW done
                   PROVE  Fine(worker[v], done)
        OBVIOUS
      <4>1. worker[v] = Idle \/ Claims(worker[v])
        BY DEF Laying
      <4>2. Claims(worker[v]) => Fine(worker[v], done)
        BY DEF Claims, Fine, LaidPC
      <4> QED BY <4>1, <4>2, IdleFine
    <3> QED BY <1>6, <1>8, <2>4, <3>1
  <2>8. CompletedLate'
    BY <1>3 DEF Laying, CompletedLate
  <2>9. /\ plans' = 0 /\ made' = 1 /\ Plan' = Plan /\ Plan # {}
         /\ UNCHANGED <<starts, outcomes>>
    BY <1>2, <1>3 DEF Laying, Plan, Items
  <2>10. \A u \in Todo : starts[u] = 0 /\ outcomes[u] = 0
    BY DEF Laying, NothingSent
  <2>11. Laid'
    BY <1>1, <2>5, <2>6, <2>7, <2>8, <2>9, <2>10 DEF Laid, Fine, LaidPC, Plan, Items
  <2>12. FailureHandled'
    BY <2>6 DEF FailureHandled, Plan, Items
  <2>13. Numbered => EndHandled'
    <3> SUFFICES ASSUME Numbered, NEW u \in Plan, status'[u] = "blocked"
                 PROVE  \E v \in Plan : Needs(u, v) /\ status'[v] \notin TodoDone
      BY DEF EndHandled, AllDone, Needs, Plan, Items
    <3>1. DependsOn[u] # {}
      BY <1>2, <2>5 DEF CreateTaskTodo
    <3> QED BY <2>6, <3>1 DEF Numbered, Needs
  <2>14. Numbered' <=> Numbered
    BY DEF Numbered, Plan, Items
  <2> QED BY <1>3, <2>11, <2>12, <2>13, <2>14 DEF Watched
<1> QED BY <1>7, <1>8

(* Until all todos exist no other goroutine can do anything else.          *)
LEMMA LayingStep ==
  ASSUME Undisturbed, NEW w \in Worker, Laying(w), Careful, Next, operator = 0, direction = 0
  PROVE  /\ Laying(w)' \/ Watched'
         /\ operator' = 0 /\ direction' = 0
<1>1. ~(operator < MaxOperator) /\ ~(direction < MaxDirection) /\ plans = 0
  BY DEF Undisturbed, Laying
<1>2. /\ \A t \in Todo : starts[t] = 0 /\ outcomes[t] = 0
      /\ starts \in [Todo -> Nat] /\ outcomes \in [Todo -> Nat]
  BY DEF Laying, NothingSent
<1>3. \/ \E t \in Todo : Create(w, t)
      \/ \E v \in Worker \ {w} :
           ReceivePlanner(v) \/ (Claims(worker[v]) /\ (CheckTask(v) \/ WriteTask(v)))
  <2>1. ASSUME NEW v \in Worker, v # w, Work(v)
        PROVE  Claims(worker[v]) /\ (CheckTask(v) \/ WriteTask(v))
    <3>1. worker[v] # Idle
      BY <2>1, WorkPC DEF Idle
    <3> QED BY <2>1, <3>1, WorkPC DEF Laying
  <2>2. Work(w) => \E t \in Todo : Create(w, t)
    BY WorkPC DEF Laying
  <2>3. \A t \in Todo : ~ReceiveStarted(t)
    BY <1>2 DEF ReceiveStarted
  <2>4. \A v \in Worker : \A t \in Todo : \A s : ~ReceiveOutcome(v, t, s) /\ ~OperatorCall(v, t, s)
    BY <1>1, <1>2 DEF ReceiveOutcome, OperatorCall
  <2>5. \A v \in Worker : \A option : ~ReceiveDirection(v, option) /\ ~ReceivePlan(v)
    BY <1>1 DEF ReceiveDirection, ReceivePlan
  <2>6. ~ReceivePlanner(w)
    BY DEF ReceivePlanner, At, Laying
  <2> QED BY <2>1, <2>2, <2>3, <2>4, <2>5, <2>6 DEF Next
<1>4. ASSUME NEW v \in Worker \ {w},
             ReceivePlanner(v) \/ (Claims(worker[v]) /\ (CheckTask(v) \/ WriteTask(v)))
      PROVE  Laying(w)' /\ operator' = 0 /\ direction' = 0
  BY <1>4, ClaimStep
<1>5. ASSUME NEW t \in Todo, Create(w, t)
      PROVE  (Laying(w)' \/ Watched') /\ operator' = 0 /\ direction' = 0
  BY <1>5, LayStep
<1> QED BY <1>3, <1>4, <1>5

LEMMA OnePlanStep ==
  ASSUME Undisturbed, OnePlan, Careful, [Next]_vars
  PROVE  OnePlan'
<1>1. CASE Next
  <2>1. CASE Unplanned
    <3>1. PICK w \in Worker : Laying(w)'
      BY <1>1, <2>1, UnplannedStep DEF OnePlan
    <3> QED BY <1>1, <2>1, <3>1, UnplannedStep DEF OnePlan
  <2>2. ASSUME NEW w \in Worker, Laying(w)
        PROVE  OnePlan'
    BY <1>1, <2>2, LayingStep DEF OnePlan
  <2>3. CASE Watched
    BY <1>1, <2>3, WatchedStep DEF OnePlan
  <2> QED BY <2>1, <2>2, <2>3 DEF OnePlan
<1>2. CASE UNCHANGED vars
  <2>1. UNCHANGED <<plans, made, planners, starts, outcomes, parent, premature, status, worker,
                    operator, direction, everDone>>
    BY <1>2 DEF vars
  <2>2. Unplanned => Unplanned'
    BY <2>1 DEF Unplanned, NothingSent, Idle
  <2>3. \A w \in Worker : Laying(w) => Laying(w)'
    BY <2>1 DEF Laying, Claims, NothingSent, Plan, Items, CreateTaskTodo, Idle
  <2>4. Laid => Laid'
    BY <2>1 DEF Laid, CompletedLate, Fine, LaidPC, Plan, Items
  <2>5. FailureHandled => FailureHandled'
    BY <2>1 DEF FailureHandled, Failing, Needs, Plan, Items
  <2>6. (Numbered => EndHandled) => (Numbered => EndHandled)'
    BY <2>1 DEF EndHandled, Waking, AllDone, Needs, Numbered, Plan, Items
  <2> QED BY <2>1, <2>2, <2>3, <2>4, <2>5, <2>6 DEF OnePlan, Watched
<1> QED BY <1>1, <1>2

LEMMA OnePlanInit ==
  ASSUME Undisturbed
  PROVE  Init => OnePlan
BY DEF Undisturbed, Init, OnePlan, Unplanned, NothingSent

(* Left to itself, and whenever the planner's completion and the reports   *)
(* arrive, a plan's parent is completed only when every todo of it was     *)
(* completed or skipped, unless the planner's own completion was handled   *)
(* before the first todo existed: a roll-up that says so has read each     *)
(* todo done (maybeCompleteParentTask, applyAITaskStatus).                 *)
THEOREM CompletedLast ==
  ASSUME Undisturbed
  PROVE  Spec => []CompletedOnlyAfterAll
<1>1. OnePlan => CompletedOnlyAfterAll
  BY DEF OnePlan, Unplanned, Laying, Watched, Laid, CompletedLate, CompletedOnlyAfterAll, Plan
<1> QED BY <1>1, CarefulInit, CarefulStep, OnePlanInit, OnePlanStep, PTL DEF Spec

(* And, if its numbers tell its todos apart and it depends on numbers it   *)
(* has, no todo is left blocked at the end although its dependencies are   *)
(* done, or although one of them failed, however the handlers raced.       *)
THEOREM NoneForgotten ==
  ASSUME Undisturbed, Numbered
  PROVE  Spec => []NoTodoForgotten
<1>1. OnePlan => NoTodoForgotten
  <2> SUFFICES ASSUME OnePlan, Quiescent, NEW t \in Linked, status[t] = "blocked"
               PROVE  /\ \E u \in DepsOf(t) : status[u] \notin TodoDone
                      /\ \A u \in DepsOf(t) : status[u] # "failed"
    BY DEF NoTodoForgotten
  <2>1. plans = 0 /\ \A w \in Worker : worker[w].pc = "idle"
    BY DEF Quiescent
  <2>2. Watched
    BY <2>1 DEF OnePlan, Unplanned, Laying
  <2>3. \A w \in Worker : \A u, v : ~Failing(worker[w], u, v) /\ ~Waking(worker[w], v)
    BY <2>1 DEF Failing, Waking
  <2>4. t \in Plan /\ DecompOf[t] = 1
    BY <2>2, PlanLinked DEF Plan, Items
  <2>5. \A u : u \in DepsOf(t) <=> u \in Plan /\ Needs(t, u)
    BY <2>4 DEF DepsOf, Plan, Items, Needs
  <2>6. ~AllDone(t)
    BY <2>2, <2>3, <2>4 DEF Watched, EndHandled
  <2>7. \A u \in Plan : Needs(t, u) => status[u] # "failed"
    BY <2>2, <2>3, <2>4 DEF Watched, FailureHandled
  <2> QED BY <2>5, <2>6, <2>7 DEF AllDone
<1> QED BY <1>1, CarefulInit, CarefulStep, OnePlanInit, OnePlanStep, PTL DEF Spec

-----------------------------------------------------------------------------
(* EntityRecord.                                                           *)

(* The locals and the entity have the fields that steps assign.            *)
Shaped ==
  /\ DOMAIN worker = Worker
  /\ \A w \in Worker : "pc" \in DOMAIN worker[w] /\ "status" \in DOMAIN worker[w]
  /\ "status" \in DOMAIN entity

(* Another kind than a task has but the one status.                        *)
OneStatus ==
  kind # "Task" =>
    /\ entity.status = "other"
    /\ \A w \in Worker : worker[w].pc # "idle" => worker[w].status = "other"

(* The transition a task's worker checked, if it checks, is one from the   *)
(* stored status.                                                          *)
CheckHolds ==
  kind = "Task" =>
    \A w \in Worker \ outrun : worker[w].pc = "write" /\ "unchecked" \notin worker[w].means =>
      \/ worker[w].status = entity.status
      \/ TaskCanTransition(entity.status, worker[w].status)

Guarded == Shaped /\ OneStatus /\ CheckHolds

(* A step of w that leaves the stored status alone, and the check of every *)
(* other worker as it was.                                                 *)
Aside(w, r) ==
  /\ Become(w, r)
  /\ "pc" \in DOMAIN r /\ "status" \in DOMAIN r
  /\ kind # "Task" /\ r.pc # "idle" => r.status = "other"
  /\ kind = "Task" /\ r.pc = "write" => "unchecked" \in r.means
  /\ entity' = entity /\ kind' = kind
  /\ outrun' \in {outrun, outrun \ {w}}

LEMMA StepsAside ==
  ASSUME Guarded, NEW w \in Worker, NEW r, Aside(w, r)
  PROVE  Guarded'
<1>1. worker'[w] = r /\ DOMAIN worker' = Worker /\ \A v \in Worker \ {w} : worker'[v] = worker[v]
  BY DEF Aside, Become, Guarded, Shaped
<1>2. Shaped'
  BY <1>1 DEF Guarded, Shaped, Aside
<1>3. OneStatus'
  BY <1>1 DEF Guarded, OneStatus, Aside
<1>4. CheckHolds'
  <2> SUFFICES ASSUME kind = "Task", NEW v \in Worker \ outrun', worker'[v].pc = "write",
                      "unchecked" \notin worker'[v].means
               PROVE  \/ worker'[v].status = entity.status
                      \/ TaskCanTransition(entity.status, worker'[v].status)
    BY DEF CheckHolds, Aside
  <2>1. v # w
    BY <1>1 DEF Aside
  <2>2. v \in Worker \ outrun /\ worker'[v] = worker[v]
    BY <1>1, <2>1 DEF Aside
  <2> QED BY <2>2 DEF Guarded, CheckHolds
<1> QED BY <1>2, <1>3, <1>4 DEF Guarded

(* A call begins with locals of its own and reads.                         *)
LEMMA Begins ==
  ASSUME Guarded, NEW w \in Worker, NEW r, Begin(w, r),
         "pc" \in DOMAIN r, "status" \in DOMAIN r,
         kind # "Task" => r.status = "other",
         kind = "Task" /\ r.pc = "write" => "unchecked" \in r.means
  PROVE  Aside(w, r)
BY DEF Begin, Aside, Followed

LEMMA WritesBack ==
  ASSUME Guarded, NEW w \in Worker, NEW pc, NEW s, NEW fields, NEW read, NEW how,
         WriteBack(w, pc, s, fields, read, how),
         kind # "Task" => s = "other",
         kind = "Task" /\ pc = "write" => "unchecked" \in how
  PROVE  \E r : Aside(w, r)
<1>1. PICK v \in ValueOf(field) :
        LET to == IF field \in fields THEN v ELSE read IN
        Begin(w, [pc |-> pc, status |-> s, value |-> to, sent |-> to,
                  means |-> how \cup (IF field \in fields THEN {"value"} ELSE {})
                            \cup (IF s = entity.status THEN {} ELSE {"status"})])
  BY DEF WriteBack
<1> DEFINE to == IF field \in fields THEN v ELSE read
           m == how \cup (IF field \in fields THEN {"value"} ELSE {})
                \cup (IF s = entity.status THEN {} ELSE {"status"})
           r == [pc |-> pc, status |-> s, value |-> to, sent |-> to, means |-> m]
<1>2. Begin(w, r)
  BY <1>1
<1>3. "unchecked" \in how => "unchecked" \in m
  OBVIOUS
<1> HIDE DEF to, m
<1>4. r.pc = pc /\ r.status = s /\ r.means = m /\ "pc" \in DOMAIN r /\ "status" \in DOMAIN r
  OBVIOUS
<1> HIDE DEF r
<1> QED BY <1>2, <1>3, <1>4, Begins

LEMMA Rewrites ==
  ASSUME Guarded, NEW w \in Worker, NEW pc, NEW s, NEW fields, Rewrite(w, pc, s, fields),
         kind # "Task" => s = "other",
         kind = "Task" => pc # "write"
  PROVE  \E r : Aside(w, r)
BY WritesBack DEF Rewrite

LEMMA Patches ==
  ASSUME Guarded, NEW fields, Patch(fields)
  PROVE  /\ UNCHANGED <<worker, kind, outrun>>
         /\ entity'.status = entity.status /\ "status" \in DOMAIN entity'
BY DEF Patch, Followed, Guarded, Shaped

(* The actions that are such steps, and those that do without a worker.    *)
LEMMA AsideOrElse ==
  ASSUME Guarded, EntityNext
  PROVE  \/ \E w \in Worker : (\E r : Aside(w, r)) \/ Check(w) \/ Write(w)
         \/ /\ UNCHANGED <<worker, kind, outrun>>
            /\ entity'.status = entity.status /\ "status" \in DOMAIN entity'
         \/ ResetTask
<1>1. ASSUME NEW w \in Worker, Get(w)
      PROVE  \E r : Aside(w, r)
  <2> DEFINE s == IF kind = "Task" THEN ProtoToStatus(StatusToProto(entity.status)) ELSE entity.status
  <2>1. PICK shown : Begin(w, [pc |-> "edit", means |-> {}, value |-> shown, sent |-> shown, status |-> s])
    BY <1>1 DEF Get
  <2> DEFINE r == [pc |-> "edit", means |-> {}, value |-> shown, sent |-> shown, status |-> s]
  <2>2. kind # "Task" => s = "other"
    BY DEF Guarded, OneStatus
  <2> HIDE DEF s
  <2>3. r.pc = "edit" /\ r.status = s /\ "pc" \in DOMAIN r /\ "status" \in DOMAIN r
    OBVIOUS
  <2> HIDE DEF r
  <2> QED BY <2>1, <2>2, <2>3, Begins
<1>2. ASSUME NEW w \in Worker, Send(w)
      PROVE  \E r : Aside(w, r)
  <2>1. PICK means \in SUBSET {"status", "value"}, s \in SentStatus \cup {"other"}, v \in ValueOf(field) :
          /\ "status" \notin means => s = worker[w].status
          /\ "status" \in means => kind = "Task"
          /\ Become(w,
               IF <<kind, field, v>> = <<"Project", "name", "">> THEN NoCall
               ELSE [pc |-> IF kind = "Task" THEN "check" ELSE "write",
                     means |-> means \cup (IF field \in FromProto[kind] THEN {} ELSE {"unsent"}),
                     status |-> s, value |-> Through(FromProto[kind], v), sent |-> v])
    BY <1>2 DEF Send
  <2> DEFINE m == means \cup (IF field \in FromProto[kind] THEN {} ELSE {"unsent"})
             x == Through(FromProto[kind], v)
             r == [pc |-> IF kind = "Task" THEN "check" ELSE "write",
                   means |-> m, status |-> s, value |-> x, sent |-> v]
  <2>2. Become(w, IF <<kind, field, v>> = <<"Project", "name", "">> THEN NoCall ELSE r)
    BY <2>1
  <2> HIDE DEF m, x
  <2>3. /\ r.status = s /\ "pc" \in DOMAIN r /\ "status" \in DOMAIN r
        /\ kind = "Task" => r.pc # "write"
    OBVIOUS
  <2>4. kind # "Task" => s = "other"
    BY <1>2, <2>1 DEF Send, At, Guarded, OneStatus
  <2>5. NoCall.pc = "idle" /\ "pc" \in DOMAIN NoCall /\ "status" \in DOMAIN NoCall
    BY DEF NoCall
  <2>6. entity' = entity /\ kind' = kind /\ outrun' = outrun
    BY <1>2 DEF Send, Followed
  <2> HIDE DEF r
  <2>7. CASE <<kind, field, v>> = <<"Project", "name", "">>
    <3>1. Become(w, NoCall)
      BY <2>2, <2>7
    <3> QED BY <2>5, <2>6, <3>1 DEF Aside
  <2>8. CASE <<kind, field, v>> # <<"Project", "name", "">>
    <3>1. Become(w, r)
      BY <2>2, <2>8
    <3> QED BY <2>3, <2>4, <2>6, <3>1 DEF Aside
  <2> QED BY <2>7, <2>8
<1>3. ASSUME NEW w \in Worker, MaskedUpdate(w)
      PROVE  \E r : Aside(w, r)
  <2>1. PICK mask, s, v, read :
          LET new == ApplyMask(s, Through(ProtoToTask, v), mask, read) IN
          Begin(w, [pc |-> "check", means |-> mask, status |-> new.status, value |-> new.value,
                    sent |-> v])
    BY <1>3 DEF MaskedUpdate
  <2> DEFINE new == ApplyMask(s, Through(ProtoToTask, v), mask, read)
             r == [pc |-> "check", means |-> mask, status |-> new.status, value |-> new.value,
                   sent |-> v]
  <2>2. Begin(w, r) /\ kind = "Task"
    BY <1>3, <2>1 DEF MaskedUpdate
  <2> HIDE DEF new
  <2>3. r.pc = "check" /\ "pc" \in DOMAIN r /\ "status" \in DOMAIN r
    OBVIOUS
  <2> HIDE DEF r
  <2> QED BY <2>2, <2>3, Begins
<1>4. ASSUME NEW w \in Worker, ReceiveBranch(w) \/ ReceiveRetry(w) \/ ReceiveStatus(w)
                               \/ HandleDirection(w) \/ UnblockTask(w)
      PROVE  \E r : Aside(w, r)
  <2>1. /\ kind = "Task"
        /\ \/ \E s, fields : Rewrite(w, "check", s, fields)
           \/ \E s, fields, read : WriteBack(w, "check", s, fields, read, {})
    BY <1>4 DEF ReceiveBranch, ReceiveRetry, ReceiveStatus, HandleDirection, UnblockTask
  <2> QED BY <2>1, Rewrites, WritesBack
<1>9. ASSUME NEW w \in Worker, SetTaskStatus(w) \/ SetTaskWorkflowRunID(w) \/ CancelTask(w)
      PROVE  \E r : Aside(w, r)
  <2>1. /\ kind = "Task"
        /\ \E s, fields, read, how : /\ WriteBack(w, "write", s, fields, read, how)
                                     /\ "unchecked" \in how
    <3>1. SetTaskStatus(w) =>
            \E s : WriteBack(w, "write", s, {}, entity.value, {"unchecked", "raw"})
      BY DEF SetTaskStatus
    <3>2. CancelTask(w) => \E read : WriteBack(w, "write", "cancelled", {}, read, {"unchecked"})
      BY DEF CancelTask
    <3>3. SetTaskWorkflowRunID(w) =>
            WriteBack(w, "write", entity.status, {"workflow_run_id"}, entity.value, {"unchecked", "raw"})
      BY DEF SetTaskWorkflowRunID
    <3>4. kind = "Task"
      BY <1>9 DEF SetTaskStatus, SetTaskWorkflowRunID, CancelTask
    <3> QED BY <1>9, <3>1, <3>2, <3>3, <3>4
  <2> QED BY <2>1, WritesBack
<1>5. ASSUME NEW w \in Worker, UpdateWorkflowRunStatus(w) \/ CancelWorkflowRun(w) \/ WriteResult(w)
      PROVE  \E r : Aside(w, r)
  <2>1. kind # "Task" /\ \E fields : Rewrite(w, "write", "other", fields)
    BY <1>5 DEF UpdateWorkflowRunStatus, CancelWorkflowRun, WriteResult
  <2> QED BY <2>1, Rewrites
<1>6. ASSUME NEW w \in Worker, Refused(w)
      PROVE  \E r : Aside(w, r)
  <2>1. NoCall.pc = "idle" /\ "pc" \in DOMAIN NoCall /\ "status" \in DOMAIN NoCall
    BY DEF NoCall
  <2>2. Aside(w, NoCall)
    BY <1>6, <2>1 DEF Refused, Followed, Aside
  <2> QED BY <2>2
<1>7. ASSUME UpdateTaskTodoStatus \/ TouchWorkflowRun
      PROVE  /\ UNCHANGED <<worker, kind, outrun>>
             /\ entity'.status = entity.status /\ "status" \in DOMAIN entity'
  BY <1>7, Patches DEF UpdateTaskTodoStatus, TouchWorkflowRun
<1>8. ASSUME ResolveAgentForTask \/ ChangeTags
      PROVE  /\ UNCHANGED <<worker, kind, outrun>>
             /\ entity'.status = entity.status /\ "status" \in DOMAIN entity'
  BY <1>8 DEF ResolveAgentForTask, ChangeTags, Followed, Guarded, Shaped
<1> QED BY <1>1, <1>2, <1>3, <1>4, <1>5, <1>6, <1>7, <1>8, <1>9 DEF EntityNext

(* What Check and Write do to the worker and the entity.                   *)
LEMMA Checks ==
  ASSUME Guarded, NEW w \in Worker, Check(w)
  PROVE  /\ entity' = entity /\ kind' = kind /\ outrun' = outrun \ {w}
         /\ DOMAIN worker' = Worker /\ \A v \in Worker \ {w} : worker'[v] = worker[v]
         /\ "pc" \in DOMAIN worker'[w] /\ "status" \in DOMAIN worker'[w]
         /\ worker'[w].pc # "idle" =>
              /\ worker[w].pc # "idle" /\ worker'[w].status = worker[w].status
              /\ \/ worker[w].status = entity.status
                 \/ TaskCanTransition(entity.status, worker[w].status)
<1> DEFINE ok == \/ worker[w].status = entity.status
                 \/ TaskCanTransition(entity.status, worker[w].status)
<1>1. Become(w, IF ok THEN [worker[w] EXCEPT !.pc = "write"] ELSE NoCall)
  BY DEF Check
<1>2. NoCall.pc = "idle" /\ "pc" \in DOMAIN NoCall /\ "status" \in DOMAIN NoCall
  BY DEF NoCall
<1>3. entity' = entity /\ kind' = kind /\ outrun' = outrun \ {w} /\ worker[w].pc = "check"
  BY DEF Check, Followed, At
<1> HIDE DEF ok
<1>4. /\ DOMAIN worker' = Worker /\ \A v \in Worker \ {w} : worker'[v] = worker[v]
      /\ worker'[w] = IF ok THEN [worker[w] EXCEPT !.pc = "write"] ELSE NoCall
  BY <1>1 DEF Become, Guarded, Shaped
<1>5. /\ "pc" \in DOMAIN worker'[w] /\ "status" \in DOMAIN worker'[w]
      /\ worker'[w].pc # "idle" => ok /\ worker'[w].status = worker[w].status
  BY <1>2, <1>4 DEF Guarded, Shaped
<1> QED BY <1>3, <1>4, <1>5 DEF ok

LEMMA Writes ==
  ASSUME Guarded, NEW w \in Worker, Write(w)
  PROVE  /\ entity'.status = worker[w].status /\ "status" \in DOMAIN entity'
         /\ kind' = kind /\ worker[w].pc = "write"
         /\ DOMAIN worker' = Worker /\ \A v \in Worker \ {w} : worker'[v] = worker[v]
         /\ worker'[w] = NoCall
         /\ outrun' = (outrun \cup {v \in Worker : worker[v].pc = "write"}) \ {w}
<1>1. PICK y : entity' = [status |-> worker[w].status, value |-> y]
  BY DEF Write
<1>2. entity'.status = worker[w].status /\ "status" \in DOMAIN entity'
  BY <1>1
<1>3. /\ kind' = kind /\ worker[w].pc = "write"
      /\ outrun' = (outrun \cup {v \in Worker : worker[v].pc = "write"}) \ {w}
  BY DEF Write, Followed, At, Checked
<1>4. Become(w, NoCall)
  BY DEF Write
<1>5. /\ DOMAIN worker' = Worker /\ \A v \in Worker \ {w} : worker'[v] = worker[v]
      /\ worker'[w] = NoCall
  BY <1>4 DEF Become, Guarded, Shaped
<1> QED BY <1>2, <1>3, <1>5

(* What ResetTask does to them: every transition checked before is stale.  *)
LEMMA Resets ==
  ASSUME ResetTask
  PROVE  /\ kind = "Task" /\ UNCHANGED <<kind, worker>>
         /\ "status" \in DOMAIN entity'
         /\ \A v \in Worker : worker[v].pc = "write" => v \in outrun'
<1>1. PICK x : entity' = [status |-> "pending", value |-> x]
  BY DEF ResetTask
<1> QED BY <1>1 DEF ResetTask, Followed, Checked, At

LEMMA GuardedStep ==
  ASSUME Guarded, [EntityNext]_entityVars
  PROVE  Guarded'
<1>1. ASSUME NEW w \in Worker, NEW r, Aside(w, r)
      PROVE  Guarded'
  BY <1>1, StepsAside
<1>2. ASSUME NEW w \in Worker, Check(w)
      PROVE  Guarded'
  BY <1>2, Checks DEF Guarded, Shaped, OneStatus, CheckHolds
<1>3. ASSUME NEW w \in Worker, Write(w)
      PROVE  Guarded'
  <2>1. NoCall.pc = "idle" /\ "pc" \in DOMAIN NoCall /\ "status" \in DOMAIN NoCall
    BY DEF NoCall
  <2>2. Shaped'
    BY <1>3, <2>1, Writes DEF Guarded, Shaped
  <2>3. OneStatus'
    BY <1>3, <2>1, Writes DEF Guarded, OneStatus
  <2>4. CheckHolds'
    BY <1>3, <2>1, Writes DEF CheckHolds
  <2> QED BY <2>2, <2>3, <2>4 DEF Guarded
<1>4. ASSUME UNCHANGED <<worker, kind, outrun>>,
             entity'.status = entity.status, "status" \in DOMAIN entity'
      PROVE  Guarded'
  BY <1>4 DEF Guarded, Shaped, OneStatus, CheckHolds
<1>5. CASE UNCHANGED entityVars
  BY <1>5 DEF entityVars, Guarded, Shaped, OneStatus, CheckHolds
<1>6. CASE ResetTask
  BY <1>6, Resets DEF Guarded, Shaped, OneStatus, CheckHolds
<1> QED BY <1>1, <1>2, <1>3, <1>4, <1>5, <1>6, AsideOrElse

LEMMA GuardedInit == EntityInit => Guarded
<1> SUFFICES ASSUME EntityInit
             PROVE  Guarded
  OBVIOUS
<1>1. worker = [w \in Worker |-> NoCall] /\ entity \in [status : Statuses, value : ValueOf(field)]
  BY DEF EntityInit
<1>2. NoCall.pc = "idle" /\ "pc" \in DOMAIN NoCall /\ "status" \in DOMAIN NoCall
  BY DEF NoCall
<1>3. entity.status \in Statuses /\ "status" \in DOMAIN entity
  <2> HIDE DEF Statuses, ValueOf
  <2> QED BY <1>1
<1>4. \A w \in Worker : worker[w] = NoCall
  BY <1>1
<1>5. Shaped
  BY <1>1, <1>2, <1>3, <1>4 DEF Shaped
<1>6. OneStatus
  BY <1>2, <1>3, <1>4 DEF OneStatus, Statuses
<1>7. CheckHolds
  BY <1>2, <1>4 DEF CheckHolds
<1> QED BY <1>5, <1>6, <1>7 DEF Guarded

LEMMA WriteIsAllowed ==
  ASSUME Guarded, [EntityNext]_entityVars, NEW w \in Worker,
         Writing(w), w \notin outrun, "unchecked" \notin worker[w].means,
         entity'.status # entity.status
  PROVE  TaskCanTransition(entity.status, entity'.status)
<1>0. ~ResetTask
  BY Resets DEF Writing, At
<1>1. PICK v \in Worker : Write(v)
  BY <1>0, AsideOrElse, Checks DEF Aside, entityVars
<1>2. v = w
  BY <1>1, Writes DEF Writing, At
<1>3. worker[w].pc = "write" /\ entity'.status = worker[w].status
  BY <1>1, <1>2, Writes
<1>4. kind = "Task"
  BY <1>3 DEF Guarded, OneStatus
<1> QED BY <1>3, <1>4 DEF Guarded, CheckHolds

(* An UpdateTask moves the stored status along CanTransitionTo only,       *)
(* unless another write fell between its check of the transition and its   *)
(* write; the writers that check none are excepted.                        *)
THEOREM AlongTransitions == EntitySpec => StatusAlongTransitions
<1>1. Guarded /\ [EntityNext]_entityVars =>
        [\A w \in Worker :
           /\ Writing(w) /\ w \notin outrun /\ "unchecked" \notin worker[w].means
           /\ entity'.status # entity.status
           => TaskCanTransition(entity.status, entity'.status)]_entityVars
  BY WriteIsAllowed
<1> QED BY <1>1, GuardedInit, GuardedStep, PTL DEF EntitySpec, StatusAlongTransitions

-----------------------------------------------------------------------------
(* What the calls in progress hold of the field followed.                  *)

Whole(r) == {"pc", "means", "status", "value", "sent"} \subseteq DOMAIN r

(* What a read may make of the entity e: some tags may not be read.        *)
Views(e) == {Derived(e.value)} \cup (IF Tagged THEN {""} ELSE {})

(* The locals r of a call that no other write has overtaken: the value is  *)
(* the stored one, e's, or what a read makes of it, unless the call is to  *)
(* change it; so is the status, or it was not one that the message can     *)
(* carry.                                                                  *)
Current(r, e) ==
  /\ r.pc = "edit" => \E v \in Views(e) : r.value = Through(ToProto[kind], v)
  /\ r.pc \in {"check", "write"} /\ "value" \notin r.means /\ "unsent" \notin r.means =>
       r.value \in Views(e) \cup {e.value}
  /\ r.pc # "idle" /\ "status" \notin r.means => r.status \in {e.status, ""}
  /\ r.pc = "write" /\ "status" \notin r.means => r.status = e.status

(* A value sent is the one to be written; in place of one that could not   *)
(* be sent none is written.                                                *)
Carried(r) ==
  /\ r.pc = "edit" => kind \in DOMAIN FromProto /\ r.means = {}
  /\ r.pc \in {"check", "write"} /\ "value" \in r.means => r.value = r.sent
  /\ r.pc \in {"check", "write"} /\ "unsent" \in r.means =>
       r.value = "" /\ field \notin Optional[kind] /\ "value" \notin r.means

Stored == ~raced /\ field \notin Stamp /\ ~Tagged => Derived(entity.value) = Derived(given)

Faithful ==
  /\ kind \in Kind /\ field \in Properties[kind]
  /\ "value" \in DOMAIN entity
  /\ \A w \in Worker :
       /\ Whole(worker[w]) /\ Carried(worker[w])
       /\ w \notin overtaken => Current(worker[w], entity)
  /\ Stored

(* Every property stored is read back, and every field shown is taken from *)
(* a request; an optional property of a task has a field in its message.   *)
LEMMA Conversions ==
  /\ \A k \in Kind : FromEntity[k] = Properties[k]
  /\ DOMAIN FromProto = {"Task", "Project", "Agent"}
  /\ \A k \in DOMAIN FromProto : k \in Kind /\ FromProto[k] = ToProto[k] /\ Optional[k] \subseteq FromProto[k]
  /\ FromProto["Task"] = ProtoToTask /\ TaskMask \subseteq ProtoToTask
<1>1. \A k \in Kind : FromEntity[k] = Properties[k]
  BY DEF Kind, FromEntity, Properties, TaskFromEntity, TaskTodoFromEntity, WorkflowRunFromEntity,
         ProjectFromEntity, AgentFromEntity, AcceptanceCriteriaFromEntity
<1>2. DOMAIN FromProto = {"Task", "Project", "Agent"}
  BY DEF FromProto
<1>3. \A k \in {"Task", "Project", "Agent"} : k \in Kind /\ FromProto[k] = ToProto[k]
  BY DEF Kind, Properties, FromProto, ToProto, TaskToProto, ProjectToProto, AgentToProto,
         ProtoToTask, ProtoToProject, ProtoToAgent
<1>4. Optional["Task"] \subseteq FromProto["Task"]
  BY DEF Optional, FromProto, ProtoToTask, TaskMessage
<1>5. \A k \in {"Project", "Agent"} : Optional[k] \subseteq FromProto[k]
  BY DEF Optional
<1>6. FromProto["Task"] = ProtoToTask /\ TaskMask \subseteq ProtoToTask
  BY DEF FromProto, TaskMask
<1> QED BY <1>1, <1>2, <1>3, <1>4, <1>5, <1>6

(* What a read returns.                                                    *)
LEMMA ReadsBack ==
  ASSUME Faithful
  PROVE  /\ Read = Derived(entity.value) /\ Shown = Through(ToProto[kind], Read)
         /\ Readings \subseteq Views(entity)
         /\ ~Tagged => \A v : Derived(Derived(v)) = Derived(v)
<1>1. FromEntity[kind] = Properties[kind]
  BY Conversions DEF Faithful
<1>2. Read = Derived(entity.value)
  BY <1>1 DEF Read, Through, Faithful
<1>3. Slug # ""
  BY ValueAssumption DEF Slug
<1>4. ~Tagged => \A v : Derived(Derived(v)) = Derived(v)
  BY <1>3 DEF Derived
<1>5. Readings \subseteq Views(entity)
  BY <1>2 DEF Readings, Views
<1> QED BY <1>2, <1>4, <1>5 DEF Shown

(* A step of w that leaves the entity as it was.                           *)
LEMMA FaithfulAside ==
  ASSUME Guarded, Faithful, NEW w \in Worker, NEW r, Become(w, r), Whole(r), Carried(r),
         UNCHANGED <<kind, field, names, entity, given, raced>>, overtaken \ {w} \subseteq overtaken',
         w \notin overtaken' => Current(r, entity)
  PROVE  Faithful'
<1>1. worker'[w] = r /\ \A v \in Worker \ {w} : worker'[v] = worker[v]
  BY DEF Become, Guarded, Shaped
<1>2. \A v \in Worker :
        /\ Whole(worker'[v]) /\ Carried(worker'[v])
        /\ v \notin overtaken' => Current(worker'[v], entity)
  BY <1>1 DEF Faithful
<1>3. \A v \in Worker :
        /\ Whole(worker'[v]) /\ Carried(worker[v])'
        /\ v \notin overtaken' => Current(worker[v], entity)'
  BY <1>2 DEF Carried, Current, Views, Derived, Tagged, Through
<1>4. Stored'
  BY DEF Faithful, Stored, Derived, Tagged
<1> QED BY <1>3, <1>4 DEF Faithful, Whole

LEMMA FaithfulBegin ==
  ASSUME Guarded, Faithful, NEW w \in Worker, NEW r, Begin(w, r), Whole(r), Carried(r),
         Current(r, entity)
  PROVE  Faithful'
<1>1. Become(w, r) /\ UNCHANGED <<kind, field, names, entity, given, raced>>
      /\ overtaken \ {w} \subseteq overtaken'
  BY DEF Begin, Followed
<1> QED BY <1>1, FaithfulAside

LEMMA FaithfulWriteBack ==
  ASSUME Guarded, Faithful, NEW w \in Worker, NEW pc \in {"check", "write"}, NEW s, NEW fields,
         NEW read \in Views(entity) \cup {entity.value}, NEW how \in SUBSET {"unchecked", "raw"},
         WriteBack(w, pc, s, fields, read, how)
  PROVE  Faithful'
<1>1. PICK v \in ValueOf(field) :
        LET to == IF field \in fields THEN v ELSE read IN
        Begin(w, [pc |-> pc, status |-> s, value |-> to, sent |-> to,
                  means |-> how \cup (IF field \in fields THEN {"value"} ELSE {})
                            \cup (IF s = entity.status THEN {} ELSE {"status"})])
  BY DEF WriteBack
<1> DEFINE to == IF field \in fields THEN v ELSE read
           m == how \cup (IF field \in fields THEN {"value"} ELSE {})
                \cup (IF s = entity.status THEN {} ELSE {"status"})
           r == [pc |-> pc, status |-> s, value |-> to, sent |-> to, means |-> m]
<1>2. Begin(w, r)
  BY <1>1
<1>3. /\ "unsent" \notin m /\ ("status" \notin m => s = entity.status)
      /\ ("value" \notin m => to = read)
  OBVIOUS
<1> HIDE DEF to, m
<1>4. r.pc = pc /\ r.status = s /\ r.value = to /\ r.sent = to /\ r.means = m /\ Whole(r)
  BY DEF Whole
<1> HIDE DEF r
<1>5. Carried(r) /\ Current(r, entity)
  BY <1>3, <1>4 DEF Carried, Current
<1> QED BY <1>2, <1>4, <1>5, FaithfulBegin

LEMMA FaithfulRewrite ==
  ASSUME Guarded, Faithful, NEW w \in Worker, NEW pc \in {"check", "write"}, NEW s, NEW fields,
         Rewrite(w, pc, s, fields)
  PROVE  Faithful'
BY ReadsBack, FaithfulWriteBack DEF Rewrite

LEMMA FaithfulGet ==
  ASSUME Guarded, Faithful, NEW w \in Worker, Get(w)
  PROVE  Faithful'
<1> DEFINE s == IF kind = "Task" THEN ProtoToStatus(StatusToProto(entity.status)) ELSE entity.status
           rec(x) == [pc |-> "edit", means |-> {}, value |-> x, sent |-> x, status |-> s]
<1>1. PICK read \in Readings : Begin(w, rec(Through(ToProto[kind], read)))
  BY DEF Get
<1> DEFINE shown == Through(ToProto[kind], read)
           r == rec(shown)
<1>2. s \in {entity.status, ""} /\ kind \in DOMAIN FromProto
  BY DEF ProtoToStatus, StatusToProto, Get
<1>3. \E v \in Views(entity) : shown = Through(ToProto[kind], v)
  BY ReadsBack
<1>4. Begin(w, r)
  BY <1>1
<1> HIDE DEF s, shown
<1>5. r.pc = "edit" /\ r.status = s /\ r.value = shown /\ r.means = {} /\ Whole(r)
  BY DEF Whole
<1> HIDE DEF r
<1>6. Carried(r) /\ Current(r, entity)
  BY <1>2, <1>3, <1>5 DEF Carried, Current
<1> QED BY <1>4, <1>5, <1>6, FaithfulBegin

LEMMA FaithfulSend ==
  ASSUME Guarded, Faithful, NEW w \in Worker, Send(w)
  PROVE  Faithful'
<1>1. PICK means \in SUBSET {"status", "value"}, s \in SentStatus \cup {"other"}, v \in ValueOf(field) :
        /\ "status" \notin means => s = worker[w].status
        /\ "value" \notin means => v = worker[w].value
        /\ "value" \in means => field \in ToProto[kind]
        /\ "status" \in means => kind = "Task"
        /\ Become(w,
             IF <<kind, field, v>> = <<"Project", "name", "">> THEN NoCall
             ELSE [pc |-> IF kind = "Task" THEN "check" ELSE "write",
                   means |-> means \cup (IF field \in FromProto[kind] THEN {} ELSE {"unsent"}),
                   status |-> s, value |-> Through(FromProto[kind], v), sent |-> v])
  BY DEF Send
<1> DEFINE pc == IF kind = "Task" THEN "check" ELSE "write"
           m == means \cup (IF field \in FromProto[kind] THEN {} ELSE {"unsent"})
           x == Through(FromProto[kind], v)
           r == [pc |-> pc, means |-> m, status |-> s, value |-> x, sent |-> v]
<1>2. /\ worker[w].pc = "edit" /\ UNCHANGED <<kind, field, names, entity, given, raced, overtaken>>
      /\ Become(w, IF <<kind, field, v>> = <<"Project", "name", "">> THEN NoCall ELSE r)
  BY <1>1 DEF Send, At, Followed
<1>3. /\ kind \in DOMAIN FromProto /\ FromProto[kind] = ToProto[kind]
      /\ Optional[kind] \subseteq FromProto[kind] /\ worker[w].means = {}
  BY <1>2, Conversions DEF Faithful, Carried
<1>4. kind # "Task" => s = entity.status
  BY <1>1, <1>2 DEF Guarded, OneStatus
<1>6. /\ "value" \in m => x = v /\ "unsent" \notin m
      /\ "unsent" \in m => x = "" /\ field \notin Optional[kind]
      /\ "value" \notin m => v = worker[w].value
      /\ "status" \notin m => s = worker[w].status
      /\ "unsent" \notin m => field \in ToProto[kind] /\ x = v
  BY <1>1, <1>3 DEF Through
<1> HIDE DEF m, x
<1>7. /\ r.pc = pc /\ r.status = s /\ r.value = x /\ r.sent = v /\ r.means = m /\ Whole(r)
      /\ pc \in {"check", "write"} /\ (pc = "write" => kind # "Task")
  BY DEF Whole
<1> HIDE DEF r, pc
<1>8. Carried(r)
  BY <1>6, <1>7 DEF Carried
<1>9. ASSUME w \notin overtaken
      PROVE  Current(r, entity)
  <2>1. Current(worker[w], entity)
    BY <1>9 DEF Faithful
  <2>2. /\ \E u \in Views(entity) : worker[w].value = Through(ToProto[kind], u)
        /\ worker[w].status \in {entity.status, ""}
    BY <1>2, <1>3, <2>1 DEF Current
  <2>3. "value" \notin m /\ "unsent" \notin m => x \in Views(entity)
    BY <1>6, <2>2 DEF Through
  <2>4. "status" \notin m => s \in {entity.status, ""} /\ (pc = "write" => s = entity.status)
    BY <1>4, <1>6, <1>7, <2>2
  <2> QED BY <1>7, <2>3, <2>4 DEF Current
<1>10. Carried(NoCall) /\ Current(NoCall, entity) /\ Whole(NoCall)
  BY DEF NoCall, Carried, Current, Whole
<1>11. CASE <<kind, field, v>> = <<"Project", "name", "">>
  <2>1. Become(w, NoCall)
    BY <1>2, <1>11
  <2> QED BY <1>2, <1>10, <2>1, FaithfulAside
<1>12. CASE <<kind, field, v>> # <<"Project", "name", "">>
  <2>1. Become(w, r)
    BY <1>2, <1>12
  <2> QED BY <1>2, <1>7, <1>8, <1>9, <2>1, FaithfulAside
<1> QED BY <1>11, <1>12

LEMMA FaithfulMask ==
  ASSUME Guarded, Faithful, NEW w \in Worker, MaskedUpdate(w)
  PROVE  Faithful'
<1>1. PICK mask \in SUBSET {"status", "value"}, s \in SentStatus, v \in ValueOf(field), read \in Readings :
        /\ "value" \in mask => field \in TaskMask
        /\ LET new == ApplyMask(s, Through(ProtoToTask, v), mask, read) IN
           Begin(w, [pc |-> "check", means |-> mask, status |-> new.status, value |-> new.value,
                     sent |-> v])
  BY DEF MaskedUpdate
<1> DEFINE new == ApplyMask(s, Through(ProtoToTask, v), mask, read)
           r == [pc |-> "check", means |-> mask, status |-> new.status, value |-> new.value,
                 sent |-> v]
<1>2. Begin(w, r)
  BY <1>1
<1>3. /\ "status" \notin mask => new.status = entity.status
      /\ "value" \notin mask => new.value \in Views(entity)
  BY ReadsBack DEF ApplyMask
<1>4. "value" \in mask => new.value = v
  <2>1. "value" \in mask => field \in ProtoToTask
    BY <1>1, Conversions
  <2> QED BY <2>1 DEF ApplyMask, Through
<1> HIDE DEF new
<1>5. /\ r.pc = "check" /\ r.status = new.status /\ r.value = new.value /\ r.sent = v
      /\ r.means = mask /\ Whole(r)
  BY DEF Whole
<1> HIDE DEF r
<1>6. Carried(r) /\ Current(r, entity)
  BY <1>1, <1>3, <1>4, <1>5 DEF Carried, Current
<1> QED BY <1>2, <1>5, <1>6, FaithfulBegin

(* The check passes no status that is not the stored one nor one to go to. *)
LEMMA FaithfulCheck ==
  ASSUME Guarded, Faithful, NEW w \in Worker, Check(w)
  PROVE  Faithful'
<1> DEFINE me == worker[w]
           ok == me.status = entity.status \/ TaskCanTransition(entity.status, me.status)
           r == [me EXCEPT !.pc = "write"]
<1>1. /\ me.pc = "check" /\ UNCHANGED <<kind, field, names, entity, given, raced, overtaken>>
      /\ Become(w, IF ok THEN r ELSE NoCall)
  BY DEF Check, At, Followed
<1>2. Carried(NoCall) /\ Current(NoCall, entity) /\ Whole(NoCall)
  BY DEF NoCall, Carried, Current, Whole
<1>3. /\ r.pc = "write" /\ r.status = me.status /\ r.value = me.value /\ r.sent = me.sent
      /\ r.means = me.means /\ Whole(r)
  BY DEF Faithful, Whole
<1>4. ok => me.status = entity.status \/ me.status # ""
  BY DEF TaskCanTransition, TaskTransitions
<1> HIDE DEF r, ok
<1>5. Carried(r)
  BY <1>1, <1>3 DEF Faithful, Carried
<1>6. ASSUME ok, w \notin overtaken
      PROVE  Current(r, entity)
  BY <1>1, <1>3, <1>4, <1>6 DEF Faithful, Current
<1>7. CASE ok
  <2>1. Become(w, r)
    BY <1>1, <1>7
  <2> QED BY <1>1, <1>3, <1>5, <1>6, <1>7, <2>1, FaithfulAside
<1>8. CASE ~ok
  <2>1. Become(w, NoCall)
    BY <1>1, <1>8
  <2> QED BY <1>1, <1>2, <2>1, FaithfulAside
<1> QED BY <1>7, <1>8

LEMMA FaithfulRefused ==
  ASSUME Guarded, Faithful, NEW w \in Worker, Refused(w)
  PROVE  Faithful'
<1>1. Carried(NoCall) /\ Current(NoCall, entity) /\ Whole(NoCall)
  BY DEF NoCall, Carried, Current, Whole
<1>2. Become(w, NoCall) /\ UNCHANGED <<kind, field, names, entity, given, raced, overtaken>>
  BY DEF Refused, Followed
<1> QED BY <1>1, <1>2, FaithfulAside

(* A write of no call in progress that overtakes them all.                 *)
LEMMA FaithfulPatch ==
  ASSUME Guarded, Faithful, UNCHANGED <<kind, field, worker>>,
         "value" \in DOMAIN entity', Stored',
         \A w \in Worker : w \notin overtaken' => worker[w].pc = "idle"
  PROVE  Faithful'
<1>1. \A v \in Worker : Whole(worker'[v]) /\ Carried(worker[v])'
  BY DEF Faithful, Carried
<1>2. \A v \in Worker : v \notin overtaken' => Current(worker[v], entity)'
  BY DEF Current
<1> QED BY <1>1, <1>2 DEF Faithful, Whole

LEMMA FaithfulPatches ==
  ASSUME Guarded, Faithful, NEW fields, Patch(fields)
  PROVE  Faithful'
<1>1. PICK v \in ValueOf(field) :
        /\ entity' = IF field \in fields THEN [entity EXCEPT !.value = v] ELSE entity
        /\ given' = IF field \in fields THEN v ELSE given
  BY DEF Patch
<1>2. /\ raced' = (raced /\ field \notin fields) /\ UNCHANGED <<kind, field, names, worker>>
      /\ overtaken' = IF field \in fields THEN overtaken \cup Busy ELSE overtaken
  BY DEF Patch, Followed
<1>3. CASE field \in fields
  <2>1. entity'.value = v /\ given' = v /\ "value" \in DOMAIN entity'
    BY <1>1, <1>3 DEF Faithful
  <2>2. ~raced' /\ \A w \in Worker : w \notin overtaken' => worker[w].pc = "idle"
    BY <1>2, <1>3 DEF Busy, At
  <2>3. Stored'
    BY <2>1 DEF Stored
  <2> QED BY <1>2, <2>1, <2>2, <2>3, FaithfulPatch
<1>4. CASE field \notin fields
  <2>1. UNCHANGED <<kind, field, names, worker, entity, given, overtaken>>
    BY <1>1, <1>2, <1>4
  <2>2. Stored' /\ (raced' <=> raced)
    BY <1>2, <1>4, <2>1 DEF Faithful, Stored, Derived, Tagged
  <2> QED BY <2>1, <2>2 DEF Faithful, Whole, Carried, Current, Views, Derived, Tagged, Through
<1> QED BY <1>3, <1>4

LEMMA FaithfulResolve ==
  ASSUME Guarded, Faithful, ResolveAgentForTask
  PROVE  Faithful'
<1>1. /\ entity' = [entity EXCEPT !.value = ""] /\ given' = "" /\ ~raced'
      /\ overtaken' = overtaken \cup Busy
      /\ UNCHANGED <<kind, field, worker>>
  BY DEF ResolveAgentForTask, Followed
<1>2. "value" \in DOMAIN entity' /\ entity'.value = given'
  BY <1>1 DEF Faithful
<1>3. Stored'
  BY <1>2 DEF Stored
<1> QED BY <1>1, <1>2, <1>3, FaithfulPatch DEF Busy, At

LEMMA FaithfulReset ==
  ASSUME Guarded, Faithful, ResetTask
  PROVE  Faithful'
<1> DEFINE cleared == {"workflow_run_id", "completed_at"}
<1>1. PICK now \in Value :
        entity' = [status |-> "pending",
                   value |-> CASE field \in cleared -> ""
                               [] field = "updated_at" -> now
                               [] OTHER -> entity.value]
  BY DEF ResetTask
<1> DEFINE x == CASE field \in cleared -> "" [] field = "updated_at" -> now [] OTHER -> entity.value
<1>2. /\ given' = IF field \in cleared THEN "" ELSE given
      /\ raced' = (raced /\ field \notin cleared)
      /\ overtaken' = overtaken \cup Busy /\ UNCHANGED <<kind, field, names, worker>>
  BY DEF ResetTask, Followed
<1>3. field \in cleared => x = ""
  OBVIOUS
<1>4. field \notin cleared /\ field \notin Stamp => x = entity.value
  BY DEF Stamp
<1>5. entity' = [status |-> "pending", value |-> x]
  BY <1>1
<1> HIDE DEF x, cleared
<1>6. "value" \in DOMAIN entity' /\ entity'.value = x
  BY <1>5
<1>7. Stored'
  <2>1. CASE field \in cleared
    BY <1>2, <1>3, <1>6, <2>1 DEF Stored
  <2>2. CASE field \notin cleared
    BY <1>2, <1>4, <1>6, <2>2 DEF Faithful, Stored, Derived, Tagged
  <2> QED BY <2>1, <2>2
<1> QED BY <1>2, <1>6, <1>7, FaithfulPatch DEF Busy, At

LEMMA FaithfulTags ==
  ASSUME Guarded, Faithful, ChangeTags
  PROVE  Faithful'
<1>1. Tagged /\ UNCHANGED <<kind, field, worker, entity>> /\ overtaken' = overtaken \cup Busy
  BY DEF ChangeTags, Followed
<1>2. Stored'
  BY <1>1 DEF Stored, Tagged
<1> QED BY <1>1, <1>2, FaithfulPatch DEF Faithful, Busy, At

-----------------------------------------------------------------------------
(* The write.                                                              *)

LEMMA StampedIs ==
  ASSUME NEW me, NEW now, field \notin Stamp
  PROVE  Stamped(me, now) = me.value
BY DEF Stamped, Stamp

(* What a write stores, apart from time stamps.                            *)
LEMMA WriteStores ==
  ASSUME Faithful, NEW w \in Worker, Write(w)
  PROVE  /\ "value" \in DOMAIN entity' /\ entity'.status = worker[w].status
         /\ field \notin Stamp =>
              entity'.value = IF Kept(worker[w].value) THEN entity.value ELSE worker[w].value
<1>1. PICK now \in Value :
        entity' = [status |-> worker[w].status,
                   value |-> IF Kept(Stamped(worker[w], now)) THEN entity.value
                             ELSE Stamped(worker[w], now)]
  BY DEF Write
<1> DEFINE v == Stamped(worker[w], now)
           x == IF Kept(v) THEN entity.value ELSE v
<1>2. entity' = [status |-> worker[w].status, value |-> x]
  BY <1>1
<1>3. field \notin Stamp => x = IF Kept(worker[w].value) THEN entity.value ELSE worker[w].value
  BY StampedIs
<1> HIDE DEF x
<1> QED BY <1>2, <1>3

LEMMA FaithfulWrite ==
  ASSUME Guarded, Faithful, NEW w \in Worker, Write(w)
  PROVE  Faithful'
<1> DEFINE me == worker[w]
<1>1. /\ me.pc = "write" /\ Become(w, NoCall) /\ UNCHANGED <<kind, field, names>>
      /\ overtaken' = (overtaken \cup Busy) \ {w}
      /\ IF "value" \in me.means /\ ~Kept(me.sent)
         THEN given' = me.sent /\ raced' = FALSE
         ELSE /\ given' = IF "unsent" \in me.means THEN "" ELSE given
              /\ raced' = (raced \/ w \in overtaken)
  BY DEF Write, At, Followed
<1>2. worker'[w] = NoCall /\ \A v \in Worker \ {w} : worker'[v] = worker[v]
  BY <1>1 DEF Become, Guarded, Shaped
<1> HIDE DEF me
<1>3. \A v \in Worker : Whole(worker'[v]) /\ Carried(worker'[v])
  <2>1. Whole(NoCall) /\ Carried(NoCall)
    BY DEF NoCall, Whole, Carried
  <2> QED BY <1>2, <2>1 DEF Faithful
<1>4. \A v \in Worker : v \notin overtaken' => worker'[v].pc = "idle"
  <2>1. NoCall.pc = "idle"
    BY DEF NoCall
  <2> QED BY <1>1, <1>2, <2>1 DEF Busy, At
<1> USE DEF me
<1>5. \A v \in Worker : Carried(worker[v])' /\ (v \notin overtaken' => Current(worker[v], entity)')
  BY <1>1, <1>3, <1>4 DEF Carried, Current
<1>6. Stored'
  <2> SUFFICES ASSUME ~raced', field \notin Stamp, ~Tagged
               PROVE  Derived(entity'.value) = Derived(given')
    BY <1>1 DEF Stored, Stamp, Derived, Tagged
  <2>1. entity'.value = IF Kept(me.value) THEN entity.value ELSE me.value
    BY WriteStores
  <2>2. /\ "value" \in me.means => me.value = me.sent
        /\ "unsent" \in me.means => me.value = "" /\ ~Kept(me.value) /\ "value" \notin me.means
    BY <1>1 DEF Faithful, Carried, Kept
  <2>3. CASE "value" \in me.means /\ ~Kept(me.sent)
    BY <1>1, <2>1, <2>2, <2>3
  <2>4. CASE ~("value" \in me.means /\ ~Kept(me.sent))
    <3>1. ~raced /\ w \notin overtaken /\ given' = IF "unsent" \in me.means THEN "" ELSE given
      BY <1>1, <2>4
    <3>2. Derived(entity.value) = Derived(given) /\ Current(me, entity)
      BY <3>1 DEF Faithful, Stored
    <3>3. CASE "unsent" \in me.means
      BY <2>1, <2>2, <3>1, <3>3
    <3>4. CASE "unsent" \notin me.means /\ "value" \in me.means
      BY <2>1, <2>2, <2>4, <3>1, <3>2, <3>4
    <3>5. CASE "unsent" \notin me.means /\ "value" \notin me.means
      <4>1. me.value \in {entity.value, Derived(entity.value)}
        BY <1>1, <3>2, <3>5 DEF Current, Views
      <4> QED BY <2>1, <3>1, <3>2, <3>5, <4>1, ReadsBack
    <3> QED BY <3>3, <3>4, <3>5
  <2> QED BY <2>3, <2>4
<1> QED BY <1>1, <1>3, <1>5, <1>6, WriteStores DEF Faithful, Whole

LEMMA FaithfulStep ==
  ASSUME Guarded, Faithful, [EntityNext]_entityVars
  PROVE  Faithful'
<1>1. ASSUME NEW w \in Worker, ReceiveBranch(w) \/ ReceiveRetry(w) \/ ReceiveStatus(w)
                               \/ HandleDirection(w) \/ UnblockTask(w)
      PROVE  Faithful'
  <2>1. \/ \E s, fields : Rewrite(w, "check", s, fields)
        \/ \E s, fields : WriteBack(w, "check", s, fields, entity.value, {})
    BY <1>1 DEF ReceiveBranch, ReceiveRetry, ReceiveStatus, HandleDirection, UnblockTask
  <2> QED BY <2>1, FaithfulRewrite, FaithfulWriteBack
<1>5. ASSUME NEW w \in Worker, SetTaskStatus(w) \/ SetTaskWorkflowRunID(w)
      PROVE  Faithful'
  <2>1. \E s, fields : WriteBack(w, "write", s, fields, entity.value, {"unchecked", "raw"})
    BY <1>5 DEF SetTaskStatus, SetTaskWorkflowRunID
  <2> QED BY <2>1, FaithfulWriteBack
<1>6. ASSUME NEW w \in Worker, CancelTask(w)
      PROVE  Faithful'
  <2>1. PICK read \in Readings : WriteBack(w, "write", "cancelled", {}, read, {"unchecked"})
    BY <1>6 DEF CancelTask
  <2>2. read \in Views(entity) \cup {entity.value}
    BY ReadsBack
  <2> QED BY <2>1, <2>2, FaithfulWriteBack
<1>2. ASSUME NEW w \in Worker, UpdateWorkflowRunStatus(w) \/ CancelWorkflowRun(w) \/ WriteResult(w)
      PROVE  Faithful'
  <2>1. \E fields : Rewrite(w, "write", "other", fields)
    BY <1>2 DEF UpdateWorkflowRunStatus, CancelWorkflowRun, WriteResult
  <2> QED BY <2>1, FaithfulRewrite
<1>3. ASSUME UpdateTaskTodoStatus \/ TouchWorkflowRun
      PROVE  Faithful'
  BY <1>3, FaithfulPatches DEF UpdateTaskTodoStatus, TouchWorkflowRun
<1>4. CASE UNCHANGED entityVars
  BY <1>4 DEF entityVars, Faithful, Whole, Carried, Current, Views, Stored, Derived, Tagged, Through
<1> QED
  BY <1>1, <1>2, <1>3, <1>4, <1>5, <1>6, FaithfulGet, FaithfulSend, FaithfulMask, FaithfulCheck,
     FaithfulWrite, FaithfulRefused, FaithfulResolve, FaithfulReset, FaithfulTags DEF EntityNext

LEMMA FaithfulInit == EntityInit => Faithful
<1> SUFFICES ASSUME EntityInit
             PROVE  Faithful
  OBVIOUS
<1>1. /\ kind \in Kind /\ field \in Properties[kind] /\ given = entity.value
      /\ entity \in [status : Statuses, value : ValueOf(field)]
      /\ \A w \in Worker : worker[w] = NoCall
  BY DEF EntityInit
<1>2. "value" \in DOMAIN entity
  <2> HIDE DEF Statuses, ValueOf
  <2> QED BY <1>1
<1>3. Carried(NoCall) /\ Current(NoCall, entity) /\ Whole(NoCall)
  BY DEF NoCall, Carried, Current, Whole
<1>4. Stored
  BY <1>1 DEF Stored
<1> QED BY <1>1, <1>2, <1>3, <1>4 DEF Faithful

(* A field reads as the value last given to it, in the service and by a    *)
(* client it is shown to, through every conversion and whatever other      *)
(* fields the calls change, unless an overtaken call has written it back;  *)
(* a task's tags are excepted, for which no value given is ever read.      *)
THEOREM ReadsAsGiven == EntitySpec => []LastGiven
<1>1. Faithful => LastGiven
  BY ReadsBack DEF Faithful, Stored, LastGiven, Through
<1> QED BY <1>1, GuardedInit, GuardedStep, FaithfulInit, FaithfulStep, PTL DEF EntitySpec

Spent == faults \in Nat

(* The service's own calls, and the writes that no worker makes.           *)
SelfMade(w) ==
  \/ ReceiveBranch(w) \/ ReceiveRetry(w) \/ ReceiveStatus(w) \/ HandleDirection(w) \/ UnblockTask(w)
  \/ SetTaskStatus(w) \/ SetTaskWorkflowRunID(w) \/ CancelTask(w)
  \/ UpdateWorkflowRunStatus(w) \/ CancelWorkflowRun(w) \/ WriteResult(w)
Workerless ==
  UpdateTaskTodoStatus \/ TouchWorkflowRun \/ ResolveAgentForTask \/ ResetTask \/ ChangeTags

LEMMA SelfMadeWritesBack ==
  ASSUME NEW w \in Worker, SelfMade(w)
  PROVE  \E pc, s, fields, read, how : WriteBack(w, pc, s, fields, read, how)
<1>1. ASSUME NEW pc, NEW s, NEW fields, Rewrite(w, pc, s, fields)
      PROVE  \E read : WriteBack(w, pc, s, fields, read, {})
  BY <1>1 DEF Rewrite
<1>2. ReceiveBranch(w) \/ ReceiveRetry(w) \/ ReceiveStatus(w) \/ HandleDirection(w) =>
        \E pc, s, fields : Rewrite(w, pc, s, fields)
  BY DEF ReceiveBranch, ReceiveRetry, ReceiveStatus, HandleDirection
<1>3. UpdateWorkflowRunStatus(w) \/ CancelWorkflowRun(w) \/ WriteResult(w) =>
        \E pc, s, fields : Rewrite(w, pc, s, fields)
  BY DEF UpdateWorkflowRunStatus, CancelWorkflowRun, WriteResult
<1>4. UnblockTask(w) =>
        \/ \E pc, s, fields : Rewrite(w, pc, s, fields)
        \/ WriteBack(w, "check", "awaiting", {}, entity.value, {})
  BY DEF UnblockTask
<1>5. SetTaskStatus(w) =>
        \E s : WriteBack(w, "write", s, {}, entity.value, {"unchecked", "raw"})
  BY DEF SetTaskStatus
<1>6. SetTaskWorkflowRunID(w) =>
        WriteBack(w, "write", entity.status, {"workflow_run_id"}, entity.value, {"unchecked", "raw"})
  BY DEF SetTaskWorkflowRunID
<1>7. CancelTask(w) => \E read : WriteBack(w, "write", "cancelled", {}, read, {"unchecked"})
  BY DEF CancelTask
<1> QED BY <1>1, <1>2, <1>3, <1>4, <1>5, <1>6, <1>7 DEF SelfMade

LEMMA SpentStep ==
  ASSUME Spent, [EntityNext]_entityVars
  PROVE  Spent'
<1>1. ASSUME NEW w \in Worker, NEW r, Begin(w, r) PROVE faults' = faults
  BY <1>1 DEF Begin
<1>2. ASSUME NEW w \in Worker, NEW pc, NEW s, NEW fields, NEW read, NEW how,
             WriteBack(w, pc, s, fields, read, how)
      PROVE  faults' = faults
  BY <1>2, <1>1 DEF WriteBack
<1>7. ASSUME NEW w \in Worker, SelfMade(w)
      PROVE  faults' = faults
  BY <1>7, <1>2, SelfMadeWritesBack
<1>3. ASSUME NEW w \in Worker,
             \/ Get(w) \/ Send(w) \/ MaskedUpdate(w)
      PROVE  faults' = faults
  <2>1. ASSUME Get(w) \/ MaskedUpdate(w) PROVE faults' = faults
    BY <2>1, <1>1 DEF Get, MaskedUpdate
  <2>2. ASSUME Send(w) PROVE faults' = faults
    BY <2>2 DEF Send
  <2> QED BY <1>3, <2>1, <2>2
<1>4. ASSUME NEW w \in Worker, Check(w) \/ Write(w) PROVE faults' = faults
  BY <1>4 DEF Check, Write
<1>5. ASSUME NEW w \in Worker, Refused(w) PROVE faults' = faults + 1
  BY <1>5 DEF Refused
<1>6. ASSUME Workerless PROVE faults' = faults
  BY <1>6 DEF Workerless, UpdateTaskTodoStatus, TouchWorkflowRun, Patch, ResolveAgentForTask, ResetTask,
              ChangeTags
<1> QED BY <1>3, <1>4, <1>5, <1>6, <1>7 DEF EntityNext, SelfMade, Workerless, entityVars, Spent

(* A worker that leaves "write" without a refusal has written.             *)
LEMMA WritingIsWrite ==
  ASSUME Guarded, Spent, [EntityNext]_entityVars, NEW w \in Worker, Writing(w)
  PROVE  Write(w)
<1> USE DEF At
<1>1. worker[w].pc = "write" /\ worker'[w].pc = "idle" /\ faults' = faults
  BY DEF Writing
<1>2. ASSUME NEW v \in Worker, NEW r, Become(v, r) PROVE v = w
  BY <1>1, <1>2 DEF Become, Guarded, Shaped
<1>3. ASSUME NEW v \in Worker, NEW r, Begin(v, r) PROVE FALSE
  BY <1>1, <1>2, <1>3 DEF Begin
<1>4. ASSUME NEW v \in Worker, NEW pc, NEW s, NEW fields, NEW read, NEW how,
             WriteBack(v, pc, s, fields, read, how)
      PROVE  FALSE
  BY <1>3, <1>4 DEF WriteBack
<1>5. ASSUME NEW v \in Worker, Get(v) \/ MaskedUpdate(v) PROVE FALSE
  BY <1>3, <1>5 DEF Get, MaskedUpdate
<1>6. ASSUME NEW v \in Worker, Send(v) PROVE FALSE
  BY <1>1, <1>2, <1>6 DEF Send
<1>7. ASSUME NEW v \in Worker, SelfMade(v) PROVE FALSE
  BY <1>4, <1>7, SelfMadeWritesBack
<1>8. ASSUME NEW v \in Worker, Check(v) PROVE FALSE
  BY <1>1, <1>2, <1>8 DEF Check
<1>9. ASSUME NEW v \in Worker, Refused(v) PROVE FALSE
  BY <1>1, <1>9 DEF Refused, Spent
<1>10. ASSUME NEW v \in Worker, Write(v) PROVE Write(w)
  BY <1>2, <1>10 DEF Write
<1>11. ASSUME Workerless \/ UNCHANGED entityVars PROVE FALSE
  <2>1. worker' = worker
    BY <1>11 DEF Workerless, UpdateTaskTodoStatus, TouchWorkflowRun, Patch, ResolveAgentForTask, ResetTask,
                 ChangeTags, entityVars
  <2> QED BY <1>1, <2>1
<1> QED BY <1>5, <1>6, <1>7, <1>8, <1>9, <1>10, <1>11 DEF EntityNext, SelfMade, Workerless

LEMMA WriteKeepsOthers ==
  ASSUME Guarded, Faithful, Spent, [EntityNext]_entityVars, NEW w \in Worker, Writing(w), w \notin overtaken
  PROVE  /\ "status" \notin worker[w].means => entity'.status = entity.status
         /\ \/ entity'.value \in {entity.value, Derived(entity.value)}
            \/ {"value", "unsent"} \cap worker[w].means # {}
            \/ field \in Stamp
<1>3. Write(w)
  BY WritingIsWrite
<1>4. worker[w].pc = "write" /\ Current(worker[w], entity)
  BY <1>3, Writes DEF Faithful
<1>5. ASSUME "value" \notin worker[w].means, "unsent" \notin worker[w].means, field \notin Stamp
      PROVE  entity'.value \in {entity.value, Derived(entity.value)}
  <2>1. entity'.value = IF Kept(worker[w].value) THEN entity.value ELSE worker[w].value
    BY <1>3, <1>5, WriteStores
  <2>2. \/ worker[w].value \in {entity.value, Derived(entity.value)}
        \/ Tagged /\ worker[w].value = ""
    BY <1>4, <1>5 DEF Current, Views
  <2>3. Tagged => "tags" \in Optional[kind] /\ field = "tags"
    BY DEF Tagged, Optional
  <2> QED BY <2>1, <2>2, <2>3 DEF Kept
<1> QED BY <1>3, <1>4, <1>5, WriteStores DEF Current

(* A write changes nothing but what its call is to change, unless another  *)
(* write fell between the call's first read and it, and but for what the   *)
(* read made up: a task's tags by its edges, a project_name by the name.   *)
THEOREM ChangesWhatItMeans == EntitySpec => OthersKept
<1>1. Guarded /\ Faithful /\ Spent /\ [EntityNext]_entityVars =>
        [\A w \in Worker :
           Writing(w) /\ w \notin overtaken
             => /\ "status" \notin worker[w].means => entity'.status = entity.status
                /\ \/ entity'.value \in {entity.value, Derived(entity.value)}
                   \/ {"value", "unsent"} \cap worker[w].means # {}
                   \/ field \in Stamp]_entityVars
  BY WriteKeepsOthers
<1>2. EntityInit => Spent
  <2>1. EntityInit => faults = 0
    BY DEF EntityInit
  <2> QED BY <2>1 DEF Spent
<1> QED BY <1>1, <1>2, GuardedInit, GuardedStep, FaithfulInit, FaithfulStep, SpentStep, PTL
     DEF EntitySpec, OthersKept
=============================================================================
