------------------------- MODULE WorkflowRun_proofs -------------------------
(***************************************************************************)
(* Proofs about WorkflowRun for any tasks, goroutines, deliveries and      *)
(* bounds: the run is completed only when its tasks were, and a            *)
(* cancellation comes to an end.  The first rests on what a closure read   *)
(* so far is worth later on (Sound), the second on somebody being on the   *)
(* way to finalize a cancelling run (Finalizing).                          *)
(* In the second half, whoever is to hand on a task in_progress is         *)
(* followed from the start of its agent to its outcome and through the     *)
(* ladder, classification and escalation (Attended): no task is abandoned. *)
(***************************************************************************)
EXTENDS WorkflowRun, Integers, TLAPS

USE BudgetAssumption

Fields == {"pc", "task", "to", "used", "was", "topic", "then", "goal", "left", "bad"}

(* What a goroutine may be about to make of the run, and why.              *)
GoalOf(r) ==
  /\ r.topic # "terminal"
  /\ r.pc \in {"readRun", "closure"} /\ r.then = "resume" => r.goal \in {"in_progress", "failed"}
  /\ r.pc = "closure" => r.then \in {"event", "resume"}
  /\ r.pc = "readRun" => r.then \in {"event", "pause", "resume"}
  /\ r.pc \in {"checkRun", "writeRun"} /\ r.goal = "cancelling" => r.then = "cancelRun"

(* What its closure read says of the tasks completed or cancelled so far.  *)
ClosureOf(r, closed, match) ==
  /\ r.pc = "closure" /\ r.then = "event" /\ ~r.bad => Task \ r.left \subseteq closed
  /\ r.pc \in {"checkRun", "writeRun"} /\ r.goal = "completed" => match \/ Task \subseteq closed

Sound(r, closed, match) ==
  /\ DOMAIN r = Fields
  /\ r.bad \in BOOLEAN
  /\ GoalOf(r) /\ ClosureOf(r, closed, match)

(* A cancelling run has a finalization scheduled, a cascade that will      *)
(* schedule one, or one that is about to write.                            *)
Finalizing ==
  run = "cancelling" =>
    \/ finalizers > 0
    \/ \E w \in Worker : worker[w].pc \in {"list", "next"} /\ worker[w].then = "cancelRun"
    \/ \E w \in Worker : worker[w].pc = "writeRun" /\ worker[w].goal = "cancelled"

Careful ==
  /\ DOMAIN worker = Worker
  /\ DOMAIN status = Task
  /\ finalizers \in Nat /\ matched \in BOOLEAN
  /\ \A t \in Task : status[t] \in Closed => t \in everClosed
  /\ \A w \in Worker : Sound(worker[w], everClosed, matched)
  /\ CompletedOnlyAfterAll
  /\ Finalizing

-----------------------------------------------------------------------------
LEMMA IdleSound == \A closed, match : Sound(Idle, closed, match)
BY DEF Idle, Sound, GoalOf, ClosureOf, Fields

(* What was read stays true as more tasks end.                             *)
LEMMA StillSound ==
  ASSUME NEW r, NEW closed, NEW more, NEW match, NEW match2,
         Sound(r, closed, match), closed \subseteq more, match => match2
  PROVE  Sound(r, more, match2)
BY DEF Sound, ClosureOf

(* Whoever is to finalize is so after a step that neither cancels the run, *)
(* nor takes a finalization away, nor ends a cascade or a finalization.    *)
Stays(w, r) ==
  /\ finalizers' \in Nat
  /\ \/ run' # "cancelling"
     \/ finalizers' > 0
     \/ r.pc \in {"list", "next"} /\ r.then = "cancelRun"
     \/ r.pc = "writeRun" /\ r.goal = "cancelled"
     \/ /\ run' = run /\ finalizers' = finalizers
        /\ ~(worker[w].pc \in {"list", "next"} /\ worker[w].then = "cancelRun")
        /\ ~(worker[w].pc = "writeRun" /\ worker[w].goal = "cancelled")

(* A step of goroutine w.                                                  *)
LEMMA Steps ==
  ASSUME Careful, NEW w \in Worker, NEW r, Become(w, r), Sound(r, everClosed', matched'),
         Stays(w, r),
         DOMAIN status' = Task, everClosed \subseteq everClosed',
         \A t \in Task : status'[t] \in Closed => t \in everClosed',
         matched' \in BOOLEAN, matched => matched',
         \/ run' = run
         \/ run' = "completed" => matched \/ Task \subseteq everClosed
  PROVE  Careful'
<1>1. /\ DOMAIN worker' = Worker /\ worker'[w] = r
      /\ \A v \in Worker \ {w} : worker'[v] = worker[v]
  BY DEF Careful, Become
<1>2. \A v \in Worker : Sound(worker[v], everClosed, matched)'
  <2> SUFFICES ASSUME NEW v \in Worker
               PROVE  Sound(worker'[v], everClosed', matched')
    BY DEF Sound, GoalOf, ClosureOf
  <2>1. Sound(worker[v], everClosed, matched)
    BY DEF Careful
  <2> QED BY <1>1, <2>1, StillSound
<1>3. CompletedOnlyAfterAll'
  BY DEF Careful, CompletedOnlyAfterAll
<1>4. Finalizing'
  BY <1>1 DEF Careful, Finalizing, Stays
<1> QED BY <1>1, <1>2, <1>3, <1>4 DEF Careful, Stays

LEMMA Here ==
  ASSUME Careful, NEW w \in Worker
  PROVE  Sound(worker[w], everClosed, matched)
BY DEF Careful

(* A goroutine that leaves the tasks, the run and its finalization alone.  *)
LEMMA Aside ==
  ASSUME Careful, NEW w \in Worker, NEW r, Become(w, r), Sound(r, everClosed, matched),
         worker[w].pc \notin {"list", "next", "writeRun"},
         UNCHANGED <<tasks, run, finalizers, matched>>
  PROVE  Careful'
<1>1. Stays(w, r)
  BY DEF Stays, Careful
<1>2. UNCHANGED <<status, everClosed, run, matched>>
  BY DEF tasks
<1>3. Sound(r, everClosed', matched')
  BY <1>2
<1>4. /\ DOMAIN status' = Task /\ everClosed \subseteq everClosed' /\ matched' \in BOOLEAN
      /\ \A t \in Task : status'[t] \in Closed => t \in everClosed'
  BY <1>2 DEF Careful
<1> QED BY <1>1, <1>2, <1>3, <1>4, Steps

(* The locals of a goroutine that starts at another pc than those about    *)
(* the run.                                                                *)
LEMMA PlainSound ==
  ASSUME NEW r, DOMAIN r = Fields, r.bad \in BOOLEAN, r.topic # "terminal",
         r.pc \notin {"readRun", "closure", "checkRun", "writeRun"}
  PROVE  \A closed, match : Sound(r, closed, match)
BY DEF Sound, GoalOf, ClosureOf

LEMMA UpdatingSound ==
  ASSUME NEW t, NEW s, NEW then
  PROVE  \A closed, match : Sound(Updating(t, s, then), closed, match)
<1> DEFINE r == Updating(t, s, then)
<1>1. DOMAIN r = Fields /\ r.bad = FALSE /\ r.topic = "none" /\ r.pc = "checkTask"
  BY DEF Updating, Idle, Fields
<1> HIDE DEF r
<1>2. \A closed, match : Sound(r, closed, match)
  BY <1>1, PlainSound
<1> QED BY <1>2 DEF r

(* HandleEvent completes a run only on the terminal_event, or after a      *)
(* closure.                                                                *)
LEMMA HandleEventSound ==
  ASSUME NEW topic, NEW closed, NEW match, topic = "terminal" => match
  PROVE  Sound(HandleEvent(topic), closed, match)
<1> DEFINE m == CHOOSE x \in RunMoves : x[1] = run /\ x[2] = topic
           g == m[3]
           c == [Idle EXCEPT !.pc = "checkRun", !.then = "event", !.goal = g]
           k == [Idle EXCEPT !.pc = "closure", !.then = "event", !.left = Task]
<1>1. CASE \E x \in RunMoves : x[1] = run /\ x[2] = topic
  <2>1. m \in RunMoves /\ m[1] = run /\ m[2] = topic
    BY <1>1
  <2>2. g \in {"in_progress", "failed", "completed"} /\ (g = "completed" => topic = "terminal")
    <3>1. \A x \in RunMoves : /\ x[3] \in {"in_progress", "failed", "completed"}
                              /\ x[3] = "completed" => x[2] = "terminal"
      BY DEF RunMoves
    <3> HIDE DEF m
    <3> QED BY <2>1, <3>1
  <2> HIDE DEF g, m
  <2>3. /\ DOMAIN c = Fields /\ c.pc = "checkRun" /\ c.goal = g /\ c.then = "event"
        /\ c.topic = "none" /\ c.bad = FALSE
    BY DEF Idle, Fields
  <2>4. HandleEvent(topic) = c
    BY <1>1 DEF HandleEvent, g, m
  <2> HIDE DEF c
  <2>5. Sound(c, closed, match)
    BY <2>2, <2>3 DEF Sound, GoalOf, ClosureOf
  <2> QED BY <2>4, <2>5
<1>2. CASE ~(\E x \in RunMoves : x[1] = run /\ x[2] = topic)
  <2>1. /\ DOMAIN k = Fields /\ k.pc = "closure" /\ k.left = Task /\ k.then = "event"
        /\ k.topic = "none" /\ k.bad = FALSE
    BY DEF Idle, Fields
  <2>2. HandleEvent(topic) = k \/ HandleEvent(topic) = Idle
    BY <1>2 DEF HandleEvent
  <2> HIDE DEF k
  <2>3. Sound(k, closed, match)
    BY <2>1 DEF Sound, GoalOf, ClosureOf
  <2> QED BY <2>2, <2>3, IdleSound
<1> QED BY <1>1, <1>2

(* What follows a task update: Onward, the pause, the resumption.          *)
LEMMA OnwardSound ==
  ASSUME NEW r, NEW closed, NEW match, Sound(r, closed, match)
  PROVE  Sound(Onward(r), closed, match) /\ Onward(r).pc \in {"idle", "next", "readRun"}
<1> DEFINE n == [r EXCEPT !.pc = "next"]
           t == r.topic
           e == [Idle EXCEPT !.pc = "readRun", !.topic = t, !.then = "event"]
<1>1. DOMAIN r = Fields /\ r.bad \in BOOLEAN /\ t # "terminal"
  BY DEF Sound, GoalOf
<1>2. Onward(r) \in {Idle, n, e}
  BY DEF Onward
<1>3. DOMAIN n = Fields /\ n.pc = "next" /\ n.bad = r.bad /\ n.topic = t
  BY <1>1 DEF Fields
<1> HIDE DEF t
<1>4. /\ DOMAIN e = Fields /\ e.pc = "readRun" /\ e.bad = FALSE /\ e.topic = t
      /\ e.then = "event"
  BY DEF Idle, Fields
<1>5. Idle.pc = "idle"
  BY DEF Idle
<1> HIDE DEF n, e
<1>6. Sound(n, closed, match) /\ Sound(e, closed, match)
  BY <1>1, <1>3, <1>4 DEF Sound, GoalOf, ClosureOf
<1> QED BY <1>2, <1>3, <1>4, <1>5, <1>6, IdleSound

LEMMA ResumingSound ==
  /\ \A closed, match : Sound(Pausing, closed, match)
  /\ \A closed, match, s : s \in {"in_progress", "failed"} => Sound(Resuming(s), closed, match)
<1>1. /\ DOMAIN Pausing = Fields /\ Pausing.pc = "readRun" /\ Pausing.bad = FALSE
      /\ Pausing.topic = "none" /\ Pausing.then = "pause"
  BY DEF Pausing, Idle, Fields
<1>2. \A s : /\ DOMAIN Resuming(s) = Fields /\ Resuming(s).pc = "readRun"
             /\ Resuming(s).bad = FALSE /\ Resuming(s).topic = "none"
             /\ Resuming(s).then = "resume" /\ Resuming(s).goal = s
  BY DEF Resuming, Idle, Fields
<1> QED BY <1>1, <1>2 DEF Sound, GoalOf, ClosureOf

LEMMA AfterUpdateSound ==
  ASSUME NEW r, NEW closed, NEW match, Sound(r, closed, match)
  PROVE  Sound(AfterUpdate(r), closed, match)
<1>1. AfterUpdate(r) \in {Pausing, Resuming("in_progress"), Resuming("failed"), Escalating(r), Onward(r)}
  BY DEF AfterUpdate
<1>2. Sound(Escalating(r), closed, match)
  <2> DEFINE e == Escalating(r)
  <2>1. DOMAIN r = Fields /\ r.bad \in BOOLEAN /\ r.topic # "terminal"
    BY DEF Sound, GoalOf
  <2>2. DOMAIN e = Fields /\ e.pc = "checkTask" /\ e.bad = r.bad /\ e.topic = r.topic
    BY <2>1 DEF Escalating, Fields
  <2> HIDE DEF e
  <2>3. Sound(e, closed, match)
    BY <2>1, <2>2, PlainSound
  <2> QED BY <2>3 DEF e
<1> QED BY <1>1, <1>2, ResumingSound, OnwardSound

-----------------------------------------------------------------------------
(* The steps, one lemma per action or kind of action.                      *)

LEMMA SetTaskKnown ==
  ASSUME Careful, NEW t, NEW s, NEW u, SetTask(t, s, u)
  PROVE  /\ DOMAIN status' = Task /\ everClosed \subseteq everClosed'
         /\ \A v \in Task : status'[v] \in Closed => v \in everClosed'
BY DEF SetTask, Careful

(* Events and calls that begin with a task update, or with nothing.        *)
LEMMA BeginStep ==
  ASSUME Careful, NEW w \in Worker, NEW t,
         \/ ReceiveStarted(w, t) \/ ReceiveRequiresHuman(w, t)
         \/ ReceiveUpdate(w, t) \/ UnblockTask(w, t) \/ TaskTimeout(w, t)
  PROVE  Careful'
<1>1. /\ \E s, then : Become(w, Updating(t, s, then))
      /\ UNCHANGED <<tasks, run, finalizers, matched>> /\ worker[w].pc = "idle"
  BY DEF ReceiveStarted, ReceiveRequiresHuman, ReceiveUpdate, UnblockTask, TaskTimeout, Call, At
<1> QED BY <1>1, UpdatingSound, Aside

LEMMA ReceiveOutcomeStep ==
  ASSUME Careful, NEW w \in Worker, NEW t, NEW how, ReceiveCompleted(w, t, how) \/ ReceiveFailed(w, t, how)
  PROVE  Careful'
<1> DEFINE done == Updating(t, "completed", "stop")
           fail == Updating(t, status[t], "ladder")
           c == IF how = "direct" THEN "completed" ELSE "none"
           f == IF how = "direct" THEN "failed" ELSE "none"
           u == fail.used + 1
           x == [done EXCEPT !.topic = c]
           y == [fail EXCEPT !.used = u, !.topic = f]
<1>1. /\ Become(w, x) \/ Become(w, y)
      /\ UNCHANGED <<tasks, run, finalizers, matched>> /\ worker[w].pc = "idle"
  BY DEF ReceiveCompleted, ReceiveFailed, At
<1>2. /\ DOMAIN done = Fields /\ done.bad = FALSE /\ done.pc = "checkTask"
      /\ DOMAIN fail = Fields /\ fail.bad = FALSE /\ fail.pc = "checkTask"
  BY DEF Updating, Idle, Fields
<1>3. c # "terminal" /\ f # "terminal"
  OBVIOUS
<1> HIDE DEF done, fail, c, f, u
<1>4. /\ DOMAIN x = Fields /\ x.bad = FALSE /\ x.pc = "checkTask" /\ x.topic = c
      /\ DOMAIN y = Fields /\ y.bad = FALSE /\ y.pc = "checkTask" /\ y.topic = f
  BY <1>2 DEF Fields
<1> HIDE DEF x, y
<1>5. Sound(x, everClosed, matched) /\ Sound(y, everClosed, matched)
  BY <1>3, <1>4, PlainSound
<1> QED BY <1>1, <1>5, Aside

LEMMA ReceiveDirectionStep ==
  ASSUME Careful, NEW w \in Worker, NEW t, NEW option \in {"retry", "skip", "block", "cancel"},
         ReceiveDirection(w, t, option)
  PROVE  Careful'
<1>1. /\ \/ \E s, then : Become(w, Updating(t, s, then))
         \/ Become(w, Resuming("in_progress"))
      /\ UNCHANGED <<tasks, run, finalizers, matched>> /\ worker[w].pc = "idle"
  BY DEF ReceiveDirection, At
<1> QED BY <1>1, UpdatingSound, ResumingSound, Aside

LEMMA RunTimeoutStep ==
  ASSUME Careful, NEW w \in Worker, RunTimeout(w)
  PROVE  Careful'
<1> DEFINE r == [Idle EXCEPT !.pc = "checkRun", !.goal = "failed", !.then = "runTimeout"]
<1>1. /\ Become(w, r)
      /\ UNCHANGED <<tasks, run, finalizers, matched>> /\ worker[w].pc = "idle"
  BY DEF RunTimeout, Call, At
<1>2. /\ DOMAIN r = Fields /\ r.pc = "checkRun" /\ r.goal = "failed" /\ r.topic = "none"
      /\ r.bad = FALSE
  BY DEF Idle, Fields
<1> HIDE DEF r
<1>3. Sound(r, everClosed, matched)
  BY <1>2 DEF Sound, GoalOf, ClosureOf
<1> QED BY <1>1, <1>3, Aside

LEMMA ReceiveNoteStep ==
  ASSUME Careful, NEW w \in Worker, NEW topic \in Topic, ReceiveNote(w, topic)
  PROVE  Careful'
<1>1. /\ Become(w, HandleEvent(topic)) /\ worker[w].pc = "idle"
      /\ UNCHANGED <<tasks, run, finalizers, matched>>
  BY DEF ReceiveNote, At
<1>2. topic # "terminal"
  BY DEF Topic
<1> QED BY <1>1, <1>2, HandleEventSound, Aside

LEMMA ReceiveExternalStep ==
  ASSUME Careful, NEW w \in Worker, NEW topic, ReceiveExternal(w, topic)
  PROVE  Careful'
<1>1. /\ Become(w, HandleEvent(topic)) /\ worker[w].pc = "idle"
      /\ UNCHANGED <<tasks, run, finalizers>>
      /\ matched' = (matched \/ topic = "terminal")
  BY DEF ReceiveExternal, Call, At
<1>2. Sound(HandleEvent(topic), everClosed, matched')
  BY <1>1, HandleEventSound
<1>3. Stays(w, HandleEvent(topic))
  BY <1>1 DEF Stays, Careful
<1>4. /\ UNCHANGED <<status, everClosed>> /\ matched' \in BOOLEAN /\ (matched => matched')
      /\ DOMAIN status = Task /\ \A t \in Task : status[t] \in Closed => t \in everClosed
  BY <1>1 DEF tasks, Careful
<1> QED BY <1>1, <1>2, <1>3, <1>4, Steps

LEMMA CancelWorkflowRunStep ==
  ASSUME Careful, NEW w \in Worker, CancelWorkflowRun(w)
  PROVE  Careful'
<1> DEFINE n == [Idle EXCEPT !.pc = "writeRun", !.goal = "cancelling", !.then = "cancelRun"]
           r == IF run = "cancelling" THEN Idle ELSE n
<1>1. /\ Become(w, r) /\ worker[w].pc = "idle" /\ UNCHANGED <<tasks, run, matched>>
      /\ finalizers' = finalizers + Inc(run = "cancelling")
  BY DEF CancelWorkflowRun, Call, At
<1>2. /\ DOMAIN n = Fields /\ n.pc = "writeRun" /\ n.goal = "cancelling" /\ n.topic = "none"
      /\ n.then = "cancelRun" /\ n.bad = FALSE
  BY DEF Idle, Fields
<1> HIDE DEF n
<1>3. Sound(n, everClosed, matched)
  BY <1>2 DEF Sound, GoalOf, ClosureOf
<1>4. Sound(r, everClosed', matched')
  BY <1>1, <1>3, IdleSound DEF tasks
<1> HIDE DEF r
<1>5. Stays(w, r)
  BY <1>1 DEF Stays, Careful, Inc
<1>6. /\ UNCHANGED <<status, everClosed>> /\ matched' \in BOOLEAN /\ (matched => matched')
      /\ DOMAIN status = Task /\ \A t \in Task : status[t] \in Closed => t \in everClosed
  BY <1>1 DEF tasks, Careful
<1> QED BY <1>1, <1>4, <1>5, <1>6, Steps

LEMMA FinalizeStep ==
  ASSUME Careful, NEW w \in Worker, Finalize(w)
  PROVE  Careful'
<1> DEFINE n == [Idle EXCEPT !.pc = "writeRun", !.goal = "cancelled"]
           r == IF run # "cancelling" THEN Idle ELSE n
<1>1. /\ Become(w, r) /\ worker[w].pc = "idle" /\ UNCHANGED <<tasks, run, matched>>
      /\ finalizers > 0 /\ finalizers' = finalizers - 1
  BY DEF Finalize, At
<1>2. /\ DOMAIN n = Fields /\ n.pc = "writeRun" /\ n.goal = "cancelled" /\ n.topic = "none"
      /\ n.bad = FALSE
  BY DEF Idle, Fields
<1> HIDE DEF n
<1>3. Sound(n, everClosed, matched)
  BY <1>2 DEF Sound, GoalOf, ClosureOf
<1>4. Sound(r, everClosed', matched')
  BY <1>1, <1>3, IdleSound DEF tasks
<1>5. Stays(w, r)
  <2>1. finalizers' \in Nat
    BY <1>1 DEF Careful
  <2> QED BY <1>1, <1>2, <2>1 DEF Stays
<1> HIDE DEF r
<1>6. /\ UNCHANGED <<status, everClosed>> /\ matched' \in BOOLEAN /\ (matched => matched')
      /\ DOMAIN status = Task /\ \A t \in Task : status[t] \in Closed => t \in everClosed
  BY <1>1 DEF tasks, Careful
<1> QED BY <1>1, <1>4, <1>5, <1>6, Steps

LEMMA CheckTaskStep ==
  ASSUME Careful, NEW w \in Worker, CheckTask(w)
  PROVE  Careful'
<1> DEFINE r == worker[w]
           s == status[r.task]
           u == r.used - 1
           n == [r EXCEPT !.pc = "writeTask", !.was = s]
           f == [r EXCEPT !.then = "stop", !.to = "failed", !.used = u]
<1>1. /\ Become(w, n) \/ Become(w, f) \/ Become(w, Onward(r))
      /\ r.pc = "checkTask" /\ UNCHANGED <<tasks, run, finalizers, matched>>
  BY DEF CheckTask, At
<1>2. DOMAIN r = Fields /\ r.bad \in BOOLEAN /\ r.topic # "terminal"
  BY Here DEF Sound, GoalOf
<1> HIDE DEF s, u
<1>3. /\ DOMAIN n = Fields /\ n.pc = "writeTask" /\ n.bad = r.bad /\ n.topic = r.topic
      /\ DOMAIN f = Fields /\ f.pc = r.pc /\ f.bad = r.bad /\ f.topic = r.topic
  BY <1>2 DEF Fields
<1>4. Sound(Onward(r), everClosed, matched)
  BY Here, OnwardSound
<1> HIDE DEF n, f
<1>5. Sound(n, everClosed, matched) /\ Sound(f, everClosed, matched)
  BY <1>1, <1>2, <1>3, PlainSound
<1> QED BY <1>1, <1>4, <1>5, Aside

LEMMA WriteTaskStep ==
  ASSUME Careful, NEW w \in Worker, WriteTask(w)
  PROVE  Careful'
<1> DEFINE r == worker[w]
<1>1. /\ Become(w, AfterUpdate(r)) /\ r.pc = "writeTask"
      /\ SetTask(r.task, r.to, r.used) /\ UNCHANGED <<run, finalizers, matched>>
  BY DEF WriteTask, At
<1>2. Sound(AfterUpdate(r), everClosed, matched)
  BY Here, AfterUpdateSound
<1>3. Stays(w, AfterUpdate(r))
  BY <1>1 DEF Stays, Careful
<1>4. /\ DOMAIN status' = Task /\ everClosed \subseteq everClosed'
      /\ \A v \in Task : status'[v] \in Closed => v \in everClosed'
  BY <1>1, SetTaskKnown
<1>5. Sound(AfterUpdate(r), everClosed', matched')
  BY <1>1, <1>2, <1>4, StillSound
<1>6. matched' \in BOOLEAN
  BY <1>1 DEF Careful
<1> HIDE DEF r
<1> QED BY <1>1, <1>3, <1>4, <1>5, <1>6, Steps

LEMMA ReadRunStep ==
  ASSUME Careful, NEW w \in Worker, ReadRun(w)
  PROVE  Careful'
<1> DEFINE r == worker[w]
           p == [r EXCEPT !.pc = "checkRun", !.goal = "paused"]
           c == [r EXCEPT !.pc = "closure", !.left = Task]
<1>1. /\ \/ Become(w, HandleEvent(r.topic))
         \/ Become(w, p)
         \/ r.then = "resume" /\ Become(w, c)
         \/ Become(w, Idle)
      /\ r.pc = "readRun" /\ UNCHANGED <<tasks, run, finalizers, matched>>
  <2>1. r.pc = "readRun" /\ r.then \in {"event", "pause", "resume"}
    BY Here DEF ReadRun, At, Sound, GoalOf
  <2> QED BY <2>1 DEF ReadRun
<1>2. /\ DOMAIN r = Fields /\ r.bad \in BOOLEAN /\ r.topic # "terminal"
      /\ r.then = "resume" => r.goal \in {"in_progress", "failed"}
  BY <1>1, Here DEF Sound, GoalOf
<1>3. /\ DOMAIN p = Fields /\ p.pc = "checkRun" /\ p.goal = "paused" /\ p.bad = r.bad
      /\ p.topic = r.topic
  BY <1>2 DEF Fields
<1>4. /\ DOMAIN c = Fields /\ c.pc = "closure" /\ c.goal = r.goal /\ c.bad = r.bad
      /\ c.topic = r.topic /\ c.then = r.then /\ c.left = Task
  BY <1>2 DEF Fields
<1> HIDE DEF p, c, r
<1>5. Sound(p, everClosed, matched)
  BY <1>2, <1>3 DEF Sound, GoalOf, ClosureOf
<1>6. r.then = "resume" => Sound(c, everClosed, matched)
  BY <1>2, <1>4 DEF Sound, GoalOf, ClosureOf
<1>7. Sound(HandleEvent(r.topic), everClosed, matched)
  BY <1>2, HandleEventSound
<1>8. worker[w].pc = "readRun"
  BY <1>1 DEF r
<1> QED BY <1>1, <1>5, <1>6, <1>7, <1>8, IdleSound, Aside

LEMMA ReadClosureStep ==
  ASSUME Careful, NEW w \in Worker, NEW t \in Task, ReadClosure(w, t)
  PROVE  Careful'
<1> DEFINE r == worker[w]
           bad == r.bad \/ status[t] = "failed"
           left == r.left \ {t}
           g == IF r.then = "resume" THEN r.goal ELSE IF bad THEN "failed" ELSE "completed"
           n == [r EXCEPT !.left = left, !.bad = bad]
           c == [r EXCEPT !.pc = "checkRun", !.left = {}, !.bad = FALSE, !.goal = g]
           keeps == StillKeeps(status[t], r.then)
<1>1. /\ \/ Become(w, Idle)
         \/ ~keeps /\ Become(w, n)
         \/ ~keeps /\ r.left = {t} /\ Become(w, c)
      /\ r.pc = "closure" /\ UNCHANGED <<tasks, run, finalizers, matched>>
  BY DEF ReadClosure, At
<1>2. /\ DOMAIN r = Fields /\ r.bad \in BOOLEAN /\ r.topic # "terminal"
      /\ r.then \in {"event", "resume"}
      /\ r.then = "resume" => r.goal \in {"in_progress", "failed"}
      /\ r.then = "event" /\ ~r.bad => Task \ r.left \subseteq everClosed
  BY <1>1, Here DEF Sound, GoalOf, ClosureOf
<1>3. ~keeps /\ r.then = "event" /\ ~bad => t \in everClosed /\ ~r.bad
  BY DEF StillKeeps, Closed, TerminalTask, Careful
<1>4. bad \in BOOLEAN
  BY <1>2
<1>5. ~keeps /\ r.then = "event" /\ ~bad =>
        /\ Task \ left \subseteq everClosed
        /\ r.left = {t} => Task \subseteq everClosed
  BY <1>2, <1>3
<1>6. /\ g \in {"in_progress", "failed", "completed"}
      /\ g = "completed" => r.then = "event" /\ ~bad
  BY <1>2
<1> HIDE DEF bad, left, g, keeps
<1>7. /\ DOMAIN n = Fields /\ n.pc = r.pc /\ n.goal = r.goal /\ n.bad = bad
      /\ n.topic = r.topic /\ n.then = r.then /\ n.left = left
  BY <1>2 DEF Fields
<1>8. /\ DOMAIN c = Fields /\ c.pc = "checkRun" /\ c.goal = g /\ c.bad = FALSE
      /\ c.topic = r.topic /\ c.then = r.then
  BY <1>2 DEF Fields
<1> HIDE DEF n, c, r
<1>9. ~keeps => Sound(n, everClosed, matched)
  BY <1>1, <1>2, <1>4, <1>5, <1>7 DEF Sound, GoalOf, ClosureOf
<1>10. ~keeps /\ r.left = {t} => Sound(c, everClosed, matched)
  BY <1>2, <1>5, <1>6, <1>8 DEF Sound, GoalOf, ClosureOf
<1>11. worker[w].pc = "closure"
  BY <1>1 DEF r
<1> QED BY <1>1, <1>9, <1>10, <1>11, IdleSound, Aside

LEMMA CheckRunStep ==
  ASSUME Careful, NEW w \in Worker, CheckRun(w)
  PROVE  Careful'
<1> DEFINE r == worker[w]
           n == [r EXCEPT !.pc = "writeRun"]
<1>1. /\ Become(w, n) \/ Become(w, Idle)
      /\ r.pc = "checkRun" /\ UNCHANGED <<tasks, run, finalizers, matched>>
  BY DEF CheckRun, At
<1>2. Sound(r, everClosed, matched)
  BY Here
<1>3. /\ DOMAIN n = Fields /\ n.pc = "writeRun" /\ n.goal = r.goal /\ n.bad = r.bad
      /\ n.topic = r.topic /\ n.then = r.then
  BY <1>2 DEF Sound, Fields
<1> HIDE DEF n, r
<1>4. Sound(n, everClosed, matched)
  BY <1>1, <1>2, <1>3 DEF Sound, GoalOf, ClosureOf
<1>5. worker[w].pc = "checkRun"
  BY <1>1 DEF r
<1> QED BY <1>1, <1>4, <1>5, IdleSound, Aside

LEMMA WriteRunStep ==
  ASSUME Careful, NEW w \in Worker, WriteRun(w)
  PROVE  Careful'
<1> DEFINE r == worker[w]
           n == [r EXCEPT !.pc = "list"]
           e == IF r.then \in {"runTimeout", "cancelRun"} THEN n ELSE Idle
<1>1. /\ Become(w, e) /\ r.pc = "writeRun" /\ run' = r.goal
      /\ UNCHANGED <<tasks, finalizers, matched>>
  BY DEF WriteRun, At
<1>2. /\ DOMAIN r = Fields /\ r.bad \in BOOLEAN /\ r.topic # "terminal"
      /\ r.goal = "cancelling" => r.then = "cancelRun"
      /\ r.goal = "completed" => matched \/ Task \subseteq everClosed
  BY <1>1, Here DEF Sound, GoalOf, ClosureOf
<1>3. /\ DOMAIN n = Fields /\ n.pc = "list" /\ n.bad = r.bad /\ n.topic = r.topic
      /\ n.then = r.then
  BY <1>2 DEF Fields
<1> HIDE DEF n
<1>4. Sound(e, everClosed', matched')
  BY <1>2, <1>3, PlainSound, IdleSound
<1>5. Stays(w, e)
  <2>1. finalizers' \in Nat
    BY <1>1 DEF Careful
  <2> QED BY <1>1, <1>2, <1>3, <2>1 DEF Stays
<1>6. /\ UNCHANGED <<status, everClosed>> /\ matched' \in BOOLEAN /\ (matched => matched')
      /\ DOMAIN status = Task /\ \A t \in Task : status[t] \in Closed => t \in everClosed
  BY <1>1 DEF tasks, Careful
<1> HIDE DEF e, r
<1> QED BY <1>1, <1>2, <1>4, <1>5, <1>6, Steps

LEMMA ListTasksStep ==
  ASSUME Careful, NEW w \in Worker, ListTasks(w)
  PROVE  Careful'
<1> DEFINE r == worker[w]
           open == {<<t, status[t], used[t]>> : t \in {u \in Task : status[u] \notin TerminalTask}}
           n == [r EXCEPT !.pc = "next", !.left = open]
           e == IF open = {} THEN Idle ELSE n
<1>1. /\ Become(w, e) /\ r.pc = "list" /\ UNCHANGED <<tasks, run, matched>>
      /\ finalizers' = finalizers + Inc(open = {} /\ r.then = "cancelRun")
  BY DEF ListTasks, At
<1>2. DOMAIN r = Fields /\ r.bad \in BOOLEAN /\ r.topic # "terminal"
  BY Here DEF Sound, GoalOf
<1> HIDE DEF open
<1>3. /\ DOMAIN n = Fields /\ n.pc = "next" /\ n.bad = r.bad /\ n.topic = r.topic
      /\ n.then = r.then
  BY <1>2 DEF Fields
<1> HIDE DEF n
<1>4. Sound(e, everClosed', matched')
  BY <1>2, <1>3, PlainSound, IdleSound
<1>5. Stays(w, e)
  <2>1. finalizers \in Nat
    BY DEF Careful
  <2>2. CASE open = {} /\ r.then = "cancelRun"
    BY <1>1, <2>1, <2>2 DEF Stays, Inc
  <2>3. CASE ~(open = {} /\ r.then = "cancelRun")
    <3>1. finalizers' = finalizers
      BY <1>1, <2>1, <2>3 DEF Inc
    <3>2. r.then = "cancelRun" => e = n
      BY <2>3
    <3> QED BY <1>1, <1>3, <2>1, <3>1, <3>2 DEF Stays
  <2> QED BY <2>2, <2>3
<1>6. /\ UNCHANGED <<status, everClosed>> /\ matched' \in BOOLEAN /\ (matched => matched')
      /\ DOMAIN status = Task /\ \A t \in Task : status[t] \in Closed => t \in everClosed
  BY <1>1 DEF tasks, Careful
<1> HIDE DEF e, r
<1> QED BY <1>1, <1>4, <1>5, <1>6, Steps

LEMMA TimeOutNextStep ==
  ASSUME Careful, NEW w \in Worker, NEW item, TimeOutNext(w, item)
  PROVE  Careful'
<1> DEFINE r == worker[w]
           left == r.left \ {item}
           a == item[1]
           u == item[3]
           n == [r EXCEPT !.pc = "checkTask", !.task = a, !.to = "failed",
                          !.used = u, !.left = left]
<1>1. /\ Become(w, n) /\ r.pc = "next" /\ r.then = "runTimeout"
      /\ UNCHANGED <<tasks, run, finalizers, matched>>
  BY DEF TimeOutNext, At
<1>2. DOMAIN r = Fields /\ r.bad \in BOOLEAN /\ r.topic # "terminal"
  BY Here DEF Sound, GoalOf
<1> HIDE DEF left, a, u
<1>3. DOMAIN n = Fields /\ n.pc = "checkTask" /\ n.bad = r.bad /\ n.topic = r.topic
  BY <1>2 DEF Fields
<1> HIDE DEF n
<1>4. Sound(n, everClosed', matched')
  BY <1>2, <1>3, PlainSound
<1>5. Stays(w, n)
  BY <1>1 DEF Stays, Careful
<1>6. /\ UNCHANGED <<status, everClosed>> /\ matched' \in BOOLEAN /\ (matched => matched')
      /\ DOMAIN status = Task /\ \A t \in Task : status[t] \in Closed => t \in everClosed
  BY <1>1 DEF tasks, Careful
<1> HIDE DEF r
<1> QED BY <1>1, <1>4, <1>5, <1>6, Steps

LEMMA CancelNextStep ==
  ASSUME Careful, NEW w \in Worker, NEW item, CancelNext(w, item)
  PROVE  Careful'
<1> DEFINE r == worker[w]
           left == r.left \ {item}
           n == [r EXCEPT !.left = left]
           e == IF r.left = {item} THEN Idle ELSE n
<1>1. /\ Become(w, e) /\ r.pc = "next" /\ r.then = "cancelRun" /\ UNCHANGED <<run, matched>>
      /\ finalizers' = finalizers + Inc(r.left = {item})
      /\ SetTask(item[1], "cancelled", item[3]) \/ UNCHANGED <<status, everClosed>>
  BY DEF CancelNext, At
<1>2. DOMAIN r = Fields /\ r.bad \in BOOLEAN /\ r.topic # "terminal"
  BY Here DEF Sound, GoalOf
<1> HIDE DEF left
<1>3. /\ DOMAIN n = Fields /\ n.pc = r.pc /\ n.bad = r.bad /\ n.topic = r.topic
      /\ n.then = r.then
  BY <1>2 DEF Fields
<1> HIDE DEF n
<1>4. Sound(e, everClosed', matched')
  BY <1>1, <1>2, <1>3, PlainSound, IdleSound
<1>5. Stays(w, e)
  <2>1. finalizers \in Nat
    BY DEF Careful
  <2>2. CASE r.left = {item}
    BY <1>1, <2>1, <2>2 DEF Stays, Inc
  <2>3. CASE r.left # {item}
    BY <1>1, <1>3, <2>1, <2>3 DEF Stays, Inc
  <2> QED BY <2>2, <2>3
<1>6. /\ DOMAIN status' = Task /\ everClosed \subseteq everClosed'
      /\ \A v \in Task : status'[v] \in Closed => v \in everClosed'
  BY <1>1, SetTaskKnown DEF Careful
<1>7. matched' \in BOOLEAN
  BY <1>1 DEF Careful
<1> HIDE DEF e, r
<1> QED BY <1>1, <1>4, <1>5, <1>6, <1>7, Steps

(* Only the worker's locals, the tasks, the run and its finalizations      *)
(* matter.                                                                 *)
LEMMA CarefulSame ==
  ASSUME Careful, UNCHANGED <<worker, tasks, run, finalizers, matched>>
  PROVE  Careful'
BY DEF tasks, Careful, Sound, GoalOf, ClosureOf, CompletedOnlyAfterAll, Finalizing

-----------------------------------------------------------------------------
LEMMA CarefulStep ==
  ASSUME Careful, [Next]_vars
  PROVE  Careful'
<1>1. ASSUME NEW t \in Task, ReceiveTransient(t)
      PROVE  Careful'
  BY <1>1, CarefulSame DEF ReceiveTransient
<1>2. ASSUME NEW w \in Worker, Work(w)
      PROVE  Careful'
  BY <1>2, CheckTaskStep, WriteTaskStep, ReadRunStep, ReadClosureStep, CheckRunStep,
     WriteRunStep, ListTasksStep, TimeOutNextStep, CancelNextStep DEF Work
<1>3. ASSUME NEW w \in Worker, NEW t \in Task,
             \/ ReceiveStarted(w, t) \/ ReceiveRequiresHuman(w, t)
             \/ ReceiveUpdate(w, t) \/ UnblockTask(w, t) \/ TaskTimeout(w, t)
      PROVE  Careful'
  BY <1>3, BeginStep
<1>4. ASSUME NEW w \in Worker, NEW t \in Task, NEW how,
             ReceiveCompleted(w, t, how) \/ ReceiveFailed(w, t, how)
      PROVE  Careful'
  BY <1>4, ReceiveOutcomeStep
<1>5. ASSUME NEW w \in Worker, NEW t \in Task, NEW option \in {"retry", "skip", "block", "cancel"},
             ReceiveDirection(w, t, option)
      PROVE  Careful'
  BY <1>5, ReceiveDirectionStep
<1>6. ASSUME NEW w \in Worker, RunTimeout(w) \/ CancelWorkflowRun(w) \/ Finalize(w)
      PROVE  Careful'
  BY <1>6, RunTimeoutStep, CancelWorkflowRunStep, FinalizeStep
<1>7. ASSUME NEW w \in Worker, NEW topic, ReceiveExternal(w, topic)
      PROVE  Careful'
  BY <1>7, ReceiveExternalStep
<1>8. ASSUME NEW w \in Worker, NEW topic \in Topic, ReceiveNote(w, topic)
      PROVE  Careful'
  BY <1>8, ReceiveNoteStep
<1>9. CASE UNCHANGED vars
  BY <1>9, CarefulSame DEF vars, tasks
<1> QED BY <1>1, <1>2, <1>3, <1>4, <1>5, <1>6, <1>7, <1>8, <1>9 DEF Next

LEMMA CarefulInit == Init => Careful
<1> SUFFICES ASSUME Init
             PROVE  Careful
  OBVIOUS
<1>1. \A w \in Worker : Sound(worker[w], everClosed, matched)
  BY IdleSound DEF Init
<1>2. DOMAIN status = Task /\ \A t \in Task : status[t] \notin Closed
  BY DEF Init, Closed
<1> QED BY <1>1, <1>2 DEF Init, Careful, CompletedOnlyAfterAll, Finalizing

(* The run is completed only when every task was completed or cancelled,   *)
(* unless its terminal_event came.                                         *)
THEOREM CompletedAfterAll == Spec => []CompletedOnlyAfterAll
<1>1. Careful => CompletedOnlyAfterAll
  BY DEF Careful
<1> QED BY <1>1, CarefulInit, CarefulStep, PTL DEF Spec

(* A run is not left cancelling once nothing is under way any more.        *)
THEOREM CancellationIsFinalized == Spec => []CancellationEnds
<1>1. ASSUME Careful
      PROVE  CancellationEnds
  BY <1>1 DEF Careful, Finalizing, CancellationEnds, Quiescent
<1> QED BY <1>1, CarefulInit, CarefulStep, PTL DEF Spec
-----------------------------------------------------------------------------
(* An agent that has still to report, a classification to come, or a       *)
(* goroutine that will hand the task on: what is left of the pursuit of a  *)
(* task in_progress.                                                       *)
Waiting(t) == starts[t] > 0 \/ outcomes[t] > 0 \/ classify[t] > 0

Updates == {"checkTask", "writeTask"}
Pursuer(r, t) ==
  /\ r.pc \in Updates /\ r.task = t
  /\ r.then \in {"started", "ladder", "escalate"} \/ (r.then = "stop" /\ r.to \in {"completed", "failed"})

(* What an update is for: any that is not one of these four writes another *)
(* status than in_progress.                                                *)
Listed(items) == \A i \in items : i[1] \in Task /\ i[3] \in Int
UpdateOf(r) ==
  /\ r.pc \in Updates =>
       /\ r.task \in Task /\ r.used \in Int
       /\ r.then \notin {"started", "ladder", "retry", "patch"} => r.to # "in_progress"
       /\ r.then \in {"escalate", "unblock"} => r.to = "awaiting"
  /\ r.pc \in Updates \cup {"next"} => Listed(r.left)

Attended ==
  /\ used \in [Task -> Int]
  /\ starts \in [Task -> Nat] /\ outcomes \in [Task -> Nat] /\ classify \in [Task -> Nat]
  /\ \A w \in Worker : UpdateOf(worker[w])
  /\ \A t \in Task \ reverted :
       status[t] = "in_progress" => Waiting(t) \/ \E w \in Worker : Pursuer(worker[w], t)

-----------------------------------------------------------------------------
(* A goroutine elsewhere than in a task update or a listing.               *)
LEMMA Elsewhere ==
  ASSUME NEW r, r.pc \notin Updates \cup {"next"}
  PROVE  UpdateOf(r) /\ \A t : ~Pursuer(r, t)
BY DEF UpdateOf, Pursuer

LEMMA UpdatingIs ==
  ASSUME NEW t, NEW s, NEW then
  PROVE  LET r == Updating(t, s, then) IN
         /\ DOMAIN r = Fields /\ r.pc = "checkTask" /\ r.task = t /\ r.to = s /\ r.then = then
         /\ r.used = used[t] /\ r.left = {} /\ r.topic = "none"
BY DEF Updating, Idle, Fields

LEMMA UpdatingOf ==
  ASSUME Attended, NEW t \in Task, NEW s, NEW then,
         then \notin {"started", "ladder", "retry", "patch"} => s # "in_progress",
         then \in {"escalate", "unblock"} => s = "awaiting"
  PROVE  UpdateOf(Updating(t, s, then))
<1> DEFINE r == Updating(t, s, then)
<1>1. r.pc = "checkTask" /\ r.task = t /\ r.to = s /\ r.then = then /\ r.used = used[t] /\ r.left = {}
  BY UpdatingIs
<1>2. used[t] \in Int
  BY DEF Attended
<1> HIDE DEF r
<1>3. UpdateOf(r)
  BY <1>1, <1>2 DEF UpdateOf, Updates, Listed
<1> QED BY <1>3 DEF r

LEMMA Moves ==
  ASSUME Careful, NEW w \in Worker, NEW r, Become(w, r)
  PROVE  worker'[w] = r /\ \A v \in Worker \ {w} : worker'[v] = worker[v]
BY DEF Careful, Become

(* A step of goroutine w: whoever was pursued still is, or is not          *)
(* in_progress any more.                                                   *)
LEMMA Hands ==
  ASSUME Careful, Attended, NEW w \in Worker, NEW r, Become(w, r), UpdateOf(r),
         used' \in [Task -> Int], starts' \in [Task -> Nat], outcomes' \in [Task -> Nat],
         classify' \in [Task -> Nat], reverted \subseteq reverted',
         \A t \in Task \ reverted' : status'[t] = "in_progress" =>
           \/ Waiting(t)'
           \/ Pursuer(r, t)
           \/ status[t] = "in_progress" /\ ~Waiting(t) /\ ~Pursuer(worker[w], t)
  PROVE  Attended'
<1>1. worker'[w] = r /\ \A v \in Worker \ {w} : worker'[v] = worker[v]
  BY Moves
<1>2. \A v \in Worker : UpdateOf(worker'[v])
  BY <1>1 DEF Attended
<1>3. ASSUME NEW t \in Task \ reverted', status'[t] = "in_progress", ~Waiting(t)'
      PROVE  \E v \in Worker : Pursuer(worker'[v], t)
  <2>1. CASE Pursuer(r, t)
    BY <1>1, <2>1
  <2>2. CASE status[t] = "in_progress" /\ ~Waiting(t) /\ ~Pursuer(worker[w], t)
    <3>1. t \in Task \ reverted
      OBVIOUS
    <3>2. PICK v \in Worker : Pursuer(worker[v], t)
      BY <2>2, <3>1 DEF Attended
    <3> QED BY <1>1, <2>2, <3>2
  <2> QED BY <1>3, <2>1, <2>2
<1> QED BY <1>2, <1>3 DEF Attended, UpdateOf, Pursuer

LEMMA Typed ==
  ASSUME Attended
  PROVE  /\ used \in [Task -> Int]
         /\ starts \in [Task -> Nat] /\ outcomes \in [Task -> Nat] /\ classify \in [Task -> Nat]
BY DEF Attended

(* A step that leaves the tasks and their agents alone.                    *)
LEMMA Bystander ==
  ASSUME Careful, Attended, NEW w \in Worker, NEW r, Become(w, r), UpdateOf(r),
         \A t : ~Pursuer(worker[w], t),
         UNCHANGED <<status, used, reverted, starts, outcomes, classify>>
  PROVE  Attended'
<1>1. \A t : Waiting(t)' <=> Waiting(t)
  BY DEF Waiting
<1> QED BY <1>1, Typed, Hands

(* Counting one up or down.                                                *)
LEMMA Counted ==
  ASSUME NEW f \in [Task -> Nat], NEW t \in Task
  PROVE  /\ \A c \in BOOLEAN : /\ Add(f, t, c) \in [Task -> Nat]
                               /\ \A u \in Task : f[u] > 0 => Add(f, t, c)[u] > 0
         /\ Add(f, t, TRUE)[t] > 0
         /\ f[t] > 0 => [f EXCEPT ![t] = @ - 1] \in [Task -> Nat]
<1>1. ASSUME NEW c \in BOOLEAN
      PROVE  /\ Add(f, t, c) \in [Task -> Nat]
             /\ \A u \in Task : f[u] > 0 => Add(f, t, c)[u] > 0
             /\ c => Add(f, t, c)[t] > 0
  <2>1. Inc(c) \in {0, 1} /\ (c => Inc(c) = 1)
    BY DEF Inc
  <2>2. Add(f, t, c) = [f EXCEPT ![t] = f[t] + Inc(c)]
    BY DEF Add
  <2>3. f[t] + Inc(c) \in Nat
    BY <2>1
  <2> QED BY <2>1, <2>2, <2>3
<1>2. f[t] > 0 => [f EXCEPT ![t] = @ - 1] \in [Task -> Nat]
  <2>1. f[t] > 0 => f[t] - 1 \in Nat
    OBVIOUS
  <2> QED BY <2>1
<1> QED BY <1>1, <1>2

-----------------------------------------------------------------------------
(* Events of the agents.                                                   *)

(* An event about t is taken, by a goroutine that pursues t from now on.   *)
LEMMA TakenOver ==
  ASSUME Careful, Attended, NEW w \in Worker, worker[w].pc = "idle", NEW t \in Task,
         NEW r, Become(w, r), UpdateOf(r), Pursuer(r, t),
         UNCHANGED <<status, used, reverted>>,
         starts' \in [Task -> Nat], outcomes' \in [Task -> Nat], classify' \in [Task -> Nat],
         \A u \in Task \ {t} : starts'[u] = starts[u] /\ outcomes'[u] = outcomes[u]
                               /\ classify'[u] = classify[u]
  PROVE  Attended'
<1>1. \A u : ~Pursuer(worker[w], u)
  BY DEF Pursuer, Updates
<1>2. \A u \in Task \ {t} : Waiting(u)' <=> Waiting(u)
  BY DEF Waiting
<1> QED BY <1>1, <1>2, Typed, Hands

LEMMA AttendStarted ==
  ASSUME Careful, Attended, NEW w \in Worker, NEW t \in Task, ReceiveStarted(w, t)
  PROVE  Attended'
<1> DEFINE r == Updating(t, "in_progress", "started")
<1>1. /\ worker[w].pc = "idle" /\ Become(w, r) /\ starts[t] > 0
      /\ starts' = [starts EXCEPT ![t] = @ - 1]
      /\ UNCHANGED <<status, used, reverted, outcomes, classify>>
  BY DEF ReceiveStarted, At, tasks
<1>2. UpdateOf(r) /\ Pursuer(r, t)
  BY UpdatingOf, UpdatingIs DEF Pursuer, Updates
<1> HIDE DEF r
<1> QED BY <1>1, <1>2, Typed, Counted, TakenOver

LEMMA AttendCompleted ==
  ASSUME Careful, Attended, NEW w \in Worker, NEW t \in Task, NEW how, ReceiveCompleted(w, t, how)
  PROVE  Attended'
<1> DEFINE u == Updating(t, "completed", "stop")
           c == IF how = "direct" THEN "completed" ELSE "none"
           r == [u EXCEPT !.topic = c]
<1>1. /\ worker[w].pc = "idle" /\ Become(w, r) /\ outcomes[t] > 0
      /\ outcomes' = [outcomes EXCEPT ![t] = @ - 1]
      /\ UNCHANGED <<status, used, reverted, starts, classify>>
  BY DEF ReceiveCompleted, At, tasks
<1>2. UpdateOf(u) /\ Pursuer(u, t) /\ DOMAIN u = Fields
  BY UpdatingOf, UpdatingIs DEF Pursuer, Updates
<1> HIDE DEF u, c
<1>3. /\ r.pc = u.pc /\ r.task = u.task /\ r.to = u.to /\ r.then = u.then /\ r.used = u.used
      /\ r.left = u.left
  BY <1>2 DEF Fields
<1> HIDE DEF r
<1>4. UpdateOf(r) /\ Pursuer(r, t)
  BY <1>2, <1>3 DEF UpdateOf, Pursuer
<1> QED BY <1>1, <1>4, Typed, Counted, TakenOver

LEMMA AttendFailed ==
  ASSUME Careful, Attended, NEW w \in Worker, NEW t \in Task, NEW how, ReceiveFailed(w, t, how)
  PROVE  Attended'
<1> DEFINE u == Updating(t, status[t], "ladder")
           n == u.used + 1
           c == IF how = "direct" THEN "failed" ELSE "none"
           r == [u EXCEPT !.used = n, !.topic = c]
<1>1. /\ worker[w].pc = "idle" /\ Become(w, r) /\ outcomes[t] > 0
      /\ outcomes' = [outcomes EXCEPT ![t] = @ - 1]
      /\ UNCHANGED <<status, used, reverted, starts, classify>>
  BY DEF ReceiveFailed, At, tasks
<1>2. /\ UpdateOf(u) /\ DOMAIN u = Fields /\ u.pc = "checkTask" /\ u.task = t
      /\ u.then = "ladder" /\ n \in Int
  <2>1. UpdateOf(u)
    BY UpdatingOf
  <2>2. DOMAIN u = Fields /\ u.pc = "checkTask" /\ u.task = t /\ u.then = "ladder"
    BY UpdatingIs
  <2> QED BY <2>1, <2>2 DEF UpdateOf, Updates
<1> HIDE DEF u, n, c
<1>3. /\ r.pc = u.pc /\ r.task = u.task /\ r.to = u.to /\ r.then = u.then /\ r.used = n
      /\ r.left = u.left
  BY <1>2 DEF Fields
<1> HIDE DEF r
<1>4. UpdateOf(r) /\ Pursuer(r, t)
  BY <1>2, <1>3 DEF UpdateOf, Pursuer, Updates
<1> QED BY <1>1, <1>4, Typed, Counted, TakenOver

LEMMA AttendRequiresHuman ==
  ASSUME Careful, Attended, NEW w \in Worker, NEW t \in Task, ReceiveRequiresHuman(w, t)
  PROVE  Attended'
<1> DEFINE r == Updating(t, "awaiting", "escalate")
<1>1. /\ worker[w].pc = "idle" /\ Become(w, r) /\ classify[t] > 0
      /\ classify' = [classify EXCEPT ![t] = @ - 1]
      /\ UNCHANGED <<status, used, reverted, outcomes, starts>>
  BY DEF ReceiveRequiresHuman, At, tasks
<1>2. UpdateOf(r) /\ Pursuer(r, t)
  BY UpdatingOf, UpdatingIs DEF Pursuer, Updates
<1> HIDE DEF r
<1> QED BY <1>1, <1>2, Typed, Counted, TakenOver

LEMMA AttendTransient ==
  ASSUME Careful, Attended, NEW t \in Task, ReceiveTransient(t)
  PROVE  Attended'
<1>1. /\ classify[t] > 0 /\ classify' = [classify EXCEPT ![t] = @ - 1]
      /\ starts' = Add(starts, t, TRUE)
      /\ UNCHANGED <<status, used, reverted, outcomes, worker>>
  BY DEF ReceiveTransient, tasks
<1>2. /\ classify' \in [Task -> Nat] /\ starts' \in [Task -> Nat] /\ starts'[t] > 0
      /\ \A u \in Task : starts[u] > 0 => starts'[u] > 0
  BY <1>1, Typed, Counted
<1>3. \A u \in Task \ {t} : classify'[u] = classify[u]
  BY <1>1, Typed
<1>4. \A u \in Task : Waiting(u) => Waiting(u)'
  BY <1>1, <1>2, <1>3 DEF Waiting
<1>5. \A w \in Worker : UpdateOf(worker'[w])
  BY <1>1 DEF Attended
<1>6. \A u \in Task \ reverted' : status'[u] = "in_progress" =>
        Waiting(u)' \/ \E w \in Worker : Pursuer(worker'[w], u)
  BY <1>1, <1>4 DEF Attended
<1> QED BY <1>1, <1>2, <1>5, <1>6, Typed DEF Attended, UpdateOf, Pursuer

-----------------------------------------------------------------------------
(* Directions, calls, the run: nobody's pursuit is touched.                *)
LEMMA IdleElsewhere ==
  /\ UpdateOf(Idle) /\ UpdateOf(Pausing) /\ \A s : UpdateOf(Resuming(s))
  /\ \A t : ~Pursuer(Idle, t) /\ ~Pursuer(Pausing, t) /\ \A s : ~Pursuer(Resuming(s), t)
<1>1. Idle.pc = "idle" /\ Pausing.pc = "readRun" /\ \A s : Resuming(s).pc = "readRun"
  BY DEF Idle, Pausing, Resuming
<1> QED BY <1>1, Elsewhere DEF Updates

LEMMA AttendCalls ==
  ASSUME Careful, Attended, NEW w \in Worker, NEW t \in Task,
         \/ \E o \in {"retry", "skip", "block", "cancel"} : ReceiveDirection(w, t, o)
         \/ ReceiveUpdate(w, t) \/ UnblockTask(w, t) \/ TaskTimeout(w, t)
  PROVE  Attended'
<1> DEFINE N == {Updating(t, "in_progress", "retry"), Resuming("in_progress"),
                 Updating(t, "blocked", "stop"), Updating(t, "cancelled", "cancelled"),
                 Updating(t, status[t], "patch"), Updating(t, "awaiting", "unblock"),
                 Updating(t, "failed", "taskTimeout")}
<1>1. /\ worker[w].pc = "idle" /\ \E n \in N : Become(w, n)
      /\ UNCHANGED <<status, used, reverted, starts, outcomes, classify>>
  BY DEF ReceiveDirection, ReceiveUpdate, UnblockTask, TaskTimeout, Call, At, tasks, agents
<1>2. \A n \in N : UpdateOf(n)
  BY UpdatingOf, IdleElsewhere
<1>3. \A u : ~Pursuer(worker[w], u)
  BY <1>1 DEF Pursuer, Updates
<1> QED BY <1>1, <1>2, <1>3, Bystander

LEMMA HandleEventElsewhere ==
  ASSUME NEW topic
  PROVE  UpdateOf(HandleEvent(topic)) /\ HandleEvent(topic).pc \in {"idle", "checkRun", "closure"}
<1>1. HandleEvent(topic).pc \in {"idle", "checkRun", "closure"}
  BY DEF HandleEvent, Idle
<1> QED BY <1>1, Elsewhere DEF Updates

LEMMA AttendRunCalls ==
  ASSUME Careful, Attended, NEW w \in Worker,
         \/ RunTimeout(w) \/ CancelWorkflowRun(w) \/ Finalize(w)
         \/ \E topic : ReceiveExternal(w, topic) \/ ReceiveNote(w, topic)
  PROVE  Attended'
<1> DEFINE a == [Idle EXCEPT !.pc = "checkRun", !.goal = "failed", !.then = "runTimeout"]
           b == [Idle EXCEPT !.pc = "writeRun", !.goal = "cancelling", !.then = "cancelRun"]
           c == [Idle EXCEPT !.pc = "writeRun", !.goal = "cancelled"]
<1>1. /\ worker[w].pc = "idle"
      /\ \/ \E n \in {Idle, a, b, c} : Become(w, n)
         \/ \E topic : Become(w, HandleEvent(topic))
      /\ UNCHANGED <<status, used, reverted, starts, outcomes, classify>>
  BY DEF RunTimeout, CancelWorkflowRun, Finalize, ReceiveExternal, ReceiveNote, Call, At, tasks,
         agents
<1>2. a.pc = "checkRun" /\ b.pc = "writeRun" /\ c.pc = "writeRun"
  BY DEF Idle
<1> HIDE DEF a, b, c
<1>3. \A n \in {Idle, a, b, c} : UpdateOf(n)
  BY <1>2, IdleElsewhere, Elsewhere DEF Updates
<1>4. \A u : ~Pursuer(worker[w], u)
  BY <1>1 DEF Pursuer, Updates
<1> QED BY <1>1, <1>3, <1>4, HandleEventElsewhere, Bystander

-----------------------------------------------------------------------------
(* UpdateTask.                                                             *)
LEMMA OnwardOf ==
  ASSUME NEW r, DOMAIN r = Fields, UpdateOf(r), r.pc \in Updates
  PROVE  UpdateOf(Onward(r)) /\ UpdateOf(AfterUpdate(r))
<1> DEFINE n == [r EXCEPT !.pc = "next"]
           t == r.topic
           e == [Idle EXCEPT !.pc = "readRun", !.topic = t, !.then = "event"]
<1>1. Onward(r) \in {Idle, n, e}
  BY DEF Onward
<1>2. n.pc = "next" /\ n.left = r.left /\ e.pc = "readRun"
  BY DEF Fields, Idle
<1> HIDE DEF n, e, t
<1>3. UpdateOf(n) /\ UpdateOf(e)
  BY <1>2 DEF UpdateOf, Updates
<1>4. UpdateOf(Onward(r))
  BY <1>1, <1>3, IdleElsewhere
<1>5. /\ AfterUpdate(r) \in {Pausing, Resuming("in_progress"), Resuming("failed"), Escalating(r), Onward(r)}
      /\ r.then # "unblock" => AfterUpdate(r) # Escalating(r) \/ UpdateOf(AfterUpdate(r))
  BY <1>4, IdleElsewhere DEF AfterUpdate
<1>6. r.then = "unblock" => UpdateOf(Escalating(r))
  <2> DEFINE x == Escalating(r)
  <2>1. /\ x.pc = "checkTask" /\ x.task = r.task /\ x.to = r.to /\ x.used = r.used
        /\ x.then = "escalate" /\ x.left = r.left
    BY DEF Escalating, Fields
  <2> HIDE DEF x
  <2>2. r.then = "unblock" => UpdateOf(x)
    BY <2>1 DEF UpdateOf, Updates
  <2> QED BY <2>2 DEF x
<1> QED BY <1>4, <1>5, <1>6, IdleElsewhere

(* UpdateTask refuses a pursuer of t only when t is not in_progress, but   *)
(* for the ladder's, which makes an ordinary failure of it.                *)
LEMMA AttendCheckTask ==
  ASSUME Careful, Attended, NEW w \in Worker, CheckTask(w)
  PROVE  Attended'
<1> DEFINE r == worker[w]
           s == status[r.task]
           c == r.then = "started"
           u == r.used - 1
           n == [r EXCEPT !.pc = "writeTask", !.was = s]
           f == [r EXCEPT !.then = "stop", !.to = "failed", !.used = u]
<1>1. r.pc = "checkTask" /\ UNCHANGED <<status, used, reverted, starts, classify>>
  BY DEF CheckTask, At, tasks
<1>2. UpdateOf(r) /\ DOMAIN r = Fields /\ r.task \in Task
  BY <1>1, Here DEF Attended, UpdateOf, Updates, Sound
<1>3. u \in Int
  BY <1>1, <1>2 DEF UpdateOf, Updates
<1>4. \/ (s = r.to \/ TaskCanTransition(s, r.to)) /\ Become(w, n) /\ UNCHANGED outcomes
      \/ /\ ~(s = r.to \/ TaskCanTransition(s, r.to))
         /\ outcomes' = Add(outcomes, r.task, c)
         /\ IF r.then = "ladder" THEN Become(w, f) ELSE Become(w, Onward(r))
  BY DEF CheckTask
<1> HIDE DEF s, c, u
<1>5. /\ n.pc = "writeTask" /\ n.task = r.task /\ n.to = r.to /\ n.then = r.then
      /\ n.used = r.used /\ n.left = r.left
      /\ f.pc = r.pc /\ f.task = r.task /\ f.to = "failed" /\ f.then = "stop" /\ f.used = u
      /\ f.left = r.left
  BY <1>2 DEF Fields
<1> HIDE DEF n, f
<1>6. /\ UpdateOf(n) /\ \A t : Pursuer(r, t) => Pursuer(n, t)
      /\ UpdateOf(f) /\ \A t : Pursuer(r, t) => Pursuer(f, t)
  BY <1>1, <1>2, <1>3, <1>5 DEF UpdateOf, Pursuer, Updates
<1>7. CASE Become(w, n) /\ UNCHANGED outcomes
  <2>1. \A t : Waiting(t)' <=> Waiting(t)
    BY <1>1, <1>7 DEF Waiting
  <2> QED BY <1>1, <1>6, <1>7, <2>1, Typed, Hands DEF r
<1>8. CASE /\ ~(s = r.to \/ TaskCanTransition(s, r.to))
           /\ outcomes' = Add(outcomes, r.task, c)
           /\ IF r.then = "ladder" THEN Become(w, f) ELSE Become(w, Onward(r))
  <2>1. /\ outcomes' \in [Task -> Nat] /\ \A t \in Task : outcomes[t] > 0 => outcomes'[t] > 0
        /\ c => outcomes'[r.task] > 0
    BY <1>2, <1>8, Typed, Counted DEF c
  <2>2. \A t \in Task : Waiting(t) => Waiting(t)'
    BY <1>1, <2>1 DEF Waiting
  <2>3. CASE r.then = "ladder"
    <3>1. Become(w, f)
      BY <1>8, <2>3
    <3> HIDE DEF r
    <3> QED BY <1>1, <1>6, <2>1, <2>2, <3>1, Typed, Hands DEF r
  <2>4. CASE r.then # "ladder"
    <3>1. Become(w, Onward(r)) /\ UpdateOf(Onward(r))
      BY <1>1, <1>2, <1>8, <2>4, OnwardOf DEF Updates
    <3>2. ASSUME NEW t \in Task, status[t] = "in_progress", Pursuer(r, t)
          PROVE  Waiting(t)'
      <4>1. r.task = t /\ s = "in_progress"
        BY <3>2 DEF Pursuer, s
      <4>2. ~TaskCanTransition("in_progress", r.to)
        BY <1>8, <4>1
      <4>3. r.to \notin {"completed", "failed", "awaiting"}
        BY <4>2 DEF TaskCanTransition, TaskTransitions
      <4>4. r.then = "started"
        BY <1>1, <1>2, <2>4, <3>2, <4>3 DEF Pursuer, UpdateOf, Updates
      <4> QED BY <2>1, <4>1, <4>4 DEF Waiting, c
    <3> HIDE DEF r
    <3> QED BY <1>1, <2>1, <2>2, <3>1, <3>2, Typed, Hands DEF r
  <2> QED BY <2>3, <2>4
<1> QED BY <1>4, <1>7, <1>8

(* Who writes in_progress goes on with the task, or finds it so.           *)
LEMMA AttendWriteTask ==
  ASSUME Careful, Attended, NEW w \in Worker, WriteTask(w)
  PROVE  Attended'
<1> DEFINE r == worker[w]
<1>0. r.pc = "writeTask" /\ UpdateOf(r) /\ DOMAIN r = Fields /\ r.task \in Task /\ r.used \in Int
  BY Here DEF WriteTask, At, Attended, UpdateOf, Updates, Sound
<1> PICK t \in Task : t = r.task
  BY <1>0
<1> DEFINE a == Redispatches(r)
           b == r.then = "started"
           c == Exhausted(r)
<1>1. /\ Become(w, AfterUpdate(r)) /\ SetTask(t, r.to, r.used)
      /\ reverted' = IF r.then = "patch" /\ status[t] # r.to THEN reverted \cup {t} ELSE reverted
      /\ starts' = Add(starts, t, a) /\ outcomes' = Add(outcomes, t, b)
      /\ classify' = Add(classify, t, c)
  BY DEF WriteTask
<1>2. a \in BOOLEAN /\ b \in BOOLEAN /\ c \in BOOLEAN
  BY DEF Redispatches, Exhausted
<1>3. r.then \in {"started", "ladder", "retry"} => a \/ b \/ c
  BY <1>0, BudgetAssumption DEF Redispatches, Exhausted
<1>4. /\ r.then \notin {"started", "ladder", "retry", "patch"} => r.to # "in_progress"
      /\ UpdateOf(AfterUpdate(r))
  BY <1>0, OnwardOf DEF UpdateOf, Updates
<1> HIDE DEF r, a, b, c
<1>5. /\ starts' \in [Task -> Nat] /\ outcomes' \in [Task -> Nat] /\ classify' \in [Task -> Nat]
      /\ \A u \in Task : starts[u] > 0 => starts'[u] > 0
      /\ \A u \in Task : outcomes[u] > 0 => outcomes'[u] > 0
      /\ \A u \in Task : classify[u] > 0 => classify'[u] > 0
  BY <1>1, <1>2, Typed, Counted
<1>6. (a => starts'[t] > 0) /\ (b => outcomes'[t] > 0) /\ (c => classify'[t] > 0)
  BY <1>1, <1>2, Typed, Counted
<1>7. \A u \in Task : (Waiting(u) => Waiting(u)') /\ (u = t /\ (a \/ b \/ c) => Waiting(u)')
  BY <1>5, <1>6 DEF Waiting
<1>8. /\ status' = [status EXCEPT ![t] = r.to] /\ used' = [used EXCEPT ![t] = r.used]
      /\ DOMAIN status = Task
  BY <1>1 DEF SetTask, Careful
<1>9. used' \in [Task -> Int]
  BY <1>0, <1>8, Typed
<1>10. ASSUME NEW u \in Task \ reverted', status'[u] = "in_progress"
       PROVE  Waiting(u)' \/ (status[u] = "in_progress" /\ ~Waiting(u) /\ ~Pursuer(r, u))
  <2>1. CASE u # t
    <3>1. ~Pursuer(r, u) /\ status[u] = "in_progress"
      BY <1>8, <1>10, <2>1 DEF Pursuer
    <3> QED BY <1>7, <3>1
  <2>2. CASE u = t
    <3>1. r.to = "in_progress"
      BY <1>8, <1>10, <2>2
    <3>2. CASE r.then = "patch"
      <4>1. status[t] = "in_progress"
        BY <1>1, <1>10, <2>2, <3>1, <3>2
      <4>2. ~Pursuer(r, t)
        BY <3>2 DEF Pursuer
      <4> QED BY <1>7, <2>2, <4>1, <4>2
    <3>3. CASE r.then # "patch"
      BY <1>3, <1>4, <1>7, <2>2, <3>1, <3>3
    <3> QED BY <3>2, <3>3
  <2> QED BY <2>1, <2>2
<1>11. reverted \subseteq reverted'
  BY <1>1
<1> QED BY <1>1, <1>4, <1>5, <1>9, <1>10, <1>11, Hands DEF r

-----------------------------------------------------------------------------
(* The run and the cascades.                                               *)
LEMMA AttendReadRun ==
  ASSUME Careful, Attended, NEW w \in Worker, ReadRun(w)
  PROVE  Attended'
<1> DEFINE r == worker[w]
           p == [r EXCEPT !.pc = "checkRun", !.goal = "paused"]
           c == [r EXCEPT !.pc = "closure", !.left = Task]
<1>1. /\ \/ Become(w, HandleEvent(r.topic))
         \/ \E n \in {p, c, Idle} : Become(w, n)
      /\ r.pc = "readRun"
      /\ UNCHANGED <<status, used, reverted, starts, outcomes, classify>>
  <2>1. r.pc = "readRun" /\ r.then \in {"event", "pause", "resume"}
    BY Here DEF ReadRun, At, Sound, GoalOf
  <2> QED BY <2>1 DEF ReadRun, tasks, agents
<1>2. DOMAIN r = Fields
  BY Here DEF Sound
<1>3. p.pc = "checkRun" /\ c.pc = "closure"
  BY <1>2 DEF Fields
<1> HIDE DEF p, c
<1>4. \A n \in {p, c, Idle} : UpdateOf(n)
  BY <1>3, IdleElsewhere, Elsewhere DEF Updates
<1>5. \A t : ~Pursuer(worker[w], t)
  BY <1>1 DEF Pursuer, Updates
<1> QED BY <1>1, <1>4, <1>5, HandleEventElsewhere, Bystander

LEMMA AttendRunSteps ==
  ASSUME Careful, Attended, NEW w \in Worker,
         \/ \E t \in Task : ReadClosure(w, t)
         \/ CheckRun(w) \/ WriteRun(w)
  PROVE  Attended'
<1> DEFINE r == worker[w]
<1>1. /\ r.pc \in {"closure", "checkRun", "writeRun"}
      /\ UNCHANGED <<status, used, reverted, starts, outcomes, classify>>
  BY DEF ReadClosure, CheckRun, WriteRun, At, tasks, agents
<1>2. DOMAIN r = Fields /\ \A t : ~Pursuer(r, t)
  BY <1>1, Here DEF Sound, Pursuer, Updates
<1>3. PICK n : Become(w, n) /\ n.pc \notin Updates \cup {"next"}
  <2>1. CASE \E t \in Task : ReadClosure(w, t)
    <3> PICK t \in Task : ReadClosure(w, t)
      BY <2>1
    <3> DEFINE bad == r.bad \/ status[t] = "failed"
               left == r.left \ {t}
               g == IF r.then = "resume" THEN r.goal ELSE IF bad THEN "failed" ELSE "completed"
               m == [r EXCEPT !.left = left, !.bad = bad]
               c == [r EXCEPT !.pc = "checkRun", !.left = {}, !.bad = FALSE, !.goal = g]
    <3>1. r.pc = "closure" /\ \E n \in {Idle, m, c} : Become(w, n)
      BY DEF ReadClosure, At
    <3> HIDE DEF bad, left, g
    <3>2. m.pc = r.pc /\ c.pc = "checkRun" /\ Idle.pc = "idle"
      BY <1>2 DEF Fields, Idle
    <3> HIDE DEF m, c
    <3> QED BY <3>1, <3>2 DEF Updates
  <2>2. CASE CheckRun(w)
    <3> DEFINE m == [r EXCEPT !.pc = "writeRun"]
    <3>1. \E n \in {Idle, m} : Become(w, n)
      BY <2>2 DEF CheckRun
    <3>2. m.pc = "writeRun" /\ Idle.pc = "idle"
      BY <1>2 DEF Fields, Idle
    <3> HIDE DEF m
    <3> QED BY <3>1, <3>2 DEF Updates
  <2>3. CASE WriteRun(w)
    <3> DEFINE m == [r EXCEPT !.pc = "list"]
    <3>1. \E n \in {Idle, m} : Become(w, n)
      BY <2>3 DEF WriteRun
    <3>2. m.pc = "list" /\ Idle.pc = "idle"
      BY <1>2 DEF Fields, Idle
    <3> HIDE DEF m
    <3> QED BY <3>1, <3>2 DEF Updates
  <2> QED BY <2>1, <2>2, <2>3
<1>4. UpdateOf(n)
  BY <1>3, Elsewhere
<1> HIDE DEF r
<1> QED BY <1>1, <1>2, <1>3, <1>4, Bystander DEF r

LEMMA AttendListTasks ==
  ASSUME Careful, Attended, NEW w \in Worker, ListTasks(w)
  PROVE  Attended'
<1> DEFINE r == worker[w]
           open == {<<t, status[t], used[t]>> : t \in {u \in Task : status[u] \notin TerminalTask}}
           m == [r EXCEPT !.pc = "next", !.left = open]
<1>1. /\ r.pc = "list" /\ \E n \in {Idle, m} : Become(w, n)
      /\ UNCHANGED <<status, used, reverted, starts, outcomes, classify>>
  BY DEF ListTasks, At, tasks, agents
<1>2. DOMAIN r = Fields /\ \A t : ~Pursuer(r, t)
  BY <1>1, Here DEF Sound, Pursuer, Updates
<1>3. Listed(open)
  BY DEF Listed, Attended
<1> HIDE DEF open, r
<1>4. m.pc = "next" /\ m.left = open
  BY <1>2 DEF Fields
<1> HIDE DEF m
<1>5. \A n \in {Idle, m} : UpdateOf(n)
  BY <1>3, <1>4, IdleElsewhere DEF UpdateOf, Updates
<1> QED BY <1>1, <1>2, <1>5, Bystander DEF r

LEMMA AttendTimeOutNext ==
  ASSUME Careful, Attended, NEW w \in Worker, NEW item \in worker[w].left, TimeOutNext(w, item)
  PROVE  Attended'
<1> DEFINE r == worker[w]
           left == r.left \ {item}
           a == item[1]
           u == item[3]
           m == [r EXCEPT !.pc = "checkTask", !.task = a, !.to = "failed", !.used = u, !.left = left]
<1>1. /\ r.pc = "next" /\ r.then = "runTimeout" /\ Become(w, m)
      /\ UNCHANGED <<status, used, reverted, starts, outcomes, classify>>
  BY DEF TimeOutNext, At, tasks, agents
<1>2. DOMAIN r = Fields /\ UpdateOf(r) /\ \A t : ~Pursuer(r, t)
  BY <1>1, Here DEF Sound, Pursuer, Updates, Attended
<1>3. Listed(left) /\ a \in Task /\ u \in Int
  BY <1>1, <1>2 DEF UpdateOf, Listed
<1> HIDE DEF left, a, u, r
<1>4. /\ m.pc = "checkTask" /\ m.task = a /\ m.to = "failed" /\ m.used = u /\ m.left = left
      /\ m.then = "runTimeout"
  BY <1>1, <1>2 DEF Fields
<1> HIDE DEF m
<1>5. UpdateOf(m)
  BY <1>3, <1>4 DEF UpdateOf, Updates
<1> QED BY <1>1, <1>2, <1>5, Bystander DEF r

LEMMA AttendCancelNext ==
  ASSUME Careful, Attended, NEW w \in Worker, NEW item \in worker[w].left, CancelNext(w, item)
  PROVE  Attended'
<1> DEFINE r == worker[w]
           left == r.left \ {item}
           m == [r EXCEPT !.left = left]
<1>0. UpdateOf(r) /\ r.pc = "next" /\ r.then = "cancelRun"
  BY DEF Attended, CancelNext, At
<1>1. item[1] \in Task /\ item[3] \in Int /\ Listed(left)
  BY <1>0 DEF UpdateOf, Listed
<1> PICK t \in Task : t = item[1]
  BY <1>1
<1>2. /\ \E n \in {Idle, m} : Become(w, n)
      /\ SetTask(t, "cancelled", item[3]) \/ UNCHANGED <<status, used>>
      /\ UNCHANGED <<reverted, starts, outcomes, classify>>
  BY DEF CancelNext, agents
<1>3. DOMAIN r = Fields /\ \A u : ~Pursuer(r, u)
  BY <1>0, Here DEF Sound, Pursuer, Updates
<1> HIDE DEF left, r
<1>4. m.pc = "next" /\ m.left = left
  BY <1>0, <1>3 DEF Fields
<1> HIDE DEF m
<1>5. \A n \in {Idle, m} : UpdateOf(n)
  BY <1>1, <1>4, IdleElsewhere DEF UpdateOf, Updates
<1>6. used' \in [Task -> Int]
  BY <1>1, <1>2, Typed DEF SetTask
<1>7. \A u \in Task : status'[u] = "in_progress" => status[u] = "in_progress"
  BY <1>2 DEF SetTask, Careful
<1>8. \A u : Waiting(u)' <=> Waiting(u)
  BY <1>2 DEF Waiting
<1>9. reverted \subseteq reverted' /\ starts' \in [Task -> Nat] /\ outcomes' \in [Task -> Nat]
      /\ classify' \in [Task -> Nat]
  BY <1>2, Typed
<1> QED BY <1>2, <1>3, <1>5, <1>6, <1>7, <1>8, <1>9, Hands DEF r

-----------------------------------------------------------------------------
LEMMA AttendedStep ==
  ASSUME Careful, Attended, [Next]_vars
  PROVE  Attended'
<1>1. ASSUME NEW w \in Worker, Work(w)
      PROVE  Attended'
  BY <1>1, AttendCheckTask, AttendWriteTask, AttendReadRun, AttendRunSteps, AttendListTasks,
     AttendTimeOutNext, AttendCancelNext DEF Work
<1>2. ASSUME NEW w \in Worker, NEW t \in Task,
             \/ ReceiveStarted(w, t)
             \/ \E how : ReceiveCompleted(w, t, how) \/ ReceiveFailed(w, t, how)
             \/ ReceiveRequiresHuman(w, t)
             \/ \E o \in {"retry", "skip", "block", "cancel"} : ReceiveDirection(w, t, o)
             \/ ReceiveUpdate(w, t) \/ UnblockTask(w, t) \/ TaskTimeout(w, t)
      PROVE  Attended'
  BY <1>2, AttendStarted, AttendCompleted, AttendFailed, AttendRequiresHuman, AttendCalls
<1>3. ASSUME NEW w \in Worker,
             \/ RunTimeout(w) \/ CancelWorkflowRun(w) \/ Finalize(w)
             \/ \E topic : ReceiveExternal(w, topic) \/ ReceiveNote(w, topic)
      PROVE  Attended'
  BY <1>3, AttendRunCalls
<1>4. ASSUME NEW t \in Task, ReceiveTransient(t)
      PROVE  Attended'
  BY <1>4, AttendTransient
<1>5. CASE UNCHANGED vars
  <2>1. \A w \in Worker : UpdateOf(worker'[w])
    BY <1>5 DEF vars, Attended
  <2>2. \A t \in Task : (\E w \in Worker : Pursuer(worker[w], t)) =>
          \E w \in Worker : Pursuer(worker'[w], t)
    BY <1>5 DEF vars
  <2>3. \A t \in Task : Waiting(t) => Waiting(t)'
    BY <1>5 DEF vars, tasks, agents, Waiting
  <2>4. UNCHANGED <<status, used, reverted, starts, outcomes, classify>>
    BY <1>5 DEF vars, tasks, agents
  <2> QED BY <2>1, <2>2, <2>3, <2>4 DEF Attended, UpdateOf, Pursuer
<1> QED BY <1>1, <1>2, <1>3, <1>4, <1>5 DEF Next

LEMMA AttendedInit == Init => Attended
<1> SUFFICES ASSUME Init
             PROVE  Attended
  OBVIOUS
<1>1. \A w \in Worker : UpdateOf(worker[w])
  BY IdleElsewhere DEF Init
<1>2. used \in [Task -> Int]
  <2>1. used \in [Task -> 0..(MaxRecoveryRuns - 1)]
    BY SpentAssumption DEF Init
  <2>2. 0..(MaxRecoveryRuns - 1) \subseteq Int
    OBVIOUS
  <2> QED BY <2>1, <2>2
<1> QED BY <1>1, <1>2 DEF Init, Attended

(* No task is left in_progress with no agent on it, nothing on its way and *)
(* nobody asked, however failures, timeouts, cancellations and directions  *)
(* race for it (task.update may put back an in_progress it read).          *)
THEOREM NobodyAbandoned == Spec => []NoTaskAbandoned
<1>1. ASSUME Attended
      PROVE  NoTaskAbandoned
  <2> SUFFICES ASSUME Quiescent, NEW t \in Task \ reverted, status[t] = "in_progress"
               PROVE  FALSE
    BY DEF NoTaskAbandoned
  <2>1. \A w \in Worker : ~Pursuer(worker[w], t)
    BY DEF Quiescent, Pursuer, Updates
  <2>2. starts[t] = 0 /\ outcomes[t] = 0 /\ classify[t] = 0
    BY DEF Quiescent
  <2>3. ~Waiting(t)
    BY <2>2 DEF Waiting
  <2> QED BY <1>1, <2>1, <2>3 DEF Attended
<1> QED BY <1>1, CarefulInit, CarefulStep, AttendedInit, AttendedStep, PTL DEF Spec

=============================================================================
