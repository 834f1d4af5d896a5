----------------------------- MODULE ReviewGate -----------------------------
(***************************************************************************)
(* The way of a pushed event through the process: NotifyEvent looks for a  *)
(* record of it, writes one and acknowledges (event_receiver.go), the      *)
(* dispatcher handles it in a goroutine (event_dispatcher.go), and the     *)
(* review gate of a completed task evaluates the task's acceptance         *)
(* criteria, notes the results and publishes the outcome (reviewer.go,     *)
(* deliverable.go).                                                        *)
(*                                                                         *)
(* One Worker stands for the goroutines that handle one delivery: each of  *)
(* them starts the next and ends.  Every storage call is a step.  All the  *)
(* events are task.completed of one task, as of repeated completions.      *)
(***************************************************************************)
EXTENDS Naturals, FiniteSets, Goroutines

CONSTANTS
  Event, NoEvent,
  Criterion,    \* acceptance criteria of the task
  MaxDelivery,  \* bound on deliveries of events by Cross
  MaxFault      \* bound on refused storage calls and crashes

ASSUME NullAssumption == NoEvent \notin Event
ASSUME BoundAssumption == MaxDelivery \in Nat /\ MaxFault \in Nat

VARIABLES
  received,  \* events with a ReceivedEvent record
  result,    \* stored result of each criterion, "" before the first review
  outcome,   \* outcome published last, "" before the first
  deliveries, faults,  \* spent of the bounds
  dispatched,  \* history: how often each event was dispatched
  published,   \* history: events whose review was published
  doubtful,    \* history: events delivered twice at once or not looked up
  lost,        \* history: events whose handling a refused call or a crash ended
  mixed        \* history: results of two reviews or of a part of one are stored

vars == <<received, result, outcome, worker, deliveries, faults, dispatched, published,
          doubtful, lost, mixed>>
bounds == <<deliveries, faults>>
history == <<dispatched, published, doubtful, lost, mixed>>

Result == {"passed", "failed", "skipped", "blocked"}
Good == {"passed", "skipped"}

Idle == [pc |-> "idle", event |-> NoEvent, left |-> {}, failed |-> FALSE]
PC == {"idle", "record", "dispatch", "unblock", "criteria", "deliverables", "evaluate", "publish"}

TypeOK ==
  /\ received \subseteq Event
  /\ result \in [Criterion -> Result \cup {""}]
  /\ outcome \in {"", "passed", "failed"}
  /\ worker \in [Worker -> [pc : PC, event : Event \cup {NoEvent}, left : SUBSET Criterion,
                            failed : BOOLEAN]]
  /\ deliveries \in 0..MaxDelivery /\ faults \in 0..MaxFault
  /\ dispatched \in [Event -> Nat]
  /\ published \subseteq Event /\ doubtful \subseteq Event /\ lost \subseteq Event
  /\ mixed \in BOOLEAN

Init ==
  /\ received = {}
  /\ result = [c \in Criterion |-> ""]
  /\ outcome = ""
  /\ worker = [w \in Worker |-> Idle]
  /\ deliveries = 0 /\ faults = 0
  /\ dispatched = [e \in Event |-> 0]
  /\ published = {} /\ doubtful = {} /\ lost = {}
  /\ mixed = FALSE

Goto(w, pc) == Become(w, [worker[w] EXCEPT !.pc = pc])

Recording(e) == {w \in Worker : At(w, "record") /\ worker[w].event = e}
Reviewing == {w \in Worker : worker[w].pc \in {"evaluate", "publish"}}

Fault == faults < MaxFault /\ faults' = faults + 1

-----------------------------------------------------------------------------
(* NotifyEvent.                                                            *)

(* Cross delivers an event, for the first time or again.                   *)
Receive(w, e) ==
  /\ At(w, "idle")
  /\ deliveries < MaxDelivery
  /\ deliveries' = deliveries + 1

(* Mutant: the record is looked for by the topic, and not found. *)
NotifyEventBlind(w, e) ==
  /\ Receive(w, e)
  /\ Become(w, [Idle EXCEPT !.pc = "record", !.event = e])
  /\ doubtful' = IF Recording(e) # {} THEN doubtful \cup {e} ELSE doubtful
  /\ UNCHANGED <<received, result, outcome, faults, dispatched, published, lost, mixed>>

(* The lookup finds a record and the delivery is acknowledged, or it finds *)
(* none and the event is to be recorded.                                   *)
NotifyEvent(w, e) ==
  /\ Receive(w, e)
  /\ IF e \in received
     THEN UNCHANGED <<worker, doubtful>>
     ELSE /\ Become(w, [Idle EXCEPT !.pc = "record", !.event = e])
          /\ doubtful' = IF Recording(e) # {} THEN doubtful \cup {e} ELSE doubtful
  /\ UNCHANGED <<received, result, outcome, faults, dispatched, published, lost, mixed>>

(* A lookup that fails is taken for one that finds nothing, and so is the  *)
(* missing one of a delivery without an event id.                          *)
LookupRefused(w, e) ==
  /\ Receive(w, e)
  /\ Fault
  /\ Become(w, [Idle EXCEPT !.pc = "record", !.event = e])
  /\ doubtful' = doubtful \cup {e}
  /\ UNCHANGED <<received, result, outcome, dispatched, published, lost, mixed>>

WriteRecord(w) ==
  /\ At(w, "record")
  /\ received' = received \cup {worker[w].event}
  /\ Goto(w, "dispatch")
  /\ UNCHANGED <<result, outcome, bounds, history>>

(* The delivery is answered with an error; Cross may deliver it again.     *)
RecordRefused(w) ==
  /\ At(w, "record")
  /\ Fault
  /\ Become(w, Idle)
  /\ UNCHANGED <<received, result, outcome, deliveries, history>>

-----------------------------------------------------------------------------
(* Dispatch and handleWorkTaskCompleted: the review follows the unblocking *)
(* of the task's dependents.                                               *)

Dispatch(w) ==
  /\ At(w, "dispatch")
  /\ dispatched' = [dispatched EXCEPT ![worker[w].event] = @ + 1]
  /\ Goto(w, "unblock")
  /\ UNCHANGED <<received, result, outcome, bounds, published, doubtful, lost, mixed>>

UnblockDependents(w) ==
  /\ At(w, "unblock")
  /\ Goto(w, "criteria")
  /\ UNCHANGED <<received, result, outcome, bounds, history>>

-----------------------------------------------------------------------------
(* Review.                                                                 *)

(* ListAcceptanceCriteriaForTask: a task without criteria passes.          *)
ListCriteria(w) ==
  LET me == worker[w] IN
  /\ At(w, "criteria")
  /\ Become(w, [me EXCEPT !.left = Criterion,
                          !.pc = IF Criterion = {} THEN "publish" ELSE "deliverables"])
  /\ UNCHANGED <<received, result, outcome, bounds, history>>

(* ListDeliverablesForTask; what is delivered is the evaluator's business. *)
ListDeliverables(w) ==
  /\ At(w, "deliverables")
  /\ Goto(w, "evaluate")
  /\ mixed' = (Reviewing # {})
  /\ UNCHANGED <<received, result, outcome, bounds, dispatched, published, doubtful, lost>>

After(r, c, value) ==
  [r EXCEPT !.left = @ \ {c},
            !.failed = @ \/ value \notin Good,
            !.pc = IF r.left = {c} THEN "publish" ELSE "evaluate"]

(* One criterion is evaluated and its result written over the stored one.  *)
(* An evaluation that fails is noted as blocked.                           *)
(* Mutant: a criterion counts as failed only when it is noted as failed.   *)
EvaluateLenient(w) ==
  LET me == worker[w] IN
  /\ At(w, "evaluate")
  /\ \E c \in me.left, value \in Result :
       /\ result' = [result EXCEPT ![c] = value]
       /\ Become(w, After(me, c, IF value = "failed" THEN value ELSE "passed"))
  /\ UNCHANGED <<received, outcome, bounds, history>>
Evaluate(w) ==
  LET me == worker[w] IN
  /\ At(w, "evaluate")
  /\ \E c \in me.left, value \in Result :
       /\ result' = [result EXCEPT ![c] = value]
       /\ Become(w, After(me, c, value))
  /\ UNCHANGED <<received, outcome, bounds, history>>

(* A result the store refuses counts for the outcome all the same.         *)
ResultRefused(w) ==
  LET me == worker[w] IN
  /\ At(w, "evaluate")
  /\ Fault
  /\ \E c \in me.left, value \in Result : Become(w, After(me, c, value))
  /\ mixed' = TRUE
  /\ UNCHANGED <<received, result, outcome, deliveries, dispatched, published, doubtful, lost>>

(* The goroutine ends with the outcome. *)
(* Mutant: a review that failed is not published. *)
PublishOutcomePassed(w) ==
  LET me == worker[w] IN
  /\ At(w, "publish")
  /\ outcome' = IF me.failed THEN outcome ELSE "passed"
  /\ published' = IF me.failed THEN published ELSE published \cup {me.event}
  /\ Become(w, Idle)
  /\ UNCHANGED <<received, result, bounds, dispatched, doubtful, lost, mixed>>
PublishOutcome(w) ==
  LET me == worker[w] IN
  /\ At(w, "publish")
  /\ outcome' = IF me.failed THEN "failed" ELSE "passed"
  /\ published' = published \cup {me.event}
  /\ Become(w, Idle)
  /\ UNCHANGED <<received, result, bounds, dispatched, doubtful, lost, mixed>>

(* The handler, or the review, ends at a list the store refuses.           *)
ListRefused(w) ==
  /\ worker[w].pc \in {"unblock", "criteria", "deliverables"}
  /\ Fault
  /\ Become(w, Idle)
  /\ lost' = lost \cup {worker[w].event}
  /\ UNCHANGED <<received, result, outcome, deliveries, dispatched, published, doubtful, mixed>>

(* The records survive a crash, the goroutines do not, and a recorded      *)
(* event is a duplicate when it is delivered again.                        *)
Crash ==
  /\ Fault
  /\ worker' = [w \in Worker |-> Idle]
  /\ lost' = lost \cup (received \ published)
  /\ mixed' = (mixed \/ Reviewing # {})
  /\ UNCHANGED <<received, result, outcome, deliveries, dispatched, published, doubtful>>

-----------------------------------------------------------------------------
Step(w) ==
  WriteRecord(w) \/ Dispatch(w) \/ UnblockDependents(w) \/ ListCriteria(w)
    \/ ListDeliverables(w) \/ Evaluate(w) \/ PublishOutcome(w)

Next ==
  \/ \E w \in Worker :
       \/ \E e \in Event : NotifyEvent(w, e) \/ LookupRefused(w, e)
       \/ Step(w)
       \/ RecordRefused(w) \/ ResultRefused(w) \/ ListRefused(w)
  \/ Crash

(* Goroutines are scheduled; storage and evaluator answer. *)
Fairness == \A w \in Worker : WF_vars(Step(w))
Spec == Init /\ [][Next]_vars /\ Fairness

-----------------------------------------------------------------------------
(* Safety: an event is handled once, however often it is delivered, unless *)
(* its lookup failed or two deliveries of it were looked up at once.       *)
HandledOnce ==
  \A e \in Event \ doubtful : dispatched[e] <= 1

(* Safety: when no review is going on, the outcome published last is what  *)
(* the stored results say, unless two reviews overlapped, one was cut off  *)
(* or a result was refused.                                                *)
OutcomeMatchesResults ==
  (outcome # "" /\ Reviewing = {} /\ ~mixed)
    => (outcome = "passed" <=> \A c \in Criterion : result[c] \in Good)

(* Liveness: a recorded event is reviewed and the outcome published,       *)
(* unless a list was refused or the process crashed.                       *)
RecordedIsReviewed ==
  \A e \in Event : (e \in received) ~> (e \in published \/ e \in lost)
=============================================================================
