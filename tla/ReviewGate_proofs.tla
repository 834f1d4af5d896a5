-------------------------- MODULE ReviewGate_proofs --------------------------
(***************************************************************************)
(* Proofs about ReviewGate for any events, goroutines and criteria and any *)
(* number of deliveries and faults: TypeCorrect, then the inductive        *)
(* invariants Once (of the deduplication) and Consistent (of the review),  *)
(* and from them the two safety properties ReviewGate states.              *)
(***************************************************************************)
EXTENDS ReviewGate, TLAPS

USE NullAssumption, BoundAssumption

Local == [pc : PC, event : Event \cup {NoEvent}, left : SUBSET Criterion, failed : BOOLEAN]

(* The actions of one goroutine, and what each leaves alone. *)
Handling(w) == worker[w].pc # "idle" => worker[w].event \in Event

Typed ==
  /\ TypeOK
  /\ \A w \in Worker : Handling(w)

LEMMA Becomes ==
  ASSUME Typed, NEW w \in Worker, NEW r \in Local, Become(w, r),
         r.pc # "idle" => r.event \in Event
  PROVE  /\ worker' \in [Worker -> Local]
         /\ worker'[w] = r
         /\ \A v \in Worker \ {w} : worker'[v] = worker[v]
         /\ (\A v \in Worker : Handling(v))'
BY DEF Become, Typed, TypeOK, Handling, Local

LEMMA Locals ==
  ASSUME Typed, NEW w \in Worker
  PROVE  /\ Idle \in Local
         /\ worker[w] \in Local
         /\ \A pc \in PC : [worker[w] EXCEPT !.pc = pc] \in Local
         /\ \A L \in SUBSET Criterion, pc \in PC :
              [worker[w] EXCEPT !.left = L, !.pc = pc] \in Local
         /\ \A c \in Criterion, value \in Result : After(worker[w], c, value) \in Local
<1>1. worker[w] \in Local
  BY DEF Typed, TypeOK, Local
<1>2. Idle \in Local
  BY DEF Idle, Local, PC
<1>3. ASSUME NEW pc \in PC PROVE [worker[w] EXCEPT !.pc = pc] \in Local
  BY <1>1 DEF Local
<1>4. ASSUME NEW L \in SUBSET Criterion, NEW pc \in PC
      PROVE  [worker[w] EXCEPT !.left = L, !.pc = pc] \in Local
  BY <1>1 DEF Local
<1>5. ASSUME NEW c \in Criterion, NEW value \in Result
      PROVE  After(worker[w], c, value) \in Local
  <2> DEFINE f == worker[w].failed \/ value \notin Good
             pc == IF worker[w].left = {c} THEN "publish" ELSE "evaluate"
             L == worker[w].left \ {c}
  <2>1. f \in BOOLEAN /\ pc \in PC /\ L \in SUBSET Criterion
    BY <1>1 DEF PC, Local
  <2>2. After(worker[w], c, value) = [worker[w] EXCEPT !.left = L, !.failed = f, !.pc = pc]
    BY DEF After
  <2> HIDE DEF f, pc, L
  <2> QED BY <1>1, <2>1, <2>2 DEF Local
<1> QED BY <1>1, <1>2, <1>3, <1>4, <1>5

(* Where a goroutine is after it goes on, and after it ends.               *)
LEMMA Goes ==
  ASSUME Typed, NEW w \in Worker, NEW pc \in PC, Goto(w, pc)
  PROVE  /\ worker'[w] = [worker[w] EXCEPT !.pc = pc]
         /\ worker'[w].pc = pc /\ worker'[w].event = worker[w].event
         /\ worker'[w].left = worker[w].left /\ worker'[w].failed = worker[w].failed
         /\ \A v \in Worker \ {w} : worker'[v] = worker[v]
<1>1. /\ worker'[w] = [worker[w] EXCEPT !.pc = pc]
      /\ \A v \in Worker \ {w} : worker'[v] = worker[v]
  BY DEF Goto, Become, Typed, TypeOK
<1>2. worker[w] \in Local
  BY Locals
<1>3. worker'[w].pc = pc /\ worker'[w].event = worker[w].event /\ worker'[w].left = worker[w].left
  BY <1>1, <1>2 DEF Local
<1>4. worker'[w].failed = worker[w].failed
  BY <1>1, <1>2 DEF Local
<1> QED BY <1>1, <1>3, <1>4

LEMMA Ends ==
  ASSUME Typed, NEW w \in Worker, Become(w, Idle)
  PROVE  /\ worker'[w] = Idle /\ Idle.pc = "idle"
         /\ \A v \in Worker \ {w} : worker'[v] = worker[v]
BY DEF Become, Typed, TypeOK, Idle

LEMMA Evaluates ==
  ASSUME Typed, NEW w \in Worker, NEW c \in Criterion, NEW value \in Result,
         Become(w, After(worker[w], c, value))
  PROVE  /\ worker'[w].pc = IF worker[w].left = {c} THEN "publish" ELSE "evaluate"
         /\ worker'[w].event = worker[w].event /\ worker'[w].left = worker[w].left \ {c}
         /\ worker'[w].failed <=> worker[w].failed \/ value \notin Good
         /\ \A v \in Worker \ {w} : worker'[v] = worker[v]
<1>1. /\ worker'[w] = After(worker[w], c, value)
      /\ \A v \in Worker \ {w} : worker'[v] = worker[v]
  BY DEF Become, Typed, TypeOK
<1>2. worker[w] \in Local
  BY Locals
<1>3. /\ worker'[w].pc = IF worker[w].left = {c} THEN "publish" ELSE "evaluate"
      /\ worker'[w].event = worker[w].event /\ worker'[w].left = worker[w].left \ {c}
  BY <1>1, <1>2 DEF Local, After
<1>4. worker'[w].failed <=> worker[w].failed \/ value \notin Good
  BY <1>1, <1>2 DEF Local, After
<1> QED BY <1>1, <1>3, <1>4

LEMMA Spends ==
  ASSUME Typed
  PROVE  /\ Fault => faults' \in 0..MaxFault
         /\ \A w \in Worker, e \in Event : Receive(w, e) => deliveries' \in 0..MaxDelivery
<1>0. faults \in 0..MaxFault /\ deliveries \in 0..MaxDelivery
  BY DEF Typed, TypeOK
<1>1. Fault => faults' \in 0..MaxFault
  BY <1>0 DEF Fault
<1>2. \A w \in Worker, e \in Event : Receive(w, e) => deliveries' \in 0..MaxDelivery
  BY <1>0 DEF Receive
<1> QED BY <1>1, <1>2

LEMMA TypeStep == Typed /\ [Next]_vars => Typed'
<1> SUFFICES ASSUME Typed, [Next]_vars PROVE Typed'
  OBVIOUS
<1> USE DEF Typed, Local
<1>1. ASSUME NEW w \in Worker, NEW e \in Event, NotifyEvent(w, e) \/ LookupRefused(w, e)
      PROVE  Typed'
  <2> DEFINE r == [Idle EXCEPT !.pc = "record", !.event = e]
  <2>1. r \in Local /\ r.event = e
    BY DEF Idle, PC
  <2>2. Become(w, r) \/ UNCHANGED worker
    BY <1>1 DEF NotifyEvent, LookupRefused
  <2>3. /\ worker' \in [Worker -> Local]
        /\ (\A v \in Worker : Handling(v))'
    <3>1. CASE Become(w, r)
      <4> HIDE DEF r
      <4> QED BY <2>1, <3>1, Becomes
    <3>2. CASE UNCHANGED worker
      BY <3>2 DEF TypeOK, Handling
    <3> QED BY <2>2, <3>1, <3>2
  <2>4. deliveries' \in 0..MaxDelivery /\ faults' \in 0..MaxFault
    BY <1>1, Spends DEF NotifyEvent, LookupRefused, TypeOK
  <2>5. doubtful' \subseteq Event
    BY <1>1 DEF NotifyEvent, LookupRefused, TypeOK
  <2>6. UNCHANGED <<received, result, outcome, dispatched, published, lost, mixed>>
    BY <1>1 DEF NotifyEvent, LookupRefused
  <2> QED BY <2>3, <2>4, <2>5, <2>6 DEF TypeOK
<1>2. ASSUME NEW w \in Worker, WriteRecord(w) \/ Dispatch(w) \/ UnblockDependents(w) \/ ListDeliverables(w)
      PROVE  Typed'
  <2>1. PICK pc \in PC : Goto(w, pc)
    BY <1>2 DEF WriteRecord, Dispatch, UnblockDependents, ListDeliverables, PC
  <2>2. worker[w].event \in Event
    BY <1>2 DEF WriteRecord, Dispatch, UnblockDependents, ListDeliverables, At, Handling
  <2> DEFINE r == [worker[w] EXCEPT !.pc = pc]
  <2>3. r \in Local /\ r = worker'[w] /\ Become(w, r)
    BY <2>1, Goes, Locals DEF Goto
  <2>4. /\ worker' \in [Worker -> Local]
        /\ (\A v \in Worker : Handling(v))'
    <3>1. r.event \in Event
      BY <2>1, <2>2, <2>3, Goes
    <3> HIDE DEF r
    <3> QED BY <2>3, <3>1, Becomes
  <2>5. received' \subseteq Event
    BY <1>2, <2>2 DEF WriteRecord, Dispatch, UnblockDependents, ListDeliverables, TypeOK
  <2>6. dispatched' \in [Event -> Nat]
    <3>1. dispatched' = dispatched \/ dispatched' = [dispatched EXCEPT ![worker[w].event] = @ + 1]
      BY <1>2 DEF WriteRecord, Dispatch, UnblockDependents, ListDeliverables, history
    <3>2. dispatched \in [Event -> Nat]
      BY DEF TypeOK
    <3> QED BY <2>2, <3>1, <3>2
  <2>7. UNCHANGED <<result, outcome, deliveries, faults, published, doubtful, lost>>
    BY <1>2 DEF WriteRecord, Dispatch, UnblockDependents, ListDeliverables, history, bounds
  <2>8. mixed' \in BOOLEAN
    <3>1. mixed' = mixed \/ mixed' = (Reviewing # {})
      BY <1>2 DEF WriteRecord, Dispatch, UnblockDependents, ListDeliverables, history
    <3> QED BY <3>1 DEF TypeOK
  <2> QED BY <2>4, <2>5, <2>6, <2>7, <2>8 DEF TypeOK
<1>3. ASSUME NEW w \in Worker, ListCriteria(w)
      PROVE  Typed'
  <2> DEFINE pc == IF Criterion = {} THEN "publish" ELSE "deliverables"
             r == [worker[w] EXCEPT !.left = Criterion, !.pc = pc]
  <2>0. pc \in PC
    BY DEF PC
  <2>1. r \in Local
    BY <2>0, Locals
  <2>2. r.event = worker[w].event /\ worker[w].event \in Event
    BY <1>3 DEF ListCriteria, At, Handling, TypeOK
  <2>3. Become(w, r) /\ UNCHANGED <<received, result, outcome, bounds, history>>
    BY <1>3 DEF ListCriteria
  <2> HIDE DEF r
  <2>4. /\ worker' \in [Worker -> Local]
        /\ (\A v \in Worker : Handling(v))'
    BY <2>1, <2>2, <2>3, Becomes
  <2> QED BY <2>3, <2>4 DEF TypeOK, bounds, history
<1>4. ASSUME NEW w \in Worker, Evaluate(w) \/ ResultRefused(w)
      PROVE  Typed'
  <2>1. PICK c \in worker[w].left, value \in Result :
          /\ Become(w, After(worker[w], c, value))
          /\ result' = result \/ result' = [result EXCEPT ![c] = value]
    BY <1>4 DEF Evaluate, ResultRefused
  <2>2. worker[w].event \in Event /\ c \in Criterion
    BY <1>4 DEF Evaluate, ResultRefused, At, Handling, TypeOK
  <2>3. After(worker[w], c, value).event = worker[w].event
    BY DEF After, TypeOK
  <2>4. /\ worker' \in [Worker -> Local]
        /\ (\A v \in Worker : Handling(v))'
    BY <2>1, <2>2, <2>3, Becomes, Locals
  <2>5. result' \in [Criterion -> Result \cup {""}]
    BY <2>1, <2>2 DEF TypeOK
  <2>6. UNCHANGED <<received, outcome, deliveries, dispatched, published, doubtful, lost>>
    BY <1>4 DEF Evaluate, ResultRefused, history, bounds
  <2>7. faults' \in 0..MaxFault
    BY <1>4, Spends DEF Evaluate, ResultRefused, bounds, TypeOK
  <2>8. mixed' \in BOOLEAN
    <3>1. mixed' = mixed \/ mixed' = TRUE
      BY <1>4 DEF Evaluate, ResultRefused, history
    <3> QED BY <3>1 DEF TypeOK
  <2> QED BY <2>4, <2>5, <2>6, <2>7, <2>8 DEF TypeOK
<1>5. ASSUME NEW w \in Worker, PublishOutcome(w) \/ RecordRefused(w) \/ ListRefused(w)
      PROVE  Typed'
  <2>1. Become(w, Idle) /\ worker[w].event \in Event
    BY <1>5 DEF PublishOutcome, RecordRefused, ListRefused, At, Handling
  <2>2. /\ worker' \in [Worker -> Local]
        /\ (\A v \in Worker : Handling(v))'
    BY <2>1, Becomes, Locals DEF Idle
  <2>3. outcome' \in {"", "passed", "failed"}
    BY <1>5 DEF PublishOutcome, RecordRefused, ListRefused, TypeOK
  <2>4. published' \subseteq Event /\ lost' \subseteq Event
    BY <1>5, <2>1 DEF PublishOutcome, RecordRefused, ListRefused, history, TypeOK
  <2>5. faults' \in 0..MaxFault
    BY <1>5, Spends DEF PublishOutcome, RecordRefused, ListRefused, bounds, TypeOK
  <2>6. UNCHANGED <<received, result, deliveries, dispatched, doubtful, mixed>>
    BY <1>5 DEF PublishOutcome, RecordRefused, ListRefused, history, bounds
  <2> QED BY <2>2, <2>3, <2>4, <2>5, <2>6 DEF TypeOK
<1>6. CASE Crash
  <2>1. Idle \in Local /\ Idle.pc = "idle"
    BY DEF Idle, PC
  <2>2. /\ worker' \in [Worker -> Local]
        /\ (\A v \in Worker : Handling(v))'
    BY <1>6, <2>1 DEF Crash, Handling
  <2>3. /\ lost' \subseteq Event /\ faults' \in 0..MaxFault
        /\ UNCHANGED <<received, result, outcome, deliveries, dispatched, published, doubtful>>
    BY <1>6, Spends DEF Crash, TypeOK
  <2>4. mixed' \in BOOLEAN
    BY <1>6 DEF Crash, TypeOK
  <2> QED BY <2>2, <2>3, <2>4 DEF TypeOK
<1>7. CASE UNCHANGED vars
  BY <1>7 DEF vars, TypeOK, Handling
<1> QED BY <1>1, <1>2, <1>3, <1>4, <1>5, <1>6, <1>7 DEF Next, Step

LEMMA TypeInit == Init => Typed
<1> SUFFICES ASSUME Init PROVE Typed
  OBVIOUS
<1>1. Idle \in Local /\ Idle.pc = "idle"
  BY DEF Idle, Local, PC
<1>2. worker \in [Worker -> Local] /\ \A w \in Worker : Handling(w)
  BY <1>1 DEF Init, Handling
<1>3. /\ received \subseteq Event /\ result \in [Criterion -> Result \cup {""}]
      /\ outcome \in {"", "passed", "failed"}
      /\ published \subseteq Event /\ doubtful \subseteq Event /\ lost \subseteq Event
  BY DEF Init
<1>5. deliveries = 0 /\ faults = 0 /\ dispatched = [e \in Event |-> 0]
  BY DEF Init
<1>6. deliveries \in 0..MaxDelivery /\ faults \in 0..MaxFault /\ dispatched \in [Event -> Nat]
  BY <1>5
<1>4. mixed \in BOOLEAN
  BY DEF Init
<1> QED BY <1>2, <1>3, <1>4, <1>6 DEF Typed, TypeOK, Local

LEMMA TypedHolds == Spec => []Typed
BY TypeInit, TypeStep, PTL DEF Spec

(* The records, the results and the goroutines keep their types, for any   *)
(* events, criteria and goroutines (event_receiver.go, reviewer.go).       *)
THEOREM TypeCorrect == Spec => []TypeOK
BY TypedHolds, PTL DEF Typed

-----------------------------------------------------------------------------
(* An event that was looked up every time, and by one delivery at a time,  *)
(* is dispatched at most once: until then one goroutine at most has it.    *)
Handler(w, e) == worker[w].pc \in {"record", "dispatch"} /\ worker[w].event = e

OnceFor(e) ==
  /\ dispatched[e] <= 1
  /\ e \notin received => dispatched[e] = 0
  /\ \A w \in Worker : Handler(w, e) =>
       /\ dispatched[e] = 0
       /\ At(w, "record") => e \notin received
       /\ At(w, "dispatch") => e \in received
       /\ \A v \in Worker : Handler(v, e) => v = w

Once == \A e \in Event \ doubtful : OnceFor(e)

LEMMA OnceStep == Typed /\ Once /\ [Next]_vars => Once'
<1> SUFFICES ASSUME Typed, Once, [Next]_vars, NEW e \in Event, e \notin doubtful'
             PROVE  OnceFor(e)'
  BY DEF Once
<1> USE DEF Typed
<1>a. OnceFor(e)
  BY DEF Once, Next, Step, NotifyEvent, LookupRefused, WriteRecord, Dispatch, UnblockDependents,
    ListCriteria, ListDeliverables, Evaluate, PublishOutcome, RecordRefused, ResultRefused,
    ListRefused, Crash, history, vars
(* A goroutine goes on with another event or past the dispatch, or ends.   *)
<1>b. ASSUME NEW w \in Worker, UNCHANGED <<received, dispatched>>,
             \A v \in Worker \ {w} : worker'[v] = worker[v],
             worker'[w] = worker[w] \/ worker'[w].pc \notin {"record", "dispatch"} \/ worker'[w].event # e
      PROVE  OnceFor(e)'
  BY <1>a, <1>b DEF OnceFor, Handler, At
<1>1. ASSUME NEW w \in Worker, NEW f \in Event, NotifyEvent(w, f) \/ LookupRefused(w, f)
      PROVE  OnceFor(e)'
  <2>1. UNCHANGED <<received, dispatched>> /\ \A v \in Worker \ {w} : worker'[v] = worker[v]
    BY <1>1 DEF NotifyEvent, LookupRefused, Become, TypeOK
  <2>2. CASE f = e /\ worker' # worker
    <3>1. /\ e \notin received /\ Recording(e) = {}
          /\ worker'[w].pc = "record" /\ worker'[w].event = e
      <4>1. /\ e \notin received /\ Become(w, [Idle EXCEPT !.pc = "record", !.event = e])
            /\ doubtful' = (IF Recording(e) # {} THEN doubtful \cup {e} ELSE doubtful)
               \/ e \in doubtful'
        BY <1>1, <2>2 DEF NotifyEvent, LookupRefused
      <4>2. worker'[w] = [Idle EXCEPT !.pc = "record", !.event = e]
        BY <4>1 DEF Become, TypeOK
      <4> QED BY <4>1, <4>2 DEF Idle
    <3>2. \A v \in Worker \ {w} : ~Handler(v, e)
      BY <1>a, <3>1 DEF Recording, OnceFor, Handler, At
    <3>3. dispatched[e] = 0
      BY <1>a, <3>1 DEF OnceFor
    <3> QED BY <2>1, <3>1, <3>2, <3>3 DEF OnceFor, Handler, At
  <2>3. CASE f # e \/ worker' = worker
    <3>1. worker'[w] = worker[w] \/ worker'[w].event # e
      <4>1. worker' = worker \/ Become(w, [Idle EXCEPT !.pc = "record", !.event = f])
        BY <1>1 DEF NotifyEvent, LookupRefused
      <4>2. CASE Become(w, [Idle EXCEPT !.pc = "record", !.event = f])
        BY <4>2, <2>3 DEF Become, TypeOK, Idle
      <4> QED BY <4>1, <4>2
    <3> QED BY <1>b, <2>1, <3>1
  <2> QED BY <2>2, <2>3
<1>2. ASSUME NEW w \in Worker, WriteRecord(w)
      PROVE  OnceFor(e)'
  <2>1. /\ At(w, "record") /\ worker'[w].pc = "dispatch" /\ worker'[w].event = worker[w].event
        /\ \A v \in Worker \ {w} : worker'[v] = worker[v]
        /\ received' = received \cup {worker[w].event} /\ dispatched' = dispatched
    BY <1>2, Goes DEF WriteRecord, history, PC
  <2> QED BY <1>a, <2>1 DEF OnceFor, Handler, At
<1>3. ASSUME NEW w \in Worker, Dispatch(w)
      PROVE  OnceFor(e)'
  <2>1. /\ At(w, "dispatch") /\ worker'[w].pc = "unblock" /\ received' = received
        /\ worker[w].event \in Event
        /\ \A v \in Worker \ {w} : worker'[v] = worker[v]
        /\ dispatched' = [dispatched EXCEPT ![worker[w].event] = @ + 1]
    BY <1>3, Goes DEF Dispatch, At, Handling, PC
  <2>2. CASE worker[w].event = e
    <3>1. Handler(w, e) /\ dispatched[e] = 0 /\ e \in received
      BY <1>a, <2>1, <2>2 DEF OnceFor, Handler, At
    <3>2. dispatched'[e] = 1
      <4>1. dispatched'[e] = dispatched[e] + 1
        BY <2>1, <2>2 DEF TypeOK
      <4> QED BY <3>1, <4>1
    <3>3. \A v \in Worker : ~(worker'[v].pc \in {"record", "dispatch"} /\ worker'[v].event = e)
      BY <1>a, <2>1, <3>1 DEF OnceFor, Handler, At
    <3> QED BY <2>1, <3>1, <3>2, <3>3 DEF OnceFor, Handler
  <2>3. CASE worker[w].event # e
    <3>1. dispatched'[e] = dispatched[e]
      BY <2>1, <2>3 DEF TypeOK
    <3> QED BY <1>a, <2>1, <2>3, <3>1 DEF OnceFor, Handler, At
  <2> QED BY <2>2, <2>3
<1>4. ASSUME NEW w \in Worker,
             \/ UnblockDependents(w) \/ ListCriteria(w) \/ ListDeliverables(w)
             \/ Evaluate(w) \/ PublishOutcome(w)
             \/ RecordRefused(w) \/ ResultRefused(w) \/ ListRefused(w)
      PROVE  OnceFor(e)'
  <2>1. UNCHANGED <<received, dispatched>>
    BY <1>4 DEF UnblockDependents, ListCriteria, ListDeliverables, Evaluate, PublishOutcome,
      RecordRefused, ResultRefused, ListRefused, history
  <2>2. \A v \in Worker \ {w} : worker'[v] = worker[v]
    BY <1>4 DEF UnblockDependents, ListCriteria, ListDeliverables, Evaluate, PublishOutcome,
      RecordRefused, ResultRefused, ListRefused, Goto, Become, TypeOK
  <2>3. worker'[w].pc \notin {"record", "dispatch"}
    <3>1. CASE UnblockDependents(w) \/ ListDeliverables(w)
      BY <3>1, Goes DEF UnblockDependents, ListDeliverables, PC
    <3>2. CASE ListCriteria(w)
      BY <3>2 DEF ListCriteria, Become, TypeOK
    <3>3. CASE Evaluate(w) \/ ResultRefused(w)
      <4>1. worker[w].left \subseteq Criterion
        BY DEF TypeOK
      <4> QED BY <3>3, <4>1, Evaluates DEF Evaluate, ResultRefused
    <3>4. CASE PublishOutcome(w) \/ RecordRefused(w) \/ ListRefused(w)
      BY <3>4, Ends DEF PublishOutcome, RecordRefused, ListRefused
    <3> QED BY <1>4, <3>1, <3>2, <3>3, <3>4
  <2> QED BY <1>b, <2>1, <2>2, <2>3
<1>5. CASE Crash
  <2>1. UNCHANGED <<received, dispatched>> /\ \A v \in Worker : worker'[v].pc = "idle"
    BY <1>5 DEF Crash, Idle
  <2> QED BY <1>a, <2>1 DEF OnceFor, Handler, At
<1>6. CASE UNCHANGED vars
  BY <1>6, <1>a DEF vars, OnceFor, Handler, At
<1> QED BY <1>1, <1>2, <1>3, <1>4, <1>5, <1>6 DEF Next, Step

LEMMA OnceInit == Init => Once
<1>1. Idle.pc = "idle"
  BY DEF Idle
<1> SUFFICES ASSUME Init, NEW e \in Event PROVE OnceFor(e)
  BY DEF Once
<1>2. dispatched[e] = 0 /\ dispatched[e] <= 1
  <2>1. dispatched = [f \in Event |-> 0]
    BY DEF Init
  <2> QED BY <2>1
<1>3. \A w \in Worker : ~Handler(w, e)
  BY <1>1 DEF Init, Handler
<1> QED BY <1>2, <1>3 DEF OnceFor

(* An event is dispatched once however often it is delivered, unless its   *)
(* lookup failed or two deliveries looked for it at the same time, for any *)
(* number of deliveries, goroutines and crashes (NotifyEvent).             *)
THEOREM DispatchedOnce == Spec => []HandledOnce
<1>1. Once => HandledOnce
  BY DEF Once, OnceFor, HandledOnce
<1> QED BY <1>1, TypedHolds, OnceInit, OnceStep, PTL DEF Spec

-----------------------------------------------------------------------------
(* A review that is alone, and of which no result was refused, has failed  *)
(* when one of the results it stored is not good.                          *)
Bad(L) == \E c \in Criterion \ L : result[c] \notin Good

BeforeReview ==
  \A w \in Worker :
    /\ worker[w].pc \notin {"evaluate", "publish"} => ~worker[w].failed
    /\ At(w, "deliverables") => worker[w].left = Criterion /\ Criterion # {}

Faithful(w) ==
  /\ worker[w].failed <=> Bad(worker[w].left)
  /\ At(w, "publish") => worker[w].left = {}
  /\ \A v \in Reviewing : v = w \/ Criterion = {}

Consistent ==
  /\ BeforeReview
  /\ ~mixed => \A w \in Reviewing : Faithful(w)
  /\ OutcomeMatchesResults

(* A step outside of the reviews. *)
LEMMA OutsideKeepsConsistent ==
  ASSUME Typed, Consistent, UNCHANGED <<result, outcome, mixed>>, NEW w \in Worker,
         \A v \in Worker \ {w} : worker'[v] = worker[v],
         worker'[w] # worker[w] =>
           /\ worker[w].pc \notin {"evaluate", "publish"}
           /\ worker'[w].pc \notin {"evaluate", "publish"}
           /\ ~worker'[w].failed
           /\ worker'[w].pc = "deliverables" => worker'[w].left = Criterion /\ Criterion # {}
  PROVE  Consistent'
<1>1. BeforeReview'
  BY DEF Consistent, BeforeReview, At
<1>2. Reviewing' = Reviewing
  BY DEF Reviewing
<1>3. \A v \in Reviewing : worker'[v] = worker[v]
  BY DEF Reviewing
<1>4. ASSUME ~mixed, NEW v \in Reviewing
      PROVE  Faithful(v)'
  <2>1. Faithful(v)
    BY <1>4 DEF Consistent
  <2>2. \A L : Bad(L)' = Bad(L)
    BY DEF Bad
  <2> QED BY <1>2, <1>3, <1>4, <2>1, <2>2 DEF Faithful, At
<1>5. OutcomeMatchesResults'
  BY <1>2 DEF Consistent, OutcomeMatchesResults
<1> QED BY <1>1, <1>2, <1>4, <1>5 DEF Consistent

LEMMA ConsistentStep == Typed /\ Consistent /\ [Next]_vars => Consistent'
<1> SUFFICES ASSUME Typed, Consistent, [Next]_vars PROVE Consistent'
  OBVIOUS
<1> USE DEF Consistent
<1>a. Idle.pc = "idle" /\ ~Idle.failed
  BY DEF Idle
<1>1. ASSUME NEW w \in Worker, NEW e \in Event, NotifyEvent(w, e) \/ LookupRefused(w, e)
      PROVE  Consistent'
  <2>1. UNCHANGED <<result, outcome, mixed>> /\ worker[w].pc = "idle"
    BY <1>1 DEF NotifyEvent, LookupRefused, Receive, At
  <2>2. worker' = worker \/ Become(w, [Idle EXCEPT !.pc = "record", !.event = e])
    BY <1>1 DEF NotifyEvent, LookupRefused
  <2>3. CASE worker' = worker
    BY <2>1, <2>3, OutsideKeepsConsistent
  <2>4. CASE Become(w, [Idle EXCEPT !.pc = "record", !.event = e])
    <3>1. /\ \A v \in Worker \ {w} : worker'[v] = worker[v]
          /\ worker'[w] = [Idle EXCEPT !.pc = "record", !.event = e]
      BY <2>4 DEF Become, Typed, TypeOK
    <3>2. worker'[w].pc = "record" /\ ~worker'[w].failed
      BY <3>1 DEF Idle
    <3> QED BY <2>1, <3>1, <3>2, OutsideKeepsConsistent
  <2> QED BY <2>2, <2>3, <2>4
<1>2. ASSUME NEW w \in Worker, WriteRecord(w) \/ Dispatch(w) \/ UnblockDependents(w)
      PROVE  Consistent'
  <2>1. UNCHANGED <<result, outcome, mixed>> /\ worker[w].pc \in {"record", "dispatch", "unblock"}
    BY <1>2 DEF WriteRecord, Dispatch, UnblockDependents, history, At
  <2>2. PICK pc \in {"dispatch", "unblock", "criteria"} : Goto(w, pc)
    BY <1>2 DEF WriteRecord, Dispatch, UnblockDependents
  <2>3. /\ worker'[w].pc = pc /\ worker'[w].failed = worker[w].failed
        /\ \A v \in Worker \ {w} : worker'[v] = worker[v]
    BY <2>2, Goes DEF PC
  <2>4. ~worker[w].failed
    BY <2>1 DEF BeforeReview
  <2> QED BY <2>1, <2>2, <2>3, <2>4, OutsideKeepsConsistent
<1>3. ASSUME NEW w \in Worker, ListCriteria(w)
      PROVE  Consistent'
  <2>1. UNCHANGED <<result, outcome, mixed>> /\ worker[w].pc = "criteria" /\ ~worker[w].failed
    BY <1>3 DEF ListCriteria, history, At, BeforeReview
  <2>2. /\ worker'[w] = [worker[w] EXCEPT !.left = Criterion,
                           !.pc = IF Criterion = {} THEN "publish" ELSE "deliverables"]
        /\ \A v \in Worker \ {w} : worker'[v] = worker[v]
    BY <1>3 DEF ListCriteria, Become, Typed, TypeOK
  <2>3. worker[w] \in Local
    BY Locals
  <2>4. /\ worker'[w].pc = IF Criterion = {} THEN "publish" ELSE "deliverables"
        /\ worker'[w].left = Criterion
    BY <2>2, <2>3 DEF Local
  <2>5. ~worker'[w].failed
    BY <2>1, <2>2, <2>3 DEF Local
  <2>6. CASE Criterion # {}
    BY <2>1, <2>2, <2>4, <2>5, <2>6, OutsideKeepsConsistent
  <2>7. CASE Criterion = {}
    <3>1. BeforeReview'
      BY <2>2, <2>4, <2>7 DEF BeforeReview, At
    <3>2. ~mixed' => \A v \in Reviewing' : Faithful(v)'
      <4>1. ASSUME ~mixed', NEW v \in Worker, worker'[v].pc \in {"evaluate", "publish"}
            PROVE  ~worker'[v].failed /\ (worker'[v].pc = "publish" => worker'[v].left = {})
        <5>1. CASE v = w
          BY <2>4, <2>5, <2>7, <5>1
        <5>2. CASE v # w
          <6>1. v \in Reviewing /\ worker'[v] = worker[v]
            BY <2>2, <4>1, <5>2 DEF Reviewing
          <6>2. Faithful(v)
            BY <2>1, <4>1, <6>1
          <6> QED BY <2>7, <6>1, <6>2 DEF Faithful, Bad, At
        <5> QED BY <5>1, <5>2
      <4> QED BY <2>7, <4>1 DEF Reviewing, Faithful, Bad, At
    <3>3. OutcomeMatchesResults'
      <4>1. w \in Reviewing'
        BY <2>4, <2>7 DEF Reviewing
      <4> QED BY <4>1 DEF OutcomeMatchesResults
    <3> QED BY <3>1, <3>2, <3>3
  <2> QED BY <2>6, <2>7
<1>4. ASSUME NEW w \in Worker, ListDeliverables(w)
      PROVE  Consistent'
  <2>1. /\ UNCHANGED <<result, outcome>> /\ mixed' = (Reviewing # {})
        /\ ~worker[w].failed /\ worker[w].left = Criterion /\ worker[w].pc = "deliverables"
    BY <1>4 DEF ListDeliverables, At, BeforeReview
  <2>2. /\ worker'[w].pc = "evaluate" /\ worker'[w].left = Criterion
        /\ worker'[w].failed = worker[w].failed
        /\ \A v \in Worker \ {w} : worker'[v] = worker[v]
    BY <1>4, <2>1, Goes DEF ListDeliverables, PC
  <2>3. BeforeReview'
    BY <2>2 DEF BeforeReview, At
  <2>4. ~mixed' => \A v \in Reviewing' : Faithful(v)'
    <3>1. ~mixed' => Reviewing' = {w}
      BY <2>1, <2>2 DEF Reviewing
    <3>2. Faithful(w)' <=> ((worker'[w].failed <=> Bad(worker[w].left)') /\ \A v \in Reviewing' : v = w \/ Criterion = {})
      BY <2>1, <2>2 DEF Faithful, At
    <3>3. ~Bad(worker[w].left)'
      BY <2>1, <2>2 DEF Bad
    <3> QED BY <2>1, <2>2, <3>1, <3>2, <3>3
  <2>5. OutcomeMatchesResults'
    <3>1. w \in Reviewing'
      BY <2>2 DEF Reviewing
    <3> QED BY <3>1 DEF OutcomeMatchesResults
  <2> QED BY <2>3, <2>4, <2>5
<1>5. ASSUME NEW w \in Worker, Evaluate(w) \/ ResultRefused(w)
      PROVE  Consistent'
  <2>1. PICK c \in worker[w].left, value \in Result :
          /\ Become(w, After(worker[w], c, value))
          /\ \/ mixed' = mixed /\ result' = [result EXCEPT ![c] = value]
             \/ mixed' = TRUE
    BY <1>5 DEF Evaluate, ResultRefused, history
  <2>2. c \in Criterion /\ worker[w].pc = "evaluate" /\ outcome' = outcome
    BY <1>5, <2>1 DEF Evaluate, ResultRefused, At, Typed, TypeOK
  <2>3. /\ worker'[w].pc = IF worker[w].left = {c} THEN "publish" ELSE "evaluate"
        /\ worker'[w].left = worker[w].left \ {c}
        /\ worker'[w].failed <=> worker[w].failed \/ value \notin Good
        /\ \A v \in Worker \ {w} : worker'[v] = worker[v]
    BY <2>1, <2>2, Evaluates
  <2>4. BeforeReview'
    BY <2>2, <2>3 DEF BeforeReview, At
  <2>5. Reviewing' = Reviewing /\ w \in Reviewing
    BY <2>2, <2>3 DEF Reviewing
  <2>6. ASSUME ~mixed', NEW v \in Reviewing
        PROVE  Faithful(v)'
    <3>1. ~mixed /\ result' = [result EXCEPT ![c] = value]
      BY <2>1, <2>6
    <3>2. Faithful(w)
      BY <2>5, <3>1
    <3>3. v = w
      BY <2>2, <2>6, <3>2 DEF Faithful
    <3>4. /\ result'[c] = value /\ \A d \in Criterion \ {c} : result'[d] = result[d]
          /\ worker[w].left \subseteq Criterion
      BY <2>2, <3>1 DEF Typed, TypeOK
    <3>5. (\E d \in Criterion \ (worker[w].left \ {c}) : result'[d] \notin Good)
             <=> value \notin Good \/ \E d \in Criterion \ worker[w].left : result[d] \notin Good
      BY <2>1, <2>2, <3>4
    <3>6. worker'[w].failed <=> \E d \in Criterion \ worker'[w].left : result'[d] \notin Good
      BY <2>3, <3>2, <3>5 DEF Faithful, Bad
    <3>7. worker'[w].pc = "publish" => worker'[w].left = {}
      BY <2>3
    <3>8. \A u \in Reviewing' : u = w \/ Criterion = {}
      BY <2>5, <3>2 DEF Faithful
    <3> QED BY <3>3, <3>6, <3>7, <3>8 DEF Faithful, Bad, At
  <2>7. OutcomeMatchesResults'
    BY <2>5 DEF OutcomeMatchesResults
  <2> QED BY <2>4, <2>5, <2>6, <2>7
<1>6. ASSUME NEW w \in Worker, RecordRefused(w) \/ ListRefused(w)
      PROVE  Consistent'
  <2>1. /\ Become(w, Idle) /\ UNCHANGED <<result, outcome, mixed>>
        /\ worker[w].pc \notin {"evaluate", "publish"}
    BY <1>6 DEF RecordRefused, ListRefused, history, At
  <2> QED BY <1>a, <2>1, Ends, OutsideKeepsConsistent
<1>7. ASSUME NEW w \in Worker, PublishOutcome(w)
      PROVE  Consistent'
  <2>1. /\ worker[w].pc = "publish" /\ UNCHANGED <<result, mixed>>
        /\ outcome' = IF worker[w].failed THEN "failed" ELSE "passed"
        /\ worker'[w] = Idle /\ \A v \in Worker \ {w} : worker'[v] = worker[v]
    BY <1>7, Ends DEF PublishOutcome, At
  <2>2. BeforeReview'
    BY <1>a, <2>1 DEF BeforeReview, At
  <2>3. Reviewing' = Reviewing \ {w} /\ w \in Reviewing
    BY <1>a, <2>1 DEF Reviewing
  <2>4. ASSUME ~mixed', NEW v \in Reviewing'
        PROVE  Faithful(v)'
    <3>1. Faithful(v) /\ worker'[v] = worker[v]
      BY <2>1, <2>3, <2>4 DEF Reviewing
    <3>2. \A L : Bad(L)' = Bad(L)
      BY <2>1 DEF Bad
    <3> QED BY <2>3, <3>1, <3>2 DEF Faithful, At
  <2>5. OutcomeMatchesResults'
    <3> SUFFICES ASSUME ~mixed'
                 PROVE  outcome' = "passed" <=> \A c \in Criterion : result'[c] \in Good
      BY DEF OutcomeMatchesResults
    <3>1. Faithful(w)
      BY <2>1, <2>3
    <3>2. worker[w].failed <=> \E c \in Criterion : result[c] \notin Good
      BY <2>1, <3>1 DEF Faithful, Bad, At
    <3> QED BY <2>1, <3>2
  <2> QED BY <2>2, <2>3, <2>4, <2>5
<1>8. CASE Crash
  <2>1. /\ \A v \in Worker : worker'[v] = Idle
        /\ UNCHANGED <<result, outcome>> /\ (mixed' <=> mixed \/ Reviewing # {})
    BY <1>8 DEF Crash
  <2>2. BeforeReview' /\ Reviewing' = {}
    BY <1>a, <2>1 DEF BeforeReview, Reviewing, At
  <2>3. OutcomeMatchesResults'
    BY <2>1 DEF OutcomeMatchesResults
  <2> QED BY <2>2, <2>3
<1>9. CASE UNCHANGED vars
  <2>1. UNCHANGED <<result, outcome, mixed, worker>>
    BY <1>9 DEF vars
  <2> QED BY <2>1 DEF BeforeReview, Reviewing, Faithful, Bad, OutcomeMatchesResults, At
<1> QED BY <1>1, <1>2, <1>3, <1>4, <1>5, <1>6, <1>7, <1>8, <1>9 DEF Next, Step

LEMMA ConsistentInit == Init => Consistent
<1>1. Idle.pc = "idle" /\ ~Idle.failed
  BY DEF Idle
<1> QED BY <1>1 DEF Init, Consistent, BeforeReview, Reviewing, OutcomeMatchesResults, At

(* The outcome published last is what the stored results say, unless two   *)
(* reviews overlapped, one was cut off or a result was refused, for any    *)
(* number of criteria, reviews and goroutines (Review).                    *)
THEOREM OutcomeIsOfResults == Spec => []OutcomeMatchesResults
<1>1. Consistent => OutcomeMatchesResults
  BY DEF Consistent
<1> QED BY <1>1, TypedHolds, ConsistentInit, ConsistentStep, PTL DEF Spec

=============================================================================
