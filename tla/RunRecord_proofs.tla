--------------------------- MODULE RunRecord_proofs ---------------------------
(***************************************************************************)
(* Proofs about RunRecord for any runs, children, names, budgets and       *)
(* goroutines: TypeCorrect, then the inductive invariants Behind (of the   *)
(* counter), Lineage (of the run ids) and Tally (of what is charged and    *)
(* timed out), and from them the four properties RunRecord states.         *)
(*                                                                         *)
(* The last part is about ImportJob, for any jobs and documents: a runner has *)
(* made the calls up to where it is (Advancing), and that of a cancelled job *)
(* is gone or its context has ended (Stopping).  Nothing here composes it  *)
(* with RunRecord.                                                         *)
(***************************************************************************)
EXTENDS RunRecord, ImportJob, FiniteSetTheorems, TLAPS

USE NullAssumption, BudgetAssumption, GoalAssumption

(* A goroutine's new locals keep the type of worker. *)
LEMMA Becomes ==
  ASSUME worker \in [Worker -> Local], NEW w \in Worker, NEW r \in Local, Become(w, r)
  PROVE  /\ worker' \in [Worker -> Local]
         /\ worker'[w] = r
         /\ \A v \in Worker \ {w} : worker'[v] = worker[v]
BY DEF Become

LEMMA IdleTyped == Idle \in Local /\ Blank \in Record
BY DEF Idle, Local, PC, Blank, Record, RunStatus, Absent

(* So does a write of one entity that keeps the type of run.               *)
LEMMA Stored ==
  ASSUME run \in [Run -> Record], NEW x \in Run, NEW v \in Record, run' = [run EXCEPT ![x] = v]
  PROVE  run' \in [Run -> Record]
OBVIOUS

(* TypeOK is inductive on its own. *)
LEMMA TypeStep == TypeOK /\ [Next]_vars => TypeOK'
<1> SUFFICES ASSUME TypeOK, [Next]_vars PROVE TypeOK'
  OBVIOUS
<1> USE IdleTyped
<1>1. ASSUME NEW w \in Worker, NEW n \in Name \cup {NoName}, NEW b \in Budget, ReceiveCreate(w, n, b)
      PROVE  TypeOK'
  <2> DEFINE r == [Idle EXCEPT !.pc = "create", !.name = n, !.budget = b]
  <2>1. r \in Local /\ r.pc = "create"
    BY DEF Local, PC, Idle
  <2>2. Become(w, r) /\ UNCHANGED <<run, known, calls, history>>
    BY <1>1 DEF ReceiveCreate
  <2> QED BY <2>1, <2>2, Becomes DEF TypeOK, history
<1>2. ASSUME NEW w \in Worker, NEW n \in Name \cup {NoName}, NEW p \in Run, ReceiveRecovery(w, n, p)
      PROVE  TypeOK'
  <2> DEFINE r == [Idle EXCEPT !.pc = "lookup", !.name = n, !.parent = p, !.root = RootOf(p)]
  <2>0. RootOf(p) \in Run
    BY DEF RootOf, TypeOK, Record
  <2>1. r \in Local /\ r.pc = "lookup"
    BY <2>0 DEF Local, PC, Idle
  <2>2. Become(w, r) /\ UNCHANGED <<run, known, calls, history>>
    BY <1>2 DEF ReceiveRecovery
  <2> QED BY <2>1, <2>2, Becomes DEF TypeOK, history
<1>3. ASSUME NEW w \in Worker, LookUpName(w)
      PROVE  TypeOK'
  <2> DEFINE r == IF Taken(worker[w].name) THEN Idle ELSE [worker[w] EXCEPT !.pc = "create"]
  <2>1. r \in Local /\ r.pc \in {"idle", "create"}
    BY DEF Local, PC, Idle, TypeOK
  <2>2. Become(w, r) /\ UNCHANGED <<run, known, calls, history>>
    BY <1>3 DEF LookUpName
  <2> QED BY <2>1, <2>2, Becomes DEF TypeOK, history
<1>4. ASSUME NEW w \in Worker, NEW x \in Run, CreateRun(w, x)
      PROVE  TypeOK'
  <2> DEFINE me == worker[w]
             next == IF me.parent # NoRun THEN "stamp" ELSE IF me.budget > 0 THEN "readBudget" ELSE "idle"
             r == IF next = "idle" THEN Idle ELSE [me EXCEPT !.pc = next, !.id = x]
  <2>1. /\ r \in Local /\ r.pc \in {"idle", "stamp", "readBudget"}
        /\ r.pc # "idle" => r.id \in Run
    BY DEF Local, PC, Idle, TypeOK
  <2>2. Become(w, r) /\ UNCHANGED <<calls, history>>
    BY <1>4 DEF CreateRun
  <2>3. known' \subseteq Run
    BY <1>4 DEF CreateRun, TypeOK
  <2> DEFINE v == [Blank EXCEPT !.status = "pending", !.name = me.name]
  <2>4. v \in Record
    BY DEF TypeOK, Record, Blank, RunStatus, Local
  <2>5. run' = [run EXCEPT ![x] = v]
    BY <1>4 DEF CreateRun
  <2>6. run' \in [Run -> Record]
    BY <2>4, <2>5, Stored DEF TypeOK
  <2> HIDE DEF r
  <2> QED BY <2>1, <2>2, <2>3, <2>6, Becomes DEF TypeOK, history
<1>5. ASSUME NEW w \in Worker, StampParentage(w) \/ SetFailureBudget(w)
      PROVE  TypeOK'
  <2>1. worker[w].id \in Run
    BY <1>5 DEF StampParentage, SetFailureBudget, At, TypeOK
  <2>2. Become(w, Idle) /\ UNCHANGED <<calls, history>>
    BY <1>5 DEF StampParentage, SetFailureBudget
  <2>3. run' \in [Run -> Record]
    <3> DEFINE me == worker[w]
    <3>1. CASE StampParentage(w)
      <4> DEFINE v == [run[me.id] EXCEPT !.parent = me.parent, !.root = me.root]
      <4>1. v \in Record
        BY <2>1 DEF TypeOK, Record, Local
      <4>2. run' = [run EXCEPT ![me.id] = v]
        BY <2>1, <3>1 DEF StampParentage, TypeOK
      <4> QED BY <2>1, <4>1, <4>2, Stored DEF TypeOK
    <3>2. CASE SetFailureBudget(w)
      <4> DEFINE v == [run[me.id] EXCEPT !.budget = me.budget, !.root = me.id]
      <4>1. v \in Record
        BY <2>1 DEF TypeOK, Record, Local
      <4>2. run' = [run EXCEPT ![me.id] = v]
        BY <2>1, <3>2 DEF SetFailureBudget, TypeOK
      <4> QED BY <2>1, <4>1, <4>2, Stored DEF TypeOK
    <3> QED BY <1>5, <3>1, <3>2
  <2>4. known' \subseteq Run
    BY <1>5, <2>1 DEF StampParentage, SetFailureBudget, TypeOK
  <2> QED BY <2>2, <2>3, <2>4, Becomes DEF TypeOK, history, Idle
<1>6. ASSUME NEW w \in Worker, ReadBudget(w)
      PROVE  TypeOK'
  <2> DEFINE me == worker[w]
             r == IF run[me.id].parent = NoRun /\ run[me.id].budget = 0
                  THEN [me EXCEPT !.pc = "setBudget"] ELSE Idle
  <2>1. r \in Local /\ r.pc \in {"idle", "setBudget"} /\ (r.pc = "setBudget" => r.id \in Run)
    BY <1>6 DEF Local, PC, Idle, TypeOK, ReadBudget, At
  <2>2. Become(w, r) /\ UNCHANGED <<run, known, calls, history>>
    BY <1>6 DEF ReadBudget
  <2> HIDE DEF r
  <2> QED BY <2>1, <2>2, Becomes DEF TypeOK, history
<1>7. ASSUME NEW w \in Worker, Refused(w)
      PROVE  TypeOK'
  BY <1>7, Becomes DEF Refused, TypeOK, history, Idle
<1>8. ASSUME NEW w \in Worker, NEW x \in Run, NEW c \in Child, ReceiveCharge(w, x, c)
      PROVE  TypeOK'
  <2> DEFINE r == [Idle EXCEPT !.pc = "charge", !.id = x, !.child = c, !.copy = run[x]]
  <2>1. r \in Local /\ r.pc = "charge" /\ r.id = x /\ r.child = c
    BY DEF Local, PC, Idle, TypeOK
  <2>2. Become(w, r) \/ UNCHANGED worker
    BY <1>8 DEF ReceiveCharge
  <2>3. UNCHANGED <<run, known, timeouts, overtaken>> /\ calls' \in 0..MaxCall
    BY <1>8 DEF ReceiveCharge, TypeOK
  <2>4. admitted' \subseteq Run \X Child
    BY <1>8 DEF ReceiveCharge, Answer, TypeOK
  <2> HIDE DEF r
  <2> QED BY <2>1, <2>2, <2>3, <2>4, Becomes DEF TypeOK
<1>9. ASSUME NEW w \in Worker, WriteCharge(w) \/ WriteStatus(w)
      PROVE  TypeOK'
  <2>1. worker[w].id \in Run /\ (At(w, "charge") => worker[w].child \in Child)
    BY <1>9 DEF WriteCharge, WriteStatus, At, TypeOK
  <2>2. Become(w, Idle) /\ UNCHANGED <<known, calls, timeouts>>
    BY <1>9 DEF WriteCharge, WriteStatus
  <2>3. run' \in [Run -> Record] /\ admitted' \subseteq Run \X Child
    <3>1. CASE WriteCharge(w)
      <4>1. worker[w].copy.used + 1 \in Nat /\ worker[w].copy.counted \cup {worker[w].child} \subseteq Child
        BY <2>1, <3>1 DEF WriteCharge, TypeOK, Record, Local
      <4> DEFINE v == [run[worker[w].id] EXCEPT !.used = worker[w].copy.used + 1,
                                  !.counted = worker[w].copy.counted \cup {worker[w].child}]
      <4>3. run[worker[w].id] \in Record
        BY <2>1 DEF TypeOK
      <4>4. v \in Record
        BY <4>1, <4>3 DEF Record
      <4>5. run' = [run EXCEPT ![worker[w].id] = v]
        BY <2>1, <3>1 DEF WriteCharge, TypeOK, Charge
      <4>2. run' \in [Run -> Record]
        BY <2>1, <4>4, <4>5, Stored DEF TypeOK
      <4>6. admitted' \subseteq Run \X Child
        BY <2>1, <3>1 DEF WriteCharge, TypeOK, Answer
      <4> QED BY <4>2, <4>6
    <3>2. CASE WriteStatus(w)
      <4> DEFINE me == worker[w]
                 counted == IF me.copy.counted = {} THEN run[me.id].counted ELSE me.copy.counted
                 v == [me.copy EXCEPT !.status = me.goal, !.counted = counted]
      <4>1. me.copy \in Record /\ run[me.id] \in Record /\ me.goal \in RunStatus
        BY <2>1 DEF TypeOK, Local
      <4>2. v \in Record
        BY <4>1 DEF Record
      <4>3. run' = [run EXCEPT ![me.id] = v] /\ admitted' = admitted
        BY <3>2 DEF WriteStatus
      <4> QED BY <2>1, <4>2, <4>3, Stored DEF TypeOK
    <3> QED BY <1>9, <3>1, <3>2
  <2>4. overtaken' \subseteq Run
    BY <1>9, <2>1 DEF WriteCharge, WriteStatus, Overtakes, TypeOK
  <2> QED BY <2>2, <2>3, <2>4, Becomes DEF TypeOK, Idle
<1>10. ASSUME NEW w \in Worker, NEW x \in Run, NEW s \in Goal, ReceiveStatus(w, x, s)
       PROVE  TypeOK'
  <2> DEFINE r == [Idle EXCEPT !.pc = "writeStatus", !.id = x, !.goal = s, !.copy = run[x]]
  <2>1. r \in Local /\ r.pc = "writeStatus" /\ r.id = x
    BY DEF Local, PC, Idle, TypeOK
  <2>2. Become(w, r) /\ UNCHANGED <<run, known, history>> /\ calls' \in 0..MaxCall
    BY <1>10 DEF ReceiveStatus, TypeOK
  <2> HIDE DEF r
  <2> QED BY <2>1, <2>2, Becomes DEF TypeOK, history
<1>11. ASSUME NEW w \in Worker, NEW x \in Run, ListStale(w, x)
       PROVE  TypeOK'
  <2> DEFINE r == [Idle EXCEPT !.pc = "mark", !.id = x]
  <2>1. r \in Local /\ r.pc = "mark" /\ r.id = x
    BY DEF Local, PC, Idle
  <2>2. Become(w, r) /\ UNCHANGED <<run, known, history>> /\ calls' \in 0..MaxCall
    BY <1>11 DEF ListStale, TypeOK
  <2> HIDE DEF r
  <2> QED BY <2>1, <2>2, Becomes DEF TypeOK, history
<1>12. ASSUME NEW w \in Worker, MarkTimeoutPublished(w)
       PROVE  TypeOK'
  <2>1. worker[w].id \in Run
    BY <1>12 DEF MarkTimeoutPublished, At, TypeOK
  <2>2. /\ Become(w, Idle) /\ UNCHANGED <<known, calls, admitted, overtaken>>
        /\ timeouts' \in [Run -> Nat]
    BY <1>12, <2>1 DEF MarkTimeoutPublished, TypeOK
  <2> DEFINE v == [run[worker[w].id] EXCEPT !.marked = TRUE]
  <2>3. run[worker[w].id] \in Record
    BY <2>1 DEF TypeOK
  <2>4. v \in Record
    BY <2>3, Zenon DEF Record
  <2>5. run' = [run EXCEPT ![worker[w].id] = v]
    BY <1>12, <2>1 DEF MarkTimeoutPublished, TypeOK
  <2>6. run' \in [Run -> Record]
    BY <2>1, <2>4, <2>5, Stored DEF TypeOK
  <2> QED BY <2>2, <2>6, Becomes DEF TypeOK, Idle
<1>13. CASE UNCHANGED vars
  BY <1>13 DEF vars, TypeOK
<1> QED BY <1>1, <1>2, <1>3, <1>4, <1>5, <1>6, <1>7, <1>8, <1>9, <1>10, <1>11, <1>12, <1>13 DEF Next

LEMMA TypeInit == Init => TypeOK
BY IdleTyped DEF Init, TypeOK, Idle

(* The entities, the goroutines' copies and the history keep their types,  *)
(* for any constants (WorkflowRun, workflow_run.go).                       *)
THEOREM TypeCorrect == Spec => []TypeOK
BY TypeInit, TypeStep, PTL DEF Spec

-----------------------------------------------------------------------------
(* The counter of a root and of every copy of it stays within the record   *)
(* of the children, and a child about to be charged is not in its copy.    *)
Behind ==
  /\ UsedWithinCounted
  /\ \A w \in Worker :
       /\ worker[w].copy.used <= Cardinality(worker[w].copy.counted)
       /\ At(w, "charge") => worker[w].child \notin worker[w].copy.counted

LEMMA ChildrenFinite ==
  ASSUME NEW C \in SUBSET Child
  PROVE  /\ IsFiniteSet(C) /\ Cardinality(C) \in Nat
         /\ \A c \in Child \ C : Cardinality(C \cup {c}) = Cardinality(C) + 1
<1>1. IsFiniteSet(C)
  BY ChildAssumption, FS_Subset
<1> QED BY <1>1, FS_CardinalityType, FS_AddElement

LEMMA BlankBehind == Blank.used <= Cardinality(Blank.counted)
<1>1. Blank.used = 0 /\ Blank.counted = {} /\ Cardinality({}) = 0
  BY FS_EmptySet DEF Blank
<1> QED BY <1>1

(* What CreateEntity, a charge and a status update store; the other steps  *)
(* leave the counters and the records of the children alone.               *)
LEMMA CountersKept ==
  ASSUME TypeOK, NEW w \in Worker,
         \/ StampParentage(w) \/ SetFailureBudget(w) \/ MarkTimeoutPublished(w)
         \/ UNCHANGED run
  PROVE  \A r \in Run : run'[r].used = run[r].used /\ run'[r].counted = run[r].counted
<1> SUFFICES ASSUME NEW r \in Run
             PROVE  run'[r].used = run[r].used /\ run'[r].counted = run[r].counted
  OBVIOUS
<1>1. CASE StampParentage(w)
  BY <1>1 DEF TypeOK, Record, StampParentage
<1>2. CASE SetFailureBudget(w)
  BY <1>2 DEF TypeOK, Record, SetFailureBudget
<1>3. CASE MarkTimeoutPublished(w)
  BY <1>3 DEF TypeOK, Record, MarkTimeoutPublished
<1> QED BY <1>1, <1>2, <1>3

(* The copy of a goroutine that does not start a charge or a status update *)
(* stays as it is, or is dropped for an empty one.                         *)
LEMMA CopiesKept ==
  ASSUME TypeOK, NEW w \in Worker, NEW v \in Worker,
         \/ \E n \in Name \cup {NoName}, b \in Budget : ReceiveCreate(w, n, b)
         \/ \E n \in Name \cup {NoName}, p \in Run : ReceiveRecovery(w, n, p)
         \/ LookUpName(w)
         \/ \E x \in Run : CreateRun(w, x)
         \/ StampParentage(w) \/ ReadBudget(w) \/ SetFailureBudget(w) \/ Refused(w)
         \/ WriteCharge(w) \/ WriteStatus(w)
         \/ \E x \in Run : ListStale(w, x)
         \/ MarkTimeoutPublished(w)
  PROVE  \/ worker'[v] = worker[v]
         \/ v = w /\ worker'[v].pc \notin {"charge", "writeStatus"}
              /\ worker'[v].copy \in {worker[v].copy, Blank}
<1>1. CASE v # w
  BY <1>1 DEF TypeOK, ReceiveCreate, ReceiveRecovery, LookUpName, CreateRun, StampParentage,
    ReadBudget, SetFailureBudget, Refused, WriteCharge, WriteStatus, ListStale,
    MarkTimeoutPublished, Become
<1>2. CASE v = w
  <2>1. ASSUME NEW n \in Name \cup {NoName}, NEW b \in Budget, ReceiveCreate(w, n, b)
        PROVE  worker'[w].pc \notin {"charge", "writeStatus"} /\ worker'[w].copy = Blank
    BY <2>1 DEF TypeOK, ReceiveCreate, Become, Idle
  <2>2. ASSUME NEW n \in Name \cup {NoName}, NEW p \in Run, ReceiveRecovery(w, n, p)
        PROVE  worker'[w].pc \notin {"charge", "writeStatus"} /\ worker'[w].copy = Blank
    BY <2>2 DEF TypeOK, ReceiveRecovery, Become, Idle
  <2>3. ASSUME LookUpName(w) \/ ReadBudget(w)
        PROVE  /\ worker'[w].pc \notin {"charge", "writeStatus"}
               /\ worker'[w].copy \in {worker[w].copy, Blank}
    BY <2>3 DEF TypeOK, LookUpName, ReadBudget, Become, Idle, Local
  <2>4. ASSUME NEW x \in Run, CreateRun(w, x)
        PROVE  /\ worker'[w].pc \notin {"charge", "writeStatus"}
               /\ worker'[w].copy \in {worker[w].copy, Blank}
    <3> DEFINE me == worker[w]
               next == IF me.parent # NoRun THEN "stamp"
                       ELSE IF me.budget > 0 THEN "readBudget" ELSE "idle"
    <3>1. me \in Local /\ next \in {"stamp", "readBudget", "idle"}
      BY DEF TypeOK
    <3>2. worker'[w] = IF next = "idle" THEN Idle ELSE [me EXCEPT !.pc = next, !.id = x]
      BY <2>4 DEF CreateRun, Become, TypeOK
    <3> HIDE DEF next
    <3> QED BY <3>1, <3>2 DEF Local, Idle
  <2>5. ASSUME \/ StampParentage(w) \/ SetFailureBudget(w) \/ Refused(w)
               \/ WriteCharge(w) \/ WriteStatus(w) \/ MarkTimeoutPublished(w)
        PROVE  worker'[w].pc \notin {"charge", "writeStatus"} /\ worker'[w].copy = Blank
    BY <2>5 DEF TypeOK, StampParentage, SetFailureBudget, Refused, WriteCharge, WriteStatus,
      MarkTimeoutPublished, Become, Idle
  <2>6. ASSUME NEW x \in Run, ListStale(w, x)
        PROVE  worker'[w].pc \notin {"charge", "writeStatus"} /\ worker'[w].copy = Blank
    BY <2>6 DEF TypeOK, ListStale, Become, Idle
  <2> QED BY <1>2, <2>1, <2>2, <2>3, <2>4, <2>5, <2>6
<1> QED BY <1>1, <1>2

LEMMA BehindStep == TypeOK /\ Behind /\ [Next]_vars => Behind'
<1> SUFFICES ASSUME TypeOK, Behind, [Next]_vars PROVE Behind'
  OBVIOUS
<1>a. ASSUME NEW w \in Worker,
             \A r \in Run : run'[r].used <= Cardinality(run'[r].counted),
             \A v \in Worker :
               \/ worker'[v] = worker[v]
               \/ v = w /\ worker'[v].pc # "charge" /\ worker'[v].copy \in {worker[v].copy, Blank}
      PROVE  Behind'
  <2>1. ASSUME NEW v \in Worker
        PROVE  /\ worker'[v].copy.used <= Cardinality(worker'[v].copy.counted)
               /\ worker'[v].pc = "charge" => worker'[v].child \notin worker'[v].copy.counted
    <3>1. CASE worker'[v] = worker[v]
      BY <3>1 DEF Behind, At
    <3>2. CASE worker'[v].pc # "charge" /\ worker'[v].copy \in {worker[v].copy, Blank}
      BY <3>2, BlankBehind DEF Behind
    <3> QED BY <1>a, <3>1, <3>2
  <2> QED BY <1>a, <2>1 DEF Behind, UsedWithinCounted, At
<1>1. ASSUME NEW w \in Worker,
             \/ \E n \in Name \cup {NoName}, b \in Budget : ReceiveCreate(w, n, b)
             \/ \E n \in Name \cup {NoName}, p \in Run : ReceiveRecovery(w, n, p)
             \/ LookUpName(w) \/ ReadBudget(w) \/ Refused(w)
             \/ \E x \in Run : ListStale(w, x)
             \/ StampParentage(w) \/ SetFailureBudget(w) \/ MarkTimeoutPublished(w)
      PROVE  Behind'
  <2>1. UNCHANGED run \/ StampParentage(w) \/ SetFailureBudget(w) \/ MarkTimeoutPublished(w)
    BY <1>1 DEF ReceiveCreate, ReceiveRecovery, LookUpName, ReadBudget, Refused, ListStale
  <2>2. \A r \in Run : run'[r].used = run[r].used /\ run'[r].counted = run[r].counted
    BY <2>1, CountersKept
  <2>3. \A v \in Worker :
          \/ worker'[v] = worker[v]
          \/ v = w /\ worker'[v].pc # "charge" /\ worker'[v].copy \in {worker[v].copy, Blank}
    BY <1>1, CopiesKept
  <2> QED BY <1>a, <2>2, <2>3 DEF Behind, UsedWithinCounted
<1>2. ASSUME NEW w \in Worker, NEW x \in Run, CreateRun(w, x)
      PROVE  Behind'
  <2>1. \A r \in Run : \/ run'[r] = run[r]
                       \/ run'[r].used = Blank.used /\ run'[r].counted = Blank.counted
    BY <1>2 DEF CreateRun, TypeOK, Blank
  <2>2. \A r \in Run : run'[r].used <= Cardinality(run'[r].counted)
    BY <2>1, BlankBehind DEF Behind, UsedWithinCounted
  <2> QED BY <1>2, <1>a, <2>2, CopiesKept
<1>3. ASSUME NEW w \in Worker, WriteCharge(w)
      PROVE  Behind'
  <2> DEFINE me == worker[w]
  <2>1. /\ me.id \in Run /\ me.child \in Child \ me.copy.counted
        /\ me.copy.used \in Nat /\ me.copy.counted \in SUBSET Child
        /\ me.copy.used <= Cardinality(me.copy.counted)
    BY <1>3 DEF WriteCharge, At, TypeOK, Local, Record, Behind
  <2>2. /\ run'[me.id].used = me.copy.used + 1
        /\ run'[me.id].counted = me.copy.counted \cup {me.child}
        /\ \A r \in Run \ {me.id} : run'[r] = run[r]
    BY <1>3, <2>1 DEF WriteCharge, TypeOK, Record, Charge
  <2>3. Cardinality(run'[me.id].counted) = Cardinality(me.copy.counted) + 1
        /\ Cardinality(me.copy.counted) \in Nat
    BY <2>1, <2>2, ChildrenFinite
  <2>5. run'[me.id].used <= Cardinality(run'[me.id].counted)
    BY <2>1, <2>2, <2>3
  <2>4. \A r \in Run : run'[r].used <= Cardinality(run'[r].counted)
    BY <2>2, <2>5 DEF Behind, UsedWithinCounted
  <2> QED BY <1>3, <1>a, <2>4, CopiesKept
<1>4. ASSUME NEW w \in Worker, WriteStatus(w)
      PROVE  Behind'
  <2> DEFINE me == worker[w]
  <2>1. /\ me.id \in Run /\ me.copy.used \in Nat
        /\ me.copy.used <= Cardinality(me.copy.counted)
        /\ run[me.id].counted \in SUBSET Child
    BY <1>4 DEF WriteStatus, At, TypeOK, Local, Record, Behind
  <2>2. /\ run'[me.id].used = me.copy.used
        /\ run'[me.id].counted = IF me.copy.counted = {} THEN run[me.id].counted ELSE me.copy.counted
        /\ \A r \in Run \ {me.id} : run'[r] = run[r]
    <3>1. me.copy \in Record
      BY DEF TypeOK, Local
    <3>2. run' = [run EXCEPT ![me.id] = [me.copy EXCEPT !.status = me.goal,
             !.counted = IF me.copy.counted = {} THEN run[me.id].counted ELSE me.copy.counted]]
      BY <1>4 DEF WriteStatus
    <3> QED BY <2>1, <3>1, <3>2 DEF TypeOK, Record
  <2>3. Cardinality(run[me.id].counted) \in Nat /\ Cardinality({}) = 0
    BY <2>1, ChildrenFinite, FS_EmptySet
  <2>5. run'[me.id].used <= Cardinality(run'[me.id].counted)
    <3>1. CASE me.copy.counted = {}
      BY <2>1, <2>2, <2>3, <3>1
    <3>2. CASE me.copy.counted # {}
      BY <2>1, <2>2, <3>2
    <3> QED BY <3>1, <3>2
  <2>4. \A r \in Run : run'[r].used <= Cardinality(run'[r].counted)
    BY <2>2, <2>5 DEF Behind, UsedWithinCounted
  <2> QED BY <1>4, <1>a, <2>4, CopiesKept
<1>5. ASSUME NEW w \in Worker, NEW x \in Run, NEW c \in Child, ReceiveCharge(w, x, c)
      PROVE  Behind'
  <2>1. UNCHANGED run
    BY <1>5 DEF ReceiveCharge
  <2>2. CASE UNCHANGED worker
    BY <2>1, <2>2 DEF Behind, UsedWithinCounted, At
  <2>3. CASE worker' # worker
    <3>1. worker'[w].copy = run[x] /\ worker'[w].child = c /\ c \notin run[x].counted
      <4>1. /\ Become(w, [Idle EXCEPT !.pc = "charge", !.id = x, !.child = c, !.copy = run[x]])
            /\ c \notin run[x].counted
        BY <1>5, <2>3 DEF ReceiveCharge
      <4> QED BY <4>1 DEF Become, TypeOK, Idle
    <3>2. \A v \in Worker \ {w} : worker'[v] = worker[v]
      BY <1>5, <2>3 DEF ReceiveCharge, Become, TypeOK
    <3> QED BY <2>1, <3>1, <3>2 DEF Behind, UsedWithinCounted, At
  <2> QED BY <2>2, <2>3
<1>6. ASSUME NEW w \in Worker, NEW x \in Run, NEW s \in Goal, ReceiveStatus(w, x, s)
      PROVE  Behind'
  <2>1. UNCHANGED run
    BY <1>6 DEF ReceiveStatus, history
  <2>2. worker'[w].copy = run[x] /\ worker'[w].pc = "writeStatus"
    BY <1>6 DEF ReceiveStatus, Become, TypeOK, Idle
  <2>3. \A v \in Worker \ {w} : worker'[v] = worker[v]
    BY <1>6 DEF ReceiveStatus, Become, TypeOK
  <2> QED BY <2>1, <2>2, <2>3 DEF Behind, UsedWithinCounted, At
<1>7. CASE UNCHANGED vars
  BY <1>7 DEF vars, Behind, UsedWithinCounted, At
<1> QED BY <1>1, <1>2, <1>3, <1>4, <1>5, <1>6, <1>7 DEF Next

LEMMA BehindInit == Init => Behind
BY BlankBehind DEF Init, Behind, UsedWithinCounted, At, Idle

LEMMA BehindHolds == Spec => []Behind
BY TypeCorrect, BehindInit, BehindStep, PTL DEF Spec

(* However many stale copies are written back, the counter of a root never *)
(* runs ahead of the record of the children charged to it, for any number  *)
(* of runs, children and goroutines (IncrementFailureBudget,               *)
(* UpdateWorkflowRunStatus).                                               *)
THEOREM NeverAhead == Spec => []UsedWithinCounted
BY BehindHolds, PTL DEF Behind

-----------------------------------------------------------------------------
(* Where a run comes from.  Only its creator, which no other goroutine     *)
(* shares, gives a run a parent and a root, and only before the run is     *)
(* known; whoever writes a copy back writes the same two.                  *)
Creating(w) == worker[w].pc \in {"stamp", "readBudget", "setBudget"}
Copying(w) == worker[w].pc \in {"charge", "writeStatus"}

TopLevel(r) == r \in known /\ run[r].parent = NoRun

KnownExists ==
  /\ \A r \in known : run[r].status # Absent
  /\ \A w \in Worker : At(w, "mark") => run[worker[w].id].status # Absent
AbsentIsBlank == \A r \in Run : run[r].status = Absent => run[r] = Blank
CreatorAlone ==
  \A w \in Worker : Creating(w) =>
    /\ worker[w].id \notin known
    /\ run[worker[w].id].status # Absent
    /\ run[worker[w].id].parent = NoRun /\ run[worker[w].id].counted = {}
    /\ \A v \in Worker : Creating(v) /\ worker[v].id = worker[w].id => v = w
RootChosen ==
  \A w \in Worker :
    /\ At(w, "stamp") => worker[w].parent # NoRun
    /\ worker[w].pc \in {"lookup", "create", "stamp"} /\ worker[w].parent # NoRun
         => TopLevel(worker[w].root)
Parentage ==
  \A r \in Run :
    IF run[r].parent # NoRun
    THEN TopLevel(run[r].root) /\ run[r].counted = {}
    ELSE run[r].root \in {NoRun, r}
CopyAgrees ==
  \A w \in Worker : Copying(w) =>
    /\ worker[w].id \in known
    /\ worker[w].copy.parent = run[worker[w].id].parent
    /\ worker[w].copy.root = run[worker[w].id].root
    /\ worker[w].copy.parent # NoRun => worker[w].copy.counted = {}
    /\ At(w, "charge") => worker[w].copy.parent = NoRun

Lineage ==
  /\ KnownExists /\ AbsentIsBlank /\ CreatorAlone
  /\ RootChosen /\ Parentage /\ CopyAgrees

(* A step that reads: the stored runs stay, and one goroutine goes on with *)
(* locals that fit them.                                                   *)
Fits(r) ==
  /\ r.pc = "mark" => run[r.id].status # Absent
  /\ r.pc \notin {"stamp", "readBudget"}
  /\ r.pc \in {"lookup", "create"} /\ r.parent # NoRun => TopLevel(r.root)
  /\ r.pc \in {"charge", "writeStatus"} =>
       r.id \in known /\ r.copy = run[r.id] /\ (r.pc = "charge" => run[r.id].parent = NoRun)

LEMMA ReadKeepsLineage ==
  ASSUME TypeOK, Lineage, UNCHANGED <<run, known>>, NEW w \in Worker,
         \A v \in Worker \ {w} : worker'[v] = worker[v],
         NEW r \in Local, worker'[w] = r, Fits(r),
         r.pc = "setBudget" => At(w, "readBudget") /\ r.id = worker[w].id
  PROVE  Lineage'
<1> USE DEF Lineage
<1>1. KnownExists'
  BY DEF KnownExists, Fits, At
<1>2. AbsentIsBlank'
  BY DEF AbsentIsBlank
<1>3. CreatorAlone'
  BY DEF CreatorAlone, Creating, Fits, At
<1>4. RootChosen'
  BY DEF RootChosen, Fits, At, TopLevel
<1>5. Parentage'
  BY DEF Parentage, TopLevel
<1>6. CopyAgrees'
  <2>1. r.pc \in {"charge", "writeStatus"} /\ run[r.id].parent # NoRun => run[r.id].counted = {}
    BY DEF Fits, Parentage, TypeOK
  <2> QED BY <2>1 DEF CopyAgrees, Copying, Fits, At
<1> QED BY <1>1, <1>2, <1>3, <1>4, <1>5, <1>6

LEMMA ReadsKeepLineage ==
  ASSUME TypeOK, Lineage, NEW w \in Worker,
         \/ \E n \in Name \cup {NoName}, b \in Budget : ReceiveCreate(w, n, b)
         \/ \E n \in Name \cup {NoName}, p \in Run : ReceiveRecovery(w, n, p)
         \/ LookUpName(w) \/ ReadBudget(w) \/ Refused(w)
         \/ \E x \in Run, c \in Child : ReceiveCharge(w, x, c)
         \/ \E x \in Run, s \in Goal : ReceiveStatus(w, x, s)
         \/ \E x \in Run : ListStale(w, x)
  PROVE  Lineage'
<1> USE IdleTyped
<1>0. Fits(Idle)
  BY DEF Fits, Idle
<1>1. ASSUME NEW n \in Name \cup {NoName}, NEW b \in Budget, ReceiveCreate(w, n, b)
      PROVE  Lineage'
  <2> DEFINE r == [Idle EXCEPT !.pc = "create", !.name = n, !.budget = b]
  <2>1. r \in Local /\ r.pc = "create" /\ r.parent = NoRun
    BY DEF Local, PC, Idle
  <2>2. Become(w, r) /\ UNCHANGED <<run, known>>
    BY <1>1 DEF ReceiveCreate
  <2> HIDE DEF r
  <2> QED BY <2>1, <2>2, Becomes, ReadKeepsLineage DEF Fits, TypeOK
<1>2. ASSUME NEW n \in Name \cup {NoName}, NEW p \in Run, ReceiveRecovery(w, n, p)
      PROVE  Lineage'
  <2> DEFINE r == [Idle EXCEPT !.pc = "lookup", !.name = n, !.parent = p, !.root = RootOf(p)]
  <2>1. p \in known /\ TopLevel(RootOf(p)) /\ RootOf(p) \in Run
    BY <1>2 DEF ReceiveRecovery, RootOf, Lineage, Parentage, TopLevel, TypeOK
  <2>2. r \in Local /\ r.pc = "lookup" /\ r.root = RootOf(p)
    BY <2>1 DEF Local, PC, Idle
  <2>3. Become(w, r) /\ UNCHANGED <<run, known>>
    BY <1>2 DEF ReceiveRecovery
  <2> HIDE DEF r
  <2> QED BY <2>1, <2>2, <2>3, Becomes, ReadKeepsLineage DEF Fits, TypeOK
<1>3. CASE LookUpName(w)
  <2> DEFINE r == IF Taken(worker[w].name) THEN Idle ELSE [worker[w] EXCEPT !.pc = "create"]
  <2>1. /\ r \in Local /\ r.pc \in {"idle", "create"}
        /\ r.pc = "create" => r.parent = worker[w].parent /\ r.root = worker[w].root
    BY DEF Local, PC, Idle, TypeOK
  <2>2. Become(w, r) /\ UNCHANGED <<run, known>> /\ worker[w].pc = "lookup"
    BY <1>3 DEF LookUpName, At
  <2>3. Fits(r)
    BY <2>1, <2>2 DEF Fits, Lineage, RootChosen
  <2> HIDE DEF r
  <2> QED BY <2>1, <2>2, <2>3, Becomes, ReadKeepsLineage DEF TypeOK
<1>4. CASE ReadBudget(w)
  <2> DEFINE me == worker[w]
             r == IF run[me.id].parent = NoRun /\ run[me.id].budget = 0
                  THEN [me EXCEPT !.pc = "setBudget"] ELSE Idle
  <2>1. r \in Local /\ r.pc \in {"idle", "setBudget"} /\ (r.pc = "setBudget" => r.id = me.id)
    BY DEF Local, PC, Idle, TypeOK
  <2>2. Become(w, r) /\ UNCHANGED <<run, known>> /\ At(w, "readBudget")
    BY <1>4 DEF ReadBudget
  <2> HIDE DEF r
  <2> QED BY <2>1, <2>2, Becomes, ReadKeepsLineage DEF Fits, TypeOK
<1>5. CASE Refused(w)
  <2>1. Become(w, Idle) /\ UNCHANGED <<run, known>>
    BY <1>5 DEF Refused
  <2>2. worker'[w] = Idle /\ \A v \in Worker \ {w} : worker'[v] = worker[v]
    BY <2>1, Becomes DEF TypeOK
  <2>3. Idle.pc # "setBudget"
    BY DEF Idle
  <2> QED BY <1>0, <2>1, <2>2, <2>3, ReadKeepsLineage
<1>6. ASSUME NEW x \in Run, NEW c \in Child, ReceiveCharge(w, x, c)
      PROVE  Lineage'
  <2> DEFINE r == [Idle EXCEPT !.pc = "charge", !.id = x, !.child = c, !.copy = run[x]]
  <2>1. r \in Local /\ r.pc = "charge" /\ r.id = x /\ r.copy = run[x]
    BY DEF Local, PC, Idle, TypeOK
  <2>2. UNCHANGED <<run, known>> /\ x \in known
    BY <1>6 DEF ReceiveCharge
  <2>3. CASE UNCHANGED worker
    <3>1. UNCHANGED <<run, known, worker>>
      BY <2>2, <2>3
    <3> QED BY <3>1 DEF Lineage, KnownExists, AbsentIsBlank, CreatorAlone, Creating, RootChosen,
              Parentage, CopyAgrees, Copying, TopLevel, At
  <2>4. CASE Become(w, r) /\ run[x].parent = NoRun
    <3> HIDE DEF r
    <3> QED BY <2>1, <2>2, <2>4, Becomes, ReadKeepsLineage DEF Fits, TypeOK
  <2> QED BY <1>6, <2>3, <2>4 DEF ReceiveCharge
<1>7. ASSUME NEW x \in Run, NEW s \in Goal, ReceiveStatus(w, x, s)
      PROVE  Lineage'
  <2> DEFINE r == [Idle EXCEPT !.pc = "writeStatus", !.id = x, !.goal = s, !.copy = run[x]]
  <2>1. r \in Local /\ r.pc = "writeStatus" /\ r.id = x /\ r.copy = run[x]
    BY DEF Local, PC, Idle, TypeOK
  <2>2. Become(w, r) /\ UNCHANGED <<run, known>> /\ x \in known
    BY <1>7 DEF ReceiveStatus
  <2> HIDE DEF r
  <2> QED BY <2>1, <2>2, Becomes, ReadKeepsLineage DEF Fits, TypeOK
<1>8. ASSUME NEW x \in Run, ListStale(w, x)
      PROVE  Lineage'
  <2> DEFINE r == [Idle EXCEPT !.pc = "mark", !.id = x]
  <2>1. r \in Local /\ r.pc = "mark" /\ r.id = x
    BY DEF Local, PC, Idle
  <2>2. Become(w, r) /\ UNCHANGED <<run, known>> /\ run[x].status # Absent
    BY <1>8 DEF ListStale
  <2> HIDE DEF r
  <2> QED BY <2>1, <2>2, Becomes, ReadKeepsLineage DEF Fits, TypeOK
<1> QED BY <1>1, <1>2, <1>3, <1>4, <1>5, <1>6, <1>7, <1>8

(* A step that writes run i and drops the goroutine's locals.  A run that  *)
(* is not known before is its creator's; a known one keeps its parent and  *)
(* its root.                                                               *)
LEMMA WriteKeepsLineage ==
  ASSUME TypeOK, Lineage, NEW w \in Worker, worker' = [worker EXCEPT ![w] = Idle],
         NEW i \in Run, NEW e \in Record, run' = [run EXCEPT ![i] = e],
         run[i].status # Absent, e.status # Absent,
         \/ Creating(w) /\ worker[w].id = i /\ known' = known \cup {i}
         \/ known' = known /\ e.parent = run[i].parent /\ e.root = run[i].root
              /\ (i \in known \/ e.counted = run[i].counted),
         IF e.parent # NoRun
         THEN TopLevel(e.root) /\ e.counted = {}
         ELSE e.root \in {NoRun, i}
  PROVE  Lineage'
<1> USE DEF Lineage
<1>a. /\ run'[i] = e /\ \A r \in Run \ {i} : run'[r] = run[r]
      /\ worker'[w] = Idle /\ \A v \in Worker \ {w} : worker'[v] = worker[v]
      /\ known \subseteq known'
  BY DEF TypeOK
<1>b. \A r \in Run : TopLevel(r) => r \in known' /\ run'[r].parent = NoRun
  BY <1>a DEF TopLevel, CreatorAlone, TypeOK
<1>c. \A v \in Worker \ {w} : Creating(v) => worker[v].id \notin known'
  BY <1>a DEF CreatorAlone, TypeOK
<1>1. KnownExists'
  <2>1. \A r \in known' : run'[r].status # Absent
    BY <1>a DEF KnownExists, TypeOK
  <2>2. \A v \in Worker : worker'[v].pc = "mark" => run'[worker'[v].id].status # Absent
    BY <1>a DEF KnownExists, TypeOK, At, Idle
  <2> QED BY <2>1, <2>2 DEF KnownExists, At
<1>2. AbsentIsBlank'
  BY <1>a DEF AbsentIsBlank
<1>3. CreatorAlone'
  <2>1. ASSUME NEW v \in Worker, worker'[v].pc \in {"stamp", "readBudget", "setBudget"}
        PROVE  /\ v # w /\ worker'[v] = worker[v] /\ Creating(v)
               /\ worker[v].id \in Run
    BY <1>a, <2>1 DEF Idle, Creating, TypeOK
  <2>2. ASSUME NEW v \in Worker, worker'[v].pc \in {"stamp", "readBudget", "setBudget"}
        PROVE  /\ run'[worker'[v].id].status # Absent
               /\ run'[worker'[v].id].parent = NoRun /\ run'[worker'[v].id].counted = {}
    <3> DEFINE j == worker[v].id
    <3>1. /\ v # w /\ worker'[v].id = j /\ j \in Run /\ j \notin known /\ j \notin known'
          /\ run[j].status # Absent /\ run[j].parent = NoRun /\ run[j].counted = {}
      BY <1>c, <2>1, <2>2 DEF CreatorAlone
    <3>2. CASE j = i
      BY <1>a, <3>1, <3>2
    <3>3. CASE j # i
      BY <1>a, <3>1, <3>3
    <3> QED BY <3>2, <3>3
  <2>3. ASSUME NEW v \in Worker, worker'[v].pc \in {"stamp", "readBudget", "setBudget"},
               NEW u \in Worker, worker'[u].pc \in {"stamp", "readBudget", "setBudget"},
               worker'[u].id = worker'[v].id
        PROVE  u = v
    BY <2>1, <2>3 DEF CreatorAlone
  <2> QED BY <1>c, <2>1, <2>2, <2>3 DEF CreatorAlone, Creating
<1>4. RootChosen'
  <2>1. ASSUME NEW v \in Worker \ {w}, worker[v].pc \in {"lookup", "create", "stamp"},
               worker[v].parent # NoRun
        PROVE  worker[v].root \in known' /\ run'[worker[v].root].parent = NoRun
    BY <1>b, <2>1 DEF RootChosen, TopLevel, TypeOK
  <2> QED BY <1>a, <2>1 DEF RootChosen, TopLevel, At, Idle
<1>5. Parentage'
  <2>1. ASSUME NEW r \in Run
        PROVE  IF run'[r].parent # NoRun
               THEN run'[r].root \in known' /\ run'[run'[r].root].parent = NoRun /\ run'[r].counted = {}
               ELSE run'[r].root \in {NoRun, r}
    <3>1. CASE r = i
      <4>1. TopLevel(e.root) => e.root \in known' /\ run'[e.root].parent = NoRun
        BY <1>b DEF TopLevel, TypeOK
      <4> QED BY <1>a, <3>1, <4>1
    <3>2. CASE r # i
      <4>1. TopLevel(run[r].root) => run[r].root \in known' /\ run'[run[r].root].parent = NoRun
        BY <1>b DEF TopLevel, TypeOK
      <4> QED BY <1>a, <3>2, <4>1 DEF Parentage
    <3> QED BY <3>1, <3>2
  <2> QED BY <2>1 DEF Parentage, TopLevel
<1>6. CopyAgrees'
  <2>1. ASSUME NEW v \in Worker, worker'[v].pc \in {"charge", "writeStatus"}
        PROVE  v # w /\ worker'[v] = worker[v] /\ Copying(v)
    BY <1>a, <2>1 DEF Idle, Copying
  <2>2. ASSUME NEW r \in known
        PROVE  run'[r].parent = run[r].parent /\ run'[r].root = run[r].root
    BY <1>a, <2>2 DEF CreatorAlone, TypeOK
  <2> QED BY <1>a, <2>1, <2>2 DEF CopyAgrees, Copying, At
<1> QED BY <1>1, <1>2, <1>3, <1>4, <1>5, <1>6

LEMMA CreateKeepsLineage ==
  ASSUME TypeOK, Lineage, NEW w \in Worker, NEW x \in Run, CreateRun(w, x)
  PROVE  Lineage'
<1> USE DEF Lineage
<1> DEFINE me == worker[w]
           next == IF me.parent # NoRun THEN "stamp" ELSE IF me.budget > 0 THEN "readBudget" ELSE "idle"
<1>a. /\ x \notin known /\ \A v \in Worker : Creating(v) => worker[v].id # x
      /\ me.pc = "create" /\ run[x] = Blank
  BY DEF CreateRun, At, KnownExists, CreatorAlone, AbsentIsBlank
<1>b. /\ run'[x].status = "pending" /\ run'[x].parent = NoRun /\ run'[x].root = NoRun
      /\ run'[x].counted = {}
      /\ \A r \in Run \ {x} : run'[r] = run[r]
  BY DEF CreateRun, TypeOK, Blank
<1>c. /\ known \subseteq known' /\ known' \subseteq known \cup {x}
      /\ \A v \in Worker \ {w} : worker'[v] = worker[v]
  BY DEF CreateRun, Become, TypeOK
<1>d. /\ worker'[w].pc \in {"idle", "stamp", "readBudget"}
      /\ worker'[w].pc # "idle" =>
           /\ worker'[w].id = x /\ known' = known
           /\ worker'[w].parent = me.parent /\ worker'[w].root = me.root
           /\ worker'[w].pc = "stamp" => me.parent # NoRun
  <2>1. me \in Local
    BY DEF TypeOK
  <2>2. /\ known' = IF next = "idle" THEN known \cup {x} ELSE known
        /\ worker'[w] = IF next = "idle" THEN Idle ELSE [me EXCEPT !.pc = next, !.id = x]
    BY DEF CreateRun, Become, TypeOK
  <2>3. Idle.pc = "idle"
    BY DEF Idle
  <2> QED BY <2>1, <2>2, <2>3 DEF Local
<1>e. Absent # "pending"
  BY DEF Absent
<1>f. \A r \in Run : TopLevel(r) => r \in known' /\ run'[r].parent = NoRun
  BY <1>a, <1>b, <1>c DEF TopLevel
<1> HIDE DEF me, next
<1>1. KnownExists'
  <2>1. \A r \in known' : run'[r].status # Absent
    BY <1>b, <1>c, <1>e DEF KnownExists, TypeOK
  <2>2. \A v \in Worker : worker'[v].pc = "mark" => run'[worker'[v].id].status # Absent
    BY <1>b, <1>c, <1>d, <1>e DEF KnownExists, TypeOK, At
  <2> QED BY <2>1, <2>2 DEF KnownExists, At
<1>2. AbsentIsBlank'
  BY <1>b, <1>e DEF AbsentIsBlank
<1>3. CreatorAlone'
  <2>1. ASSUME NEW v \in Worker, worker'[v].pc \in {"stamp", "readBudget", "setBudget"}
        PROVE  \/ /\ v = w /\ worker'[v].id = x /\ known' = known
               \/ /\ v # w /\ worker'[v] = worker[v] /\ Creating(v) /\ worker[v].id \in Run \ {x}
    <3>1. CASE v = w
      BY <1>d, <2>1, <3>1
    <3>2. CASE v # w
      BY <1>a, <1>c, <2>1, <3>2 DEF Creating, TypeOK
    <3> QED BY <3>1, <3>2
  <2>2. ASSUME NEW v \in Worker, worker'[v].pc \in {"stamp", "readBudget", "setBudget"}
        PROVE  /\ worker'[v].id \notin known'
               /\ run'[worker'[v].id].status # Absent
               /\ run'[worker'[v].id].parent = NoRun /\ run'[worker'[v].id].counted = {}
    BY <1>a, <1>b, <1>c, <1>e, <2>1, <2>2 DEF CreatorAlone
  <2>3. ASSUME NEW v \in Worker, worker'[v].pc \in {"stamp", "readBudget", "setBudget"},
               NEW u \in Worker, worker'[u].pc \in {"stamp", "readBudget", "setBudget"},
               worker'[u].id = worker'[v].id
        PROVE  u = v
    BY <2>1, <2>3 DEF CreatorAlone
  <2> QED BY <2>2, <2>3 DEF CreatorAlone, Creating
<1>4. RootChosen'
  <2>1. ASSUME NEW v \in Worker, worker[v].pc \in {"lookup", "create", "stamp"},
               worker[v].parent # NoRun
        PROVE  worker[v].root \in known' /\ run'[worker[v].root].parent = NoRun
    BY <1>f, <2>1 DEF RootChosen, TopLevel, TypeOK
  <2>2. ASSUME NEW v \in Worker
        PROVE  /\ worker'[v].pc = "stamp" => worker'[v].parent # NoRun
               /\ worker'[v].pc \in {"lookup", "create", "stamp"} /\ worker'[v].parent # NoRun
                    => worker'[v].root \in known' /\ run'[worker'[v].root].parent = NoRun
    <3>1. CASE v = w
      BY <1>a, <1>d, <2>1, <3>1 DEF me
    <3>2. CASE v # w
      BY <1>c, <2>1, <3>2 DEF RootChosen, At
    <3> QED BY <3>1, <3>2
  <2> QED BY <2>2 DEF RootChosen, TopLevel, At
<1>5. Parentage'
  <2>1. ASSUME NEW r \in Run
        PROVE  IF run'[r].parent # NoRun
               THEN run'[r].root \in known' /\ run'[run'[r].root].parent = NoRun /\ run'[r].counted = {}
               ELSE run'[r].root \in {NoRun, r}
    <3>1. CASE r = x
      BY <1>b, <3>1
    <3>2. CASE r # x
      <4>1. TopLevel(run[r].root) => run[r].root \in known' /\ run'[run[r].root].parent = NoRun
        BY <1>f DEF TopLevel, TypeOK
      <4> QED BY <1>b, <3>2, <4>1 DEF Parentage
    <3> QED BY <3>1, <3>2
  <2> QED BY <2>1 DEF Parentage, TopLevel
<1>6. CopyAgrees'
  <2>1. ASSUME NEW v \in Worker, worker'[v].pc \in {"charge", "writeStatus"}
        PROVE  v # w /\ worker'[v] = worker[v] /\ Copying(v)
    BY <1>c, <1>d, <2>1 DEF Copying
  <2> QED BY <1>a, <1>b, <1>c, <2>1 DEF CopyAgrees, Copying, At, TypeOK
<1> QED BY <1>1, <1>2, <1>3, <1>4, <1>5, <1>6

LEMMA LineageStep == TypeOK /\ TypeOK' /\ Lineage /\ [Next]_vars => Lineage'
<1> SUFFICES ASSUME TypeOK, TypeOK', Lineage, [Next]_vars PROVE Lineage'
  OBVIOUS
<1> USE DEF Lineage
<1>1. ASSUME NEW w \in Worker, StampParentage(w)
      PROVE  Lineage'
  <2> DEFINE i == worker[w].id
             e == [run[i] EXCEPT !.parent = worker[w].parent, !.root = worker[w].root]
  <2>1. Creating(w) /\ i \in Run /\ At(w, "stamp")
    BY <1>1 DEF StampParentage, Creating, At, TypeOK
  <2>2. /\ run' = [run EXCEPT ![i] = e] /\ known' = known \cup {i}
        /\ worker' = [worker EXCEPT ![w] = Idle]
    BY <1>1, <2>1 DEF StampParentage, Become, TypeOK
  <2>3. e \in Record
    BY <2>1, <2>2 DEF TypeOK
  <2>4. /\ e.status = run[i].status /\ e.counted = run[i].counted
        /\ e.parent = worker[w].parent /\ e.root = worker[w].root
    BY <2>1 DEF TypeOK, Record
  <2>5. /\ run[i].status # Absent /\ run[i].counted = {}
        /\ worker[w].parent # NoRun /\ TopLevel(worker[w].root)
    BY <2>1 DEF CreatorAlone, RootChosen, At
  <2> HIDE DEF e
  <2> QED BY <2>1, <2>2, <2>3, <2>4, <2>5, WriteKeepsLineage
<1>2. ASSUME NEW w \in Worker, SetFailureBudget(w)
      PROVE  Lineage'
  <2> DEFINE i == worker[w].id
             e == [run[i] EXCEPT !.budget = worker[w].budget, !.root = i]
  <2>1. Creating(w) /\ i \in Run
    BY <1>2 DEF SetFailureBudget, Creating, At, TypeOK
  <2>2. /\ run' = [run EXCEPT ![i] = e] /\ known' = known \cup {i}
        /\ worker' = [worker EXCEPT ![w] = Idle]
    BY <1>2, <2>1 DEF SetFailureBudget, Become, TypeOK
  <2>3. e \in Record
    BY <2>1, <2>2 DEF TypeOK
  <2>4. e.status = run[i].status /\ e.parent = run[i].parent /\ e.root = i
    BY <2>1 DEF TypeOK, Record
  <2>5. run[i].status # Absent /\ run[i].parent = NoRun
    BY <2>1 DEF CreatorAlone
  <2> HIDE DEF e
  <2> QED BY <2>1, <2>2, <2>3, <2>4, <2>5, WriteKeepsLineage
<1>3. ASSUME NEW w \in Worker, WriteCharge(w)
      PROVE  Lineage'
  <2> DEFINE i == worker[w].id
             e == [run[i] EXCEPT !.used = worker[w].copy.used + 1,
                                 !.counted = worker[w].copy.counted \cup {worker[w].child}]
  <2>1. Copying(w) /\ i \in Run /\ At(w, "charge")
    BY <1>3 DEF WriteCharge, Copying, At, TypeOK
  <2>2. /\ run' = [run EXCEPT ![i] = e] /\ known' = known
        /\ worker' = [worker EXCEPT ![w] = Idle]
    BY <1>3, <2>1 DEF WriteCharge, Become, TypeOK, Charge
  <2>3. e \in Record
    BY <2>1, <2>2 DEF TypeOK
  <2>4. e.status = run[i].status /\ e.parent = run[i].parent /\ e.root = run[i].root
    BY <2>1 DEF TypeOK, Record
  <2>5. /\ i \in known /\ run[i].status # Absent /\ run[i].parent = NoRun
        /\ run[i].root \in {NoRun, i}
    BY <2>1 DEF CopyAgrees, KnownExists, Parentage
  <2> HIDE DEF e
  <2> QED BY <2>1, <2>2, <2>3, <2>4, <2>5, WriteKeepsLineage
<1>4. ASSUME NEW w \in Worker, WriteStatus(w)
      PROVE  Lineage'
  <2> DEFINE i == worker[w].id
             copy == worker[w].copy
             e == [copy EXCEPT !.status = worker[w].goal,
                     !.counted = IF copy.counted = {} THEN run[i].counted ELSE copy.counted]
  <2>1. Copying(w) /\ i \in Run
    BY <1>4 DEF WriteStatus, Copying, At, TypeOK
  <2>2. /\ run' = [run EXCEPT ![i] = e] /\ known' = known
        /\ worker' = [worker EXCEPT ![w] = Idle]
    BY <1>4, <2>1 DEF WriteStatus, Become
  <2>3. e \in Record
    BY <2>1, <2>2 DEF TypeOK
  <2>4. /\ copy \in Record /\ worker[w].goal \in RunStatus
    BY DEF TypeOK, Local
  <2>5. /\ e.status = worker[w].goal /\ e.parent = copy.parent /\ e.root = copy.root
        /\ e.counted = IF copy.counted = {} THEN run[i].counted ELSE copy.counted
    BY <2>4 DEF Record
  <2>6. worker[w].goal # Absent
    BY <2>4 DEF RunStatus, Absent
  <2>7. /\ i \in known /\ run[i].status # Absent
        /\ copy.parent = run[i].parent /\ copy.root = run[i].root
        /\ copy.parent # NoRun => copy.counted = {}
        /\ IF run[i].parent # NoRun
           THEN TopLevel(run[i].root) /\ run[i].counted = {}
           ELSE run[i].root \in {NoRun, i}
    BY <2>1 DEF CopyAgrees, KnownExists, Parentage
  <2> HIDE DEF e, copy
  <2> QED BY <2>1, <2>2, <2>3, <2>5, <2>6, <2>7, WriteKeepsLineage
<1>5. ASSUME NEW w \in Worker, MarkTimeoutPublished(w)
      PROVE  Lineage'
  <2> DEFINE i == worker[w].id
             e == [run[i] EXCEPT !.marked = TRUE]
  <2>1. i \in Run /\ At(w, "mark")
    BY <1>5 DEF MarkTimeoutPublished, At, TypeOK
  <2>2. /\ run' = [run EXCEPT ![i] = e] /\ known' = known
        /\ worker' = [worker EXCEPT ![w] = Idle]
    BY <1>5, <2>1 DEF MarkTimeoutPublished, Become, TypeOK
  <2>3. e \in Record
    BY <2>1, <2>2 DEF TypeOK
  <2>4. /\ e.status = run[i].status /\ e.parent = run[i].parent /\ e.root = run[i].root
        /\ e.counted = run[i].counted
    BY <2>1 DEF TypeOK, Record
  <2>5. /\ run[i].status # Absent
        /\ IF run[i].parent # NoRun
           THEN TopLevel(run[i].root) /\ run[i].counted = {}
           ELSE run[i].root \in {NoRun, i}
    BY <2>1 DEF KnownExists, Parentage
  <2> HIDE DEF e
  <2> QED BY <2>1, <2>2, <2>3, <2>4, <2>5, WriteKeepsLineage
<1>6. CASE UNCHANGED vars
  BY <1>6 DEF vars, KnownExists, AbsentIsBlank, CreatorAlone, Creating, RootChosen, Parentage,
    CopyAgrees, Copying, TopLevel, At
<1> QED BY <1>1, <1>2, <1>3, <1>4, <1>5, <1>6, ReadsKeepLineage, CreateKeepsLineage DEF Next

LEMMA LineageInit == Init => Lineage
BY DEF Init, Lineage, KnownExists, AbsentIsBlank, CreatorAlone, Creating, RootChosen, Parentage,
  CopyAgrees, Copying, At, Idle, Blank

LEMMA LineageHolds == Spec => []Lineage
BY TypeCorrect, LineageInit, LineageStep, PTL DEF Spec

(* The root of a recovery run is a top-level run whatever the generation,  *)
(* and only top-level runs are charged, for any number of runs and         *)
(* goroutines (CreateRecoveryWorkflowRun, IncrementFailureBudget).         *)
THEOREM RootsAreTopLevel == Spec => []LineageRooted
<1>1. TypeOK /\ Lineage => LineageRooted
  BY DEF TypeOK, Lineage, Parentage, TopLevel, KnownExists, LineageRooted
<1> QED BY <1>1, TypeCorrect, LineageHolds, PTL

-----------------------------------------------------------------------------
(* What was charged and timed out, as long as no stale copy was written    *)
(* over the run.                                                           *)
Charged(r) == {c \in Child : <<r, c>> \in admitted}

Even(r) ==
  /\ run[r].used = Cardinality(run[r].counted)
  /\ Charged(r) \subseteq run[r].counted
  /\ run[r].budget > 0 => Cardinality(Charged(r)) <= run[r].budget
  /\ timeouts[r] <= 1
  /\ ~run[r].marked => timeouts[r] = 0

OneSweeper ==
  \A w \in Worker : At(w, "mark") =>
    /\ \A v \in Worker : At(v, "mark") => v = w
    /\ worker[w].id \notin overtaken => ~run[worker[w].id].marked

Untouched ==
  \A r \in Run :
    /\ r \notin known => Charged(r) = {}
    /\ run[r].status = Absent => timeouts[r] = 0

Tally ==
  /\ OneSweeper /\ Untouched
  /\ \A r \in Run \ overtaken : Even(r)

(* A step that neither answers nor times out: what was charged to each run *)
(* and its mark stay, and only a run nobody knows gets a budget.           *)
LEMMA QuietKeepsTally ==
  ASSUME TypeOK, Tally, UNCHANGED history, known \subseteq known',
         NEW w \in Worker, \A v \in Worker \ {w} : worker'[v] = worker[v],
         worker'[w].pc = "mark" =>
           ~run[worker'[w].id].marked /\ \A v \in Worker : ~At(v, "mark"),
         \A v \in Worker : worker'[v].pc = "mark" => worker'[v].id \in Run,
         \A r \in Run :
           /\ run'[r].used = run[r].used /\ run'[r].counted = run[r].counted
           /\ run'[r].marked = run[r].marked
           /\ run'[r].status = Absent => run[r].status = Absent
           /\ run'[r].budget = run[r].budget \/ (r \notin known /\ run'[r].budget \in Nat)
  PROVE  Tally'
<1>1. UNCHANGED <<admitted, timeouts, overtaken>>
  BY DEF history
<1>2. \A r \in Run : Charged(r)' = Charged(r)
  BY <1>1 DEF Charged
<1>4. OneSweeper'
  <2>1. ASSUME NEW u \in Worker, worker'[u].pc = "mark"
        PROVE  /\ \A v \in Worker : worker'[v].pc = "mark" => v = u
               /\ worker'[u].id \notin overtaken => ~run[worker'[u].id].marked
    <3>1. CASE worker'[w].pc = "mark"
      BY <2>1, <3>1 DEF At
    <3>2. CASE worker'[w].pc # "mark"
      BY <2>1, <3>2 DEF Tally, OneSweeper, At
    <3> QED BY <3>1, <3>2
  <2>2. ASSUME NEW u \in Worker, worker'[u].pc = "mark", worker'[u].id \notin overtaken
        PROVE  ~run'[worker'[u].id].marked
    BY <2>1, <2>2
  <2> QED BY <1>1, <2>1, <2>2 DEF OneSweeper, At
<1>5. Untouched'
  BY <1>1, <1>2 DEF Untouched, Tally
<1>6. ASSUME NEW r \in Run \ overtaken
      PROVE  Even(r)'
  <2>1. Even(r)
    BY <1>6 DEF Tally
  <2>2. run'[r].budget > 0 => Cardinality(Charged(r)) <= run'[r].budget
    <3>1. CASE run'[r].budget = run[r].budget
      BY <2>1, <3>1 DEF Even
    <3>2. CASE r \notin known /\ run'[r].budget \in Nat
      <4>1. Charged(r) = {}
        BY <3>2 DEF Tally, Untouched
      <4>2. Cardinality(Charged(r)) = 0
        BY <4>1, FS_EmptySet
      <4> QED BY <3>2, <4>2
    <3> QED BY <1>6, <3>1, <3>2
  <2> QED BY <1>1, <1>2, <2>1, <2>2 DEF Even
<1> QED BY <1>1, <1>4, <1>5, <1>6 DEF Tally

(* What is answered as not exhausted is within the budget: the children    *)
(* that were admitted are among those recorded.                            *)
LEMMA WithinBudget ==
  ASSUME NEW C \in SUBSET Child, NEW D \in SUBSET C, NEW b \in Budget,
         ~ExhaustedAt(Cardinality(C), b)
  PROVE  b > 0 => Cardinality(D) <= b
<1>1. IsFiniteSet(C) /\ Cardinality(C) \in Nat /\ Cardinality(D) \in Nat
  BY ChildrenFinite
<1>2. Cardinality(D) <= Cardinality(C)
  BY <1>1, FS_Subset
<1>3. b > 0 => Cardinality(C) <= b
  BY <1>1 DEF ExhaustedAt
<1> QED BY <1>1, <1>2, <1>3

LEMMA TallyStep ==
  TypeOK /\ TypeOK' /\ Behind /\ Lineage /\ Lineage' /\ Tally /\ [Next]_vars => Tally'
<1> SUFFICES ASSUME TypeOK, TypeOK', Behind, Lineage, Lineage', Tally, [Next]_vars PROVE Tally'
  OBVIOUS
<1>a. \A v \in Worker : worker'[v].pc = "mark" => worker'[v].id \in Run
  BY DEF TypeOK
<1>1. ASSUME NEW w \in Worker,
             \/ \E n \in Name \cup {NoName}, b \in Budget : ReceiveCreate(w, n, b)
             \/ \E n \in Name \cup {NoName}, p \in Run : ReceiveRecovery(w, n, p)
             \/ LookUpName(w) \/ ReadBudget(w) \/ Refused(w)
             \/ \E x \in Run, s \in Goal : ReceiveStatus(w, x, s)
      PROVE  Tally'
  <2>1. UNCHANGED <<run, known, history>>
    BY <1>1 DEF ReceiveCreate, ReceiveRecovery, LookUpName, ReadBudget, Refused, ReceiveStatus
  <2>2. \A v \in Worker \ {w} : worker'[v] = worker[v]
    BY <1>1 DEF ReceiveCreate, ReceiveRecovery, LookUpName, ReadBudget, Refused, ReceiveStatus,
      Become, TypeOK
  <2>3. worker'[w].pc # "mark"
    <3>1. \A n \in Name \cup {NoName}, b \in Budget : ReceiveCreate(w, n, b) => worker'[w].pc # "mark"
      BY DEF ReceiveCreate, Become, TypeOK, Idle
    <3>2. \A n \in Name \cup {NoName}, p \in Run : ReceiveRecovery(w, n, p) => worker'[w].pc # "mark"
      BY DEF ReceiveRecovery, Become, TypeOK, Idle
    <3>3. LookUpName(w) \/ ReadBudget(w) => worker'[w].pc # "mark"
      BY DEF LookUpName, ReadBudget, Become, TypeOK, Local, Idle
    <3>4. Refused(w) => worker'[w].pc # "mark"
      BY DEF Refused, Become, TypeOK, Idle
    <3>5. \A x \in Run, s \in Goal : ReceiveStatus(w, x, s) => worker'[w].pc # "mark"
      BY DEF ReceiveStatus, Become, TypeOK, Idle
    <3> QED BY <1>1, <3>1, <3>2, <3>3, <3>4, <3>5
  <2>4. \A r \in Run : /\ run'[r].used = run[r].used /\ run'[r].counted = run[r].counted
                       /\ run'[r].marked = run[r].marked
                       /\ run'[r].status = Absent => run[r].status = Absent
                       /\ run'[r].budget = run[r].budget
    BY <2>1
  <2> QED BY <1>a, <2>1, <2>2, <2>3, <2>4, QuietKeepsTally
<1>2. ASSUME NEW w \in Worker, NEW x \in Run, ListStale(w, x)
      PROVE  Tally'
  <2>1. UNCHANGED <<run, known, history>> /\ ~run[x].marked /\ \A v \in Worker : ~At(v, "mark")
    BY <1>2 DEF ListStale
  <2>2. worker'[w].id = x /\ \A v \in Worker \ {w} : worker'[v] = worker[v]
    BY <1>2 DEF ListStale, Become, TypeOK, Idle
  <2>4. \A r \in Run : /\ run'[r].used = run[r].used /\ run'[r].counted = run[r].counted
                       /\ run'[r].marked = run[r].marked
                       /\ run'[r].status = Absent => run[r].status = Absent
                       /\ run'[r].budget = run[r].budget
    BY <2>1
  <2> QED BY <1>a, <2>1, <2>2, <2>4, QuietKeepsTally
<1>3. ASSUME NEW w \in Worker, NEW x \in Run, CreateRun(w, x)
      PROVE  Tally'
  <2>1. /\ UNCHANGED history /\ known \subseteq known'
        /\ \A v \in Worker \ {w} : worker'[v] = worker[v]
    BY <1>3 DEF CreateRun, Become, TypeOK
  <2>2. worker'[w].pc # "mark"
    <3>1. worker[w] \in Local
      BY DEF TypeOK
    <3> QED BY <1>3, <3>1 DEF CreateRun, Become, TypeOK, Local, Idle
  <2>3. run[x] = Blank /\ run' = [run EXCEPT ![x] = [Blank EXCEPT !.status = "pending", !.name = worker[w].name]]
    BY <1>3 DEF CreateRun, Lineage, AbsentIsBlank
  <2>4. /\ run'[x] = [Blank EXCEPT !.status = "pending", !.name = worker[w].name]
        /\ \A r \in Run \ {x} : run'[r] = run[r]
    BY <2>3 DEF TypeOK
  <2>5. \A r \in Run : /\ run'[r].used = run[r].used /\ run'[r].counted = run[r].counted
                       /\ run'[r].marked = run[r].marked
                       /\ run'[r].status = Absent => run[r].status = Absent
                       /\ run'[r].budget = run[r].budget
    <3>1. /\ run'[x].used = run[x].used /\ run'[x].counted = run[x].counted
          /\ run'[x].marked = run[x].marked /\ run'[x].budget = run[x].budget
          /\ run'[x].status # Absent
      <4>1. /\ Blank.used = 0 /\ Blank.counted = {} /\ Blank.budget = 0 /\ Blank.marked = FALSE
        BY DEF Blank
      <4>2. /\ run'[x].used = 0 /\ run'[x].counted = {} /\ run'[x].budget = 0
            /\ run'[x].marked = FALSE
        BY <2>4 DEF Blank
      <4>3. run'[x].status = "pending"
        BY <2>4 DEF Blank
      <4> QED BY <2>3, <4>1, <4>2, <4>3 DEF Absent
    <3> QED BY <2>4, <3>1
  <2> QED BY <1>a, <2>1, <2>2, <2>5, QuietKeepsTally
<1>4. ASSUME NEW w \in Worker, StampParentage(w) \/ SetFailureBudget(w)
      PROVE  Tally'
  <2>1. /\ UNCHANGED history /\ known \subseteq known'
        /\ \A v \in Worker \ {w} : worker'[v] = worker[v]
        /\ worker'[w].pc # "mark" /\ worker[w].id \in Run /\ Creating(w)
    BY <1>4 DEF StampParentage, SetFailureBudget, Become, TypeOK, Idle, At, Creating
  <2>2. worker[w].id \notin known
    BY <2>1 DEF Lineage, CreatorAlone
  <2>3. \A r \in Run : /\ run'[r].used = run[r].used /\ run'[r].counted = run[r].counted
                       /\ run'[r].marked = run[r].marked
                       /\ run'[r].status = Absent => run[r].status = Absent
                       /\ r # worker[w].id => run'[r].budget = run[r].budget
                       /\ run'[r].budget \in Nat
    <3>1. CASE StampParentage(w)
      BY <2>1, <3>1 DEF StampParentage, TypeOK, Record
    <3>2. CASE SetFailureBudget(w)
      BY <2>1, <3>2 DEF SetFailureBudget, TypeOK, Record, Local
    <3> QED BY <1>4, <3>1, <3>2
  <2> QED BY <1>a, <2>1, <2>2, <2>3, QuietKeepsTally
<1>5. CASE UNCHANGED vars
  BY <1>5 DEF vars, Tally, OneSweeper, Untouched, Even, Charged, At
<1>6. ASSUME NEW w \in Worker, NEW x \in Run, NEW c \in Child, ReceiveCharge(w, x, c)
      PROVE  Tally'
  <2>1. UNCHANGED <<run, known, timeouts, overtaken>> /\ x \in known
    BY <1>6 DEF ReceiveCharge
  <2>2. CASE UNCHANGED admitted
    <3>1. \A v \in Worker \ {w} : worker'[v] = worker[v]
      BY <1>6 DEF ReceiveCharge, Become, TypeOK
    <3>2. worker'[w].pc # "mark"
      <4>1. \/ Become(w, [Idle EXCEPT !.pc = "charge", !.id = x, !.child = c, !.copy = run[x]])
            \/ UNCHANGED worker /\ worker[w].pc = "idle"
        BY <1>6 DEF ReceiveCharge, At
      <4>2. CASE UNCHANGED worker /\ worker[w].pc = "idle"
        BY <4>2
      <4>3. CASE Become(w, [Idle EXCEPT !.pc = "charge", !.id = x, !.child = c, !.copy = run[x]])
        BY <4>3 DEF Become, TypeOK, Idle
      <4> QED BY <4>1, <4>2, <4>3
    <3>3. \A r \in Run : /\ run'[r].used = run[r].used /\ run'[r].counted = run[r].counted
                         /\ run'[r].marked = run[r].marked
                         /\ run'[r].status = Absent => run[r].status = Absent
                         /\ run'[r].budget = run[r].budget
      BY <2>1
    <3>4. UNCHANGED history
      BY <2>1, <2>2 DEF history
    <3> QED BY <1>a, <2>1, <3>1, <3>2, <3>3, <3>4, QuietKeepsTally
  <2>3. CASE ~(UNCHANGED admitted)
    <3>1. /\ c \in run[x].counted /\ ~ExhaustedAt(run[x].used, run[x].budget)
          /\ admitted' = admitted \cup {<<x, c>>} /\ UNCHANGED worker
      BY <1>6, <2>3 DEF ReceiveCharge, Answer
    <3>2. /\ Charged(x)' = Charged(x) \cup {c}
          /\ \A r \in Run \ {x} : Charged(r)' = Charged(r)
      BY <3>1 DEF Charged
    <3>3. OneSweeper'
      BY <2>1, <3>1 DEF Tally, OneSweeper, At
    <3>4. Untouched'
      BY <2>1, <3>2 DEF Tally, Untouched
    <3>5. ASSUME NEW r \in Run \ overtaken
          PROVE  Even(r)'
      <4>1. Even(r)
        BY <3>5 DEF Tally
      <4>2. CASE r = x
        <5>1. /\ run[x].counted \in SUBSET Child /\ run[x].used \in Nat /\ run[x].budget \in Budget
          BY DEF TypeOK, Record
        <5>2. /\ Charged(x)' \subseteq run[x].counted
              /\ run[x].budget > 0 => Cardinality(Charged(x)') <= run[x].budget
          <6>1. /\ run[x].used = Cardinality(run[x].counted)
                /\ Charged(x)' \in SUBSET run[x].counted
            BY <3>1, <3>2, <4>1, <4>2 DEF Even
          <6> QED BY <3>1, <5>1, <6>1, WithinBudget
        <5> QED BY <2>1, <4>1, <4>2, <5>2 DEF Even
      <4>3. CASE r # x
        BY <2>1, <3>2, <4>1, <4>3 DEF Even
      <4> QED BY <4>2, <4>3
    <3> QED BY <2>1, <3>3, <3>4, <3>5 DEF Tally
  <2> QED BY <2>2, <2>3
<1>7. ASSUME NEW w \in Worker, NEW i \in Run, i = worker[w].id, WriteCharge(w)
      PROVE  Tally'
  <2> DEFINE me == worker[w]
             C == me.copy.counted \cup {me.child}
  <2>1. /\ At(w, "charge") /\ i \in known /\ i \in Run /\ me.child \in Child
        /\ me.child \notin me.copy.counted /\ me.copy \in Record
    BY <1>7 DEF WriteCharge, At, TypeOK, Local, Lineage, CopyAgrees, Copying, Behind
  <2>2. /\ run'[i] = [run[i] EXCEPT !.used = me.copy.used + 1, !.counted = C]
        /\ \A r \in Run \ {i} : run'[r] = run[r]
        /\ known' = known /\ timeouts' = timeouts
        /\ overtaken' = IF run[i] = me.copy THEN overtaken ELSE overtaken \cup {i}
        /\ worker'[w] = Idle /\ \A v \in Worker \ {w} : worker'[v] = worker[v]
    BY <1>7, <2>1 DEF WriteCharge, TypeOK, Charge, Overtakes, Become
  <2>3. admitted' = IF ExhaustedAt(me.copy.used + 1, run[i].budget) THEN admitted
                    ELSE admitted \cup {<<i, me.child>>}
    BY <1>7 DEF WriteCharge, Answer, Charge
  <2>4. run[i] \in Record
    BY <2>1 DEF TypeOK
  <2>5. /\ run'[i].used = me.copy.used + 1 /\ run'[i].counted = C
        /\ run'[i].budget = run[i].budget /\ run'[i].status = run[i].status
    BY <2>2, <2>4 DEF Record
  <2>6. run'[i].marked = run[i].marked
    BY <2>2, <2>4 DEF Record
  <2>7. /\ \/ Charged(i)' = Charged(i)
           \/ /\ ~ExhaustedAt(me.copy.used + 1, run[i].budget)
              /\ Charged(i)' = Charged(i) \cup {me.child}
        /\ \A r \in Run \ {i} : Charged(r)' = Charged(r)
    <3>1. CASE admitted' = admitted
      BY <3>1 DEF Charged
    <3>2. CASE /\ ~ExhaustedAt(me.copy.used + 1, run[i].budget)
               /\ admitted' = admitted \cup {<<i, me.child>>}
      <4>1. \A r \in Run, c \in Child : <<r, c>> \in admitted' <=> <<r, c>> \in admitted \/ (r = i /\ c = me.child)
        BY <3>2
      <4> HIDE DEF me
      <4>2. Charged(i)' = Charged(i) \cup {me.child}
        BY <2>1, <4>1 DEF Charged
      <4>3. \A r \in Run \ {i} : Charged(r)' = Charged(r)
        BY <4>1 DEF Charged
      <4> QED BY <3>2, <4>2, <4>3
    <3> QED BY <2>3, <3>1, <3>2
  <2> HIDE DEF me
  <2>8. OneSweeper'
    <3>1. ASSUME NEW u \in Worker, worker'[u].pc = "mark"
          PROVE  /\ \A v \in Worker : worker'[v].pc = "mark" => v = u
                 /\ worker'[u].id \notin overtaken' => ~run'[worker'[u].id].marked
      <4>1. u # w /\ worker'[u] = worker[u] /\ At(u, "mark") /\ worker[u].id \in Run
        BY <2>2, <3>1 DEF Idle, At, TypeOK
      <4>2. \A v \in Worker : worker'[v].pc = "mark" => v = u
        BY <2>2, <4>1 DEF Tally, OneSweeper, At, Idle
      <4>3. worker[u].id \notin overtaken' => ~run[worker[u].id].marked
        BY <2>2, <4>1 DEF Tally, OneSweeper
      <4>4. run'[worker[u].id].marked = run[worker[u].id].marked
        BY <2>2, <2>6, <4>1
      <4> QED BY <4>1, <4>2, <4>3, <4>4
    <3> QED BY <3>1 DEF OneSweeper, At
  <2>9. Untouched'
    <3>1. ASSUME NEW r \in Run
          PROVE  /\ r \notin known => Charged(r)' = {}
                 /\ run'[r].status = Absent => timeouts[r] = 0
      <4>1. CASE r = i
        BY <2>1, <2>5, <4>1 DEF Tally, Untouched
      <4>2. CASE r # i
        BY <2>2, <2>7, <4>2 DEF Tally, Untouched
      <4> QED BY <4>1, <4>2
    <3> QED BY <2>2, <3>1 DEF Untouched
  <2>10. ASSUME NEW r \in Run \ overtaken'
         PROVE  Even(r)'
    <3>1. Even(r) /\ r \notin overtaken
      BY <2>2, <2>10 DEF Tally
    <3>2. CASE r = i
      <4>1. me.copy = run[i]
        BY <2>2, <2>10, <3>2
      <4>2. /\ run[i].counted \in SUBSET Child /\ run[i].used \in Nat /\ run[i].budget \in Budget
        BY <2>4 DEF Record
      <4>3. /\ C \in SUBSET Child /\ me.child \in C /\ me.copy.used + 1 \in Nat
            /\ me.copy.used + 1 = Cardinality(C) /\ Charged(i) \subseteq C
            /\ run[i].budget > 0 => Cardinality(Charged(i)) <= run[i].budget
        BY <2>1, <3>1, <3>2, <4>1, <4>2, ChildrenFinite DEF Even
      <4>4. /\ Charged(i)' \subseteq C
            /\ run[i].budget > 0 => Cardinality(Charged(i)') <= run[i].budget
        <5> HIDE DEF C
        <5>1. Charged(i)' \in SUBSET C
          BY <2>7, <4>3
        <5>2. CASE Charged(i)' = Charged(i)
          BY <4>3, <5>1, <5>2
        <5>3. CASE ~ExhaustedAt(me.copy.used + 1, run[i].budget)
          BY <4>2, <4>3, <5>1, <5>3, WithinBudget
        <5> QED BY <2>7, <5>1, <5>2, <5>3
      <4>5. timeouts'[i] <= 1 /\ (~run'[i].marked => timeouts'[i] = 0)
        BY <2>2, <2>6, <3>1, <3>2 DEF Even
      <4> QED BY <2>5, <3>2, <4>3, <4>4, <4>5 DEF Even
    <3>3. CASE r # i
      BY <2>2, <2>7, <3>1, <3>3 DEF Even
    <3> QED BY <3>2, <3>3
  <2> QED BY <2>8, <2>9, <2>10 DEF Tally
<1>8. ASSUME NEW w \in Worker, NEW i \in Run, i = worker[w].id, WriteStatus(w)
      PROVE  Tally'
  <2> DEFINE me == worker[w]
  <2>1. /\ i \in known /\ i \in Run /\ me.copy \in Record /\ me.goal \in RunStatus
    BY <1>8 DEF WriteStatus, At, TypeOK, Local, Lineage, CopyAgrees, Copying
  <2>2. /\ run' = [run EXCEPT ![i] = [me.copy EXCEPT !.status = me.goal,
                      !.counted = IF me.copy.counted = {} THEN run[i].counted ELSE me.copy.counted]]
        /\ known' = known /\ timeouts' = timeouts /\ admitted' = admitted
        /\ overtaken' = IF run[i] = me.copy THEN overtaken ELSE overtaken \cup {i}
        /\ worker'[w] = Idle /\ \A v \in Worker \ {w} : worker'[v] = worker[v]
    BY <1>8, <2>1 DEF WriteStatus, TypeOK, Overtakes, Become
  <2>3. /\ \A r \in Run \ {i} : run'[r] = run[r]
        /\ run'[i].used = me.copy.used /\ run'[i].budget = me.copy.budget
        /\ run'[i].counted = IF me.copy.counted = {} THEN run[i].counted ELSE me.copy.counted
    BY <2>1, <2>2 DEF TypeOK, Record
  <2>4. run'[i].marked = me.copy.marked
    BY <2>1, <2>2 DEF TypeOK, Record
  <2>5. i \notin overtaken' =>
          /\ run'[i].used = run[i].used /\ run'[i].budget = run[i].budget
          /\ run'[i].counted = run[i].counted /\ run'[i].marked = run[i].marked
    BY <2>2, <2>3, <2>4
  <2>6. \A r \in Run : Charged(r)' = Charged(r)
    BY <2>2 DEF Charged
  <2> HIDE DEF me
  <2>8. OneSweeper'
    <3>1. ASSUME NEW u \in Worker, worker'[u].pc = "mark"
          PROVE  /\ \A v \in Worker : worker'[v].pc = "mark" => v = u
                 /\ worker'[u].id \notin overtaken' => ~run'[worker'[u].id].marked
      <4>1. u # w /\ worker'[u] = worker[u] /\ At(u, "mark") /\ worker[u].id \in Run
        BY <2>2, <3>1 DEF Idle, At, TypeOK
      <4>2. \A v \in Worker : worker'[v].pc = "mark" => v = u
        BY <2>2, <4>1 DEF Tally, OneSweeper, At, Idle
      <4>3. worker[u].id \notin overtaken' => ~run[worker[u].id].marked
        BY <2>2, <4>1 DEF Tally, OneSweeper
      <4>4. worker[u].id \notin overtaken' => run'[worker[u].id].marked = run[worker[u].id].marked
        BY <2>3, <2>5, <4>1
      <4> QED BY <4>1, <4>2, <4>3, <4>4
    <3> QED BY <3>1 DEF OneSweeper, At
  <2>9. Untouched'
    BY <2>1, <2>2, <2>3, <2>6 DEF Tally, Untouched, Lineage, KnownExists
  <2>10. ASSUME NEW r \in Run \ overtaken'
         PROVE  Even(r)'
    <3>1. Even(r)
      BY <2>2, <2>10 DEF Tally
    <3>2. /\ run'[r].used = run[r].used /\ run'[r].budget = run[r].budget
          /\ run'[r].counted = run[r].counted /\ run'[r].marked = run[r].marked
      BY <2>3, <2>5, <2>10
    <3> QED BY <2>2, <2>6, <3>1, <3>2 DEF Even
  <2> QED BY <2>8, <2>9, <2>10 DEF Tally
<1>9. ASSUME NEW w \in Worker, NEW i \in Run, i = worker[w].id, MarkTimeoutPublished(w)
      PROVE  Tally'
  <2>1. i \in Run /\ At(w, "mark") /\ run[i].status # Absent
    BY <1>9 DEF MarkTimeoutPublished, At, TypeOK, Lineage, KnownExists
  <2>2. /\ run'[i] = [run[i] EXCEPT !.marked = TRUE]
        /\ \A r \in Run \ {i} : run'[r] = run[r] /\ timeouts'[r] = timeouts[r]
        /\ timeouts'[i] = timeouts[i] + 1
        /\ UNCHANGED <<known, admitted, overtaken>>
        /\ worker'[w] = Idle /\ \A v \in Worker \ {w} : worker'[v] = worker[v]
    BY <1>9, <2>1 DEF MarkTimeoutPublished, TypeOK, Become
  <2>3. /\ run'[i].used = run[i].used /\ run'[i].counted = run[i].counted
        /\ run'[i].budget = run[i].budget /\ run'[i].status = run[i].status
    BY <2>1, <2>2 DEF TypeOK, Record
  <2>4. run'[i].marked
    BY <2>1, <2>2 DEF TypeOK, Record
  <2>5. \A r \in Run : Charged(r)' = Charged(r)
    BY <2>2 DEF Charged
  <2>6. OneSweeper'
    <3>1. \A v \in Worker : worker'[v].pc # "mark"
      BY <2>1, <2>2 DEF Tally, OneSweeper, Idle, At
    <3> QED BY <3>1 DEF OneSweeper, At
  <2>7. Untouched'
    BY <2>1, <2>2, <2>3, <2>5 DEF Tally, Untouched
  <2>8. ASSUME NEW r \in Run \ overtaken
        PROVE  Even(r)'
    <3>1. Even(r)
      BY <2>8 DEF Tally
    <3>2. CASE r = i
      <4>1. ~run[i].marked
        BY <1>9, <2>1, <2>8, <3>2 DEF Tally, OneSweeper
      <4>2. timeouts[i] = 0
        BY <3>1, <3>2, <4>1 DEF Even
      <4>3. timeouts'[i] <= 1
        BY <2>2, <4>2
      <4>4. /\ run'[i].used = Cardinality(run'[i].counted) /\ Charged(i)' \subseteq run'[i].counted
            /\ run'[i].budget > 0 => Cardinality(Charged(i)') <= run'[i].budget
        BY <2>1, <2>3, <2>5, <3>1, <3>2 DEF Even
      <4> QED BY <2>4, <3>2, <4>3, <4>4 DEF Even
    <3>3. CASE r # i
      BY <2>2, <2>5, <3>1, <3>3 DEF Even
    <3> QED BY <3>2, <3>3
  <2> QED BY <2>2, <2>6, <2>7, <2>8 DEF Tally
<1>b. \A w \in Worker : WriteCharge(w) \/ WriteStatus(w) \/ MarkTimeoutPublished(w)
                          => worker[w].id \in Run
  BY DEF WriteCharge, WriteStatus, MarkTimeoutPublished, At, TypeOK
<1> QED BY <1>b, <1>1, <1>2, <1>3, <1>4, <1>5, <1>6, <1>7, <1>8, <1>9 DEF Next

LEMMA TallyInit == Init => Tally
<1> SUFFICES ASSUME Init PROVE Tally
  OBVIOUS
<1>1. \A r \in Run : Charged(r) = {} /\ timeouts[r] = 0
  BY DEF Init, Charged
<1>2. \A r \in Run : run[r].used = 0 /\ run[r].counted = {} /\ run[r].budget = 0
  BY DEF Init, Blank
<1>3. ASSUME NEW r \in Run PROVE Even(r)
  <2>1. run[r].used = Cardinality(run[r].counted)
    BY <1>2, FS_EmptySet
  <2>2. ~(run[r].budget > 0)
    BY <1>2
  <2> QED BY <1>1, <2>1, <2>2 DEF Even
<1>4. OneSweeper
  BY DEF Init, OneSweeper, At, Idle
<1> QED BY <1>1, <1>3, <1>4 DEF Tally, Untouched

LEMMA TallyHolds == Spec => []Tally
BY TypeCorrect, BehindHolds, LineageHolds, TallyInit, TallyStep, PTL DEF Spec

(* As long as no stale copy was written over a root, its counter is exact  *)
(* and it admits no more recoveries than its budget, for any budget and    *)
(* any number of children and goroutines (IncrementFailureBudget).         *)
THEOREM OverrunNeedsStaleWrite == Spec => []OverrunOnlyIfOvertaken
<1>1. Tally => OverrunOnlyIfOvertaken
  BY DEF Tally, Even, Charged, OverrunOnlyIfOvertaken
<1> QED BY <1>1, TallyHolds, PTL

(* As long as no stale copy was written over a run, its timeout is         *)
(* published at most once (MarkTimeoutPublished).                          *)
THEOREM TimesOutOnce == Spec => []TimedOutOnce
<1>1. Tally => TimedOutOnce
  BY DEF Tally, Even, TimedOutOnce
<1> QED BY <1>1, TallyHolds, PTL

-----------------------------------------------------------------------------
(* Import jobs.                                                            *)

Written(j, n) == \A k \in 1..n : Plan[k] \in made[j]

JobsTyped ==
  /\ status \in [Job -> Status] /\ made \in [Job -> SUBSET {Plan[n] : n \in Nat}]
  /\ runner \in [Job -> [pc : {"off", "mark", "build", "fail", "stop"}, next : Nat]]
  /\ cancel \in [Job -> {"idle", "signal", "write"}]
  /\ caller \in [Job -> {"none", "polling", "gone"} \cup Terminal]

(* The goroutine has written the plan up to where it is, and one that has  *)
(* written the last piece, or its caller, says completed.                  *)
Advancing ==
  \A j \in Job :
    /\ RunnerAt(j, "mark") => runner[j].next = 1
    /\ RunnerAt(j, "build") => runner[j].next >= 1 /\ Written(j, runner[j].next - 1)
    /\ status[j] = "completed" \/ caller[j] = "completed" => Written(j, Len(Plan))

(* The goroutine of a job that is noted as cancelled, or about to be, has  *)
(* its context ended.                                                      *)
Stopping ==
  \A j \in Job :
    /\ ~RunnerAt(j, "off") => j \in entry
    /\ status[j] = "cancelled" \/ cancel[j] = "write" => RunnerAt(j, "off") \/ j \in dead
    /\ cancel[j] # "idle" => status[j] # "none"

LEMMA CompleteStays ==
  ASSUME NEW A, NEW B, A \subseteq B, Complete(A)
  PROVE  Complete(B)
BY DEF Complete

(* Off, and where a goroutine goes.                                        *)
LEMMA Returns ==
  ASSUME JobsTyped, NEW j \in Job, Return(j)
  PROVE  /\ runner' \in [Job -> [pc : {"off", "mark", "build", "fail", "stop"}, next : Nat]]
         /\ runner'[j].pc = "off" /\ \A i \in Job \ {j} : runner'[i] = runner[i]
         /\ entry' = entry \ {j}
BY DEF JobsTyped, Return, Off

LEMMA RunnerGoes ==
  ASSUME JobsTyped, NEW j \in Job, NEW pc \in {"off", "mark", "build", "fail", "stop"}, Goto(j, pc)
  PROVE  /\ runner' \in [Job -> [pc : {"off", "mark", "build", "fail", "stop"}, next : Nat]]
         /\ runner'[j].pc = pc /\ runner'[j].next = runner[j].next
         /\ \A i \in Job \ {j} : runner'[i] = runner[i]
BY DEF JobsTyped, Goto

LEMMA Sets ==
  ASSUME JobsTyped, NEW j \in Job, NEW s \in Status, SetStatus(j, s)
  PROVE  /\ status' \in [Job -> Status] /\ status'[j] = s
         /\ \A i \in Job \ {j} : status'[i] = status[i]
BY DEF JobsTyped, SetStatus

(* A step of one job leaves the others as they were.                       *)
LEMMA OthersAdvance ==
  ASSUME Advancing, NEW i \in Job, runner'[i] = runner[i], status'[i] = status[i],
         made'[i] = made[i], caller'[i] = caller[i]
  PROVE  /\ RunnerAt(i, "mark")' => runner'[i].next = 1
         /\ RunnerAt(i, "build")' => runner'[i].next >= 1 /\ Written(i, runner[i].next - 1)'
         /\ status'[i] = "completed" \/ caller'[i] = "completed" => Written(i, Len(Plan))'
BY DEF Advancing, RunnerAt, Written

LEMMA OthersStop ==
  ASSUME Stopping, NEW i \in Job, runner'[i] = runner[i], status'[i] = status[i],
         cancel'[i] = cancel[i], i \in entry => i \in entry', i \in dead => i \in dead'
  PROVE  /\ ~RunnerAt(i, "off")' => i \in entry'
         /\ status'[i] = "cancelled" \/ cancel'[i] = "write" => RunnerAt(i, "off")' \/ i \in dead'
         /\ cancel'[i] # "idle" => status'[i] # "none"
BY DEF Stopping, RunnerAt

LEMMA TypedStays ==
  ASSUME JobsTyped, [ImportNext]_importVars
  PROVE  JobsTyped'
<1>1. ASSUME NEW j \in Job, StartImportProject(j) PROVE JobsTyped'
  <2>1. /\ status' = [status EXCEPT ![j] = "pending"]
        /\ runner' = [runner EXCEPT ![j] = [pc |-> "mark", next |-> 1]]
        /\ \E c \in {"none", "polling"} : caller' = [caller EXCEPT ![j] = c]
        /\ UNCHANGED <<made, cancel>>
    BY <1>1 DEF StartImportProject, SetStatus
  <2> QED BY <2>1 DEF JobsTyped, Status
<1>2. ASSUME NEW j \in Job, Poll(j) \/ CallerLeaves(j) PROVE JobsTyped'
  BY <1>2 DEF JobsTyped, Poll, CallerLeaves
<1>3. ASSUME NEW j \in Job, MarkRunning(j) \/ BuildDead(j) \/ BuildRefused(j) PROVE JobsTyped'
  <2>1. UNCHANGED <<made, cancel, caller>> /\ (status' = status \/ SetStatus(j, "running"))
    BY <1>3 DEF MarkRunning, BuildDead, BuildRefused
  <2>2. \E pc \in {"build", "stop", "fail"} : Goto(j, pc)
    BY <1>3 DEF MarkRunning, BuildDead, BuildRefused
  <2>3. status' \in [Job -> Status]
    BY <2>1, Sets DEF JobsTyped, Status
  <2>4. runner' \in [Job -> [pc : {"off", "mark", "build", "fail", "stop"}, next : Nat]]
    BY <2>2, RunnerGoes
  <2> QED BY <2>1, <2>3, <2>4 DEF JobsTyped
<1>4. ASSUME NEW j \in Job, MarkDead(j) \/ Fail(j) \/ Stop(j) \/ Finish(j) \/ StatusRefused(j)
      PROVE  JobsTyped'
  <2>1. /\ Return(j) /\ UNCHANGED <<made, cancel, caller>>
        /\ status' = status \/ \E s \in {"failed", "cancelled", "completed"} : SetStatus(j, s)
    BY <1>4 DEF MarkDead, Fail, Stop, End, Finish, StatusRefused
  <2>2. status' \in [Job -> Status]
    BY <2>1, Sets DEF JobsTyped, Status, Terminal
  <2>3. runner' \in [Job -> [pc : {"off", "mark", "build", "fail", "stop"}, next : Nat]]
    BY <2>1, Returns
  <2> QED BY <2>1, <2>2, <2>3 DEF JobsTyped
<1>5. ASSUME NEW j \in Job, Build(j) PROVE JobsTyped'
  <2>1. /\ made' = [made EXCEPT ![j] = @ \cup {Plan[runner[j].next]}]
        /\ runner' = [runner EXCEPT ![j].next = @ + 1] /\ UNCHANGED <<status, cancel, caller>>
    BY <1>5 DEF Build, NextPiece
  <2>2. Plan[runner[j].next] \in {Plan[n] : n \in Nat}
    BY DEF JobsTyped
  <2>3. made' \in [Job -> SUBSET {Plan[n] : n \in Nat}]
    BY <2>1, <2>2 DEF JobsTyped
  <2> QED BY <2>1, <2>3 DEF JobsTyped
<1>6. ASSUME NEW j \in Job,
             ReceiveCancel(j) \/ Signal(j) \/ WriteCancelled(j) \/ CancelRefused(j)
      PROVE  JobsTyped'
  BY <1>6 DEF JobsTyped, ReceiveCancel, Signal, WriteCancelled, CancelRefused, SetStatus, Status,
    Terminal
<1>7. ASSUME Crash PROVE JobsTyped'
  <2>1. /\ runner' = [j \in Job |-> Off] /\ cancel' = [j \in Job |-> "idle"]
        /\ caller' = [j \in Job |-> IF caller[j] = "polling" THEN "gone" ELSE caller[j]]
        /\ UNCHANGED <<status, made>>
    BY <1>7 DEF Crash
  <2> QED BY <2>1 DEF JobsTyped, Off
<1>8. ASSUME UNCHANGED importVars PROVE JobsTyped'
  BY <1>8 DEF JobsTyped, importVars
<1> QED BY <1>1, <1>2, <1>3, <1>4, <1>5, <1>6, <1>7, <1>8 DEF ImportNext, RunStep, CancelStep

LEMMA AdvancingStays ==
  ASSUME Len(Plan) \in Nat, JobsTyped, Advancing, [ImportNext]_importVars
  PROVE  Advancing'
<1> DEFINE Advanced(i) ==
      /\ RunnerAt(i, "mark") => runner[i].next = 1
      /\ RunnerAt(i, "build") => runner[i].next >= 1 /\ Written(i, runner[i].next - 1)
      /\ status[i] = "completed" \/ caller[i] = "completed" => Written(i, Len(Plan))
<1>1. ASSUME NEW j \in Job, Advanced(j)',
             \A i \in Job \ {j} :
               runner'[i] = runner[i] /\ status'[i] = status[i] /\ made'[i] = made[i]
                 /\ caller'[i] = caller[i]
      PROVE  Advancing'
  <2>1. ASSUME NEW i \in Job \ {j} PROVE Advanced(i)'
    BY <1>1, OthersAdvance DEF Written
  <2> QED BY <1>1, <2>1 DEF Advancing
<1>2. \A i \in Job : Advanced(i)
  BY DEF Advancing
<1>3. ASSUME NEW j \in Job, StartImportProject(j) PROVE Advancing'
  <2>1. /\ status' = [status EXCEPT ![j] = "pending"] /\ made' = made
        /\ runner' = [runner EXCEPT ![j] = [pc |-> "mark", next |-> 1]]
        /\ \E c \in {"none", "polling"} : caller' = [caller EXCEPT ![j] = c]
    BY <1>3 DEF StartImportProject, SetStatus
  <2>2. /\ status'[j] = "pending" /\ runner'[j].pc = "mark" /\ runner'[j].next = 1
        /\ caller'[j] \in {"none", "polling"}
        /\ \A i \in Job \ {j} :
             runner'[i] = runner[i] /\ status'[i] = status[i] /\ made'[i] = made[i]
               /\ caller'[i] = caller[i]
    BY <2>1 DEF JobsTyped
  <2>3. Advanced(j)'
    BY <2>2 DEF RunnerAt
  <2> QED BY <2>2, <2>3, <1>1
<1>4. ASSUME NEW j \in Job, Poll(j) \/ CallerLeaves(j) PROVE Advancing'
  <2>1. /\ UNCHANGED <<status, made, runner>> /\ caller'[j] \in {"gone", status[j]}
        /\ \A i \in Job \ {j} : caller'[i] = caller[i]
    BY <1>4 DEF JobsTyped, Poll, CallerLeaves
  <2>2. Advanced(j)'
    BY <1>2, <2>1 DEF RunnerAt, Written
  <2> QED BY <2>1, <2>2, <1>1
<1>5. ASSUME NEW j \in Job, MarkRunning(j) PROVE Advancing'
  <2>1. SetStatus(j, "running") /\ Goto(j, "build") /\ UNCHANGED <<made, caller>>
          /\ RunnerAt(j, "mark")
    BY <1>5 DEF MarkRunning
  <2>2. /\ runner'[j].pc = "build" /\ runner'[j].next = 1 /\ status'[j] = "running"
        /\ \A i \in Job \ {j} : runner'[i] = runner[i] /\ status'[i] = status[i]
    BY <1>2, <2>1, RunnerGoes, Sets DEF Status
  <2>3. Advanced(j)'
    BY <1>2, <2>1, <2>2 DEF RunnerAt, Written
  <2> QED BY <2>1, <2>2, <2>3, <1>1
<1>6. ASSUME NEW j \in Job, BuildDead(j) \/ BuildRefused(j) PROVE Advancing'
  <2>1. UNCHANGED <<status, made, caller>> /\ \E pc \in {"stop", "fail"} : Goto(j, pc)
    BY <1>6 DEF BuildDead, BuildRefused
  <2>2. /\ runner'[j].pc \in {"stop", "fail"} /\ \A i \in Job \ {j} : runner'[i] = runner[i]
    BY <2>1, RunnerGoes
  <2>3. Advanced(j)'
    BY <1>2, <2>1, <2>2 DEF RunnerAt, Written
  <2> QED BY <2>1, <2>2, <2>3, <1>1
<1>7. ASSUME NEW j \in Job, MarkDead(j) \/ Fail(j) \/ Stop(j) \/ StatusRefused(j) PROVE Advancing'
  <2>1. /\ Return(j) /\ UNCHANGED <<made, caller>>
        /\ status' = status \/ \E s \in {"failed", "cancelled"} : SetStatus(j, s)
    BY <1>7 DEF MarkDead, Fail, Stop, End, StatusRefused
  <2>2. /\ runner'[j].pc = "off" /\ \A i \in Job \ {j} : runner'[i] = runner[i]
             /\ status'[i] = status[i]
        /\ status'[j] \in {status[j], "failed", "cancelled"}
    BY <2>1, Returns, Sets DEF Status, Terminal
  <2>3. Advanced(j)'
    BY <1>2, <2>1, <2>2 DEF RunnerAt, Written
  <2> QED BY <2>1, <2>2, <2>3, <1>1
<1>8. ASSUME NEW j \in Job, Finish(j) PROVE Advancing'
  <2>1. /\ Return(j) /\ SetStatus(j, "completed") /\ UNCHANGED <<made, caller>>
        /\ RunnerAt(j, "build") /\ ~(runner[j].next <= Len(Plan))
    BY <1>8 DEF Finish, Building
  <2>2. /\ runner'[j].pc = "off" /\ \A i \in Job \ {j} : runner'[i] = runner[i]
             /\ status'[i] = status[i]
    BY <2>1, Returns, Sets DEF Status, Terminal
  <2>3. runner[j].next \in Nat
    BY DEF JobsTyped
  <2>4. Written(j, Len(Plan))
    BY <1>2, <2>1, <2>3 DEF Written
  <2>5. Advanced(j)'
    BY <2>1, <2>2, <2>4 DEF RunnerAt, Written
  <2> QED BY <2>1, <2>2, <2>5, <1>1
<1>9. ASSUME NEW j \in Job, Build(j) PROVE Advancing'
  <2> DEFINE n == runner[j].next
  <2>1. /\ made' = [made EXCEPT ![j] = @ \cup {Plan[n]}] /\ RunnerAt(j, "build")
        /\ runner' = [runner EXCEPT ![j].next = @ + 1] /\ UNCHANGED <<status, caller>>
    BY <1>9 DEF Build, NextPiece, Building
  <2>2. n \in Nat /\ n >= 1 /\ Written(j, n - 1)
    BY <1>2, <2>1 DEF JobsTyped
  <2>3. /\ runner'[j].pc = "build" /\ runner'[j].next = n + 1
        /\ made'[j] = made[j] \cup {Plan[n]}
        /\ \A i \in Job \ {j} : runner'[i] = runner[i] /\ made'[i] = made[i]
    BY <2>1 DEF JobsTyped, RunnerAt
  <2> HIDE DEF n
  <2>4. \A k \in 1..n : Plan[k] \in made'[j]
    BY <2>2, <2>3 DEF Written
  <2>5. runner'[j].next - 1 = n
    BY <2>2, <2>3
  <2>6. Advanced(j)'
    BY <1>2, <2>1, <2>2, <2>3, <2>4, <2>5 DEF RunnerAt, Written
  <2> QED BY <2>1, <2>3, <2>6, <1>1
<1>10. ASSUME NEW j \in Job, ReceiveCancel(j) \/ Signal(j) \/ CancelRefused(j) PROVE Advancing'
  <2>1. UNCHANGED <<status, made, runner, caller>>
    BY <1>10 DEF ReceiveCancel, Signal, CancelRefused
  <2> QED BY <2>1 DEF Advancing, RunnerAt, Written
<1>11. ASSUME NEW j \in Job, WriteCancelled(j) PROVE Advancing'
  <2>1. SetStatus(j, "cancelled") /\ UNCHANGED <<made, runner, caller>>
    BY <1>11 DEF WriteCancelled
  <2>2. status'[j] = "cancelled" /\ \A i \in Job \ {j} : status'[i] = status[i]
    BY <2>1, Sets DEF Status, Terminal
  <2>3. Advanced(j)'
    BY <1>2, <2>1, <2>2 DEF RunnerAt, Written
  <2> QED BY <2>1, <2>2, <2>3, <1>1
<1>12. ASSUME Crash PROVE Advancing'
  <2>1. /\ runner' = [j \in Job |-> Off] /\ UNCHANGED <<status, made>>
        /\ caller' = [j \in Job |-> IF caller[j] = "polling" THEN "gone" ELSE caller[j]]
    BY <1>12 DEF Crash
  <2>2. ASSUME NEW i \in Job PROVE Advanced(i)'
    <3>1. runner'[i].pc = "off" /\ (caller'[i] = "completed" => caller[i] = "completed")
      BY <2>1 DEF Off
    <3> QED BY <1>2, <2>1, <3>1 DEF RunnerAt, Written
  <2> QED BY <2>2 DEF Advancing
<1>13. ASSUME UNCHANGED importVars PROVE Advancing'
  BY <1>13 DEF Advancing, RunnerAt, Written, importVars
<1> QED
  BY <1>3, <1>4, <1>5, <1>6, <1>7, <1>8, <1>9, <1>10, <1>11, <1>12, <1>13 DEF ImportNext, RunStep,
    CancelStep

LEMMA StoppingStays ==
  ASSUME JobsTyped, Stopping, [ImportNext]_importVars
  PROVE  Stopping'
<1> DEFINE Stopped(i) ==
      /\ ~RunnerAt(i, "off") => i \in entry
      /\ status[i] = "cancelled" \/ cancel[i] = "write" => RunnerAt(i, "off") \/ i \in dead
      /\ cancel[i] # "idle" => status[i] # "none"
<1>1. ASSUME NEW j \in Job, Stopped(j)',
             \A i \in Job \ {j} :
               /\ runner'[i] = runner[i] /\ status'[i] = status[i] /\ cancel'[i] = cancel[i]
               /\ (i \in entry => i \in entry') /\ (i \in dead => i \in dead')
      PROVE  Stopping'
  <2>1. ASSUME NEW i \in Job \ {j} PROVE Stopped(i)'
    BY <1>1, OthersStop
  <2> QED BY <1>1, <2>1 DEF Stopping
<1>2. \A i \in Job : Stopped(i)
  BY DEF Stopping
<1>3. ASSUME NEW j \in Job, StartImportProject(j) PROVE Stopping'
  <2>1. /\ status[j] = "none" /\ status' = [status EXCEPT ![j] = "pending"]
        /\ runner' = [runner EXCEPT ![j] = [pc |-> "mark", next |-> 1]]
        /\ entry' = entry \cup {j} /\ UNCHANGED <<dead, cancel>>
    BY <1>3 DEF StartImportProject, SetStatus
  <2>2. /\ status'[j] = "pending" /\ \A i \in Job \ {j} : runner'[i] = runner[i]
             /\ status'[i] = status[i]
    BY <2>1 DEF JobsTyped
  <2>3. cancel[j] = "idle"
    BY <1>2, <2>1
  <2>4. Stopped(j)'
    BY <2>1, <2>2, <2>3 DEF RunnerAt
  <2> QED BY <2>1, <2>2, <2>4, <1>1
<1>4. ASSUME NEW j \in Job, Poll(j) \/ CallerLeaves(j) PROVE Stopping'
  BY <1>4 DEF Stopping, RunnerAt, Poll, CallerLeaves
<1>5. ASSUME NEW j \in Job, MarkRunning(j) PROVE Stopping'
  <2>1. /\ SetStatus(j, "running") /\ Goto(j, "build") /\ UNCHANGED <<entry, dead, cancel>>
        /\ RunnerAt(j, "mark") /\ j \notin dead
    BY <1>5 DEF MarkRunning
  <2>2. /\ status'[j] = "running" /\ j \in entry /\ cancel[j] # "write"
        /\ \A i \in Job \ {j} : runner'[i] = runner[i] /\ status'[i] = status[i]
    BY <1>2, <2>1, RunnerGoes, Sets DEF Status, RunnerAt
  <2>3. Stopped(j)'
    BY <2>1, <2>2 DEF RunnerAt
  <2> QED BY <2>1, <2>2, <2>3, <1>1
<1>6. ASSUME NEW j \in Job, Build(j) \/ BuildDead(j) \/ BuildRefused(j) PROVE Stopping'
  <2>1. UNCHANGED <<status, entry, dead, cancel>> /\ RunnerAt(j, "build")
    BY <1>6 DEF Build, BuildDead, BuildRefused, Building
  <2>2. \A i \in Job \ {j} : runner'[i] = runner[i]
    BY <1>6, RunnerGoes DEF Build, BuildDead, BuildRefused, JobsTyped
  <2>3. Stopped(j)'
    BY <1>2, <2>1 DEF RunnerAt
  <2> QED BY <2>1, <2>2, <2>3, <1>1
<1>7. ASSUME NEW j \in Job, MarkDead(j) \/ Fail(j) \/ Stop(j) \/ Finish(j) \/ StatusRefused(j)
      PROVE  Stopping'
  <2>1. /\ Return(j) /\ UNCHANGED <<dead, cancel>>
        /\ status' = status \/ \E s \in {"failed", "cancelled", "completed"} : SetStatus(j, s)
    BY <1>7 DEF MarkDead, Fail, Stop, End, Finish, StatusRefused
  <2>2. /\ runner'[j].pc = "off" /\ entry' = entry \ {j}
        /\ \A i \in Job \ {j} : runner'[i] = runner[i] /\ status'[i] = status[i]
        /\ status'[j] \in {status[j], "failed", "cancelled", "completed"}
    BY <2>1, Returns, Sets DEF Status, Terminal
  <2>3. Stopped(j)'
    BY <1>2, <2>1, <2>2 DEF RunnerAt
  <2> QED BY <2>1, <2>2, <2>3, <1>1
<1>8. ASSUME NEW j \in Job, ReceiveCancel(j) \/ Signal(j) \/ CancelRefused(j) PROVE Stopping'
  <2>1. UNCHANGED <<status, runner, entry>> /\ dead \subseteq dead'
        /\ \A i \in Job \ {j} : cancel'[i] = cancel[i]
    BY <1>8 DEF ReceiveCancel, Signal, CancelRefused, JobsTyped
  <2>2. /\ cancel'[j] = "write" => j \in dead' \/ j \notin entry
        /\ cancel'[j] # "idle" => status[j] # "none"
    BY <1>2, <1>8 DEF ReceiveCancel, Signal, CancelRefused, JobsTyped
  <2>3. Stopped(j)'
    BY <1>2, <2>1, <2>2 DEF RunnerAt
  <2> QED BY <2>1, <2>2, <2>3, <1>1
<1>9. ASSUME NEW j \in Job, WriteCancelled(j) PROVE Stopping'
  <2>1. SetStatus(j, "cancelled") /\ cancel[j] = "write" /\ cancel' = [cancel EXCEPT ![j] = "idle"]
        /\ UNCHANGED <<runner, entry, dead>>
    BY <1>9 DEF WriteCancelled
  <2>2. /\ status'[j] = "cancelled" /\ cancel'[j] = "idle"
        /\ \A i \in Job \ {j} : status'[i] = status[i] /\ cancel'[i] = cancel[i]
    BY <2>1, Sets DEF Status, Terminal, JobsTyped
  <2>3. Stopped(j)'
    BY <1>2, <2>1, <2>2 DEF RunnerAt
  <2> QED BY <2>1, <2>2, <2>3, <1>1
<1>10. ASSUME Crash PROVE Stopping'
  BY <1>10 DEF Crash, Stopping, RunnerAt, Off
<1>11. ASSUME UNCHANGED importVars PROVE Stopping'
  BY <1>11 DEF Stopping, RunnerAt, importVars
<1> QED
  BY <1>3, <1>4, <1>5, <1>6, <1>7, <1>8, <1>9, <1>10, <1>11 DEF ImportNext, RunStep, CancelStep

LEMMA Begins ==
  ASSUME ImportInit
  PROVE  JobsTyped /\ Advancing /\ Stopping
BY DEF ImportInit, JobsTyped, Advancing, Stopping, RunnerAt, Off, Status, Terminal

(* A job that is completed, or that an ImportProject call answered so,     *)
(* stands for the whole document, if the plan of the document does         *)
(* (runImport writes it piece by piece and stops at the first error).      *)
THEOREM ImportIsComplete ==
  ASSUME PlanCovers
  PROVE  ImportSpec => []CompletedMeansComplete
<1>1. Len(Plan) \in Nat
  BY DEF PlanCovers
<1>2. ImportInit => JobsTyped /\ Advancing
  BY Begins
<1>3. JobsTyped /\ Advancing /\ [ImportNext]_importVars => (JobsTyped /\ Advancing)'
  BY <1>1, TypedStays, AdvancingStays
<1>4. JobsTyped /\ Advancing => CompletedMeansComplete
  <2> SUFFICES ASSUME Advancing, NEW j \in Job, status[j] = "completed" \/ caller[j] = "completed"
               PROVE  Complete(made[j])
    BY DEF CompletedMeansComplete
  <2>1. {Plan[n] : n \in 1..Len(Plan)} \subseteq made[j]
    BY DEF Advancing, Written
  <2> QED BY <2>1, CompleteStays DEF PlanCovers
<1> QED BY <1>2, <1>3, <1>4, PTL DEF ImportSpec

(* A cancelled job adds nothing and is never marked as running again:      *)
(* CancelImportProject ends the context before it writes the status.       *)
THEOREM CancelStops == ImportSpec => CancelledStops
<1> DEFINE Stops == \A j \in Job : status[j] = "cancelled" => made'[j] = made[j]
             /\ status'[j] # "running"
<1>1. ImportInit => JobsTyped /\ Stopping
  BY Begins
<1>2. JobsTyped /\ Stopping /\ [ImportNext]_importVars => (JobsTyped /\ Stopping)'
  BY TypedStays, StoppingStays
<1>3. ASSUME JobsTyped, Stopping, [ImportNext]_importVars PROVE Stops
  <2> SUFFICES ASSUME NEW j \in Job, status[j] = "cancelled"
               PROVE  made'[j] = made[j] /\ status'[j] # "running"
    OBVIOUS
  <2>1. RunnerAt(j, "off") \/ j \in dead
    BY <1>3 DEF Stopping
  <2>2. CASE \E i \in Job : Build(i)
    <3>1. PICK i \in Job : Build(i)
      BY <2>2
    <3>2. i # j
      BY <2>1, <3>1 DEF Build, Building, RunnerAt
    <3> QED BY <1>3, <3>1, <3>2 DEF Build, JobsTyped
  <2>3. CASE \E i \in Job : MarkRunning(i)
    <3>1. PICK i \in Job : MarkRunning(i)
      BY <2>3
    <3>2. i # j
      BY <2>1, <3>1 DEF MarkRunning, RunnerAt
    <3> QED BY <1>3, <3>1, <3>2 DEF MarkRunning, JobsTyped, SetStatus
  <2>4. ASSUME NEW i \in Job, NEW s \in {"pending", "failed", "cancelled", "completed"},
               SetStatus(i, s)
        PROVE  status'[j] # "running"
    BY <1>3, <2>4 DEF SetStatus, JobsTyped
  <2>5. CASE ~(\E i \in Job : Build(i)) /\ ~(\E i \in Job : MarkRunning(i))
    <3>1. made' = made
      BY <1>3, <2>5 DEF ImportNext, RunStep, CancelStep, importVars, StartImportProject, Poll,
        CallerLeaves, MarkDead,
           BuildDead, Fail, Stop, End, Finish, ReceiveCancel, Signal, WriteCancelled, BuildRefused,
           StatusRefused, CancelRefused, Crash
    <3>2. \/ status' = status
          \/ \E i \in Job, s \in {"pending", "failed", "cancelled", "completed"} : SetStatus(i, s)
      BY <1>3, <2>5 DEF ImportNext, RunStep, CancelStep, importVars, StartImportProject, Poll,
        CallerLeaves, MarkDead,
           BuildDead, Fail, Stop, End, Finish, ReceiveCancel, Signal, WriteCancelled, BuildRefused,
           StatusRefused, CancelRefused, Crash
    <3> QED BY <2>4, <3>1, <3>2
  <2> QED BY <2>2, <2>3, <2>5
<1>4. JobsTyped /\ Stopping /\ [ImportNext]_importVars => [Stops]_importVars
  BY <1>3
<1> QED BY <1>1, <1>2, <1>4, PTL DEF ImportSpec, CancelledStops
=============================================================================
