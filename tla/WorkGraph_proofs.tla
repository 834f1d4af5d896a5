--------------------------- MODULE WorkGraph_proofs ---------------------------
(***************************************************************************)
(* Proofs about WorkGraph for any tasks, projects, agents, labels and      *)
(* goroutines and any number of calls: TypeCorrect, then the inductive     *)
(* invariants Looked (of the edges about to be created), Emptied (of the   *)
(* projects being deleted) and Ordered (of the tasks being numbered), and  *)
(* from them EdgesOnce, DeletedProjectIsEmpty and NamesDistinct.           *)
(***************************************************************************)
EXTENDS WorkGraph, FiniteSetTheorems, TLAPS

USE NullAssumption, KindAssumption, BoundAssumption, InitAssumption

Local == [pc : PC, label : Label \cup {"member_of"}, from : Entity \cup {None},
          to : Entity \cup {None}, left : SUBSET Edge, count : Nat]

(* A goroutine in the middle of a call has the entities the call is about. *)
Placed(r) ==
  /\ r.pc \in {"members", "count", "createTask", "memberEdges", "deleteMember"} => r.to \in Project
  /\ r.pc \in {"members", "count", "createTask"} => r.label = "member_of"
  /\ r.pc \in {"getFrom", "getTo", "listEdges", "createEdge"} =>
       /\ r.from \in Entity /\ r.to \in Entity
       /\ r.count > 0 => r.from \in Task /\ r.to \in Project /\ r.label = "member_of"
  /\ r.pc \in {"listEdges", "createEdge"} /\ r.label = "member_of" => r.to \in Project
  /\ r.pc = "deleteEntity" => r.to \in Entity
  /\ r.pc = "deleteEdge" => r.left \subseteq {e \in Edge : e.key = KeyOf(r)}

Typed ==
  /\ TypeOK
  /\ \A w \in Worker : Placed(worker[w])
  /\ \A e \in edge : e.key.label = "member_of" => e.key.to \in Project

(* Where a goroutine is after it went on.                                  *)
LEMMA Becomes ==
  ASSUME Typed, NEW w \in Worker, NEW r \in Local, Become(w, r)
  PROVE  /\ worker' \in [Worker -> Local]
         /\ worker'[w] = r
         /\ \A v \in Worker \ {w} : worker'[v] = worker[v]
BY DEF Become, Typed, TypeOK, Local

LEMMA Goes ==
  ASSUME Typed, NEW w \in Worker, NEW pc \in PC
  PROVE  /\ [worker[w] EXCEPT !.pc = pc] \in Local
         /\ [worker[w] EXCEPT !.pc = pc].pc = pc
         /\ [worker[w] EXCEPT !.pc = pc].label = worker[w].label
         /\ [worker[w] EXCEPT !.pc = pc].from = worker[w].from
         /\ [worker[w] EXCEPT !.pc = pc].to = worker[w].to
         /\ [worker[w] EXCEPT !.pc = pc].left = worker[w].left
         /\ [worker[w] EXCEPT !.pc = pc].count = worker[w].count
BY DEF Typed, TypeOK, Local

LEMMA Nexts ==
  ASSUME NEW r \in Local, NEW pc \in PC, NEW end \in PC
  PROVE  /\ NextOf(r, pc, end) \in Local
         /\ NextOf(r, pc, end).pc = IF r.left = {} THEN end ELSE pc
         /\ NextOf(r, pc, end).label = r.label /\ NextOf(r, pc, end).from = r.from
         /\ NextOf(r, pc, end).to = r.to /\ NextOf(r, pc, end).left = r.left
         /\ NextOf(r, pc, end).count = r.count
BY DEF NextOf, Local

LEMMA IdleTyped == Idle \in Local /\ Idle.pc = "idle" /\ Placed(Idle)
BY DEF Idle, Local, PC, Placed

LEMMA Spends ==
  ASSUME Typed
  PROVE  /\ created < MaxEdge => created + 1 \in 0..MaxEdge /\ created + 1 \in 1..MaxEdge
         /\ calls < MaxCall => calls + 1 \in 0..MaxCall
         /\ faults < MaxFault => faults + 1 \in 0..MaxFault
<1>1. created \in 0..MaxEdge /\ calls \in 0..MaxCall /\ faults \in 0..MaxFault
  BY DEF Typed, TypeOK
<1> QED BY <1>1

(* The goroutine w moved, to locals that are placed, and no other did.     *)
Moved(w) ==
  /\ worker' \in [Worker -> Local]
  /\ Placed(worker'[w])
  /\ \A v \in Worker \ {w} : worker'[v] = worker[v]

LEMMA Here ==
  ASSUME Typed, NEW w \in Worker
  PROVE  worker[w] \in Local /\ Placed(worker[w])
BY DEF Typed, TypeOK, Local

LEMMA MovesTo ==
  ASSUME Typed, NEW w \in Worker, NEW r \in Local, Placed(r), Become(w, r)
  PROVE  Moved(w) /\ worker'[w] = r
BY Becomes DEF Moved

LEMMA MovesIdle ==
  ASSUME Typed, NEW w \in Worker, Become(w, Idle)
  PROVE  Moved(w) /\ worker'[w] = Idle /\ worker'[w].pc = "idle"
BY MovesTo, IdleTyped

-----------------------------------------------------------------------------
(* Where each action leaves its goroutine.                                 *)

LEMMA AfterReceiveCreateTask ==
  ASSUME Typed, NEW w \in Worker, NEW p \in Project, ReceiveCreateTask(w, p)
  PROVE  Moved(w) /\ worker'[w].pc = "members"
<1> DEFINE r == [Idle EXCEPT !.pc = "members", !.to = p]
<1>1. r \in Local /\ r.pc = "members" /\ r.to = p /\ r.label = "member_of"
  BY DEF Idle, Local, PC, Entity
<1>2. Become(w, r)
  BY DEF ReceiveCreateTask
<1> HIDE DEF r
<1>3. Placed(r)
  BY <1>1 DEF Placed
<1> QED BY <1>1, <1>2, <1>3, MovesTo

LEMMA AfterListMembers ==
  ASSUME Typed, NEW w \in Worker, ListMembers(w)
  PROVE  Moved(w) /\ worker'[w].pc \in {"count", "createTask"}
<1> DEFINE r == [worker[w] EXCEPT !.left = Members(worker[w].to)]
           n == NextOf(r, "count", "createTask")
<1>1. Members(worker[w].to) \in SUBSET Edge
  BY DEF Members, Typed, TypeOK
<1>2. r \in Local /\ r.to = worker[w].to /\ r.label = worker[w].label
  BY <1>1, Here DEF Local
<1>3. Become(w, n) /\ worker[w].to \in Project /\ worker[w].label = "member_of"
  BY Here DEF ListMembers, At, Placed
<1>4. /\ n \in Local /\ n.pc \in {"count", "createTask"}
      /\ n.to = worker[w].to /\ n.label = worker[w].label
  <2> HIDE DEF r
  <2> QED BY <1>2, Nexts DEF PC
<1> HIDE DEF n
<1>5. Placed(n)
  BY <1>3, <1>4 DEF Placed
<1> QED BY <1>3, <1>4, <1>5, MovesTo

LEMMA AfterCountMember ==
  ASSUME Typed, NEW w \in Worker, CountMember(w)
  PROVE  Moved(w) /\ worker'[w].pc \in {"count", "createTask"}
<1>1. PICK e \in worker[w].left :
        Become(w, NextOf([worker[w] EXCEPT !.left = worker[w].left \ {e},
                            !.count = IF e.key.from \in alive THEN worker[w].count + 1
                                      ELSE worker[w].count],
                         "count", "createTask"))
  BY DEF CountMember
<1> DEFINE c == IF e.key.from \in alive THEN worker[w].count + 1 ELSE worker[w].count
           r == [worker[w] EXCEPT !.left = worker[w].left \ {e}, !.count = c]
           n == NextOf(r, "count", "createTask")
<1>2. c \in Nat /\ worker[w].left \ {e} \in SUBSET Edge
  BY Here DEF Local
<1>3. r \in Local /\ r.to = worker[w].to /\ r.label = worker[w].label
  <2> HIDE DEF c
  <2> QED BY Here, <1>2 DEF Local
<1>4. Become(w, n) /\ worker[w].to \in Project /\ worker[w].label = "member_of"
  BY <1>1, Here DEF CountMember, At, Placed
<1>5. /\ n \in Local /\ n.pc \in {"count", "createTask"}
      /\ n.to = worker[w].to /\ n.label = worker[w].label
  <2> HIDE DEF r
  <2> QED BY <1>3, Nexts DEF PC
<1> HIDE DEF n
<1>6. Placed(n)
  BY <1>4, <1>5 DEF Placed
<1> QED BY <1>4, <1>5, <1>6, MovesTo

(* A task created here joins its project under member_of.                  *)
LEMMA AfterCreateTask ==
  ASSUME Typed, NEW w \in Worker, CreateTask(w)
  PROVE  /\ Moved(w) /\ worker'[w].pc = "getFrom"
         /\ number' \in [Task -> Nat]
         /\ \E t \in Fresh \cap Task : alive' = alive \cup {t}
<1> DEFINE c == worker[w].count + 1
<1>1. PICK t \in Fresh \cap Task :
        /\ alive' = alive \cup {t}
        /\ number' = [number EXCEPT ![t] = c]
        /\ Become(w, [worker[w] EXCEPT !.pc = "getFrom", !.from = t, !.count = c])
  BY DEF CreateTask
<1> DEFINE r == [worker[w] EXCEPT !.pc = "getFrom", !.from = t, !.count = c]
<1>2. c \in Nat /\ t \in Entity /\ t \in Task /\ "getFrom" \in PC
  BY Here DEF Local, Entity, PC
<1>3. worker[w].to \in Project /\ worker[w].label = "member_of"
  BY Here DEF CreateTask, At, Placed
<1> HIDE DEF c
<1>4. /\ r \in Local /\ r.pc = "getFrom" /\ r.from = t
      /\ r.to = worker[w].to /\ r.label = worker[w].label
  BY Here, <1>2 DEF Local
<1>5. Become(w, r)
  BY <1>1
<1> HIDE DEF r
<1>6. Placed(r)
  BY <1>2, <1>3, <1>4 DEF Placed, Entity
<1>7. number' \in [Task -> Nat]
  BY <1>1, <1>2 DEF Typed, TypeOK
<1> QED BY <1>1, <1>4, <1>5, <1>6, <1>7, MovesTo

LEMMA AfterReceiveCreateRelationship ==
  ASSUME Typed, NEW w \in Worker,
         NEW key \in [label : Label, from : Entity, to : Entity], ReceiveCreateRelationship(w, key)
  PROVE  Moved(w) /\ worker'[w].pc = "getTo"
<1> DEFINE r == [Idle EXCEPT !.pc = "getTo", !.label = key.label, !.from = key.from, !.to = key.to]
<1>1. /\ r \in Local /\ r.pc = "getTo" /\ r.from = key.from /\ r.to = key.to /\ r.count = 0
  BY DEF Idle, Local, PC
<1>2. Become(w, r) /\ key.from \in Entity /\ key.to \in Entity
  BY DEF ReceiveCreateRelationship
<1> HIDE DEF r
<1>3. Placed(r)
  BY <1>1, <1>2 DEF Placed
<1> QED BY <1>1, <1>2, <1>3, MovesTo

(* The same locals at another program counter, or the call ends.           *)
LEMMA GoesOrEnds ==
  ASSUME Typed, NEW w \in Worker, NEW pc \in PC, NEW ok \in BOOLEAN,
         ok => Placed([worker[w] EXCEPT !.pc = pc]),
         Become(w, IF ok THEN [worker[w] EXCEPT !.pc = pc] ELSE Idle)
  PROVE  /\ Moved(w)
         /\ worker'[w].pc = IF ok THEN pc ELSE "idle"
         /\ ok => KeyOf(worker'[w]) = KeyOf(worker[w])
<1>1. CASE ok
  <2> DEFINE r == [worker[w] EXCEPT !.pc = pc]
  <2>1. r \in Local /\ r.pc = pc /\ KeyOf(r) = KeyOf(worker[w])
    BY Goes DEF KeyOf
  <2>2. Placed(r) /\ Become(w, r)
    BY <1>1
  <2> HIDE DEF r
  <2> QED BY <1>1, <2>1, <2>2, MovesTo
<1>2. CASE ~ok
  BY <1>2, MovesIdle
<1> QED BY <1>1, <1>2

LEMMA AfterGetFrom ==
  ASSUME Typed, NEW w \in Worker, GetFrom(w)
  PROVE  Moved(w) /\ worker'[w].pc \in {"idle", "getTo"}
<1> DEFINE ok == FromAllowed(worker[w])
<1>1. ok \in BOOLEAN /\ "getTo" \in PC
  BY DEF FromAllowed, PC
<1>2. Placed([worker[w] EXCEPT !.pc = "getTo"])
  BY Here, Goes, <1>1 DEF GetFrom, At, Placed
<1>3. Become(w, IF ok THEN [worker[w] EXCEPT !.pc = "getTo"] ELSE Idle)
  BY DEF GetFrom
<1> HIDE DEF ok
<1> QED BY <1>1, <1>2, <1>3, GoesOrEnds

(* member_of leads to a project: GetTo looked.                             *)
LEMMA AfterGetTo ==
  ASSUME Typed, NEW w \in Worker, GetTo(w)
  PROVE  Moved(w) /\ worker'[w].pc \in {"idle", "listEdges"}
<1> DEFINE ok == ToAllowed(worker[w])
<1>1. ok \in BOOLEAN /\ "listEdges" \in PC
  BY DEF ToAllowed, PC
<1>2. ok => (worker[w].label = "member_of" => worker[w].to \in Project)
  BY Here DEF ToAllowed, EndpointTypes, Kind
<1>3. ok => Placed([worker[w] EXCEPT !.pc = "listEdges"])
  <2> HIDE DEF ok
  <2> QED BY Here, Goes, <1>1, <1>2 DEF GetTo, At, Placed
<1>4. Become(w, IF ok THEN [worker[w] EXCEPT !.pc = "listEdges"] ELSE Idle)
  BY DEF GetTo
<1> HIDE DEF ok
<1> QED BY <1>1, <1>3, <1>4, GoesOrEnds

LEMMA AfterListEdges ==
  ASSUME Typed, NEW w \in Worker, ListEdges(w)
  PROVE  /\ Moved(w) /\ worker'[w].pc \in {"idle", "createEdge"}
         /\ worker'[w].pc = "createEdge" =>
              \A e \in edge : e.key # KeyOf(worker'[w])
<1> DEFINE ok == \A e \in edge : e.key # KeyOf(worker[w])
<1>1. ok \in BOOLEAN /\ "createEdge" \in PC
  BY DEF PC
<1>2. Placed([worker[w] EXCEPT !.pc = "createEdge"])
  BY Here, Goes, <1>1 DEF ListEdges, At, Placed
<1>3. Become(w, IF ok THEN [worker[w] EXCEPT !.pc = "createEdge"] ELSE Idle)
  <2>1. (\E e \in edge : e.key = KeyOf(worker[w])) <=> ~ok
    OBVIOUS
  <2> QED BY <2>1 DEF ListEdges
<1>4. /\ Moved(w)
      /\ worker'[w].pc = IF ok THEN "createEdge" ELSE "idle"
      /\ ok => KeyOf(worker'[w]) = KeyOf(worker[w])
  <2> HIDE DEF ok
  <2> QED BY <1>1, <1>2, <1>3, GoesOrEnds
<1> QED BY <1>4

LEMMA AfterReceiveDeleteRelationship ==
  ASSUME Typed, NEW w \in Worker, ReceiveDeleteRelationship(w)
  PROVE  Moved(w) /\ worker'[w].pc = "deleteEdge"
<1>1. PICK e \in edge :
        Become(w, [Idle EXCEPT !.pc = "deleteEdge", !.label = e.key.label,
                               !.from = e.key.from, !.to = e.key.to, !.left = {e}])
  BY DEF ReceiveDeleteRelationship
<1> DEFINE r == [Idle EXCEPT !.pc = "deleteEdge", !.label = e.key.label,
                             !.from = e.key.from, !.to = e.key.to, !.left = {e}]
<1>2. e \in Edge
  BY DEF Typed, TypeOK
<1>3. e.key \in Key /\ {e} \in SUBSET Edge
  BY <1>2 DEF Edge
<1>4. e.key.label \in Label \cup {"member_of"} /\ e.key.from \in Entity /\ e.key.to \in Entity
  BY <1>3 DEF Key
<1>5. e.key = [label |-> e.key.label, from |-> e.key.from, to |-> e.key.to]
  BY <1>3 DEF Key
<1>6. /\ r \in Local /\ r.pc = "deleteEdge" /\ r.left = {e}
      /\ r.label = e.key.label /\ r.from = e.key.from /\ r.to = e.key.to
  BY <1>3, <1>4 DEF Idle, Local, PC
<1>7. Become(w, r)
  BY <1>1
<1> HIDE DEF r
<1>8. Placed(r)
  BY <1>2, <1>5, <1>6 DEF Placed, KeyOf
<1> QED BY <1>6, <1>7, <1>8, MovesTo

LEMMA AfterReceiveDelete ==
  ASSUME Typed, NEW w \in Worker, NEW e \in Entity, ReceiveDelete(w, e)
  PROVE  /\ Moved(w) /\ worker'[w].pc \in {"memberEdges", "deleteEntity"}
         /\ worker'[w].pc = "deleteEntity" => worker'[w].to \notin Project
<1> DEFINE pc == IF e \in Project THEN "memberEdges" ELSE "deleteEntity"
           r == [Idle EXCEPT !.pc = pc, !.to = e]
<1>1. pc \in PC
  BY DEF PC
<1>2. r \in Local /\ r.pc = pc /\ r.to = e
  BY <1>1 DEF Idle, Local
<1>3. Become(w, r)
  BY DEF ReceiveDelete
<1> HIDE DEF r
<1>4. Placed(r)
  BY <1>2 DEF Placed
<1> QED BY <1>2, <1>3, <1>4, MovesTo

LEMMA AfterListMemberEdges ==
  ASSUME Typed, NEW w \in Worker, ListMemberEdges(w)
  PROVE  /\ Moved(w) /\ worker'[w].left = Members(worker'[w].to)
         /\ worker'[w].pc = IF worker'[w].left = {} THEN "deleteEntity" ELSE "deleteMember"
<1> DEFINE r == [worker[w] EXCEPT !.left = Members(worker[w].to)]
           n == NextOf(r, "deleteMember", "deleteEntity")
<1>1. Members(worker[w].to) \in SUBSET Edge
  BY DEF Members, Typed, TypeOK
<1>2. r \in Local /\ r.to = worker[w].to /\ r.left = Members(worker[w].to)
  BY <1>1, Here DEF Local
<1>3. Become(w, n) /\ worker[w].to \in Project
  BY Here DEF ListMemberEdges, At, Placed
<1>4. /\ n \in Local /\ n.pc = (IF n.left = {} THEN "deleteEntity" ELSE "deleteMember")
      /\ n.to = worker[w].to /\ n.left = Members(worker[w].to)
  <2> HIDE DEF r
  <2> QED BY <1>2, Nexts DEF PC
<1> HIDE DEF n
<1>5. Placed(n)
  BY <1>3, <1>4 DEF Placed, Entity
<1> QED BY <1>3, <1>4, <1>5, MovesTo

LEMMA AfterDeleteMember ==
  ASSUME Typed, NEW w \in Worker, DeleteMember(w)
  PROVE  /\ Moved(w) /\ worker[w].to \in Project /\ worker'[w].to = worker[w].to
         /\ \E e \in worker[w].left :
              worker'[w].left = worker[w].left \ {e} /\ edge' = edge \ {e}
         /\ worker'[w].pc = IF worker'[w].left = {} THEN "deleteEntity" ELSE "deleteMember"
<1>1. PICK e \in worker[w].left :
        /\ edge' = edge \ {e}
        /\ Become(w, NextOf([worker[w] EXCEPT !.left = worker[w].left \ {e}],
                            "deleteMember", "deleteEntity"))
  BY DEF DeleteMember
<1> DEFINE r == [worker[w] EXCEPT !.left = worker[w].left \ {e}]
           n == NextOf(r, "deleteMember", "deleteEntity")
<1>2. worker[w].left \ {e} \in SUBSET Edge
  BY Here DEF Local
<1>3. r \in Local /\ r.to = worker[w].to /\ r.left = worker[w].left \ {e}
  BY <1>2, Here DEF Local
<1>4. Become(w, n) /\ worker[w].to \in Project
  BY <1>1, Here DEF DeleteMember, At, Placed
<1>5. /\ n \in Local /\ n.pc = (IF n.left = {} THEN "deleteEntity" ELSE "deleteMember")
      /\ n.to = worker[w].to /\ n.left = worker[w].left \ {e}
  <2> HIDE DEF r
  <2> QED BY <1>3, Nexts DEF PC
<1> HIDE DEF n
<1>6. Placed(n)
  BY <1>4, <1>5 DEF Placed, Entity
<1> QED BY <1>1, <1>4, <1>5, <1>6, MovesTo

(* The actions that end the call.                                          *)
LEMMA AfterEnd ==
  ASSUME Typed, NEW w \in Worker,
         \/ CreateEdge(w) \/ EdgeRefused(w) \/ DeleteEdge(w) \/ DeleteEntity(w) \/ Refused(w)
  PROVE  Moved(w) /\ worker'[w].pc = "idle"
<1>1. Become(w, Idle)
  BY DEF CreateEdge, EdgeRefused, DeleteEdge, DeleteEntity, Refused
<1> QED BY <1>1, MovesIdle

(* The edge CreateEdge makes.                                              *)
LEMMA NewEdge ==
  ASSUME Typed, NEW w \in Worker, CreateEdge(w)
  PROVE  /\ KeyOf(worker[w]) \in Key
         /\ created' \in 0..MaxEdge
         /\ [id |-> created + 1, key |-> KeyOf(worker[w])] \in Edge
         /\ KeyOf(worker[w]).label = "member_of" => KeyOf(worker[w]).to \in Project
<1>1. worker[w].from \in Entity /\ worker[w].to \in Entity /\ worker[w].label \in Label \cup {"member_of"}
  BY Here DEF CreateEdge, At, Placed, Local
<1>2. worker[w].label = "member_of" => worker[w].to \in Project
  BY Here DEF CreateEdge, At, Placed
<1>3. KeyOf(worker[w]) \in Key /\ KeyOf(worker[w]).label = worker[w].label /\ KeyOf(worker[w]).to = worker[w].to
  BY <1>1 DEF KeyOf, Key
<1>4. created' \in 0..MaxEdge /\ created + 1 \in 1..MaxEdge
  BY Spends DEF CreateEdge
<1> QED BY <1>2, <1>3, <1>4 DEF Edge

-----------------------------------------------------------------------------
(* Type correctness.                                                       *)

LEMMA TypedNext ==
  ASSUME Typed, NEW w \in Worker, Moved(w),
         alive' \subseteq Entity, gone' \subseteq Entity, alive' \cap gone' = {},
         number' \in [Task -> Nat], edge' \subseteq Edge,
         created' \in 0..MaxEdge, calls' \in 0..MaxCall, faults' \in 0..MaxFault,
         mixed' \subseteq Project, crowded' \subseteq Project, late' \subseteq Project,
         raced' \subseteq Key,
         \A e \in edge' : e.key.label = "member_of" => e.key.to \in Project
  PROVE  Typed'
<1>1. TypeOK'
  BY DEF TypeOK, Moved, Local
<1>2. \A v \in Worker : Placed(worker'[v])
  BY DEF Moved, Typed
<1>3. \A v \in Worker : Placed(worker[v])'
  BY <1>2 DEF Placed, KeyOf
<1> QED BY <1>1, <1>3 DEF Typed

(* A step that leaves the graph as it was.                                 *)
LEMMA TypedQuiet ==
  ASSUME Typed, NEW w \in Worker, Moved(w),
         UNCHANGED <<alive, gone, number, edge, created, mixed, raced, late>>,
         crowded' \subseteq Project, calls' \in 0..MaxCall, faults' \in 0..MaxFault
  PROVE  Typed'
<1>1. /\ alive' \subseteq Entity /\ gone' \subseteq Entity /\ alive' \cap gone' = {}
      /\ number' \in [Task -> Nat] /\ edge' \subseteq Edge /\ created' \in 0..MaxEdge
      /\ mixed' \subseteq Project /\ late' \subseteq Project /\ raced' \subseteq Key
      /\ \A e \in edge' : e.key.label = "member_of" => e.key.to \in Project
  BY DEF Typed, TypeOK
<1> QED BY <1>1, TypedNext

LEMMA TypedSame ==
  ASSUME Typed
  PROVE  /\ alive \subseteq Entity /\ gone \subseteq Entity /\ alive \cap gone = {}
         /\ number \in [Task -> Nat] /\ edge \subseteq Edge /\ created \in 0..MaxEdge
         /\ calls \in 0..MaxCall /\ faults \in 0..MaxFault
         /\ mixed \subseteq Project /\ crowded \subseteq Project /\ late \subseteq Project
         /\ raced \subseteq Key
         /\ \A e \in edge : e.key.label = "member_of" => e.key.to \in Project
BY DEF Typed, TypeOK

LEMMA TypedStep ==
  ASSUME Typed, [Next]_vars
  PROVE  Typed'
<1> USE TypedSame
<1>1. ASSUME NEW p \in Project, CreateProject(p)
      PROVE  Typed'
  BY <1>1 DEF CreateProject, Fresh, bounds, history, Typed, TypeOK, Entity, Placed, KeyOf
<1>2. ASSUME NEW a \in Agent, UpsertAgent(a)
      PROVE  Typed'
  BY <1>2 DEF UpsertAgent, Fresh, bounds, history, Typed, TypeOK, Entity, Placed, KeyOf
<1>3. ASSUME NEW w \in Worker, NEW p \in Project, ReceiveCreateTask(w, p)
      PROVE  Typed'
  BY <1>3, AfterReceiveCreateTask, Spends, TypedQuiet DEF ReceiveCreateTask, Receive
<1>4. ASSUME NEW w \in Worker, ListMembers(w) \/ CountMember(w)
      PROVE  Typed'
  BY <1>4, AfterListMembers, AfterCountMember, TypedQuiet
     DEF ListMembers, CountMember, bounds, history
<1>5. ASSUME NEW w \in Worker, CreateTask(w)
      PROVE  Typed'
  <2>1. PICK t \in Fresh \cap Task : alive' = alive \cup {t}
    BY <1>5, AfterCreateTask
  <2>2. alive' \subseteq Entity /\ alive' \cap gone' = {}
    BY <1>5, <2>1 DEF CreateTask, Fresh
  <2> QED BY <1>5, <2>2, AfterCreateTask, TypedNext DEF CreateTask, bounds, history
<1>6. ASSUME NEW w \in Worker, NEW key \in [label : Label, from : Entity, to : Entity],
             ReceiveCreateRelationship(w, key)
      PROVE  Typed'
  BY <1>6, AfterReceiveCreateRelationship, Spends, TypedQuiet
     DEF ReceiveCreateRelationship, Receive, history
<1>7. ASSUME NEW w \in Worker, GetFrom(w) \/ GetTo(w) \/ ListEdges(w)
      PROVE  Typed'
  BY <1>7, AfterGetFrom, AfterGetTo, AfterListEdges, TypedQuiet
     DEF GetFrom, GetTo, ListEdges, bounds, history
<1>8. ASSUME NEW w \in Worker, CreateEdge(w)
      PROVE  Typed'
  <2>1. /\ edge' \subseteq Edge /\ raced' \subseteq Key
        /\ mixed' \subseteq Project /\ late' \subseteq Project
    BY <1>8, NewEdge DEF CreateEdge
  <2>2. \A e \in edge' : e.key.label = "member_of" => e.key.to \in Project
    <3> DEFINE new == [id |-> created + 1, key |-> KeyOf(worker[w])]
    <3>1. edge' = edge \cup {new} /\ new.key = KeyOf(worker[w])
      BY <1>8 DEF CreateEdge
    <3>2. KeyOf(worker[w]).label = "member_of" => KeyOf(worker[w]).to \in Project
      BY <1>8, NewEdge
    <3> HIDE DEF new
    <3> QED BY <3>1, <3>2
  <2> QED BY <1>8, <2>1, <2>2, NewEdge, AfterEnd, TypedNext DEF CreateEdge, bounds
<1>9. ASSUME NEW w \in Worker, EdgeRefused(w)
      PROVE  Typed'
  BY <1>9, AfterEnd, TypedQuiet DEF EdgeRefused, bounds, history
<1>10. ASSUME NEW w \in Worker, ReceiveDeleteRelationship(w)
       PROVE  Typed'
  BY <1>10, AfterReceiveDeleteRelationship, Spends, TypedQuiet
     DEF ReceiveDeleteRelationship, Receive, history
<1>11. ASSUME NEW w \in Worker, DeleteEdge(w)
       PROVE  Typed'
  <2>1. edge' \subseteq edge /\ mixed' \subseteq Project
    BY <1>11 DEF DeleteEdge
  <2> QED BY <1>11, <2>1, AfterEnd, TypedNext DEF DeleteEdge, bounds
<1>12. ASSUME NEW w \in Worker, NEW e \in Entity, ReceiveDelete(w, e)
       PROVE  Typed'
  BY <1>12, AfterReceiveDelete, Spends, TypedQuiet DEF ReceiveDelete, Receive, history
<1>13. ASSUME NEW w \in Worker, ListMemberEdges(w)
       PROVE  Typed'
  BY <1>13, AfterListMemberEdges, TypedQuiet DEF ListMemberEdges, bounds, history
<1>14. ASSUME NEW w \in Worker, DeleteMember(w)
       PROVE  Typed'
  <2>1. edge' \subseteq edge /\ mixed' \subseteq Project
    BY <1>14, AfterDeleteMember DEF DeleteMember
  <2> QED BY <1>14, <2>1, AfterDeleteMember, TypedNext DEF DeleteMember, bounds
<1>15. ASSUME NEW w \in Worker, DeleteEntity(w)
       PROVE  Typed'
  <2>1. worker[w].to \in Entity
    BY <1>15, Here DEF DeleteEntity, At, Placed
  <2>2. alive' \subseteq Entity /\ gone' \subseteq Entity /\ alive' \cap gone' = {}
    BY <1>15, <2>1 DEF DeleteEntity
  <2>3. mixed' \subseteq Project
    BY <1>15 DEF DeleteEntity
  <2> QED BY <1>15, <2>2, <2>3, AfterEnd, TypedNext DEF DeleteEntity, bounds
<1>16. ASSUME NEW w \in Worker, Refused(w)
       PROVE  Typed'
  BY <1>16, AfterEnd, Spends, TypedQuiet DEF Refused, history
<1>17. CASE UNCHANGED vars
  BY <1>17 DEF vars, Typed, TypeOK, Placed, KeyOf
<1> QED
  BY <1>1, <1>2, <1>3, <1>4, <1>5, <1>6, <1>7, <1>8, <1>9, <1>10, <1>11, <1>12, <1>13, <1>14,
     <1>15, <1>16, <1>17 DEF Next

LEMMA TypedInit == Init => Typed
BY IdleTyped DEF Init, Typed, TypeOK, Entity, Local, Idle, Placed, PC

(* The graph's sets, the goroutines' locals and the counters are of their  *)
(* types, and an entity that is gone is not alive.                         *)
THEOREM TypeCorrect == Spec => []TypeOK
<1>1. Typed => TypeOK
  BY DEF Typed
<1> QED BY TypedInit, TypedStep, <1>1, PTL DEF Spec

-----------------------------------------------------------------------------
(* An edge is there once.  A goroutine that found none of its key is told  *)
(* of one that came since only by the store taking both: the key is then   *)
(* in raced.                                                               *)

Looked ==
  /\ \A w \in Worker : worker[w].pc = "createEdge" =>
       \A e \in edge : e.key = KeyOf(worker[w]) => e.key \in raced
  /\ EdgesOnce

(* A step that adds no edge and does not get to CreateEdge.                *)
LEMMA LookedQuiet ==
  ASSUME Typed, Looked, NEW w \in Worker, Moved(w),
         worker'[w].pc = "createEdge" => \A e \in edge : e.key # KeyOf(worker'[w]),
         edge' \subseteq edge, raced' = raced
  PROVE  Looked'
<1>1. EdgesOnce'
  BY DEF Looked, EdgesOnce
<1>2. ASSUME NEW v \in Worker, worker'[v].pc = "createEdge", NEW e \in edge', e.key = KeyOf(worker'[v])
      PROVE  e.key \in raced'
  BY <1>2 DEF Looked, Moved
<1>3. \A v \in Worker : KeyOf(worker[v])' = KeyOf(worker'[v])
  BY DEF KeyOf
<1> QED BY <1>1, <1>2, <1>3 DEF Looked

LEMMA LookedStep ==
  ASSUME Typed, Looked, [Next]_vars
  PROVE  Looked'
<1>1. ASSUME \E p \in Project : CreateProject(p)
      PROVE  Looked'
  BY <1>1 DEF CreateProject, history, Looked, EdgesOnce, KeyOf
<1>2. ASSUME \E a \in Agent : UpsertAgent(a)
      PROVE  Looked'
  BY <1>2 DEF UpsertAgent, history, Looked, EdgesOnce, KeyOf
<1>3. ASSUME NEW w \in Worker, NEW p \in Project, ReceiveCreateTask(w, p)
      PROVE  Looked'
  BY <1>3, AfterReceiveCreateTask, LookedQuiet DEF ReceiveCreateTask
<1>4. ASSUME NEW w \in Worker, ListMembers(w) \/ CountMember(w)
      PROVE  Looked'
  BY <1>4, AfterListMembers, AfterCountMember, LookedQuiet DEF ListMembers, CountMember, history
<1>5. ASSUME NEW w \in Worker, CreateTask(w)
      PROVE  Looked'
  BY <1>5, AfterCreateTask, LookedQuiet DEF CreateTask, history
<1>6. ASSUME NEW w \in Worker, NEW key \in [label : Label, from : Entity, to : Entity],
             ReceiveCreateRelationship(w, key)
      PROVE  Looked'
  BY <1>6, AfterReceiveCreateRelationship, LookedQuiet DEF ReceiveCreateRelationship, history
<1>7. ASSUME NEW w \in Worker, GetFrom(w) \/ GetTo(w)
      PROVE  Looked'
  BY <1>7, AfterGetFrom, AfterGetTo, LookedQuiet DEF GetFrom, GetTo, history
<1>8. ASSUME NEW w \in Worker, ListEdges(w)
      PROVE  Looked'
  BY <1>8, AfterListEdges, LookedQuiet DEF ListEdges, history
<1>9. ASSUME NEW w \in Worker, CreateEdge(w)
      PROVE  Looked'
  <2> DEFINE key == KeyOf(worker[w])
             new == [id |-> created + 1, key |-> key]
  <2>1. edge' = edge \cup {new} /\ new.key = key
    BY <1>9 DEF CreateEdge
  <2>2. raced \subseteq raced'
    BY <1>9 DEF CreateEdge
  <2>3. \A v \in Worker \ {w} : worker[v].pc = "createEdge" /\ KeyOf(worker[v]) = key => key \in raced'
    BY <1>9 DEF CreateEdge, At
  <2>4. \A e \in edge : e.key = key => key \in raced'
    BY <1>9, <2>2 DEF Looked, CreateEdge, At
  <2>5. Moved(w) /\ worker'[w].pc = "idle"
    BY <1>9, AfterEnd
  <2> HIDE DEF new, key
  <2>6. EdgesOnce'
    BY <2>1, <2>2, <2>4 DEF Looked, EdgesOnce
  <2>7. ASSUME NEW v \in Worker, worker'[v].pc = "createEdge", NEW e \in edge', e.key = KeyOf(worker'[v])
        PROVE  e.key \in raced'
    <3>1. v \in Worker \ {w} /\ worker'[v] = worker[v]
      BY <2>5, <2>7 DEF Moved
    <3> QED BY <2>1, <2>2, <2>3, <2>7, <3>1 DEF Looked
  <2>8. \A v \in Worker : KeyOf(worker[v])' = KeyOf(worker'[v])
    BY DEF KeyOf
  <2> QED BY <2>6, <2>7, <2>8 DEF Looked
<1>10. ASSUME NEW w \in Worker, EdgeRefused(w) \/ DeleteEdge(w) \/ DeleteEntity(w) \/ Refused(w)
       PROVE  Looked'
  BY <1>10, AfterEnd, LookedQuiet DEF EdgeRefused, DeleteEdge, DeleteEntity, Refused, history
<1>11. ASSUME NEW w \in Worker, ReceiveDeleteRelationship(w)
       PROVE  Looked'
  BY <1>11, AfterReceiveDeleteRelationship, LookedQuiet DEF ReceiveDeleteRelationship, history
<1>12. ASSUME NEW w \in Worker, NEW e \in Entity, ReceiveDelete(w, e)
       PROVE  Looked'
  BY <1>12, AfterReceiveDelete, LookedQuiet DEF ReceiveDelete, history
<1>13. ASSUME NEW w \in Worker, ListMemberEdges(w)
       PROVE  Looked'
  BY <1>13, AfterListMemberEdges, LookedQuiet DEF ListMemberEdges, history
<1>14. ASSUME NEW w \in Worker, DeleteMember(w)
       PROVE  Looked'
  BY <1>14, AfterDeleteMember, LookedQuiet DEF DeleteMember
<1>15. CASE UNCHANGED vars
  BY <1>15 DEF vars, Looked, EdgesOnce, KeyOf
<1> QED
  BY <1>1, <1>2, <1>3, <1>4, <1>5, <1>6, <1>7, <1>8, <1>9, <1>10, <1>11, <1>12, <1>13, <1>14,
     <1>15 DEF Next

(* An edge is there once unless two calls were about to create it at once. *)
THEOREM CreatedOnce == Spec => []EdgesOnce
<1>1. Init => Looked
  BY DEF Init, Looked, EdgesOnce
<1>2. Looked => EdgesOnce
  BY DEF Looked
<1> QED BY <1>1, <1>2, TypedInit, TypedStep, LookedStep, PTL DEF Spec

-----------------------------------------------------------------------------
(* A deleted project has no member.  A goroutine deleting p has every      *)
(* member of p still to delete, and none when it gets to p itself, unless  *)
(* one came late.                                                          *)

EmptyBy(p, r) ==
  r.to = p =>
    /\ r.pc = "deleteMember" => Members(p) \subseteq r.left
    /\ r.pc = "deleteEntity" => Members(p) = {}

Emptied ==
  \A p \in Project \ late :
    /\ p \in gone => Members(p) = {}
    /\ \A w \in Worker : EmptyBy(p, worker[w])

(* A step that adds no edge, marks none gone and does not get to deleting. *)
LEMMA EmptiedQuiet ==
  ASSUME Typed, Emptied, NEW w \in Worker, Moved(w),
         \/ worker'[w].pc \notin {"deleteMember", "deleteEntity"}
         \/ worker'[w].pc = "deleteEntity" /\ worker'[w].to \notin Project,
         edge' \subseteq edge, gone' = gone, late' = late
  PROVE  Emptied'
<1> SUFFICES ASSUME NEW p \in Project \ late
             PROVE  /\ p \in gone => Members(p)' = {}
                    /\ \A v \in Worker : EmptyBy(p, worker[v])'
  BY DEF Emptied
<1>1. Members(p)' \subseteq Members(p)
  BY DEF Members
<1>2. p \in gone => Members(p)' = {}
  BY <1>1 DEF Emptied
<1>3. ASSUME NEW v \in Worker
      PROVE  EmptyBy(p, worker[v])'
  <2>1. CASE v = w
    BY <2>1 DEF EmptyBy
  <2>2. CASE v # w
    <3>1. worker'[v] = worker[v] /\ EmptyBy(p, worker[v])
      BY <2>2 DEF Moved, Emptied
    <3> QED BY <1>1, <3>1 DEF EmptyBy
  <2> QED BY <2>1, <2>2
<1> QED BY <1>2, <1>3

LEMMA EmptiedStep ==
  ASSUME Typed, Emptied, [Next]_vars
  PROVE  Emptied'
<1>1. ASSUME \E p \in Project : CreateProject(p)
      PROVE  Emptied'
  BY <1>1 DEF CreateProject, history, Emptied, EmptyBy, Members
<1>2. ASSUME \E a \in Agent : UpsertAgent(a)
      PROVE  Emptied'
  BY <1>2 DEF UpsertAgent, history, Emptied, EmptyBy, Members
<1>3. ASSUME NEW w \in Worker, NEW p \in Project, ReceiveCreateTask(w, p)
      PROVE  Emptied'
  BY <1>3, AfterReceiveCreateTask, EmptiedQuiet DEF ReceiveCreateTask
<1>4. ASSUME NEW w \in Worker, ListMembers(w) \/ CountMember(w)
      PROVE  Emptied'
  BY <1>4, AfterListMembers, AfterCountMember, EmptiedQuiet DEF ListMembers, CountMember, history
<1>5. ASSUME NEW w \in Worker, CreateTask(w)
      PROVE  Emptied'
  BY <1>5, AfterCreateTask, EmptiedQuiet DEF CreateTask, history
<1>6. ASSUME NEW w \in Worker, NEW key \in [label : Label, from : Entity, to : Entity],
             ReceiveCreateRelationship(w, key)
      PROVE  Emptied'
  BY <1>6, AfterReceiveCreateRelationship, EmptiedQuiet DEF ReceiveCreateRelationship, history
<1>7. ASSUME NEW w \in Worker, GetFrom(w) \/ GetTo(w) \/ ListEdges(w)
      PROVE  Emptied'
  BY <1>7, AfterGetFrom, AfterGetTo, AfterListEdges, EmptiedQuiet
     DEF GetFrom, GetTo, ListEdges, history
<1>8. ASSUME NEW w \in Worker, CreateEdge(w)
      PROVE  Emptied'
  <2> SUFFICES ASSUME NEW p \in Project \ late'
               PROVE  /\ p \in gone' => Members(p)' = {}
                      /\ \A v \in Worker : EmptyBy(p, worker[v])'
    BY DEF Emptied
  <2>1. Moved(w) /\ worker'[w].pc = "idle" /\ gone' = gone /\ p \in Project \ late
    BY <1>8, AfterEnd DEF CreateEdge
  <2>2. CASE KeyOf(worker[w]).to = p
    <3>1. p \notin gone /\ Deleting(p) = {}
      BY <1>8, <2>2 DEF CreateEdge
    <3>2. ASSUME NEW v \in Worker
          PROVE  EmptyBy(p, worker[v])'
      <4>1. CASE v = w
        BY <2>1, <4>1 DEF EmptyBy
      <4>2. CASE v # w
        BY <2>1, <3>1, <4>2 DEF EmptyBy, Deleting, Moved
      <4> QED BY <4>1, <4>2
    <3> QED BY <2>1, <3>1, <3>2
  <2>3. CASE KeyOf(worker[w]).to # p
    <3>1. Members(p)' = Members(p)
      BY <1>8, <2>3 DEF CreateEdge, Members
    <3>2. ASSUME NEW v \in Worker
          PROVE  EmptyBy(p, worker[v])'
      <4>1. CASE v = w
        BY <2>1, <4>1 DEF EmptyBy
      <4>2. CASE v # w
        <5>1. worker'[v] = worker[v] /\ EmptyBy(p, worker[v])
          BY <2>1, <4>2 DEF Moved, Emptied
        <5> QED BY <3>1, <5>1 DEF EmptyBy
      <4> QED BY <4>1, <4>2
    <3> QED BY <2>1, <3>1, <3>2 DEF Emptied
  <2> QED BY <2>2, <2>3
<1>9. ASSUME NEW w \in Worker, EdgeRefused(w) \/ DeleteEdge(w) \/ Refused(w)
      PROVE  Emptied'
  BY <1>9, AfterEnd, EmptiedQuiet DEF EdgeRefused, DeleteEdge, Refused, history
<1>10. ASSUME NEW w \in Worker, ReceiveDeleteRelationship(w)
       PROVE  Emptied'
  BY <1>10, AfterReceiveDeleteRelationship, EmptiedQuiet DEF ReceiveDeleteRelationship, history
<1>11. ASSUME NEW w \in Worker, NEW e \in Entity, ReceiveDelete(w, e)
       PROVE  Emptied'
  BY <1>11, AfterReceiveDelete, EmptiedQuiet DEF ReceiveDelete, history
<1>12. ASSUME NEW w \in Worker, ListMemberEdges(w)
       PROVE  Emptied'
  <2> SUFFICES ASSUME NEW p \in Project \ late'
               PROVE  /\ p \in gone' => Members(p)' = {}
                      /\ \A v \in Worker : EmptyBy(p, worker[v])'
    BY DEF Emptied
  <2>1. Members(p)' = Members(p) /\ gone' = gone /\ p \in Project \ late
    BY <1>12 DEF ListMemberEdges, Members, history
  <2>2. ASSUME NEW v \in Worker
        PROVE  EmptyBy(p, worker[v])'
    <3>1. CASE v = w
      <4>1. worker'[w].to = p =>
              /\ worker'[w].left = Members(p)
              /\ worker'[w].pc = IF worker'[w].left = {} THEN "deleteEntity" ELSE "deleteMember"
        BY <1>12, AfterListMemberEdges
      <4> QED BY <2>1, <3>1, <4>1 DEF EmptyBy
    <3>2. CASE v # w
      <4>1. worker'[v] = worker[v] /\ EmptyBy(p, worker[v])
        BY <1>12, <2>1, <3>2, AfterListMemberEdges DEF Moved, Emptied
      <4> QED BY <2>1, <4>1 DEF EmptyBy
    <3> QED BY <3>1, <3>2
  <2> QED BY <2>1, <2>2 DEF Emptied
<1>13. ASSUME NEW w \in Worker, DeleteMember(w)
       PROVE  Emptied'
  <2>1. PICK e \in worker[w].left :
          worker'[w].left = worker[w].left \ {e} /\ edge' = edge \ {e}
    BY <1>13, AfterDeleteMember
  <2> SUFFICES ASSUME NEW p \in Project \ late'
               PROVE  /\ p \in gone' => Members(p)' = {}
                      /\ \A v \in Worker : EmptyBy(p, worker[v])'
    BY DEF Emptied
  <2>2. Members(p)' = Members(p) \ {e} /\ gone' = gone /\ p \in Project \ late
    BY <1>13, <2>1 DEF DeleteMember, Members
  <2>3. ASSUME NEW v \in Worker
        PROVE  EmptyBy(p, worker[v])'
    <3>1. EmptyBy(p, worker[v])
      BY <2>2 DEF Emptied
    <3>2. CASE v = w
      <4>1. /\ worker'[w].to = worker[w].to /\ worker[w].pc = "deleteMember"
            /\ worker'[w].pc = IF worker'[w].left = {} THEN "deleteEntity" ELSE "deleteMember"
        BY <1>13, AfterDeleteMember DEF DeleteMember, At
      <4> QED BY <2>1, <2>2, <3>1, <3>2, <4>1 DEF EmptyBy
    <3>3. CASE v # w
      <4>1. worker'[v] = worker[v]
        BY <1>13, <3>3, AfterDeleteMember DEF Moved
      <4> QED BY <2>2, <3>1, <4>1 DEF EmptyBy
    <3> QED BY <3>2, <3>3
  <2> QED BY <2>2, <2>3 DEF Emptied
<1>14. ASSUME NEW w \in Worker, DeleteEntity(w)
       PROVE  Emptied'
  <2> SUFFICES ASSUME NEW p \in Project \ late'
               PROVE  /\ p \in gone' => Members(p)' = {}
                      /\ \A v \in Worker : EmptyBy(p, worker[v])'
    BY DEF Emptied
  <2>1. /\ Members(p)' = Members(p) /\ p \in Project \ late
        /\ gone' \subseteq gone \cup {worker[w].to} /\ worker[w].pc = "deleteEntity"
    BY <1>14 DEF DeleteEntity, Members, At
  <2>2. EmptyBy(p, worker[w])
    BY <2>1 DEF Emptied
  <2>3. p \in gone' => Members(p)' = {}
    BY <2>1, <2>2 DEF Emptied, EmptyBy
  <2>4. ASSUME NEW v \in Worker
        PROVE  EmptyBy(p, worker[v])'
    <3>1. Moved(w) /\ worker'[w].pc = "idle"
      BY <1>14, AfterEnd
    <3>2. CASE v = w
      BY <3>1, <3>2 DEF EmptyBy
    <3>3. CASE v # w
      <4>1. worker'[v] = worker[v] /\ EmptyBy(p, worker[v])
        BY <2>1, <3>1, <3>3 DEF Moved, Emptied
      <4> QED BY <2>1, <4>1 DEF EmptyBy
    <3> QED BY <3>2, <3>3
  <2> QED BY <2>3, <2>4
<1>15. CASE UNCHANGED vars
  BY <1>15 DEF vars, Emptied, EmptyBy, Members
<1> QED
  BY <1>1, <1>2, <1>3, <1>4, <1>5, <1>6, <1>7, <1>8, <1>9, <1>10, <1>11, <1>12, <1>13, <1>14,
     <1>15 DEF Next

(* DeleteProject leaves a deleted project without members, but for those   *)
(* created after it had listed them.                                       *)
THEOREM DeletedIsEmpty == Spec => []DeletedProjectIsEmpty
<1>1. Init => Emptied
  BY IdleTyped DEF Init, Emptied, EmptyBy, Members, Idle
<1>2. Emptied => DeletedProjectIsEmpty
  BY DEF Emptied, DeletedProjectIsEmpty
<1> QED BY <1>1, <1>2, TypedInit, TypedStep, EmptiedStep, PTL DEF Spec

-----------------------------------------------------------------------------
(* The numbers of a project's tasks differ.  As long as tasks only come to *)
(* the project one creation after the other and none leaves it, the        *)
(* members bear the numbers up to how many they are, and the goroutine     *)
(* that creates the next one counts just them.                             *)

Creating(r, p) ==
  /\ r.to = p
  /\ \/ r.pc \in {"members", "count", "createTask", "getFrom"}
     \/ r.pc \in {"getTo", "listEdges", "createEdge"} /\ r.count > 0

(* How far a goroutine has come that creates a task in a project of n      *)
(* members ms; num and known are the tasks' numbers and those there were.  *)
Progress(r, ms, num, known) ==
  LET n == Cardinality(ms) IN
  /\ r.pc = "members" => r.count = 0
  /\ r.pc = "count" => r.left \subseteq ms /\ r.count + Cardinality(r.left) = n
  /\ r.pc = "createTask" => r.count = n
  /\ r.pc \in {"getFrom", "getTo", "listEdges", "createEdge"} =>
       r.from \in known /\ num[r.from] = n + 1 /\ r.count = n + 1

Known == Task \cap (alive \cup gone)

Counted(p) ==
  /\ \A v, w \in Worker : Creating(worker[v], p) /\ Creating(worker[w], p) => v = w
  /\ \A e \in Members(p) :
       /\ e.key.from \in Task \cap alive
       /\ number[e.key.from] \in 1..Cardinality(Members(p))
  /\ \A e, f \in Members(p) : e # f => number[e.key.from] # number[f.key.from]
  /\ \A w \in Worker : Creating(worker[w], p) => Progress(worker[w], Members(p), number, Known)

Into(r) == r.pc = "deleteMember" => \A e \in r.left : e.key.to = r.to

Ordered ==
  /\ IsFiniteSet(edge) /\ \A e \in edge : e.id <= created
  /\ \A w \in Worker : Into(worker[w])
  /\ \A p \in Project \ (mixed \cup crowded) : Counted(p)

(* A step that leaves the members of p as they are.                        *)
LEMMA CountedKept ==
  ASSUME Typed, Ordered, NEW p \in Project \ (mixed \cup crowded), Members(p)' = Members(p),
         \A t \in Known : t \in Known' /\ number'[t] = number[t],
         \A e \in Members(p) : e.key.from \in alive => e.key.from \in alive',
         \A v \in Worker : Creating(worker'[v], p) =>
           /\ Creating(worker[v], p)
           /\ worker'[v] = worker[v] \/ Progress(worker'[v], Members(p), number', Known')
  PROVE  Counted(p)'
<1>1. Counted(p)
  BY DEF Ordered
<1>2. \A v, w \in Worker : Creating(worker'[v], p) /\ Creating(worker'[w], p) => v = w
  BY <1>1 DEF Counted
<1>3. \A e \in Members(p)' :
        /\ e.key.from \in Task \cap alive'
        /\ number'[e.key.from] = number[e.key.from]
        /\ number[e.key.from] \in 1..Cardinality(Members(p))
  BY <1>1 DEF Counted, Known
<1>4. \A e, f \in Members(p)' : e # f => number'[e.key.from] # number'[f.key.from]
  BY <1>1, <1>3 DEF Counted
<1>5. \A v \in Worker : Creating(worker'[v], p) =>
        Progress(worker'[v], Members(p), number', Known')
  BY <1>1 DEF Counted, Progress
<1> HIDE DEF Known
<1>6. \A v \in Worker : Creating(worker'[v], p) =>
        Progress(worker'[v], Members(p)', number', Known')
  BY <1>5
<1> QED BY <1>2, <1>3, <1>4, <1>6 DEF Counted, Creating, Progress

(* A step that leaves the graph, but for its history, as it was.           *)
LEMMA OrderedQuiet ==
  ASSUME Typed, Ordered, NEW w \in Worker, Moved(w), Into(worker'[w]),
         UNCHANGED <<edge, alive, gone, number, created>>,
         mixed \subseteq mixed', crowded \subseteq crowded',
         \A p \in Project \ (mixed' \cup crowded') : Creating(worker'[w], p) =>
           Creating(worker[w], p) /\ Progress(worker'[w], Members(p), number, Known)
  PROVE  Ordered'
<1>1. \A v \in Worker \ {w} : worker'[v] = worker[v]
  BY DEF Moved
<1>2. \A p \in Project \ (mixed' \cup crowded') : Counted(p)'
  <2> SUFFICES ASSUME NEW p \in Project \ (mixed' \cup crowded')
               PROVE  Counted(p)'
    OBVIOUS
  <2>1. p \in Project \ (mixed \cup crowded) /\ Members(p)' = Members(p) /\ Known' = Known
    BY DEF Members, Known
  <2>2. \A v \in Worker : Creating(worker'[v], p) =>
          /\ Creating(worker[v], p)
          /\ worker'[v] = worker[v] \/ Progress(worker'[v], Members(p), number', Known')
    BY <1>1, <2>1
  <2> QED BY <2>1, <2>2, CountedKept
<1>3. \A v \in Worker : Into(worker'[v])
  BY <1>1 DEF Ordered
<1> QED BY <1>2, <1>3 DEF Ordered, Into

(* A goroutine that creates no task in a project.                          *)
LEMMA OrderedAside ==
  ASSUME Typed, Ordered, NEW w \in Worker, Moved(w),
         \/ worker'[w].pc \in {"idle", "deleteEdge", "memberEdges", "deleteEntity"}
         \/ worker'[w].pc = "getTo" /\ worker'[w].count = 0,
         UNCHANGED <<edge, alive, gone, number, created>>,
         mixed \subseteq mixed', crowded \subseteq crowded'
  PROVE  Ordered'
<1>1. Into(worker'[w]) /\ \A p : ~Creating(worker'[w], p)
  BY DEF Into, Creating
<1> QED BY <1>1, OrderedQuiet

LEMMA Listing ==
  ASSUME Typed, Ordered, NEW p
  PROVE  Members(p) \subseteq edge /\ IsFiniteSet(Members(p)) /\ Cardinality(Members(p)) \in Nat
<1>1. Members(p) \subseteq edge
  BY DEF Members
<1> QED BY <1>1, FS_Subset, FS_CardinalityType DEF Ordered

LEMMA OrderedReceive ==
  ASSUME Typed, Ordered, NEW w \in Worker, NEW q \in Project, ReceiveCreateTask(w, q)
  PROVE  Ordered'
<1> DEFINE r == [Idle EXCEPT !.pc = "members", !.to = q]
<1>1. /\ Become(w, r) /\ UNCHANGED <<edge, alive, gone, number, created, mixed>>
      /\ crowded' = IF CreatingIn(q) # {} THEN crowded \cup {q} ELSE crowded
  BY DEF ReceiveCreateTask
<1>2. r.pc = "members" /\ r.to = q /\ r.count = 0 /\ r \in Local
  BY DEF Idle, Local, PC, Entity
<1> HIDE DEF r
<1>3. worker'[w] = r /\ \A v \in Worker \ {w} : worker'[v] = worker[v]
  BY <1>1, <1>2, Becomes
<1>4. ASSUME NEW p \in Project \ (mixed' \cup crowded')
      PROVE  Counted(p)'
  <2>1. p \in Project \ (mixed \cup crowded) /\ Members(p)' = Members(p) /\ Known' = Known
    BY <1>1 DEF Members, Known
  <2>2. CASE p # q
    <3>1. ~Creating(r, p)
      BY <1>2, <2>2 DEF Creating
    <3>2. \A v \in Worker : Creating(worker'[v], p) => Creating(worker[v], p) /\ worker'[v] = worker[v]
      BY <1>3, <3>1
    <3> QED BY <1>1, <2>1, <3>2, CountedKept
  <2>3. CASE p = q
    <3>1. CreatingIn(p) = {}
      BY <1>1, <2>3
    <3>2. \A v \in Worker : ~Creating(worker[v], p)
      BY <3>1 DEF CreatingIn, Creating
    <3>3. \A v \in Worker : Creating(worker'[v], p) => v = w
      BY <1>3, <3>2
    <3>4. Progress(r, Members(p)', number', Known')
      BY <1>2 DEF Progress
    <3>5. \A v \in Worker : Creating(worker'[v], p) =>
            Progress(worker'[v], Members(p)', number', Known')
      BY <1>3, <3>3, <3>4
    <3>6. Counted(p)
      BY <2>1 DEF Ordered
    <3>7. /\ \A e \in Members(p)' :
               /\ e.key.from \in Task \cap alive'
               /\ number'[e.key.from] \in 1..Cardinality(Members(p)')
          /\ \A e, f \in Members(p)' : e # f => number'[e.key.from] # number'[f.key.from]
      BY <1>1, <2>1, <3>6 DEF Counted
    <3> QED BY <3>3, <3>5, <3>7 DEF Counted, Creating, Progress
  <2> QED BY <2>2, <2>3
<1>5. \A v \in Worker : Into(worker'[v])
  BY <1>2, <1>3 DEF Ordered, Into
<1> QED BY <1>1, <1>4, <1>5 DEF Ordered, Into

(* Of a goroutine that creates a task in an orderly project.               *)
LEMMA InProgress ==
  ASSUME Ordered, NEW w \in Worker, NEW p \in Project \ (mixed \cup crowded), Creating(worker[w], p)
  PROVE  Progress(worker[w], Members(p), number, Known) /\ Counted(p)
BY DEF Ordered, Counted

LEMMA OrderedListMembers ==
  ASSUME Typed, Ordered, NEW w \in Worker, ListMembers(w)
  PROVE  Ordered'
<1> DEFINE me == worker[w]
           ms == Members(me.to)
           r == [me EXCEPT !.left = ms]
           n == NextOf(r, "count", "createTask")
<1>1. /\ me.pc = "members" /\ Become(w, n)
      /\ UNCHANGED <<edge, alive, gone, number, created, mixed, crowded>>
  BY DEF ListMembers, At, history
<1>2. ms \in SUBSET Edge
  BY DEF Members, Typed, TypeOK
<1> HIDE DEF ms
<1>3. r \in Local /\ r.to = me.to /\ r.left = ms /\ r.count = me.count
  BY <1>2, Here DEF Local
<1> HIDE DEF r
<1>4. /\ n \in Local /\ n.pc = IF ms = {} THEN "createTask" ELSE "count"
      /\ n.to = me.to /\ n.left = ms /\ n.count = me.count
  BY <1>3, Nexts DEF PC
<1> HIDE DEF n
<1>5. worker'[w] = n /\ Moved(w)
  BY <1>1, <1>4, Becomes, AfterListMembers
<1>6. ASSUME NEW p \in Project \ (mixed' \cup crowded'), Creating(n, p)
      PROVE  Creating(me, p) /\ Progress(n, Members(p), number, Known)
  <2>1. Creating(me, p) /\ ms = Members(p)
    BY <1>1, <1>4, <1>6 DEF Creating, ms
  <2>2. me.count = 0
    BY <1>1, <1>6, <2>1, InProgress DEF Progress
  <2>3. Cardinality(ms) \in Nat /\ (ms = {} => Cardinality(ms) = 0)
    BY <2>1, Listing, FS_EmptySet
  <2> QED BY <1>4, <2>1, <2>2, <2>3 DEF Progress
<1>7. Into(n)
  BY <1>4 DEF Into
<1> HIDE DEF me
<1> QED BY <1>1, <1>5, <1>6, <1>7, OrderedQuiet DEF me

LEMMA OrderedCountMember ==
  ASSUME Typed, Ordered, NEW w \in Worker, CountMember(w)
  PROVE  Ordered'
<1> DEFINE me == worker[w]
<1>1. PICK e \in me.left :
        Become(w, NextOf([me EXCEPT !.left = me.left \ {e},
                                    !.count = IF e.key.from \in alive THEN me.count + 1 ELSE me.count],
                         "count", "createTask"))
  BY DEF CountMember
<1> DEFINE c == IF e.key.from \in alive THEN me.count + 1 ELSE me.count
           left == me.left \ {e}
           r == [me EXCEPT !.left = left, !.count = c]
           n == NextOf(r, "count", "createTask")
<1>2. /\ me.pc = "count" /\ Become(w, n)
      /\ UNCHANGED <<edge, alive, gone, number, created, mixed, crowded>>
  BY <1>1 DEF CountMember, At, history
<1>3. left \in SUBSET Edge /\ c \in Nat
  BY Here DEF Local
<1> HIDE DEF c, left
<1>4. r \in Local /\ r.to = me.to /\ r.left = left /\ r.count = c
  BY <1>3, Here DEF Local
<1> HIDE DEF r
<1>5. /\ n \in Local /\ n.pc = IF left = {} THEN "createTask" ELSE "count"
      /\ n.to = me.to /\ n.left = left /\ n.count = c
  BY <1>4, Nexts DEF PC
<1> HIDE DEF n
<1>6. worker'[w] = n /\ Moved(w)
  BY <1>2, <1>5, Becomes, AfterCountMember
<1>7. ASSUME NEW p \in Project \ (mixed' \cup crowded'), Creating(n, p)
      PROVE  Creating(me, p) /\ Progress(n, Members(p), number, Known)
  <2>1. Creating(me, p)
    BY <1>2, <1>5, <1>7 DEF Creating
  <2>2. /\ me.left \subseteq Members(p) /\ me.count + Cardinality(me.left) = Cardinality(Members(p))
        /\ Counted(p)
    BY <1>2, <1>7, <2>1, InProgress DEF Progress
  <2>3. c = me.count + 1
    BY <1>1, <2>2 DEF c, Counted
  <2>4. IsFiniteSet(me.left) /\ Cardinality(me.left) \in Nat
    BY <2>2, Listing, FS_Subset, FS_CardinalityType
  <2>5. Cardinality(left) = Cardinality(me.left) - 1 /\ IsFiniteSet(left)
    BY <1>1, <2>4, FS_RemoveElement DEF left
  <2>6. c + Cardinality(left) = Cardinality(Members(p))
    <3>1. me.count \in Nat
      BY Here DEF Local
    <3> QED BY <2>2, <2>3, <2>4, <2>5, <3>1
  <2>7. left = {} => c = Cardinality(Members(p))
    BY <1>3, <2>6, FS_EmptySet
  <2>8. left \subseteq Members(p)
    BY <2>2 DEF left
  <2> QED BY <1>5, <2>1, <2>6, <2>7, <2>8 DEF Progress
<1>8. Into(n)
  BY <1>5 DEF Into
<1> HIDE DEF me
<1> QED BY <1>2, <1>6, <1>7, <1>8, OrderedQuiet DEF me

LEMMA OrderedCreateTask ==
  ASSUME Typed, Ordered, NEW w \in Worker, CreateTask(w)
  PROVE  Ordered'
<1> DEFINE me == worker[w]
           c == me.count + 1
<1>1. PICK t \in Fresh \cap Task :
        /\ alive' = alive \cup {t}
        /\ number' = [number EXCEPT ![t] = c]
        /\ Become(w, [me EXCEPT !.pc = "getFrom", !.from = t, !.count = c])
  BY DEF CreateTask
<1> DEFINE r == [me EXCEPT !.pc = "getFrom", !.from = t, !.count = c]
<1>2. me.pc = "createTask" /\ UNCHANGED <<gone, edge, created, mixed, crowded>> /\ Become(w, r)
  BY <1>1 DEF CreateTask, At, history
<1>3. c \in Nat /\ t \in Entity /\ t \in Task /\ "getFrom" \in PC
  BY Here DEF Local, Entity, PC
<1>4. t \notin Known
  BY DEF Known, Fresh
<1> HIDE DEF c
<1>5. /\ r \in Local /\ r.pc = "getFrom" /\ r.from = t /\ r.to = me.to /\ r.count = c
  BY Here, <1>3 DEF Local
<1> HIDE DEF r
<1>6. worker'[w] = r /\ \A v \in Worker \ {w} : worker'[v] = worker[v]
  BY <1>2, <1>5, Becomes
<1>7. t \in Known' /\ number'[t] = c /\ \A s \in Known : s \in Known' /\ number'[s] = number[s]
  BY <1>1, <1>2, <1>3, <1>4 DEF Known, Typed, TypeOK
<1>8. ASSUME NEW p \in Project \ (mixed' \cup crowded')
      PROVE  Counted(p)'
  <2>1. p \in Project \ (mixed \cup crowded) /\ Members(p)' = Members(p)
    BY <1>2 DEF Members
  <2>2. ASSUME Creating(r, p)
        PROVE  Creating(me, p) /\ Progress(r, Members(p), number', Known')
    <3>1. Creating(me, p)
      BY <1>2, <1>5, <2>2 DEF Creating
    <3>2. me.count = Cardinality(Members(p))
      BY <1>2, <2>1, <3>1, InProgress DEF Progress
    <3>3. c = Cardinality(Members(p)) + 1
      BY <3>2 DEF c
    <3> QED BY <1>5, <1>7, <3>1, <3>3 DEF Progress
  <2>3. \A v \in Worker : Creating(worker'[v], p) =>
          /\ Creating(worker[v], p)
          /\ worker'[v] = worker[v] \/ Progress(worker'[v], Members(p), number', Known')
    BY <1>6, <2>2
  <2> QED BY <1>1, <1>7, <2>1, <2>3, CountedKept
<1>9. \A v \in Worker : Into(worker'[v])
  BY <1>5, <1>6 DEF Ordered, Into
<1> QED BY <1>2, <1>8, <1>9 DEF Ordered, Into

(* The same locals at another program counter, or the call ends.           *)
LEMMA OrderedOnward ==
  ASSUME Typed, Ordered, NEW w \in Worker, Moved(w),
         NEW pc \in {"getTo", "listEdges", "createEdge"}, NEW ok \in BOOLEAN,
         worker[w].pc = "getFrom" \/ worker[w].pc \in {"getTo", "listEdges"},
         Become(w, IF ok THEN [worker[w] EXCEPT !.pc = pc] ELSE Idle),
         UNCHANGED <<alive, gone, number, edge, created, history>>
  PROVE  Ordered'
<1>1. UNCHANGED <<edge, alive, gone, number, created, mixed, crowded>>
  BY DEF history
<1>2. CASE ~ok
  <2>1. worker'[w].pc = "idle"
    BY <1>2, MovesIdle
  <2> QED BY <1>1, <2>1, OrderedAside
<1>3. CASE ok
  <2> DEFINE me == worker[w]
             r == [me EXCEPT !.pc = pc]
  <2>1. r \in Local /\ r.pc = pc /\ r.to = me.to /\ r.from = me.from /\ r.count = me.count
    <3>1. pc \in PC
      BY DEF PC
    <3> QED BY <3>1, Goes
  <2>2. Become(w, r)
    BY <1>3
  <2> HIDE DEF r
  <2>3. worker'[w] = r
    BY <2>1, <2>2, Becomes
  <2>4. Into(r)
    BY <2>1 DEF Into
  <2>5. ASSUME NEW p \in Project \ (mixed' \cup crowded'), Creating(r, p)
        PROVE  Creating(me, p) /\ Progress(r, Members(p), number, Known)
    <3>1. Creating(me, p)
      BY <2>1, <2>5 DEF Creating
    <3>2. Progress(me, Members(p), number, Known)
      BY <1>1, <3>1, InProgress
    <3> QED BY <2>1, <3>1, <3>2 DEF Progress
  <2> HIDE DEF me
  <2> QED BY <1>1, <2>3, <2>4, <2>5, OrderedQuiet DEF me
<1> QED BY <1>2, <1>3

LEMMA OrderedGetFrom ==
  ASSUME Typed, Ordered, NEW w \in Worker, GetFrom(w)
  PROVE  Ordered'
<1> DEFINE ok == FromAllowed(worker[w])
<1>1. ok \in BOOLEAN /\ worker[w].pc = "getFrom"
      /\ UNCHANGED <<alive, gone, number, edge, created, history>>
  BY DEF FromAllowed, GetFrom, At
<1>2. Become(w, IF ok THEN [worker[w] EXCEPT !.pc = "getTo"] ELSE Idle) /\ Moved(w)
  BY AfterGetFrom DEF GetFrom
<1> HIDE DEF ok
<1> QED BY <1>1, <1>2, OrderedOnward

LEMMA OrderedGetTo ==
  ASSUME Typed, Ordered, NEW w \in Worker, GetTo(w)
  PROVE  Ordered'
<1> DEFINE ok == ToAllowed(worker[w])
<1>1. ok \in BOOLEAN /\ worker[w].pc = "getTo"
      /\ UNCHANGED <<alive, gone, number, edge, created, history>>
  BY DEF ToAllowed, GetTo, At
<1>2. Become(w, IF ok THEN [worker[w] EXCEPT !.pc = "listEdges"] ELSE Idle) /\ Moved(w)
  BY AfterGetTo DEF GetTo
<1> HIDE DEF ok
<1> QED BY <1>1, <1>2, OrderedOnward

LEMMA OrderedListEdges ==
  ASSUME Typed, Ordered, NEW w \in Worker, ListEdges(w)
  PROVE  Ordered'
<1> DEFINE ok == \A e \in edge : e.key # KeyOf(worker[w])
<1>1. ok \in BOOLEAN /\ worker[w].pc = "listEdges"
      /\ UNCHANGED <<alive, gone, number, edge, created, history>>
  BY DEF ListEdges, At
<1>2. (\E e \in edge : e.key = KeyOf(worker[w])) <=> ~ok
  OBVIOUS
<1>3. Become(w, IF ok THEN [worker[w] EXCEPT !.pc = "createEdge"] ELSE Idle) /\ Moved(w)
  BY <1>2, AfterListEdges DEF ListEdges
<1> HIDE DEF ok
<1> QED BY <1>1, <1>3, OrderedOnward

(* A step of a goroutine that creates no task before it nor after it, and  *)
(* that leaves the members of the orderly projects as they are.            *)
LEMMA OrderedElsewhere ==
  ASSUME Typed, Ordered, NEW w \in Worker, Moved(w), Into(worker'[w]),
         edge' \subseteq edge, UNCHANGED <<number, created>>, Known \subseteq Known',
         mixed \subseteq mixed', crowded \subseteq crowded',
         \A p : ~Creating(worker'[w], p),
         \A p \in Project \ (mixed' \cup crowded') :
           /\ Members(p) \subseteq edge'
           /\ \A e \in Members(p) : e.key.from \in alive => e.key.from \in alive'
  PROVE  Ordered'
<1>1. \A v \in Worker \ {w} : worker'[v] = worker[v]
  BY DEF Moved
<1>2. ASSUME NEW p \in Project \ (mixed' \cup crowded')
      PROVE  Counted(p)'
  <2>1. p \in Project \ (mixed \cup crowded)
    OBVIOUS
  <2>2. Members(p)' = Members(p)
    BY <1>2 DEF Members
  <2>3. \A v \in Worker : Creating(worker'[v], p) => Creating(worker[v], p) /\ worker'[v] = worker[v]
    BY <1>1
  <2>4. \A e \in Members(p) : e.key.from \in alive => e.key.from \in alive'
    BY <1>2
  <2>5. \A t \in Known : t \in Known' /\ number'[t] = number[t]
    OBVIOUS
  <2> QED BY <2>1, <2>2, <2>3, <2>4, <2>5, CountedKept
<1>3. IsFiniteSet(edge)' /\ \A e \in edge' : e.id <= created'
  BY FS_Subset DEF Ordered
<1>4. \A v \in Worker : Into(worker'[v])
  BY <1>1 DEF Ordered
<1> QED BY <1>2, <1>3, <1>4 DEF Ordered, Into

LEMMA OrderedDeleteEdge ==
  ASSUME Typed, Ordered, NEW w \in Worker, DeleteEdge(w)
  PROVE  Ordered'
<1> DEFINE me == worker[w]
<1>1. /\ me.pc = "deleteEdge" /\ edge' = edge \ me.left
      /\ mixed' = IF me.to \in Project THEN mixed \cup {me.to} ELSE mixed
      /\ UNCHANGED <<alive, gone, number, created, crowded>>
  BY DEF DeleteEdge, At
<1>2. Moved(w) /\ worker'[w].pc = "idle"
  BY AfterEnd
<1>3. Into(worker'[w]) /\ \A p : ~Creating(worker'[w], p)
  BY <1>2 DEF Into, Creating
<1>4. \A e \in me.left : e.key.to = me.to
  <2>1. me.left \subseteq {e \in Edge : e.key = KeyOf(me)}
    BY <1>1, Here DEF Placed
  <2>2. KeyOf(me).to = me.to
    BY DEF KeyOf
  <2> HIDE DEF me
  <2> QED BY <2>1, <2>2
<1>5. ASSUME NEW p \in Project \ (mixed' \cup crowded')
      PROVE  /\ Members(p) \subseteq edge'
             /\ \A e \in Members(p) : e.key.from \in alive => e.key.from \in alive'
  <2>1. p # me.to
    BY <1>1
  <2> QED BY <1>1, <1>4, <2>1 DEF Members
<1>6. Known' = Known /\ mixed \subseteq mixed' /\ edge' \subseteq edge /\ crowded \subseteq crowded'
  BY <1>1 DEF Known
<1> HIDE DEF me
<1> QED BY <1>1, <1>2, <1>3, <1>5, <1>6, OrderedElsewhere

LEMMA OrderedDeleteMember ==
  ASSUME Typed, Ordered, NEW w \in Worker, DeleteMember(w)
  PROVE  Ordered'
<1>1. PICK e \in worker[w].left :
        /\ Moved(w) /\ worker'[w].to = worker[w].to
        /\ worker'[w].left = worker[w].left \ {e} /\ edge' = edge \ {e}
        /\ worker'[w].pc = IF worker'[w].left = {} THEN "deleteEntity" ELSE "deleteMember"
  BY AfterDeleteMember
<1>2. /\ worker[w].pc = "deleteMember" /\ mixed' = mixed \cup {worker[w].to}
      /\ UNCHANGED <<alive, gone, number, created, crowded>>
  BY DEF DeleteMember, At
<1>3. \A f \in worker[w].left : f.key.to = worker[w].to
  BY <1>2 DEF Ordered, Into
<1>4. Into(worker'[w]) /\ \A p : ~Creating(worker'[w], p)
  BY <1>1, <1>3 DEF Into, Creating
<1>5. ASSUME NEW p \in Project \ (mixed' \cup crowded')
      PROVE  /\ Members(p) \subseteq edge'
             /\ \A f \in Members(p) : f.key.from \in alive => f.key.from \in alive'
  <2>1. p # e.key.to
    BY <1>2, <1>3
  <2> QED BY <1>1, <1>2, <2>1 DEF Members
<1>6. Known' = Known /\ mixed \subseteq mixed' /\ edge' \subseteq edge /\ crowded \subseteq crowded'
  BY <1>1, <1>2 DEF Known
<1> QED BY <1>1, <1>2, <1>4, <1>5, <1>6, OrderedElsewhere

(* A project whose member is deleted is no longer counted among the        *)
(* orderly ones.                                                           *)
LEMMA OrderedDeleteEntity ==
  ASSUME Typed, Ordered, NEW w \in Worker, DeleteEntity(w)
  PROVE  Ordered'
<1>1. /\ alive' = alive \ {worker[w].to}
      /\ gone' = IF worker[w].to \in alive THEN gone \cup {worker[w].to} ELSE gone
      /\ mixed' = mixed \cup {e.key.to : e \in {x \in edge : x.key.from = worker[w].to
                                                            /\ x.key.label = "member_of"}}
      /\ UNCHANGED <<number, edge, created, crowded>>
  BY DEF DeleteEntity
<1>2. Moved(w) /\ worker'[w].pc = "idle"
  BY AfterEnd
<1>3. Into(worker'[w]) /\ \A p : ~Creating(worker'[w], p)
  BY <1>2 DEF Into, Creating
<1>4. ASSUME NEW p \in Project \ (mixed' \cup crowded')
      PROVE  /\ Members(p) \subseteq edge'
             /\ \A e \in Members(p) : e.key.from \in alive => e.key.from \in alive'
  <2>1. \A e \in Members(p) : e.key.from # worker[w].to
    BY <1>1 DEF Members
  <2> QED BY <1>1, <2>1 DEF Members
<1>5. Known \subseteq Known' /\ mixed \subseteq mixed' /\ edge' \subseteq edge
      /\ crowded \subseteq crowded'
  BY <1>1 DEF Known
<1> QED BY <1>1, <1>2, <1>3, <1>4, <1>5, OrderedElsewhere

LEMMA OrderedListMemberEdges ==
  ASSUME Typed, Ordered, NEW w \in Worker, ListMemberEdges(w)
  PROVE  Ordered'
<1>1. /\ Moved(w) /\ worker'[w].left = Members(worker'[w].to)
      /\ worker'[w].pc \in {"deleteEntity", "deleteMember"}
  BY AfterListMemberEdges
<1>2. UNCHANGED <<edge, alive, gone, number, created, mixed, crowded>>
  BY DEF ListMemberEdges, history
<1>3. Into(worker'[w]) /\ \A p : ~Creating(worker'[w], p)
  BY <1>1 DEF Into, Creating, Members
<1> QED BY <1>1, <1>2, <1>3, OrderedQuiet

(* A project or an agent is created.                                       *)
LEMMA OrderedGrows ==
  ASSUME Typed, Ordered, alive \subseteq alive',
         UNCHANGED <<gone, number, edge, worker, created, mixed, crowded>>
  PROVE  Ordered'
<1>1. ASSUME NEW p \in Project \ (mixed \cup crowded)
      PROVE  Counted(p)'
  <2>1. Members(p)' = Members(p)
    BY DEF Members
  <2>2. \A t \in Known : t \in Known' /\ number'[t] = number[t]
    BY DEF Known
  <2>3. \A e \in Members(p) : e.key.from \in alive => e.key.from \in alive'
    OBVIOUS
  <2> QED BY <2>1, <2>2, <2>3, CountedKept
<1> QED BY <1>1 DEF Ordered, Into

(* The edge of a goroutine in an orderly project is that of the task it    *)
(* has just created there, which has the next number.                      *)
LEMMA OrderedCreateEdge ==
  ASSUME Typed, Ordered, NEW w \in Worker, CreateEdge(w)
  PROVE  Ordered'
<1> DEFINE me == worker[w]
           key == KeyOf(me)
           new == [id |-> created + 1, key |-> key]
<1>1. /\ me.pc = "createEdge" /\ edge' = edge \cup {new} /\ created' = created + 1
      /\ mixed' = IF key.to \in Project /\ (me.count = 0 \/ key.from \in gone)
                  THEN mixed \cup {key.to} ELSE mixed
      /\ UNCHANGED <<alive, gone, number, crowded>>
  BY DEF CreateEdge, At
<1>2. Moved(w) /\ worker'[w].pc = "idle"
  BY AfterEnd
<1>3. key.to = me.to /\ key.from = me.from /\ key.label = me.label
  BY DEF KeyOf
<1>4. created \in Nat /\ me.count \in Nat
  BY Here DEF Typed, TypeOK, Local
<1>5. new.id = created + 1 /\ new.key = key
  OBVIOUS
<1>6. new \notin edge
  BY <1>4, <1>5 DEF Ordered
<1> HIDE DEF new
<1>7. \A e \in edge : e.id \in Nat
  BY DEF Typed, TypeOK, Edge
<1>8. IsFiniteSet(edge)' /\ \A e \in edge' : e.id <= created'
  BY <1>1, <1>4, <1>5, <1>7, FS_AddElement DEF Ordered
<1>9. \A v \in Worker : Into(worker'[v])
  BY <1>2 DEF Ordered, Into, Moved
<1>10. Known' = Known /\ mixed \subseteq mixed'
  BY <1>1 DEF Known
<1>11. \A v \in Worker : \A p : Creating(worker'[v], p) =>
         v # w /\ worker'[v] = worker[v] /\ Creating(worker[v], p)
  BY <1>2 DEF Creating, Moved
<1> HIDE DEF key
<1>12. ASSUME NEW p \in Project \ (mixed' \cup crowded')
       PROVE  Counted(p)'
  <2>1. p \in Project \ (mixed \cup crowded) /\ Counted(p)
    BY <1>1, <1>10 DEF Ordered
  <2>2. CASE key.to # p \/ key.label # "member_of"
    <3>1. Members(p)' = Members(p)
      BY <1>1, <1>5, <2>2 DEF Members
    <3>2. \A e \in Members(p) : e.key.from \in alive => e.key.from \in alive'
      BY <1>1
    <3>3. \A t \in Known : t \in Known' /\ number'[t] = number[t]
      BY <1>1, <1>10
    <3> QED BY <1>11, <2>1, <3>1, <3>2, <3>3, CountedKept
  <2>3. CASE key.to = p /\ key.label = "member_of"
    <3> DEFINE n == Cardinality(Members(p))
    <3>1. me.count > 0 /\ me.from \notin gone
      BY <1>1, <1>3, <1>4, <2>3
    <3>2. Creating(me, p)
      BY <1>1, <1>3, <2>3, <3>1 DEF Creating
    <3>3. me.from \in Known /\ number[me.from] = n + 1
      BY <1>1, <2>1, <3>2, InProgress DEF Progress
    <3>4. me.from \in Task \cap alive
      BY <3>1, <3>3 DEF Known
    <3>5. Members(p)' = Members(p) \cup {new} /\ new \notin Members(p)
      BY <1>1, <1>5, <1>6, <2>3 DEF Members
    <3>6. n \in Nat /\ IsFiniteSet(Members(p))
      BY Listing
    <3>7. Cardinality(Members(p)') = n + 1
      BY <3>5, <3>6, FS_AddElement
    <3>8. \A v \in Worker : ~Creating(worker'[v], p)
      BY <1>11, <2>1, <3>2 DEF Counted
    <3>9. new.key.from = me.from
      BY <1>3, <1>5
    <3>10. \A e \in Members(p) : e.key.from \in Task \cap alive /\ number[e.key.from] \in 1..n
      BY <2>1 DEF Counted
    <3>11. \A e, f \in Members(p) : e # f => number[e.key.from] # number[f.key.from]
      BY <2>1 DEF Counted
    <3> HIDE DEF n, me
    <3>12. \A e \in Members(p)' : number[e.key.from] \in 1..(n + 1)
      BY <3>3, <3>5, <3>6, <3>9, <3>10
    <3>13. \A e \in Members(p) : number[e.key.from] # number[new.key.from]
      BY <3>3, <3>6, <3>9, <3>10
    <3>14. /\ \A e \in Members(p)' :
                /\ e.key.from \in Task \cap alive'
                /\ number'[e.key.from] \in 1..Cardinality(Members(p)')
           /\ \A e, f \in Members(p)' : e # f => number'[e.key.from] # number'[f.key.from]
      <4>1. \A e \in Members(p)' : e.key.from \in Task \cap alive'
        BY <1>1, <3>4, <3>5, <3>9, <3>10
      <4>2. \A e \in Members(p)' : number'[e.key.from] \in 1..Cardinality(Members(p)')
        BY <1>1, <3>7, <3>12
      <4>3. \A e, f \in Members(p)' : e # f => number'[e.key.from] # number'[f.key.from]
        BY <1>1, <3>5, <3>11, <3>13
      <4> QED BY <4>1, <4>2, <4>3
    <3> QED BY <3>8, <3>14 DEF Counted, Creating
  <2> QED BY <2>2, <2>3
<1> QED BY <1>8, <1>9, <1>12 DEF Ordered, Into

LEMMA OrderedInit == ASSUME Init PROVE Ordered
<1>1. \A v \in Worker : Into(worker[v]) /\ \A p : ~Creating(worker[v], p)
  BY DEF Init, Idle, Into, Creating
<1>2. \A p : Members(p) = {}
  BY DEF Init, Members
<1>3. IsFiniteSet(edge) /\ \A e \in edge : e.id <= created
  BY FS_EmptySet DEF Init
<1> QED BY <1>1, <1>2, <1>3 DEF Ordered, Counted

LEMMA OrderedStep ==
  ASSUME Typed, Ordered, [Next]_vars
  PROVE  Ordered'
<1>1. ASSUME NEW p \in Project, CreateProject(p) PROVE Ordered'
  BY <1>1, OrderedGrows DEF CreateProject, history
<1>2. ASSUME NEW a \in Agent, UpsertAgent(a) PROVE Ordered'
  BY <1>2, OrderedGrows DEF UpsertAgent, history
<1>3. ASSUME NEW w \in Worker,
             NEW key \in [label : Label, from : Entity, to : Entity], ReceiveCreateRelationship(w, key)
      PROVE  Ordered'
  <2> DEFINE r == [Idle EXCEPT !.pc = "getTo", !.label = key.label, !.from = key.from, !.to = key.to]
  <2>1. Moved(w)
    BY <1>3, AfterReceiveCreateRelationship
  <2>2. r \in Local /\ r.pc = "getTo" /\ r.count = 0
    BY DEF Idle, Local, PC
  <2>3. Become(w, r) /\ UNCHANGED <<edge, alive, gone, number, created, mixed, crowded>>
    BY <1>3 DEF ReceiveCreateRelationship, history
  <2> HIDE DEF r
  <2>4. worker'[w] = r
    BY <2>2, <2>3, Becomes
  <2> QED BY <2>1, <2>2, <2>3, <2>4, OrderedAside
<1>4. ASSUME NEW w \in Worker, EdgeRefused(w) PROVE Ordered'
  BY <1>4, AfterEnd, OrderedAside DEF EdgeRefused, history
<1>5. ASSUME NEW w \in Worker, Refused(w) PROVE Ordered'
  BY <1>5, AfterEnd, OrderedAside DEF Refused, history
<1>6. ASSUME NEW w \in Worker, ReceiveDeleteRelationship(w) PROVE Ordered'
  BY <1>6, AfterReceiveDeleteRelationship, OrderedAside DEF ReceiveDeleteRelationship, history
<1>7. ASSUME NEW w \in Worker, NEW e \in Entity, ReceiveDelete(w, e) PROVE Ordered'
  BY <1>7, AfterReceiveDelete, OrderedAside DEF ReceiveDelete, history
<1>8. ASSUME UNCHANGED vars PROVE Ordered'
  BY <1>8, OrderedGrows DEF vars, history
<1> QED
  BY <1>1, <1>2, <1>3, <1>4, <1>5, <1>6, <1>7, <1>8, OrderedReceive, OrderedListMembers,
     OrderedCountMember, OrderedCreateTask, OrderedGetFrom, OrderedGetTo, OrderedListEdges,
     OrderedCreateEdge, OrderedDeleteEdge, OrderedListMemberEdges, OrderedDeleteMember,
     OrderedDeleteEntity DEF Next

(* The names generated for the tasks of a project differ, however many     *)
(* calls overlap in other projects, unless a task left the project or      *)
(* joined it by a call of its own, or two creations in it overlapped.      *)
THEOREM NamesDiffer == Spec => []NamesDistinct
<1>1. Init => Typed /\ Ordered
  BY TypedInit, OrderedInit
<1>2. Typed /\ Ordered /\ [Next]_vars => (Typed /\ Ordered)'
  BY TypedStep, OrderedStep
<1>3. Ordered => NamesDistinct
  BY DEF Ordered, Counted, NamesDistinct
<1> QED BY <1>1, <1>2, <1>3, PTL DEF Spec
=============================================================================
