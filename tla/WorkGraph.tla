------------------------------ MODULE WorkGraph ------------------------------
(***************************************************************************)
(* The graph of tasks, projects and agents: creating and deleting edges    *)
(* (relationship.go), projects with their member_of edges and the names    *)
(* generated for their tasks (project.go), agents (agent.go).              *)
(*                                                                         *)
(* Every call has a goroutine (a Worker); its first read belongs to the    *)
(* step that receives it, each later storage call is a step.  Calls that   *)
(* only read change nothing and are left out.                              *)
(***************************************************************************)
EXTENDS Naturals, FiniteSets, Goroutines

CONSTANTS
  Task, Project, Agent,  \* the entities that can be created
  None,
  Label,       \* the edge labels calls name
  InitTasks,   \* tasks there are to begin with, with a name of their own
  MaxEdge,     \* bound on edges created
  MaxCall,     \* bound on calls
  MaxFault     \* bound on refused storage calls

Entity == Task \cup Project \cup Agent

ASSUME NullAssumption == None \notin Entity
ASSUME KindAssumption ==
  Task \cap Project = {} /\ Task \cap Agent = {} /\ Project \cap Agent = {}
ASSUME InitAssumption == InitTasks \subseteq Task
ASSUME BoundAssumption == MaxEdge \in Nat /\ MaxCall \in Nat /\ MaxFault \in Nat

VARIABLES
  alive,    \* the entities there are
  gone,     \* the entities soft-deleted
  number,   \* generated number of each task's name; 0: it has a name of its own
  edge,     \* the edges there are
  created,  \* edges created: the next edge's id, less one
  calls, faults,  \* spent of the bounds
  mixed,    \* history: projects a task left or joined by a call of its own
  crowded,  \* history: projects in which two CreateTaskInProject overlapped
  raced,    \* history: edges two calls were about to create at once
  late      \* history: projects that got a member while or after they were deleted

vars == <<alive, gone, number, edge, worker, created, calls, faults, mixed, crowded, raced, late>>
bounds == <<calls, faults>>
history == <<mixed, crowded, raced, late>>

Key == [label : Label \cup {"member_of"}, from : Entity, to : Entity]
Edge == [id : 1..MaxEdge, key : Key]

Kind(e) == IF e \in Task THEN "Task" ELSE IF e \in Project THEN "Project" ELSE "Agent"

(* relationshipEndpointTypes, for the entities modelled. *)
EndpointTypes ==
  [assigned_to |-> [from |-> {"Task"}, to |-> "Agent"],
   blocks      |-> [from |-> {"Task"}, to |-> "Task"],
   subtask_of  |-> [from |-> {"Task"}, to |-> "Task"],
   depends_on  |-> [from |-> {"Task"}, to |-> "Task"],
   member_of   |-> [from |-> {"Task"}, to |-> "Project"]]

Members(p) == {e \in edge : e.key.label = "member_of" /\ e.key.to = p}

Idle == [pc |-> "idle", label |-> "member_of", from |-> None, to |-> None, left |-> {}, count |-> 0]
PC == {"idle", "members", "count", "createTask", "getFrom", "getTo", "listEdges", "createEdge",
       "deleteEdge", "memberEdges", "deleteMember", "deleteEntity"}

TypeOK ==
  /\ alive \subseteq Entity /\ gone \subseteq Entity /\ alive \cap gone = {}
  /\ number \in [Task -> Nat]
  /\ edge \subseteq Edge
  /\ worker \in [Worker -> [pc : PC, label : Label \cup {"member_of"},
                            from : Entity \cup {None}, to : Entity \cup {None},
                            left : SUBSET Edge, count : Nat]]
  /\ created \in 0..MaxEdge /\ calls \in 0..MaxCall /\ faults \in 0..MaxFault
  /\ mixed \subseteq Project /\ crowded \subseteq Project /\ late \subseteq Project
  /\ raced \subseteq Key

Init ==
  /\ alive = InitTasks
  /\ gone = {} /\ edge = {}
  /\ number = [t \in Task |-> 0]
  /\ worker = [w \in Worker |-> Idle]
  /\ created = 0 /\ calls = 0 /\ faults = 0
  /\ mixed = {} /\ crowded = {} /\ raced = {} /\ late = {}

-----------------------------------------------------------------------------
(* Shared pieces.                                                          *)

Goto(w, pc) == Become(w, [worker[w] EXCEPT !.pc = pc])
Receive(w) == At(w, "idle") /\ calls < MaxCall /\ calls' = calls + 1
Fresh == Entity \ (alive \cup gone)
KeyOf(r) == [label |-> r.label, from |-> r.from, to |-> r.to]

(* A loop goes on at pc while anything is left, and ends at end. *)
NextOf(r, pc, end) == [r EXCEPT !.pc = IF r.left = {} THEN end ELSE pc]

(* The goroutines between CreateTaskInProject's first read and its edge.   *)
CreatingIn(p) ==
  {w \in Worker :
     /\ worker[w].to = p
     /\ \/ worker[w].pc \in {"members", "count", "createTask", "getFrom"}
        \/ worker[w].pc \in {"getTo", "listEdges", "createEdge"} /\ worker[w].count > 0}

-----------------------------------------------------------------------------
(* Projects and agents are created by one storage call.  The schema has no *)
(* UniqueKey for projects; UpsertAgent finds the agent that is there.      *)

CreateProject(p) ==
  /\ p \in Fresh \cap Project
  /\ alive' = alive \cup {p}
  /\ UNCHANGED <<gone, number, edge, worker, created, bounds, history>>

UpsertAgent(a) ==
  /\ a \in Fresh \cap Agent
  /\ alive' = alive \cup {a}
  /\ UNCHANGED <<gone, number, edge, worker, created, bounds, history>>

-----------------------------------------------------------------------------
(* CreateTaskInProject: resolves the project, lists its tasks, names the   *)
(* new task after their number, creates it and adds it to the project.     *)

ReceiveCreateTask(w, p) ==
  /\ Receive(w)
  /\ p \in alive \cap Project
  /\ Become(w, [Idle EXCEPT !.pc = "members", !.to = p])
  /\ crowded' = IF CreatingIn(p) # {} THEN crowded \cup {p} ELSE crowded
  /\ UNCHANGED <<alive, gone, number, edge, created, faults, mixed, raced, late>>

ListMembers(w) ==
  LET me == worker[w] IN
  /\ At(w, "members")
  /\ Become(w, NextOf([me EXCEPT !.left = Members(me.to)], "count", "createTask"))
  /\ UNCHANGED <<alive, gone, number, edge, created, bounds, history>>

(* A member whose task is gone is not counted. *)
CountMember(w) ==
  LET me == worker[w] IN
  /\ At(w, "count")
  /\ \E e \in me.left :
       Become(w, NextOf([me EXCEPT !.left = @ \ {e},
                                   !.count = IF e.key.from \in alive THEN @ + 1 ELSE @],
                        "count", "createTask"))
  /\ UNCHANGED <<alive, gone, number, edge, created, bounds, history>>

(* From here on count is the number of the task's name, never 0.           *)
(* Mutant: the number of tasks found, without one more.                    *)
CreateTaskSame(w) ==
  LET me == worker[w] IN
  /\ At(w, "createTask")
  /\ \E t \in Fresh \cap Task :
       /\ alive' = alive \cup {t}
       /\ number' = [number EXCEPT ![t] = IF me.count = 0 THEN 1 ELSE me.count]
       /\ Become(w, [me EXCEPT !.pc = "getFrom", !.from = t,
                               !.count = IF @ = 0 THEN 1 ELSE @])
  /\ UNCHANGED <<gone, edge, created, bounds, history>>
CreateTask(w) ==
  LET me == worker[w] IN
  /\ At(w, "createTask")
  /\ \E t \in Fresh \cap Task :
       /\ alive' = alive \cup {t}
       /\ number' = [number EXCEPT ![t] = me.count + 1]
       /\ Become(w, [me EXCEPT !.pc = "getFrom", !.from = t, !.count = @ + 1])
  /\ UNCHANGED <<gone, edge, created, bounds, history>>

-----------------------------------------------------------------------------
(* CreateRelationship, of a call of its own (AddTaskToProject is one) or   *)
(* of CreateTaskInProject.                                                 *)

FromAllowed(r) == r.from \in alive /\ Kind(r.from) \in EndpointTypes[r.label].from
ToAllowed(r) == r.to \in alive /\ Kind(r.to) = EndpointTypes[r.label].to

ReceiveCreateRelationship(w, key) ==
  LET r == [Idle EXCEPT !.pc = "getTo", !.label = key.label, !.from = key.from, !.to = key.to] IN
  /\ Receive(w)
  /\ FromAllowed(r)
  /\ Become(w, r)
  /\ UNCHANGED <<alive, gone, number, edge, created, faults, history>>

GetFrom(w) ==
  LET me == worker[w] IN
  /\ At(w, "getFrom")
  /\ Become(w, IF FromAllowed(me) THEN [me EXCEPT !.pc = "getTo"] ELSE Idle)
  /\ UNCHANGED <<alive, gone, number, edge, created, bounds, history>>

GetTo(w) ==
  LET me == worker[w] IN
  /\ At(w, "getTo")
  /\ Become(w, IF ToAllowed(me) THEN [me EXCEPT !.pc = "listEdges"] ELSE Idle)
  /\ UNCHANGED <<alive, gone, number, edge, created, bounds, history>>

(* An edge that is there is the answer.                                    *)
(* Mutant: it is looked for the other way round.                           *)
ListEdgesReversed(w) ==
  LET me == worker[w] IN
  /\ At(w, "listEdges")
  /\ Become(w, IF \E e \in edge : e.key = KeyOf([me EXCEPT !.from = me.to, !.to = me.from])
               THEN Idle ELSE [me EXCEPT !.pc = "createEdge"])
  /\ UNCHANGED <<alive, gone, number, edge, created, bounds, history>>
ListEdges(w) ==
  LET me == worker[w] IN
  /\ At(w, "listEdges")
  /\ Become(w, IF \E e \in edge : e.key = KeyOf(me)
               THEN Idle ELSE [me EXCEPT !.pc = "createEdge"])
  /\ UNCHANGED <<alive, gone, number, edge, created, bounds, history>>

(* The goroutines that still have an edge of the project to delete, or it. *)
Deleting(p) ==
  {w \in Worker : worker[w].to = p /\ worker[w].pc \in {"deleteMember", "deleteEntity"}}

(* The store does not look for a second edge of the same ends. *)
CreateEdge(w) ==
  LET me == worker[w]
      key == KeyOf(me) IN
  /\ At(w, "createEdge")
  /\ created < MaxEdge
  /\ created' = created + 1
  /\ edge' = edge \cup {[id |-> created + 1, key |-> key]}
  /\ Become(w, Idle)
  /\ raced' = IF \E v \in Worker \ {w} : At(v, "createEdge") /\ KeyOf(worker[v]) = key
              THEN raced \cup {key} ELSE raced
  /\ mixed' = IF key.to \in Project /\ (me.count = 0 \/ key.from \in gone)
              THEN mixed \cup {key.to} ELSE mixed
  /\ late' = IF key.to \in Project /\ (key.to \in gone \/ Deleting(key.to) # {})
             THEN late \cup {key.to} ELSE late
  /\ UNCHANGED <<alive, gone, number, bounds, crowded>>

(* The store may refuse an edge of an entity that is gone. *)
EdgeRefused(w) ==
  LET me == worker[w] IN
  /\ At(w, "createEdge")
  /\ {me.from, me.to} \cap gone # {}
  /\ Become(w, Idle)
  /\ UNCHANGED <<alive, gone, number, edge, created, bounds, history>>

-----------------------------------------------------------------------------
(* DeleteRelationship deletes one of the edges it finds.                   *)

ReceiveDeleteRelationship(w) ==
  /\ Receive(w)
  /\ \E e \in edge :
       Become(w, [Idle EXCEPT !.pc = "deleteEdge", !.label = e.key.label,
                              !.from = e.key.from, !.to = e.key.to, !.left = {e}])
  /\ UNCHANGED <<alive, gone, number, edge, created, faults, history>>

DeleteEdge(w) ==
  LET me == worker[w] IN
  /\ At(w, "deleteEdge")
  /\ edge' = edge \ me.left
  /\ mixed' = IF me.to \in Project THEN mixed \cup {me.to} ELSE mixed
  /\ Become(w, Idle)
  /\ UNCHANGED <<alive, gone, number, created, bounds, crowded, raced, late>>

(* DeleteTask and DeleteProject read the entity first.  A task is deleted  *)
(* with its edges left in place.                                           *)
ReceiveDelete(w, e) ==
  /\ Receive(w)
  /\ e \in alive \ Agent
  /\ Become(w, [Idle EXCEPT !.pc = IF e \in Project THEN "memberEdges" ELSE "deleteEntity", !.to = e])
  /\ UNCHANGED <<alive, gone, number, edge, created, faults, history>>

(* DeleteProject's edges are those into the project.                       *)
(* Mutant: those out of it.                                                *)
ListMemberEdgesOutbound(w) ==
  LET me == worker[w] IN
  /\ At(w, "memberEdges")
  /\ Become(w, NextOf([me EXCEPT !.left = {e \in edge : e.key.from = me.to}],
                      "deleteMember", "deleteEntity"))
  /\ UNCHANGED <<alive, gone, number, edge, created, bounds, history>>
ListMemberEdges(w) ==
  LET me == worker[w] IN
  /\ At(w, "memberEdges")
  /\ Become(w, NextOf([me EXCEPT !.left = Members(me.to)], "deleteMember", "deleteEntity"))
  /\ UNCHANGED <<alive, gone, number, edge, created, bounds, history>>

(* An edge that is gone already is passed over. *)
DeleteMember(w) ==
  LET me == worker[w] IN
  /\ At(w, "deleteMember")
  /\ \E e \in me.left :
       /\ edge' = edge \ {e}
       /\ Become(w, NextOf([me EXCEPT !.left = @ \ {e}], "deleteMember", "deleteEntity"))
  /\ mixed' = mixed \cup {me.to}
  /\ UNCHANGED <<alive, gone, number, created, bounds, crowded, raced, late>>

DeleteEntity(w) ==
  LET me == worker[w] IN
  /\ At(w, "deleteEntity")
  /\ alive' = alive \ {me.to}
  /\ gone' = IF me.to \in alive THEN gone \cup {me.to} ELSE gone
  /\ mixed' = mixed \cup {e.key.to : e \in {x \in edge : x.key.from = me.to /\ x.key.label = "member_of"}}
  /\ Become(w, Idle)
  /\ UNCHANGED <<number, edge, created, bounds, crowded, raced, late>>

(* A storage call is refused: the call ends with an error, what it wrote   *)
(* stays.                                                                  *)
Refused(w) ==
  /\ ~At(w, "idle")
  /\ faults < MaxFault /\ faults' = faults + 1
  /\ Become(w, Idle)
  /\ UNCHANGED <<alive, gone, number, edge, created, calls, history>>

-----------------------------------------------------------------------------
Next ==
  \/ \E p \in Project : CreateProject(p)
  \/ \E a \in Agent : UpsertAgent(a)
  \/ \E w \in Worker :
       \/ \E p \in Project : ReceiveCreateTask(w, p)
       \/ ListMembers(w) \/ CountMember(w) \/ CreateTask(w)
       \/ \E key \in [label : Label, from : Entity, to : Entity] : ReceiveCreateRelationship(w, key)
       \/ GetFrom(w) \/ GetTo(w) \/ ListEdges(w) \/ CreateEdge(w) \/ EdgeRefused(w)
       \/ ReceiveDeleteRelationship(w) \/ DeleteEdge(w)
       \/ \E e \in Entity : ReceiveDelete(w, e)
       \/ ListMemberEdges(w) \/ DeleteMember(w) \/ DeleteEntity(w)
       \/ Refused(w)

Spec == Init /\ [][Next]_vars

-----------------------------------------------------------------------------
(* Safety: the names generated for the tasks of a project differ, unless a *)
(* task left the project or joined it by a call of its own, or two         *)
(* creations in it overlapped: the number is one more than the tasks       *)
(* found.                                                                  *)
NamesDistinct ==
  \A p \in Project \ (mixed \cup crowded) :
    \A e, f \in Members(p) : e # f => number[e.key.from] # number[f.key.from]

(* Safety: an edge is there once, unless two calls found it missing and    *)
(* created it at the same time; creating an edge again is idempotent.      *)
EdgesOnce ==
  \A e, f \in edge : e.key = f.key /\ e # f => e.key \in raced

(* Safety: a deleted project has no member left, unless the edge was       *)
(* created after DeleteProject had listed the edges.                       *)
DeletedProjectIsEmpty ==
  \A p \in (Project \cap gone) \ late : Members(p) = {}
=============================================================================
