------------------------------ MODULE ImportJob ------------------------------
(***************************************************************************)
(* Importing a project document (import.go): the job entity, the           *)
(* background goroutine that writes the document's project, tasks and      *)
(* edges one storage call at a time, the cancellation of a job through its *)
(* in-process entry, and the synchronous caller that polls the job.        *)
(*                                                                         *)
(* Every storage call is a step.  CreateRelationship is one: what it reads *)
(* before it creates the edge has no effect of its own.                    *)
(***************************************************************************)
EXTENDS Naturals, SequencesExt

CONSTANTS
  Job,       \* the jobs StartImportProject can create
  Doc,       \* the document's tasks: name, depends_on and tags of each, in order
  MaxCancel, \* bound on CancelImportProject calls
  MaxFault   \* bound on refused storage calls and crashes

ASSUME DocAssumption ==
  /\ DOMAIN Doc = 1..Len(Doc)
  /\ Doc # <<>>
ASSUME BoundAssumption == MaxCancel \in Nat /\ MaxFault \in Nat

VARIABLES
  status,   \* status of each job's entity; "none": not created
  made,     \* what the job has written to the graph
  entry,    \* importJobs: the jobs with an in-process entry
  dead,     \* jobs whose context is cancelled
  runner,   \* the job's goroutine: pc and position in the plan
  cancel,   \* a CancelImportProject call on the job: pc
  caller,   \* the job's ImportProject call: what it does or has returned
  cancels, faults,  \* spent of the bounds
  lost      \* history: jobs a refused status write or a crash left behind

importVars == <<status, made, entry, dead, runner, cancel, caller, cancels, faults, lost>>

Terminal == {"completed", "failed", "cancelled"}
Status == {"none", "pending", "running"} \cup Terminal

-----------------------------------------------------------------------------
(* What the document asks for, in the order runImport writes it.           *)

Piece(kind, from, to) == [kind |-> kind, from |-> from, to |-> to]

(* idMap: of two tasks with one name the later. *)
Known == {Doc[i].name : i \in DOMAIN Doc}
IdOf(name) == CHOOSE i \in DOMAIN Doc :
                Doc[i].name = name /\ \A k \in DOMAIN Doc : Doc[k].name = name => k <= i

TaskPieces(i) == <<Piece("task", i, i), Piece("member", i, i)>>

(* A name the document does not have is skipped. *)
DepPieces(i) ==
  LET deps == SelectSeq(Doc[i].deps, LAMBDA d : d \in Known)
  IN [k \in DOMAIN deps |-> Piece("dep", IdOf(Doc[i].name), IdOf(deps[k]))]

TagPieces ==
  LET tags == SetToSeq(UNION {Doc[i].tags : i \in DOMAIN Doc})
  IN [k \in DOMAIN tags |-> Piece("tag", tags[k], tags[k])]

HasTagPieces(i) ==
  LET tags == SetToSeq(Doc[i].tags)
  IN [k \in DOMAIN tags |-> Piece("has_tag", IdOf(Doc[i].name), tags[k])]

ForEachTask(Pieces(_)) == FlattenSeq([i \in DOMAIN Doc |-> Pieces(i)])

Plan ==
  <<Piece("project", 0, 0)>> \o ForEachTask(TaskPieces)
    \o ForEachTask(DepPieces) \o TagPieces \o ForEachTask(HasTagPieces)

(* What a complete import leaves in the graph, read off the document.      *)
Complete(pieces) ==
  /\ Piece("project", 0, 0) \in pieces
  /\ \A i \in DOMAIN Doc :
       /\ Piece("task", i, i) \in pieces
       /\ Piece("member", i, i) \in pieces
       /\ \A k \in DOMAIN Doc[i].deps :
            Doc[i].deps[k] \in Known
              => Piece("dep", IdOf(Doc[i].name), IdOf(Doc[i].deps[k])) \in pieces
       /\ \A g \in Doc[i].tags :
            /\ Piece("tag", g, g) \in pieces
            /\ Piece("has_tag", IdOf(Doc[i].name), g) \in pieces

(* The pieces of the plan, all written, are a complete import.             *)
PlanCovers == Len(Plan) \in Nat /\ Complete({Plan[n] : n \in 1..Len(Plan)})

-----------------------------------------------------------------------------
Off == [pc |-> "off", next |-> 1]

ImportTypeOK ==
  /\ status \in [Job -> Status]
  /\ \A j \in Job : made[j] \subseteq {Plan[n] : n \in DOMAIN Plan}
  /\ entry \subseteq Job /\ dead \subseteq Job
  /\ runner \in [Job -> [pc : {"off", "mark", "build", "fail", "stop"}, next : 1..(Len(Plan) + 1)]]
  /\ cancel \in [Job -> {"idle", "signal", "write"}]
  /\ caller \in [Job -> {"none", "polling", "gone"} \cup Terminal]
  /\ cancels \in 0..MaxCancel /\ faults \in 0..MaxFault
  /\ lost \subseteq Job

ImportInit ==
  /\ status = [j \in Job |-> "none"]
  /\ made = [j \in Job |-> {}]
  /\ entry = {} /\ dead = {} /\ lost = {}
  /\ runner = [j \in Job |-> Off]
  /\ cancel = [j \in Job |-> "idle"]
  /\ caller = [j \in Job |-> "none"]
  /\ cancels = 0 /\ faults = 0

RunnerAt(j, pc) == runner[j].pc = pc
Goto(j, pc) == runner' = [runner EXCEPT ![j].pc = pc]
SetStatus(j, s) == status' = [status EXCEPT ![j] = s]

(* The goroutine's return removes the entry; nobody can tell this from its *)
(* last write, for what finds the entry has read the status before.        *)
Return(j) ==
  /\ runner' = [runner EXCEPT ![j] = Off]
  /\ entry' = entry \ {j}

-----------------------------------------------------------------------------
(* StartImportProject, alone or within ImportProject.                      *)

StartImportProject(j) ==
  /\ status[j] = "none"
  /\ SetStatus(j, "pending")
  /\ entry' = entry \cup {j}
  /\ runner' = [runner EXCEPT ![j] = [pc |-> "mark", next |-> 1]]
  /\ \E c \in {"none", "polling"} : caller' = [caller EXCEPT ![j] = c]
  /\ UNCHANGED <<made, dead, cancel, cancels, faults, lost>>

(* ImportProject polls the job until it has ended.                         *)
(* Mutant: any answer ends the call.                                       *)
PollOnce(j) ==
  /\ caller[j] = "polling"
  /\ caller' = [caller EXCEPT ![j] = status[j]]
  /\ UNCHANGED <<status, made, entry, dead, runner, cancel, cancels, faults, lost>>
Poll(j) ==
  /\ caller[j] = "polling"
  /\ status[j] \in Terminal
  /\ caller' = [caller EXCEPT ![j] = status[j]]
  /\ UNCHANGED <<status, made, entry, dead, runner, cancel, cancels, faults, lost>>

(* The caller's context ends: CancelImportProject is called with that      *)
(* context, its first read fails, and the import goes on.                  *)
CallerLeaves(j) ==
  /\ caller[j] = "polling"
  /\ caller' = [caller EXCEPT ![j] = "gone"]
  /\ UNCHANGED <<status, made, entry, dead, runner, cancel, cancels, faults, lost>>

-----------------------------------------------------------------------------
(* runImport.                                                              *)

MarkRunning(j) ==
  /\ RunnerAt(j, "mark")
  /\ j \notin dead
  /\ SetStatus(j, "running")
  /\ Goto(j, "build")
  /\ UNCHANGED <<made, entry, dead, cancel, caller, cancels, faults, lost>>

(* The mark is written with the job's context: the goroutine of a job      *)
(* cancelled before it returns without another write.                      *)
MarkDead(j) ==
  /\ RunnerAt(j, "mark")
  /\ j \in dead
  /\ Return(j)
  /\ UNCHANGED <<status, made, dead, cancel, caller, cancels, faults, lost>>

Building(j) == RunnerAt(j, "build") /\ runner[j].next <= Len(Plan)
NextPiece(j) == Plan[runner[j].next]

Build(j) ==
  /\ Building(j)
  /\ j \notin dead
  /\ made' = [made EXCEPT ![j] = @ \cup {NextPiece(j)}]
  /\ runner' = [runner EXCEPT ![j].next = @ + 1]
  /\ UNCHANGED <<status, entry, dead, cancel, caller, cancels, faults, lost>>

(* Before each task the goroutine looks at its context; at any other piece *)
(* the storage call fails for it.                                          *)
BuildDead(j) ==
  /\ Building(j)
  /\ j \in dead
  /\ Goto(j, IF NextPiece(j).kind = "task" THEN "stop" ELSE "fail")
  /\ UNCHANGED <<status, made, entry, dead, cancel, caller, cancels, faults, lost>>

(* failImportJob, and the write of a goroutine that saw its context end;   *)
(* both with a context of their own.                                       *)
End(j, pc, s) ==
  /\ RunnerAt(j, pc)
  /\ SetStatus(j, s)
  /\ Return(j)
  /\ UNCHANGED <<made, dead, cancel, caller, cancels, faults, lost>>
Fail(j) == End(j, "fail", "failed")
Stop(j) == End(j, "stop", "cancelled")

(* The last write looks neither at the context nor at the stored status.   *)
Finish(j) ==
  /\ RunnerAt(j, "build") /\ ~Building(j)
  /\ SetStatus(j, "completed")
  /\ Return(j)
  /\ UNCHANGED <<made, dead, cancel, caller, cancels, faults, lost>>

-----------------------------------------------------------------------------
(* CancelImportProject: reads the status, ends the context of a job with   *)
(* an entry, then writes the status.                                       *)

ReceiveCancel(j) ==
  /\ cancel[j] = "idle"
  /\ cancels < MaxCancel
  /\ status[j] \in {"pending", "running"}
  /\ cancels' = cancels + 1
  /\ cancel' = [cancel EXCEPT ![j] = "signal"]
  /\ UNCHANGED <<status, made, entry, dead, runner, caller, faults, lost>>

(* Mutant: the context is left alone. *)
SignalNothing(j) ==
  /\ cancel[j] = "signal"
  /\ cancel' = [cancel EXCEPT ![j] = "write"]
  /\ UNCHANGED <<status, made, entry, dead, runner, caller, cancels, faults, lost>>
Signal(j) ==
  /\ cancel[j] = "signal"
  /\ dead' = IF j \in entry THEN dead \cup {j} ELSE dead
  /\ cancel' = [cancel EXCEPT ![j] = "write"]
  /\ UNCHANGED <<status, made, entry, runner, caller, cancels, faults, lost>>

WriteCancelled(j) ==
  /\ cancel[j] = "write"
  /\ SetStatus(j, "cancelled")
  /\ cancel' = [cancel EXCEPT ![j] = "idle"]
  /\ UNCHANGED <<made, entry, dead, runner, caller, cancels, faults, lost>>

-----------------------------------------------------------------------------
(* Refused storage calls and crashes.                                      *)

Fault == faults < MaxFault /\ faults' = faults + 1

(* Mutant: an edge or a tag the store refuses is passed over. *)
BuildRefusedSkips(j) ==
  /\ Building(j) /\ Fault
  /\ runner' = [runner EXCEPT ![j].next = @ + 1]
  /\ UNCHANGED <<status, made, entry, dead, cancel, caller, cancels, lost>>
(* Mutant: the goroutine returns without failImportJob. *)
BuildRefusedSilently(j) ==
  /\ Building(j) /\ Fault
  /\ Return(j)
  /\ UNCHANGED <<status, made, dead, cancel, caller, cancels, lost>>
BuildRefused(j) ==
  /\ Building(j) /\ Fault
  /\ Goto(j, "fail")
  /\ UNCHANGED <<status, made, entry, dead, cancel, caller, cancels, lost>>

(* No error of a status write is looked at, but that of the mark, which    *)
(* ends the goroutine.                                                     *)
StatusRefused(j) ==
  /\ Fault
  /\ \/ RunnerAt(j, "mark") \/ RunnerAt(j, "fail") \/ RunnerAt(j, "stop")
     \/ RunnerAt(j, "build") /\ ~Building(j)
  /\ Return(j)
  /\ lost' = lost \cup {j}
  /\ UNCHANGED <<status, made, dead, cancel, caller, cancels>>

CancelRefused(j) ==
  /\ cancel[j] = "write" /\ Fault
  /\ cancel' = [cancel EXCEPT ![j] = "idle"]
  /\ lost' = lost \cup {j}
  /\ UNCHANGED <<status, made, entry, dead, runner, caller, cancels>>

(* Entries, contexts and goroutines are the process's; a job is not taken  *)
(* up again.                                                               *)
Crash ==
  /\ Fault
  /\ entry' = {} /\ dead' = {}
  /\ runner' = [j \in Job |-> Off]
  /\ cancel' = [j \in Job |-> "idle"]
  /\ caller' = [j \in Job |-> IF caller[j] = "polling" THEN "gone" ELSE caller[j]]
  /\ lost' = lost \cup {j \in Job : status[j] \in {"pending", "running"}}
  /\ UNCHANGED <<status, made, cancels>>

-----------------------------------------------------------------------------
RunStep(j) == MarkRunning(j) \/ MarkDead(j) \/ Build(j) \/ BuildDead(j) \/ Fail(j) \/ Stop(j) \/ Finish(j)
CancelStep(j) == Signal(j) \/ WriteCancelled(j)

ImportNext ==
  \/ \E j \in Job :
       \/ StartImportProject(j) \/ Poll(j) \/ CallerLeaves(j)
       \/ RunStep(j)
       \/ ReceiveCancel(j) \/ CancelStep(j)
       \/ BuildRefused(j) \/ StatusRefused(j) \/ CancelRefused(j)
  \/ Crash

(* Goroutines are scheduled and storage calls return. *)
ImportFairness == \A j \in Job : WF_importVars(RunStep(j)) /\ WF_importVars(CancelStep(j))
ImportSpec == ImportInit /\ [][ImportNext]_importVars /\ ImportFairness

-----------------------------------------------------------------------------
(* Safety: a job that is completed, and an ImportProject call that         *)
(* answered so, stand for the whole document in the graph, whatever was    *)
(* refused or cancelled on the way.                                        *)
CompletedMeansComplete ==
  \A j \in Job :
    (status[j] = "completed" \/ caller[j] = "completed") => Complete(made[j])

(* Action: once a job is noted as cancelled its goroutine adds nothing to  *)
(* the graph and never marks the job as running.  It holds because         *)
(* CancelImportProject ends the context before it writes the status.       *)
CancelledStops ==
  [][\A j \in Job : status[j] = "cancelled" => made'[j] = made[j] /\ status'[j] # "running"]_importVars

(* Liveness: every job ends in a terminal status, unless the store refused *)
(* a status or the process crashed.                                        *)
JobEnds ==
  \A j \in Job : (status[j] = "pending") ~> (status[j] \in Terminal \/ j \in lost)
=============================================================================
