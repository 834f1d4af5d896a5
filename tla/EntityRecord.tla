---------------------------- MODULE EntityRecord ----------------------------
(***************************************************************************)
(* One stored entity and the calls that rewrite it: the UpdateTask,        *)
(* UpdateProject and UpsertAgent RPCs (internal/server), the handlers that *)
(* read a task, a run or a criterion, change a field and write it back     *)
(* whole, and the patches of a few named properties.  A value passes       *)
(* through the conversions between the RPC's message, the Go struct and    *)
(* the stored properties; each keeps some fields and drops others.  The    *)
(* tags of a task are stored too, but read from its has_tag edges.         *)
(*                                                                         *)
(* A behaviour follows the status and one other field of one entity: its   *)
(* kind and the field are any, chosen at the start.  Every call has a      *)
(* goroutine or a client (a Worker); each read and each write is a step.   *)
(* No task blocks the one followed.                                        *)
(***************************************************************************)
EXTENDS Naturals, FiniteSets, Lifecycle, Goroutines

CONSTANTS
  Priority,  \* the priorities requests carry
  Value,     \* what any other field may hold
  MaxCall,   \* bound on calls
  MaxFault   \* bound on refused storage calls

ASSUME PriorityAssumption == Priority \subseteq {"low", "medium", "high", "critical"}
ASSUME ValueAssumption == Value # {} /\ "" \notin Value
ASSUME BoundAssumption == MaxCall \in Nat /\ MaxFault \in Nat

VARIABLES
  kind, field,  \* what is followed
  entity,       \* the stored status and the stored value of the field
  names,        \* the names at the task's has_tag edges, where tags are followed
  calls, faults,  \* spent of the bounds
  overtaken,  \* history: workers whose first read another write overtook
  outrun,     \* history: workers whose transition check another write overtook
  given,      \* history: the value last given to the field
  raced       \* history: an overtaken call wrote the field since

entityVars == <<kind, field, entity, names, worker, calls, faults, overtaken, outrun,
                given, raced>>

-----------------------------------------------------------------------------
(* The properties each kind is stored with, by its ...ToProperties.        *)

TaskToProperties ==
  {"title", "description", "status", "priority", "context", "task_name", "project_name",
   "separate_branch", "branch_name", "workflow_run_id", "recovery_runs_used", "blocker_note",
   "direction_history", "parent_task_id", "created_at", "updated_at",
   "due_at", "tags", "estimated_hours", "completed_at"}
TaskTodoToProperties ==
  {"title", "description", "instructions", "ordinality", "can_run_parallel", "status",
   "parent_task_id", "decomp_run_id", "agent_id", "precalls", "workflow_run_id",
   "created_at", "updated_at", "depends_on"}
WorkflowRunToProperties ==
  {"name", "status", "trigger_event", "initiator", "notes", "terminal_event", "started_at",
   "completed_at", "created_at", "updated_at", "parent_workflow_run_id", "root_workflow_run_id",
   "failure_pipeline_budget", "failure_pipelines_used", "cancelled_by", "cancel_reason",
   "cancelling_until", "last_event_at", "timeout_published", "paused_at", "current_step_id",
   "current_step_started_at", "agent_run_ids", "function_job_ids", "branch_names",
   "counted_child_run_ids"}
ProjectToProperties ==
  {"name", "project_name", "description", "repo_name", "github_repo", "task_prefix",
   "created_at", "updated_at"}
AgentToProperties ==
  {"agent_id", "display_name", "capability", "role_name", "created_at", "updated_at"}
AcceptanceCriteriaToProperties ==
  {"title", "description", "parent_id", "ordinality", "workflow_run_id", "result",
   "result_notes", "created_at", "updated_at"}

Properties ==
  [Task |-> TaskToProperties, TaskTodo |-> TaskTodoToProperties,
   WorkflowRun |-> WorkflowRunToProperties, Project |-> ProjectToProperties,
   Agent |-> AgentToProperties, AcceptanceCriteria |-> AcceptanceCriteriaToProperties]

(* Left out of what is written when empty, so that the stored value stays. *)
Optional ==
  [Task |-> {"due_at", "tags", "estimated_hours", "completed_at"}, TaskTodo |-> {"depends_on"},
   WorkflowRun |-> {"agent_run_ids", "function_job_ids", "branch_names", "counted_child_run_ids"},
   Project |-> {}, Agent |-> {}, AcceptanceCriteria |-> {}]

(* The properties each kind's ...FromEntity reads back: all of them.       *)
TaskFromEntity == TaskToProperties
TaskTodoFromEntity == TaskTodoToProperties
(* Mutant: the pause mark is not read back. *)
WorkflowRunFromEntityUnpaused == WorkflowRunToProperties \ {"paused_at"}
WorkflowRunFromEntity == WorkflowRunToProperties
ProjectFromEntity == ProjectToProperties
AgentFromEntity == AgentToProperties
AcceptanceCriteriaFromEntity == AcceptanceCriteriaToProperties

FromEntity ==
  [Task |-> TaskFromEntity, TaskTodo |-> TaskTodoFromEntity, WorkflowRun |-> WorkflowRunFromEntity,
   Project |-> ProjectFromEntity, Agent |-> AgentFromEntity,
   AcceptanceCriteria |-> AcceptanceCriteriaFromEntity]

(* The fields of the RPC's messages, the generated structs.                *)
TaskMessage ==
  {"title", "description", "status", "priority", "tags", "estimated_hours", "context",
   "task_name", "project_name", "separate_branch", "branch_name", "workflow_run_id",
   "assigned_to", "created_at", "updated_at", "completed_at", "due_at"}
TaskTodoMessage ==
  {"title", "description", "instructions", "ordinality", "can_run_parallel", "depends_on",
   "status", "parent_task_id", "decomp_run_id", "agent_id", "precalls", "todo_type",
   "workflow_run_id", "created_at", "updated_at"}
WorkflowRunMessage ==
  {"name", "status", "trigger_event", "initiator", "notes", "agent_run_ids", "function_job_ids",
   "branch_names", "parent_workflow_run_id", "root_workflow_run_id", "failure_pipeline_budget",
   "failure_pipelines_used", "cancelled_by", "cancel_reason", "cancelling_until", "started_at",
   "completed_at", "created_at", "updated_at"}
ProjectMessage ==
  {"name", "project_name", "description", "github_repo", "task_prefix", "created_at", "updated_at"}
AgentMessage ==
  {"agent_id", "display_name", "capability", "role_name", "created_at", "updated_at"}

(* The fields a response carries; a criterion has no message.              *)
TaskToProto == TaskMessage
TaskTodoToProto == TaskTodoMessage \ {"todo_type"}
WorkflowRunToProto == WorkflowRunMessage
ProjectToProto == ProjectMessage
AgentToProto == AgentMessage

ToProto ==
  [Task |-> TaskToProto, TaskTodo |-> TaskTodoToProto, WorkflowRun |-> WorkflowRunToProto,
   Project |-> ProjectToProto, Agent |-> AgentToProto, AcceptanceCriteria |-> {}]

(* The fields taken from a request: no other kind has an update RPC.       *)
ProtoToTask == TaskMessage
ProtoToProject == ProjectMessage
ProtoToAgent == AgentMessage
FromProto == [Task |-> ProtoToTask, Project |-> ProtoToProject, Agent |-> ProtoToAgent]

(* The paths applyTaskMask knows. *)
TaskMask == ProtoToTask \ {"assigned_to", "created_at", "updated_at"}

(* A field the conversion does not carry is zero after it. *)
Through(fields, v) == IF field \in fields THEN v ELSE ""

(* The RPC's status has no value for blocked, awaiting and split.          *)
StatusToProto(s) ==
  IF s \in {"pending", "in_progress", "completed", "failed", "cancelled"} THEN s ELSE "unspecified"
ProtoToStatus(s) == IF s = "unspecified" THEN "" ELSE s

(* The statuses and priorities a request can carry. *)
SentStatus == {ProtoToStatus(StatusToProto(s)) : s \in TaskStatus}
SentPriority == Priority \cup {""}

-----------------------------------------------------------------------------
Kind == DOMAIN Properties
ValueOf(f) == IF f = "priority" THEN SentPriority ELSE Value \cup {""}
Statuses == IF kind = "Task" THEN TaskStatus ELSE {"other"}
(* Set by the server alone, or with the status. *)
Stamp == {"created_at", "updated_at", "started_at", "completed_at"}
Tagged == <<kind, field>> = <<"Task", "tags">>

NoCall == [pc |-> "idle", means |-> {}, status |-> "", value |-> "", sent |-> ""]

EntityTypeOK ==
  /\ kind \in Kind /\ field \in Properties[kind]
  /\ entity.status \in Statuses /\ entity.value \in ValueOf(field) /\ names \in ValueOf(field)
  /\ \A w \in Worker :
       /\ worker[w].pc \in {"idle", "edit", "check", "write"}
       /\ worker[w].means \subseteq {"status", "value", "unsent", "unchecked", "raw"}
       /\ worker[w].status \in TaskStatus \cup {"", "other"}
       /\ worker[w].pc = "write" => worker[w].status \in Statuses
       /\ worker[w].value \in ValueOf(field) /\ worker[w].sent \in ValueOf(field)
  /\ calls \in 0..MaxCall /\ faults \in 0..MaxFault
  /\ overtaken \subseteq Worker /\ outrun \subseteq Worker
  /\ given \in ValueOf(field) /\ raced \in BOOLEAN

(* Any entity in any status, as created: with the value it was given; the  *)
(* import gives a task its has_tag edges as well.                          *)
EntityInit ==
  /\ kind \in Kind
  /\ field \in Properties[kind] \ {"status"}
  /\ entity \in [status : Statuses, value : ValueOf(field)]
  /\ field \in {"name", "agent_id"} => entity.value # ""
  /\ names \in IF Tagged THEN ValueOf(field) ELSE {""}
  /\ given = entity.value /\ raced = FALSE
  /\ worker = [w \in Worker |-> NoCall]
  /\ calls = 0 /\ faults = 0
  /\ overtaken = {} /\ outrun = {}

Followed == UNCHANGED <<kind, field>>
Busy == {w \in Worker : ~At(w, "idle")}
Checked == {w \in Worker : At(w, "write")}

(* A call's first read, or the client's own before it.                     *)
Begin(w, r) ==
  /\ At(w, "idle")
  /\ calls < MaxCall /\ calls' = calls + 1
  /\ Become(w, r)
  /\ overtaken' = overtaken \ {w} /\ outrun' = outrun \ {w}
  /\ Followed /\ UNCHANGED <<entity, names, faults, given, raced>>

(* What a read makes of a stored value: projectFromEntity makes up an      *)
(* empty project_name from the name, and GetTask and ListTasks replace the *)
(* tags by the names at the edges.                                         *)
Slug == CHOOSE v \in Value : TRUE
Derived(v) ==
  CASE Tagged -> names
    [] <<kind, field, v>> = <<"Project", "project_name", "">> -> Slug
    [] OTHER -> v

(* What a read inside the service, and one through the RPC, return; a task *)
(* whose edges, or their tags, cannot be read has fewer tags, or none.     *)
Read == Derived(Through(FromEntity[kind], entity.value))
Shown == Through(ToProto[kind], Read)
Readings == IF Tagged THEN {Read, ""} ELSE {Read}

-----------------------------------------------------------------------------
(* The RPCs.                                                               *)

(* A client gets the entity to edit it. *)
Get(w) ==
  /\ kind \in DOMAIN FromProto
  /\ \E read \in Readings :
       LET shown == Through(ToProto[kind], read) IN
       Begin(w, [pc |-> "edit", means |-> {}, value |-> shown, sent |-> shown,
                 status |-> IF kind = "Task" THEN ProtoToStatus(StatusToProto(entity.status))
                            ELSE entity.status])

(* It changes what it means to and sends the message back: every field is  *)
(* replaced, one the message cannot carry by zero.  A project needs a      *)
(* name; another agent_id would be another agent.                          *)
Send(w) ==
  /\ At(w, "edit")
  /\ \E means \in SUBSET {"status", "value"}, s \in SentStatus \cup {"other"}, v \in ValueOf(field) :
       /\ "status" \notin means => s = worker[w].status
       /\ "value" \notin means => v = worker[w].value
       /\ "status" \in means => kind = "Task" /\ s # "other"
       /\ "value" \in means => field \in ToProto[kind] /\ field # "agent_id"
       /\ Become(w,
            IF <<kind, field, v>> = <<"Project", "name", "">> THEN NoCall
            ELSE [pc |-> IF kind = "Task" THEN "check" ELSE "write",
                  means |-> means \cup (IF field \in FromProto[kind] THEN {} ELSE {"unsent"}),
                  status |-> s, value |-> Through(FromProto[kind], v), sent |-> v])
  /\ Followed /\ UNCHANGED <<entity, names, calls, faults, overtaken, outrun, given, raced>>

(* applyTaskMask: the stored task with what the mask names.                *)
(* Mutant: the request with what the mask does not name. *)
ApplyMaskSwapped(s, v, mask, read) ==
  [status |-> IF "status" \in mask THEN entity.status ELSE s,
   value |-> IF "value" \in mask THEN read ELSE v]
ApplyMask(s, v, mask, read) ==
  [status |-> IF "status" \in mask THEN s ELSE entity.status,
   value |-> IF "value" \in mask THEN v ELSE read]

(* With a mask: the server reads the task and applies the mask to it.      *)
MaskedUpdate(w) ==
  /\ kind = "Task"
  /\ \E mask \in SUBSET {"status", "value"}, s \in SentStatus, v \in ValueOf(field), read \in Readings :
       /\ mask # {}
       /\ "value" \in mask => field \in TaskMask
       /\ LET new == ApplyMask(s, Through(ProtoToTask, v), mask, read) IN
          Begin(w, [pc |-> "check", means |-> mask, status |-> new.status, value |-> new.value,
                    sent |-> v])

-----------------------------------------------------------------------------
(* The service's own calls, on a record read and written back whole.       *)

WriteBack(w, pc, s, fields, read, how) ==
  \E v \in ValueOf(field) :
    LET to == IF field \in fields THEN v ELSE read IN
    Begin(w, [pc |-> pc, status |-> s, value |-> to, sent |-> to,
              means |-> how \cup (IF field \in fields THEN {"value"} ELSE {})
                        \cup (IF s = entity.status THEN {} ELSE {"status"})])

Rewrite(w, pc, s, fields) == \E read \in Readings : WriteBack(w, pc, s, fields, read, {})

(* handleTaskUpdate: the branch an agent chose. *)
ReceiveBranch(w) == kind = "Task" /\ Rewrite(w, "check", entity.status, {"branch_name"})

(* handleTaskFailureWithRetry: one more retry is spent. *)
ReceiveRetry(w) == kind = "Task" /\ Rewrite(w, "check", entity.status, {"recovery_runs_used"})

(* handleAITaskStatus: started, completed or failed; the roll-ups, the     *)
(* time-outs and the escalations move the status alone, too.               *)
ReceiveStatus(w) ==
  kind = "Task" /\ \E s \in TaskStatus \ {"pending", "blocked", "cancelled"} : Rewrite(w, "check", s, {})

(* handleTaskDirection: what a human or the AI decided. *)
HandleDirection(w) ==
  /\ kind = "Task"
  /\ \E s \in {"in_progress", "blocked", "cancelled"} :
       Rewrite(w, "check", s, {"direction_history", "description", "blocker_note"})

(* UnblockTask: back to the form, with a note; then the escalation writes  *)
(* what the first write returned, the tags as stored, a second time.       *)
UnblockTask(w) ==
  /\ kind = "Task"
  /\ \/ /\ TaskCanTransition(entity.status, "awaiting")
        /\ Rewrite(w, "check", "awaiting", {"description"})
     \/ /\ entity.status = "awaiting"
        /\ WriteBack(w, "check", "awaiting", {}, entity.value, {})

(* Four writers of a task do not go through UpdateTask: no transition is   *)
(* checked at the write, nor at a read of their own.  AssignTask and a     *)
(* released dependent set the status, and AssignTask the run, in the       *)
(* stored properties as they are; both looked at an earlier read.          *)
SetTaskStatus(w) ==
  /\ kind = "Task"
  /\ \E s \in {"blocked", "pending"} : WriteBack(w, "write", s, {}, entity.value, {"unchecked", "raw"})
SetTaskWorkflowRunID(w) ==
  /\ kind = "Task"
  /\ WriteBack(w, "write", entity.status, {"workflow_run_id"}, entity.value, {"unchecked", "raw"})

(* cancelTask: the task as listed, if its status may go to cancelled. *)
CancelTask(w) ==
  /\ kind = "Task" /\ TaskCanTransition(entity.status, "cancelled")
  /\ \E read \in Readings : WriteBack(w, "write", "cancelled", {}, read, {"unchecked"})

(* UpdateWorkflowRunStatus, past its check. *)
UpdateWorkflowRunStatus(w) == kind = "WorkflowRun" /\ Rewrite(w, "write", "other", {})

(* CancelWorkflowRun: with who asked for it, why and until when. *)
CancelWorkflowRun(w) ==
  /\ kind = "WorkflowRun"
  /\ Rewrite(w, "write", "other", {"cancelled_by", "cancel_reason", "cancelling_until"})

(* WriteAcceptanceCriteriaResult. *)
WriteResult(w) ==
  kind = "AcceptanceCriteria" /\ Rewrite(w, "write", "other", {"result", "result_notes"})

(* A patch writes the properties it names and no other.                    *)
Patch(fields) ==
  /\ calls < MaxCall /\ calls' = calls + 1
  /\ \E v \in ValueOf(field) :
       /\ entity' = IF field \in fields THEN [entity EXCEPT !.value = v] ELSE entity
       /\ given' = IF field \in fields THEN v ELSE given
  /\ raced' = (raced /\ field \notin fields)
  /\ overtaken' = IF field \in fields THEN overtaken \cup Busy ELSE overtaken
  /\ Followed /\ UNCHANGED <<names, worker, faults, outrun>>

UpdateTaskTodoStatus == kind = "TaskTodo" /\ Patch({"updated_at"})

TouchWorkflowRun == kind = "WorkflowRun" /\ Patch({"last_event_at"})

(* resolveAgentForTask: a plan's fallback agent is upserted with its id    *)
(* alone, which gives every other field of a registered agent anew: none.  *)
ResolveAgentForTask ==
  /\ kind = "Agent" /\ field # "agent_id"
  /\ calls < MaxCall /\ calls' = calls + 1
  /\ entity' = [entity EXCEPT !.value = ""] /\ given' = "" /\ raced' = FALSE
  /\ overtaken' = overtaken \cup Busy
  /\ Followed /\ UNCHANGED <<names, worker, faults, outrun>>

(* The rollback's reset of a task, in whatever status it is by then.       *)
ResetTask ==
  LET cleared == {"workflow_run_id", "completed_at"} IN
  /\ kind = "Task"
  /\ calls < MaxCall /\ calls' = calls + 1
  /\ \E now \in Value :
       entity' = [status |-> "pending",
                  value |-> CASE field \in cleared -> ""
                              [] field = "updated_at" -> now
                              [] OTHER -> entity.value]
  /\ given' = IF field \in cleared THEN "" ELSE given
  /\ raced' = (raced /\ field \notin cleared)
  /\ overtaken' = overtaken \cup Busy /\ outrun' = outrun \cup Checked
  /\ Followed /\ UNCHANGED <<names, worker, faults>>

(* A has_tag edge of the task is created or deleted, or a tag renamed.     *)
ChangeTags ==
  /\ Tagged
  /\ calls < MaxCall /\ calls' = calls + 1
  /\ names' \in ValueOf(field)
  /\ overtaken' = overtaken \cup Busy
  /\ Followed /\ UNCHANGED <<entity, worker, faults, outrun, given, raced>>

-----------------------------------------------------------------------------
(* TaskManager.UpdateTask reads the task again for the transition check,   *)
(* then writes the whole record it was given.                              *)

(* Mutant: only a completed or cancelled task is protected. *)
CheckEnded(w) ==
  /\ At(w, "check")
  /\ Become(w, IF worker[w].status \in TaskStatus /\ entity.status \notin {"completed", "cancelled"}
               THEN [worker[w] EXCEPT !.pc = "write"] ELSE NoCall)
  /\ outrun' = outrun \ {w}
  /\ Followed /\ UNCHANGED <<entity, names, calls, faults, overtaken, given, raced>>
Check(w) ==
  /\ At(w, "check")
  /\ Become(w, IF \/ worker[w].status = entity.status
                  \/ TaskCanTransition(entity.status, worker[w].status)
               THEN [worker[w] EXCEPT !.pc = "write"] ELSE NoCall)
  /\ outrun' = outrun \ {w}
  /\ Followed /\ UNCHANGED <<entity, names, calls, faults, overtaken, given, raced>>

(* The creation time is the stored one, the update time and a terminal     *)
(* status's completion time are the call's, unless it writes the stored    *)
(* properties back; UpsertAgent writes what it got and a run's status      *)
(* brings its times.                                                       *)
Stamped(me, now) ==
  CASE field = "created_at" /\ kind \in {"Task", "Project"} -> entity.value
    [] field = "updated_at" /\ kind # "Agent" -> now
    [] field = "completed_at" /\ kind = "Task" /\ me.status \in TerminalTask /\ me.value = ""
         /\ "raw" \notin me.means -> now
    [] field \in {"started_at", "completed_at"} /\ kind = "WorkflowRun" /\ me.value = "" -> now
    [] OTHER -> me.value

Kept(v) == v = "" /\ field \in Optional[kind]

Write(w) ==
  LET me == worker[w] IN
  /\ At(w, "write")
  /\ \E now \in Value :
       LET v == Stamped(me, now) IN
       entity' = [status |-> me.status, value |-> IF Kept(v) THEN entity.value ELSE v]
  /\ Become(w, NoCall)
  /\ overtaken' = (overtaken \cup Busy) \ {w} /\ outrun' = (outrun \cup Checked) \ {w}
  /\ IF "value" \in me.means /\ ~Kept(me.sent)
     THEN given' = me.sent /\ raced' = FALSE
     ELSE /\ given' = IF "unsent" \in me.means THEN "" ELSE given
          /\ raced' = (raced \/ w \in overtaken)
  /\ Followed /\ UNCHANGED <<names, calls, faults>>

(* A read or the write is refused: the call ends with an error.            *)
Refused(w) ==
  /\ w \in Busy
  /\ faults < MaxFault /\ faults' = faults + 1
  /\ Become(w, NoCall)
  /\ Followed /\ UNCHANGED <<entity, names, calls, overtaken, outrun, given, raced>>

EntityNext ==
  \/ \E w \in Worker :
       \/ Get(w) \/ Send(w) \/ MaskedUpdate(w)
       \/ ReceiveBranch(w) \/ ReceiveRetry(w) \/ ReceiveStatus(w)
       \/ HandleDirection(w) \/ UnblockTask(w)
       \/ SetTaskStatus(w) \/ SetTaskWorkflowRunID(w) \/ CancelTask(w)
       \/ UpdateWorkflowRunStatus(w) \/ CancelWorkflowRun(w) \/ WriteResult(w)
       \/ Check(w) \/ Write(w) \/ Refused(w)
  \/ UpdateTaskTodoStatus \/ TouchWorkflowRun \/ ResolveAgentForTask
  \/ ResetTask \/ ChangeTags

EntitySpec == EntityInit /\ [][EntityNext]_entityVars

-----------------------------------------------------------------------------
(* A field reads, in the service and by a client it is shown to, as the    *)
(* value last given to it: through every conversion, whatever other fields *)
(* calls changed since.  Excepted are the time stamps, a task's tags, for  *)
(* which no value given is ever read, and a field that an overtaken call   *)
(* has written back.                                                       *)
LastGiven ==
  ~raced /\ field \notin Stamp /\ ~Tagged
    => /\ Read = Derived(given)
       /\ field \in ToProto[kind] => Shown = Read

Writing(w) == At(w, "write") /\ worker'[w].pc = "idle" /\ faults' = faults

(* Action: a write changes nothing but what its call is to change, unless  *)
(* another write fell between its first read and it.  Excepted are the     *)
(* time stamps, what a request that replaces everything cannot carry, and  *)
(* what a read makes up: a project_name, and the names of a task's tags,   *)
(* are stored with the record they were read in.                           *)
OthersKept ==
  [][\A w \in Worker :
       Writing(w) /\ w \notin overtaken
         => /\ "status" \notin worker[w].means => entity'.status = entity.status
            /\ \/ entity'.value \in {entity.value, Derived(entity.value)}
               \/ {"value", "unsent"} \cap worker[w].means # {}
               \/ field \in Stamp]_entityVars

(* Action: an UpdateTask moves the status along CanTransitionTo from what  *)
(* is stored, unless another write fell between its check and its write.   *)
StatusAlongTransitions ==
  [][\A w \in Worker :
       /\ Writing(w) /\ w \notin outrun /\ "unchecked" \notin worker[w].means
       /\ entity'.status # entity.status
       => TaskCanTransition(entity.status, entity'.status)]_entityVars
=============================================================================
