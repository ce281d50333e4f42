------------------------------- MODULE Executor -------------------------------
(***************************************************************************)
(* What a node does with an action its brain proposes: ActionValidator     *)
(* (src/executor/validator.rs) decides whether the policy and the cluster  *)
(* state allow it, and HiveExecutor::execute (src/executor/mod.rs) turns   *)
(* it into the command to replicate.  Both are functions of the state the  *)
(* node sees when it asks.                                                 *)
(*                                                                         *)
(* A payload or an attachment kind is [kind, paths]: the variant and the   *)
(* set of paths it names ({src, dst} of a SyncDirectory, the path of a     *)
(* Directory or File attachment, nothing otherwise).  A path is a sequence *)
(* of pieces fine enough that str::starts_with is "is a prefix of".        *)
(***************************************************************************)
EXTENDS HiveState, FiniteSets, SequencesExt

CONSTANTS AllowRestart,           \* ExecutionPolicy, field by field
          AllowDocker,
          AllowedPrefixes,
          BlockedPrefixes,
          MaxTasksPerNode,
          AttachmentKind          \* kinds of attachment a brain may ask for

ASSUME LimitIsNatural == MaxTasksPerNode \in Nat   \* a usize

PayloadKinds == {"Echo", "SyncDirectory", "RunCommand", "CheckService",
                 "RestartService", "DockerRun", "Custom"}

\* BrainAction, one set of records per variant (the wording is left out).
BrainActions ==
  [type : {"ScheduleTask"}, task : Payload, target_node : NodeId]
  \cup [type : {"RebalanceTask"}, task_id : TaskId, to_node : NodeId]
  \cup [type : {"CancelTask"}, task_id : TaskId]
  \cup [type : {"UpdateGoalProgress"}, goal_id : GoalId]
  \cup [type : {"CreateAttachment"}, node_id : NodeId, kind : AttachmentKind]
  \cup [type : {"RemoveAttachment"}, attachment_id : AttachmentId]
  \cup [type : {"MarkNodeDegraded"}, node_id : NodeId]
  \cup [type : {"RequestHumanApproval", "NoOp"}]

-----------------------------------------------------------------------------
(***************************************************************************)
(* ActionValidator.                                                        *)
(***************************************************************************)
PathAllowed(path) ==
  /\ \A b \in BlockedPrefixes : ~ IsPrefix(b, path)
  /\ AllowedPrefixes = {} \/ \E p \in AllowedPrefixes : IsPrefix(p, path)

TaskPolicy(payload) ==
  /\ payload.kind = "RestartService" => AllowRestart
  /\ payload.kind = "DockerRun" => AllowDocker
  /\ payload.kind \notin {"RunCommand", "Custom"}
  /\ \A path \in payload.paths : PathAllowed(path)

AttachmentPolicy(kind) ==
  /\ kind.kind = "DockerContainer" => AllowDocker
  /\ \A path \in kind.paths : PathAllowed(path)

\* Pending and Running tasks of a node, what the limit counts.
ActiveTasks(s, n) ==
  {t \in TaskId : /\ s.tasks[t] # Absent
                  /\ s.tasks[t].target_node = n
                  /\ s.tasks[t].status \in {"Pending", "Running"}}

\* A task scheduled for a node nobody has looked up.
ValidatesAnyTarget(a, s) ==
  a.type = "ScheduleTask" =>
    /\ TaskPolicy(a.task)
    /\ Cardinality(ActiveTasks(s, a.target_node)) < MaxTasksPerNode

\* validate(action, view) returns Ok.
Validates(a, s) ==
  CASE a.type = "ScheduleTask" ->
         /\ s.nodes[a.target_node] # Absent
         /\ TaskPolicy(a.task)
         /\ Cardinality(ActiveTasks(s, a.target_node)) < MaxTasksPerNode
    [] a.type = "RebalanceTask" ->
         s.nodes[a.to_node] # Absent /\ s.tasks[a.task_id] # Absent
    [] a.type = "CancelTask" -> s.tasks[a.task_id] # Absent
    [] a.type = "MarkNodeDegraded" -> s.nodes[a.node_id] # Absent
    [] a.type = "CreateAttachment" ->
         s.nodes[a.node_id] # Absent /\ AttachmentPolicy(a.kind)
    [] a.type = "RemoveAttachment" -> s.attachments[a.attachment_id] # Absent
    [] a.type = "UpdateGoalProgress" -> a.goal_id \in s.goals
    [] OTHER -> TRUE

-----------------------------------------------------------------------------
(***************************************************************************)
(* HiveExecutor::execute, after validation: the commands it may send to    *)
(* the replicator.  freshTask and freshAttachment are the identifiers a    *)
(* new UUID may be.  A rebalanced task is the whole record the node sees,  *)
(* with another target and the status Pending: its result stays.  An empty *)
(* set means that nothing is replicated and execute returns Ok.            *)
(***************************************************************************)
NewTask(payload, target) ==
  [target_node |-> target, payload |-> payload,
   status |-> "Pending", result |-> FALSE]

CommandsFor(a, s, freshTask, freshAttachment) ==
  CASE a.type = "ScheduleTask" ->
         {PutTask(t, NewTask(a.task, a.target_node)) : t \in freshTask}
    [] a.type = "CancelTask" ->
         {UpdateTaskStatus(a.task_id, "Cancelled", FALSE)}
    [] a.type = "RebalanceTask" ->
         {PutTask(t, [s.tasks[t] EXCEPT !.target_node = a.to_node,
                                        !.status = "Pending"])
            : t \in {u \in {a.task_id} : s.tasks[u] # Absent}}
    [] a.type = "MarkNodeDegraded" ->
         {[op |-> "UpdateNodeHealth", node_id |-> a.node_id, health |-> "Degraded"]}
    [] a.type = "CreateAttachment" ->
         {[op |-> "PutAttachment", attachment_id |-> i, node_id |-> a.node_id]
            : i \in freshAttachment}
    [] a.type = "RemoveAttachment" ->
         {[op |-> "RemoveAttachment", attachment_id |-> a.attachment_id]}
    [] OTHER -> {}
==============================================================================
