------------------------------ MODULE HiveState ------------------------------
(***************************************************************************)
(* The replicated state machine of a FlockMind cluster: the value every    *)
(* node keeps (HiveState in src/replicator/state_machine.rs), the commands *)
(* the Raft log carries (ClusterCommand in src/types.rs) and what applying *)
(* one of them does.                                                       *)
(*                                                                         *)
(* A HashMap is a total function whose value is Absent where the map has   *)
(* no entry.  Abstracted away, because no decision of the program reads    *)
(* it: host names, tags, usage figures, time stamps, priorities, the       *)
(* content of a result (only whether there is one) and of an error.        *)
(***************************************************************************)
CONSTANTS NodeId,        \* names a node can have, or a task be sent to
          TaskId,
          AttachmentId,
          GoalId,
          Payload,       \* what a task asks for
          Absent         \* the value of a missing entry

\* Unreachable and Unknown are never produced by the program.
NodeHealth == {"Healthy", "Degraded"}

\* The variant Scheduled is never produced by the program.
TaskStatus == {"Pending", "Running", "Completed", "Failed", "Cancelled"}

\* result is TRUE for Some(value), FALSE for None.
Task == [target_node : NodeId,
         payload     : Payload,
         status      : TaskStatus,
         result      : BOOLEAN]

\* An attachment is represented by the node it belongs to.  Every goal the
\* program creates is active, so goals is the set of identifiers.
HiveStates == [nodes       : [NodeId -> NodeHealth \cup {Absent}],
               tasks       : [TaskId -> Task \cup {Absent}],
               attachments : [AttachmentId -> NodeId \cup {Absent}],
               goals       : SUBSET GoalId]

EmptyHive == [nodes       |-> [n \in NodeId |-> Absent],
              tasks       |-> [t \in TaskId |-> Absent],
              attachments |-> [a \in AttachmentId |-> Absent],
              goals       |-> {}]

-----------------------------------------------------------------------------
(***************************************************************************)
(* ClusterCommand, one set of records per variant.                         *)
(***************************************************************************)
NodeCommand == [op : {"RegisterNode", "UpdateNodeHealth"},
                node_id : NodeId, health : NodeHealth]
               \cup [op : {"RemoveNode"}, node_id : NodeId]

PutTaskCommand == [op : {"PutTask"}, task_id : TaskId, task : Task]

StatusCommand == [op : {"UpdateTaskStatus"}, task_id : TaskId,
                  status : TaskStatus, result : BOOLEAN]

AttachmentCommand ==
  [op : {"PutAttachment"}, attachment_id : AttachmentId, node_id : NodeId]
  \cup [op : {"RemoveAttachment"}, attachment_id : AttachmentId]

GoalCommand == [op : {"PutGoal", "RemoveGoal"}, goal_id : GoalId]

ClusterCommand == NodeCommand \cup PutTaskCommand \cup StatusCommand
                  \cup AttachmentCommand \cup GoalCommand

ASSUME AbsentIsNoValue ==
  /\ Absent \notin NodeHealth
  /\ Absent \notin NodeId
  /\ Absent \notin Task
  /\ Absent \notin TaskId
  /\ Absent \notin ClusterCommand

RegisterNode(n) == [op |-> "RegisterNode", node_id |-> n, health |-> "Healthy"]

PutTask(t, task) == [op |-> "PutTask", task_id |-> t, task |-> task]

UpdateTaskStatus(t, status, result) ==
  [op |-> "UpdateTaskStatus", task_id |-> t, status |-> status, result |-> result]

-----------------------------------------------------------------------------
\* A task under UpdateTaskStatus: the result is replaced too.
Updated(task, c) ==
  [task EXCEPT !.status = c.status, !.result = c.result]

(***************************************************************************)
(* HiveState::apply.  Inserting overwrites, removing what is not there and *)
(* updating what is not there change nothing.                              *)
(***************************************************************************)
Apply(s, c) ==
  CASE c.op = "RegisterNode" ->
         [s EXCEPT !.nodes[c.node_id] = c.health]
    [] c.op = "UpdateNodeHealth" ->
         IF s.nodes[c.node_id] = Absent THEN s
         ELSE [s EXCEPT !.nodes[c.node_id] = c.health]
    [] c.op = "RemoveNode" ->
         [s EXCEPT !.nodes[c.node_id] = Absent]
    [] c.op = "PutTask" ->
         [s EXCEPT !.tasks[c.task_id] = c.task]
    [] c.op = "UpdateTaskStatus" ->
         IF s.tasks[c.task_id] = Absent THEN s
         ELSE [s EXCEPT !.tasks[c.task_id] = Updated(@, c)]
    [] c.op = "PutAttachment" ->
         [s EXCEPT !.attachments[c.attachment_id] = c.node_id]
    [] c.op = "RemoveAttachment" ->
         [s EXCEPT !.attachments[c.attachment_id] = Absent]
    [] c.op = "PutGoal" ->
         [s EXCEPT !.goals = @ \cup {c.goal_id}]
    [] c.op = "RemoveGoal" ->
         [s EXCEPT !.goals = @ \ {c.goal_id}]
==============================================================================
