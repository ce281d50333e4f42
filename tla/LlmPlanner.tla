------------------------------ MODULE LlmPlanner -------------------------------
(***************************************************************************)
(* LlmPlanner (src/brain/planner.rs): what it makes of the model's answer. *)
(* An element of the answer has a type and any fields; an element of an    *)
(* unknown type is skipped, a field that is missing (or no string) is read *)
(* as the empty string, which is a name like any other.  The prompt and    *)
(* the figures, reasons and notes of an action are left out.               *)
(***************************************************************************)
EXTENDS Executor

CONSTANTS ActionTypes,   \* the types that occur in the answers
          Nameless       \* the empty string

ASSUME NamelessIsAName ==
  Nameless \in NodeId /\ Nameless \in TaskId /\ Nameless \in GoalId

\* RawAction: target_node, to_node and node_id are all called node.
RawActions == [type    : ActionTypes,
               task    : Payload \cup {Absent},
               node    : NodeId \cup {Absent},
               task_id : TaskId \cup {Absent},
               goal_id : GoalId \cup {Absent}]

Named(field) == IF field = Absent THEN Nameless ELSE field

\* A task without a type is refused, and so are the other kinds of task.
ParsedKinds == {"Echo", "SyncDirectory", "CheckService", "RestartService"}

ParseTask(task) == {p \in {task} \ {Absent} : p.kind \in ParsedKinds}

\* parse_action: the action, or nothing where it is refused.
ParseAction(raw) ==
  CASE raw.type = "ScheduleTask" ->
         {[type |-> "ScheduleTask", task |-> p, target_node |-> Named(raw.node)]
            : p \in ParseTask(raw.task)}
    [] raw.type = "RebalanceTask" ->
         {[type |-> "RebalanceTask", task_id |-> Named(raw.task_id),
           to_node |-> Named(raw.node)]}
    [] raw.type = "CancelTask" ->
         {[type |-> "CancelTask", task_id |-> Named(raw.task_id)]}
    [] raw.type = "UpdateGoalProgress" ->
         {[type |-> "UpdateGoalProgress", goal_id |-> Named(raw.goal_id)]}
    [] raw.type = "MarkNodeDegraded" ->
         {[type |-> "MarkNodeDegraded", node_id |-> Named(raw.node)]}
    [] raw.type \in {"RequestHumanApproval", "NoOp"} -> {[type |-> raw.type]}
    [] OTHER -> {}

\* What a plan may consist of.
Proposals == UNION {ParseAction(raw) : raw \in RawActions}
==============================================================================
