--------------------------- MODULE HiveStateProofs ---------------------------
(***************************************************************************)
(* What applying a command does to a HiveState: lemmas for the proofs      *)
(* about the modules that replicate it.                                    *)
(***************************************************************************)
EXTENDS HiveState, TLAPS

LEMMA EmptyHiveType == EmptyHive \in HiveStates
  BY DEF EmptyHive, HiveStates

\* Every command has one of the nine variants.
LEMMA CommandCases ==
  ASSUME NEW c \in ClusterCommand
  PROVE  \/ c.op \in {"RegisterNode", "UpdateNodeHealth"}
            /\ c.node_id \in NodeId /\ c.health \in NodeHealth
         \/ c.op = "RemoveNode" /\ c.node_id \in NodeId
         \/ c.op = "PutTask" /\ c.task_id \in TaskId /\ c.task \in Task
         \/ c.op = "UpdateTaskStatus" /\ c.task_id \in TaskId
            /\ c.status \in TaskStatus /\ c.result \in BOOLEAN
         \/ c.op = "PutAttachment" /\ c.attachment_id \in AttachmentId
            /\ c.node_id \in NodeId
         \/ c.op = "RemoveAttachment" /\ c.attachment_id \in AttachmentId
         \/ c.op \in {"PutGoal", "RemoveGoal"} /\ c.goal_id \in GoalId
  BY DEF ClusterCommand, NodeCommand, PutTaskCommand, StatusCommand,
         AttachmentCommand, GoalCommand

LEMMA UpdatedType ==
  ASSUME NEW task \in Task, NEW c,
         c.status \in TaskStatus, c.result \in BOOLEAN
  PROVE  /\ Updated(task, c) \in Task
         /\ Updated(task, c).status = c.status
         /\ Updated(task, c).target_node = task.target_node
  BY DEF Task, Updated

\* What a command does to the tasks: only two variants touch them.
LEMMA ApplyTasks ==
  ASSUME NEW s \in HiveStates, NEW c \in ClusterCommand
  PROVE  Apply(s, c).tasks =
           IF c.op = "PutTask" THEN [s.tasks EXCEPT ![c.task_id] = c.task]
           ELSE IF c.op = "UpdateTaskStatus" /\ s.tasks[c.task_id] # Absent
           THEN [s.tasks EXCEPT ![c.task_id] = Updated(@, c)]
           ELSE s.tasks
<1>1. CASE c.op \in {"RegisterNode", "UpdateNodeHealth"}
  BY <1>1 DEF Apply, HiveStates
<1>2. CASE c.op = "RemoveNode"
  BY <1>2 DEF Apply, HiveStates
<1>3. CASE c.op = "PutTask"
  BY <1>3 DEF Apply, HiveStates
<1>4. CASE c.op = "UpdateTaskStatus"
  BY <1>4 DEF Apply, HiveStates
<1>5. CASE c.op \in {"PutAttachment", "RemoveAttachment"}
  BY <1>5 DEF Apply, HiveStates
<1>6. CASE c.op \in {"PutGoal", "RemoveGoal"}
  BY <1>6 DEF Apply, HiveStates
<1> QED
  BY <1>1, <1>2, <1>3, <1>4, <1>5, <1>6, CommandCases

\* Applying a command to a state gives a state.
LEMMA ApplyType ==
  ASSUME NEW s \in HiveStates, NEW c \in ClusterCommand
  PROVE  Apply(s, c) \in HiveStates
<1>1. CASE c.op \in {"RegisterNode", "UpdateNodeHealth"}
  BY <1>1, CommandCases DEF Apply, HiveStates
<1>2. CASE c.op = "RemoveNode"
  BY <1>2, CommandCases DEF Apply, HiveStates
<1>3. CASE c.op = "PutTask"
  BY <1>3, CommandCases DEF Apply, HiveStates
<1>4. CASE c.op = "UpdateTaskStatus"
  <2>1. c.task_id \in TaskId /\ c.status \in TaskStatus /\ c.result \in BOOLEAN
    BY <1>4, CommandCases
  <2>2. CASE s.tasks[c.task_id] = Absent
    BY <1>4, <2>2 DEF Apply
  <2>3. CASE s.tasks[c.task_id] # Absent
    <3>1. s.tasks[c.task_id] \in Task
      BY <2>1, <2>3 DEF HiveStates
    <3>2. Updated(s.tasks[c.task_id], c) \in Task
      BY <2>1, <3>1, UpdatedType
    <3> QED
      BY <1>4, <2>1, <2>3, <3>2 DEF Apply, HiveStates
  <2> QED
    BY <2>2, <2>3
<1>5. CASE c.op \in {"PutAttachment", "RemoveAttachment"}
  BY <1>5, CommandCases DEF Apply, HiveStates
<1>6. CASE c.op \in {"PutGoal", "RemoveGoal"}
  BY <1>6, CommandCases DEF Apply, HiveStates
<1> QED
  BY <1>1, <1>2, <1>3, <1>4, <1>5, <1>6, CommandCases

=============================================================================
