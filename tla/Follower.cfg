\* Two daemons without a brain; leadership moves once.
SPECIFICATION FairSpec
CONSTANTS
  n1 = n1
  n2 = n2
  t1 = t1
  t2 = t2
  t3 = t3
  g1 = g1
  Absent = Absent
  NoLeader = NoLeader
  Nameless = Nameless
  NodeId <- TwoNames
  TaskId <- OneTask
  AttachmentId <- Nothing
  GoalId <- OneGoal
  Payload <- Echoes
  AttachmentKind <- Nothing
  AllowRestart = FALSE
  AllowDocker = FALSE
  AllowedPrefixes <- Nothing
  BlockedPrefixes <- Nothing
  MaxTasksPerNode = 1
  Daemon <- TwoNodes
  Seed <- OneNode
  Brained <- NoNode
  ActionTypes <- Nothing
  ApiPayload <- Echoes
  ApiTarget <- TwoNodes
  MaxFaults = 1
  MaxInputs = 1
  MaxStarts = 2
PROPERTIES
  StartedNodeServes
CHECK_DEADLOCK FALSE
