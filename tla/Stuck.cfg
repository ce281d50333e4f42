\* One daemon, killed once and started again; the API submits a task.
SPECIFICATION FairSpec
CONSTANTS
  n1 = n1
  n2 = n2
  t1 = t1
  t2 = t2
  t3 = t3
  g1 = g1
  Absent = Absent
  NoLeader = NoLeader
  Nameless = Nameless
  NodeId <- OneName
  TaskId <- OneTask
  AttachmentId <- Nothing
  GoalId <- OneGoal
  Payload <- Echoes
  AttachmentKind <- Nothing
  AllowRestart = FALSE
  AllowDocker = FALSE
  AllowedPrefixes <- Nothing
  BlockedPrefixes <- Nothing
  MaxTasksPerNode = 1
  Daemon <- OneNode
  Seed <- OneNode
  Brained <- NoNode
  ActionTypes <- Nothing
  ApiPayload <- Echoes
  ApiTarget <- OneNode
  MaxFaults = 1
  MaxInputs = 1
  MaxStarts = 2
PROPERTIES
  RunningEnds
CHECK_DEADLOCK FALSE
