\* Two daemons; the API submits a task, the brain moves it.
SPECIFICATION Spec
CONSTANTS
  n1 = n1
  n2 = n2
  t1 = t1
  t2 = t2
  t3 = t3
  g1 = g1
  Absent = Absent
  NoLeader = NoLeader
  Nameless = Nameless
  NodeId <- TwoNames
  TaskId <- OneTask
  AttachmentId <- Nothing
  GoalId <- OneGoal
  Payload <- Echoes
  AttachmentKind <- Nothing
  AllowRestart = FALSE
  AllowDocker = FALSE
  AllowedPrefixes <- Nothing
  BlockedPrefixes <- Nothing
  MaxTasksPerNode = 1
  Daemon <- TwoNodes
  Seed <- OneNode
  Brained <- OneNode
  ActionTypes <- Move
  ApiPayload <- Echoes
  ApiTarget <- TwoNodes
  MaxFaults = 2
  MaxInputs = 3
  MaxStarts = 3
INVARIANTS
  RunByItsTarget
CHECK_DEADLOCK FALSE
