\* One daemon; the API submits a task, the brain cancels it.
SPECIFICATION Spec
CONSTANTS
  n1 = n1
  n2 = n2
  t1 = t1
  t2 = t2
  t3 = t3
  g1 = g1
  Absent = Absent
  NoLeader = NoLeader
  Nameless = Nameless
  NodeId <- OneName
  TaskId <- OneTask
  AttachmentId <- Nothing
  GoalId <- OneGoal
  Payload <- Echoes
  AttachmentKind <- Nothing
  AllowRestart = FALSE
  AllowDocker = FALSE
  AllowedPrefixes <- Nothing
  BlockedPrefixes <- Nothing
  MaxTasksPerNode = 1
  Daemon <- OneNode
  Seed <- OneNode
  Brained <- OneNode
  ActionTypes <- Cancel
  ApiPayload <- Echoes
  ApiTarget <- OneNode
  MaxFaults = 0
  MaxInputs = 3
  MaxStarts = 3
PROPERTIES
  CancelIsFinal
CHECK_DEADLOCK FALSE
