\* One daemon that crashes and restarts; its brain only schedules.
SPECIFICATION Spec
CONSTANTS
  n1 = n1
  n2 = n2
  t1 = t1
  t2 = t2
  t3 = t3
  g1 = g1
  Absent = Absent
  NoLeader = NoLeader
  Nameless = Nameless
  NodeId <- OneName
  TaskId <- ThreeTasks
  AttachmentId <- Nothing
  GoalId <- OneGoal
  Payload <- Services
  AttachmentKind <- Nothing
  AllowRestart = FALSE
  AllowDocker = FALSE
  AllowedPrefixes <- Nothing
  BlockedPrefixes <- Nothing
  MaxTasksPerNode = 2
  Daemon <- OneNode
  Seed <- OneNode
  Brained <- OneNode
  ActionTypes <- Schedule
  ApiPayload <- Nothing
  ApiTarget <- OneNode
  MaxFaults = 2
  MaxInputs = 4
  MaxStarts = 3
SYMMETRY TaskSymmetry
INVARIANTS
  ActiveWithinLimit
  ExecutingIsRunning
  TargetIsRegistered
PROPERTIES
  FinishedIsFinal
  ImplementsBoard
CHECK_DEADLOCK FALSE
