\* One daemon without faults; the API and the brain schedule tasks,
\* and the brain marks the node degraded.
SPECIFICATION FairSpec
CONSTANTS
  n1 = n1
  n2 = n2
  t1 = t1
  t2 = t2
  t3 = t3
  g1 = g1
  Absent = Absent
  NoLeader = NoLeader
  Nameless = Nameless
  NodeId <- OneName
  TaskId <- TwoTasks
  AttachmentId <- Nothing
  GoalId <- OneGoal
  Payload <- Services
  AttachmentKind <- Nothing
  AllowRestart = FALSE
  AllowDocker = FALSE
  AllowedPrefixes <- Nothing
  BlockedPrefixes <- Nothing
  MaxTasksPerNode = 1
  Daemon <- OneNode
  Seed <- OneNode
  Brained <- OneNode
  ActionTypes <- ScheduleOrMark
  ApiPayload <- Services
  ApiTarget <- OneNode
  MaxFaults = 0
  MaxInputs = 4
  MaxStarts = 3
INVARIANTS
  RunningHasRunner
PROPERTIES
  PendingIsServed
  DegradedIsTemporary
CHECK_DEADLOCK FALSE
