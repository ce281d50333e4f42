\* Two daemons that crash and take over from each other; the API submits a
\* task, the brain moves it.
SPECIFICATION Spec
CONSTANTS
  n1 = n1
  n2 = n2
  t1 = t1
  t2 = t2
  t3 = t3
  g1 = g1
  Absent = Absent
  NoLeader = NoLeader
  Nameless = Nameless
  NodeId <- TwoNames
  TaskId <- OneTask
  AttachmentId <- Nothing
  GoalId <- OneGoal
  Payload <- Services
  AttachmentKind <- Nothing
  AllowRestart = FALSE
  AllowDocker = FALSE
  AllowedPrefixes <- Nothing
  BlockedPrefixes <- Nothing
  MaxTasksPerNode = 1
  Daemon <- TwoNodes
  Seed <- OneNode
  Brained <- OneNode
  ActionTypes <- Move
  ApiPayload <- Services
  ApiTarget <- TwoNodes
  MaxFaults = 2
  MaxInputs = 3
  MaxStarts = 2
INVARIANTS
  TypeOK
  AtMostOncePerAssignment
  FinishedWasRun
  ServesRegistered
CHECK_DEADLOCK FALSE
