\* A planner loop whose brain proposes two variants about two subjects.
SPECIFICATION Spec
CONSTANTS
  s1 = s1
  s2 = s2
  ActionType <- BothKinds
  Subject <- TwoSubjects
  MaxRetries = 3
  MaxHistory = 2
  RecentLimit = 2
  MaxPlan = 3
  MaxActions = 5
SYMMETRY SubjectSymmetry
INVARIANTS
  TypeOK
  NoSimilarOpen
  FailuresStayOpen
  NothingRecentlyFailed
CHECK_DEADLOCK FALSE
