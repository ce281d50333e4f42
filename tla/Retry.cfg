\* A planner loop whose brain proposes the same action in plan after plan.
SPECIFICATION FairSpec
CONSTANTS
  s1 = s1
  s2 = s2
  ActionType <- Compared
  Subject <- OneSubject
  MaxRetries = 3
  MaxHistory = 2
  RecentLimit = 2
  MaxPlan = 1
  MaxActions = 5
PROPERTIES
  FailedIsRetried
CHECK_DEADLOCK FALSE
