\* A node among others, killed once.
SPECIFICATION Spec
CONSTANTS
  command = command
  member = member
  NoEntry = NoEntry
  Entry <- BothEntries
  MembershipEntry <- Members
  Others = TRUE
  MaxIndex = 3
  MaxVote = 1
  MaxBatch = 2
  MaxCrashes = 1
  MaxSnapshots = 2
INVARIANTS
  TypeOK
  PromisesSurvive
  AppliedSurvives
  NothingAppliedTwice
  SnapshotNotAhead
PROPERTIES
  PromisesAreKept
CHECK_DEADLOCK FALSE
