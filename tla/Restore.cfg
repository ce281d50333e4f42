\* A single-node cluster, killed once.
SPECIFICATION Spec
CONSTANTS
  command = command
  member = member
  NoEntry = NoEntry
  Entry <- BothEntries
  MembershipEntry <- Members
  Others = FALSE
  MaxIndex = 2
  MaxVote = 1
  MaxBatch = 2
  MaxCrashes = 1
  MaxSnapshots = 0
INVARIANTS
  RestoredStateIsComplete
CHECK_DEADLOCK FALSE
