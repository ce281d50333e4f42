\* Two concurrent calls, two tokens, a process started up to three times.
SPECIFICATION Spec
CONSTANTS
  t1 = t1
  t2 = t2
  a = a
  b = b
  c1 = c1
  c2 = c2
  None = None
  Torn = Torn
  Token <- TwoTokens
  Node <- TwoNodes
  Call <- TwoCalls
  MaxStarts = 3
SYMMETRY Interchangeable
INVARIANTS
  TypeOK
  SpentStaysSpent
  UnusedTokenStays
  AuthorityIsKept
CHECK_DEADLOCK FALSE
