CONSTANTS
  own = own
  e1 = e1
  e2 = e2
  p1 = p1
  p2 = p2
  NoLink = NoLink
  Own = own
  Digests = {own, e1, e2}
  Procs = {p1, p2}
  NLinks = 2
  HoldersOf <- TwoLinks
  Initially <- OwnAndBoth
  Cached <- OldResult
  MaxCalls = 2
  MaxChanges = 2
  MaxFaults = 1
SPECIFICATION Spec
CHECK_DEADLOCK FALSE
SYMMETRY ProcSymmetry
INVARIANTS TypeOK AnswerIsCurrent ReadyIsThere OneWins
