CONSTANTS
  ke = ke
  kl = kl
  d1 = d1
  w1 = w1
  w2 = w2
  Keys = {ke}
  EagerKeys = {ke}
  Digests = {d1}
  DigestOf <- OneKey
  Workers = {w1, w2}
  MaxJobs = 3
  MaxRequests = 3
  MaxQueue = 1
  MaxCancels = 1
  MaxStops = 0
  MaxErrors = 0
SPECIFICATION ServerSpec
SYMMETRY WorkerSymmetry
CHECK_DEADLOCK FALSE
INVARIANT SameRequestSameJob
