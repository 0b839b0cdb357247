CONSTANTS
  ke = ke
  kl = kl
  d1 = d1
  d2 = d2
  w1 = w1
  w2 = w2
  Keys = {ke, kl}
  EagerKeys = {ke, kl}
  Digests = {d1}
  DigestOf <- OneBundle
  Workers = {w1, w2}
  MaxJobs = 3
  MaxRequests = 1
  MaxQueue = 1
  MaxCancels = 0
  MaxStops = 0
  MaxErrors = 0
SPECIFICATION Spec
SYMMETRY WorkerSymmetry
CHECK_DEADLOCK FALSE
INVARIANTS TypeOK OneChildPerKey ChildHasWorker OneRunnerPerJob
PROPERTY LazyFirst
