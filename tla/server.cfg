CONSTANTS
  ke = ke
  kl = kl
  d1 = d1
  w1 = w1
  w2 = w2
  Keys = {ke}
  EagerKeys = {ke}
  Digests = {d1}
  DigestOf <- OneKey
  Workers = {w1}
  MaxJobs = 3
  MaxRequests = 1
  MaxQueue = 1
  MaxCancels = 1
  MaxStops = 1
  MaxErrors = 1
SPECIFICATION ServerSpec
CHECK_DEADLOCK FALSE
INVARIANTS ServerTypeOK RowsAreOwned
