CONSTANTS
  ke = ke
  kl = kl
  d1 = d1
  d2 = d2
  w1 = w1
  w2 = w2
  Keys = {ke, kl}
  EagerKeys = {ke}
  Digests = {d1}
  DigestOf <- OneBundle
  Workers = {w1}
  MaxJobs = 2
  MaxRequests = 1
  MaxQueue = 1
  MaxCancels = 0
  MaxStops = 1
  MaxErrors = 0
SPECIFICATION Spec
CHECK_DEADLOCK FALSE
PROPERTY RestartNotRelabelled
