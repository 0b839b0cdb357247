CONSTANTS
  p1 = p1
  p2 = p2
  p3 = p3
  Nobody = Nobody
  Procs = {p1, p2}
  Digests = {1, 2}
  MaxCalls = 4
  MaxFaults = 1
  MaxDeaths = 1
SPECIFICATION FairSpec
CHECK_DEADLOCK FALSE
INVARIANTS TypeOK RowHasBundle StagingIsEmpty
PROPERTIES CallsEnd BundleIsImmutable IsContentStore
