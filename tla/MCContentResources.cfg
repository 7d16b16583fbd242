SPECIFICATION MCSpec
CONSTANTS
  t1 = t1
  t2 = t2
  l1 = l1
  l2 = l2
  c1 = c1
  c2 = c2
  c3 = c3
  Turns = {t1}
  Leases = {l1, l2}
  Calls = {c1, c2}
  Transports = {"remote", "coalesced", "tunnel"}
  MaxOpenLeases = 1
  MaxMaterializations = 1
  MaxPerLease = 2
  Budget = 2
INVARIANTS
  CapacityHolds
  DirectoriesAreAccounted
  FilesHaveTheirLease
  LeasesAgree
PROPERTIES
  CallsEnd
CHECK_DEADLOCK FALSE
