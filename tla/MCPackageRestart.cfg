\* One update that is not disturbed but by the end of the process.
SPECIFICATION Spec
CONSTANTS
  Ops = {o1}
  Revisions = {r1, r2}
  Absent = absent
  MaxCrashes = 1
  MaxFailures = 0
INVARIANTS
  HostCanStart
CHECK_DEADLOCK FALSE
