\* Two operations and two revisions, so that one operation can be queued behind
\* another and an update has somewhere to go; two ends of the process and two
\* failures, so that a recovery is interrupted and a compensation fails too.
SPECIFICATION MCSpec
CONSTANTS
  Ops = {o1, o2}
  Revisions = {r1, r2}
  Absent = absent
  MaxCrashes = 2
  MaxFailures = 2
INVARIANTS
  JournalCanBeRestored
  HostAgentIsAlive
  SettledLeavesNothing
PROPERTIES
  PackageChangesAreAtomic
  OperationSettles
CHECK_DEADLOCK FALSE
