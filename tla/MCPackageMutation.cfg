\* Two Agents and two operations, so that one Agent works while the other is
\* updated and an uninstalled package is installed again; one client mutation
\* (a Turn, a release or a materialization), one resume value, and two refusals,
\* so that a compensation can fail too.
SPECIFICATION FairSpec
CONSTANTS
  Agents = {codex, comet}
  Bundled = {comet}
  MaxOperations = 2
  MaxCalls = 1
  MaxEmits = 1
  MaxFailures = 2
  MaxSchema = 2
INVARIANTS
  DrainHolds
  BackingStoresAgree
  BeliefMatchesUnlessDoubtful
PROPERTIES
  OperationSettles
  CheckpointIsCommitted
CHECK_DEADLOCK FALSE
