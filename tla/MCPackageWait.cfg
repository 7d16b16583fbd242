\* No failure is needed: one Agent is updated while a client works with the other.
SPECIFICATION Spec
CONSTANTS
  Agents = {codex, comet}
  Bundled = {comet}
  MaxOperations = 1
  MaxCalls = 1
  MaxEmits = 1
  MaxFailures = 0
  MaxSchema = 2
INVARIANT WaitsAreAcyclic
CHECK_DEADLOCK FALSE
