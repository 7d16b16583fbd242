\* Two operations whose names are used again, a ledger that holds one of them,
\* one refused write, which may be made after all, and one restart.
SPECIFICATION Spec
CONSTANTS
  Ops = {u1, u2}
  Sessions = {s1, s2}
  Configs = {initial, changed}
  InitialConfig = initial
  Retained = 1
  MaxCrashes = 1
  MaxRefusals = 1
  MaxAsked = 2
SYMMETRY Symmetry
INVARIANTS
  AgentFollowsHost
  DecisionComesFirst
  ToldIsTrue
  RollbackIsFinalOnceLost
CHECK_DEADLOCK FALSE
