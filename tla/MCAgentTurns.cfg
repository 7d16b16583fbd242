CONSTANTS
  Turns = {t1, t2}
  t1 = t1
  t2 = t2
  r1 = r1
  Requests = {r1}
  Agents = {"codex", "comet"}
  Budget = 2
SPECIFICATION FairSpec
ACTION_CONSTRAINT Asked
CHECK_DEADLOCK FALSE
INVARIANTS
  HeldWhileOpen
  OpenTurnIsOwed
  DrainedAgentIsIdle
PROPERTIES
  CancellationIsReported
