\* Two Chats, three failures and two restarts: a call or the commit fails, what
\* takes back its effects fails, and the mutation that follows fails once more.
SPECIFICATION Spec
CHECK_DEADLOCK FALSE
CONSTANTS
  c1 = c1
  c2 = c2
  Chats = {c1, c2}
  Agents = {"codex", "comet"}
  MaxFailures = 3
  MaxRestarts = 2
INVARIANTS
  BeliefMatchesAgent
  NothingLeaks
