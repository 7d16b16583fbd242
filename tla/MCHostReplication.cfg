SPECIFICATION FairSpec
CONSTANTS
  NoState = NoState
  Catalog = catalog
  s1 = s1
  s2 = s2
  c1 = c1
  c2 = c2
  Session = {s1, s2}
  Chat = {c1, c2}
  Home <- MCHome
  InitialLive = {s1, c1}
  Remembered = 10
  MaximumReplay = 4
  MaxCommits = 2
  MaxBuffered = 2
  MaxRefreshes = 1
  MaxInterrupts = 1
CHECK_DEADLOCK FALSE
INVARIANTS
  ReplicaAuthentic
  SettledIsConverged
  ReplayIsComplete
PROPERTIES
  ShownNeverRegresses
  RecoveryEnds
