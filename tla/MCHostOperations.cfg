\* Three mutations, one of which the Host may defer, and two interruptions: a
\* recovery can be interrupted in turn and leave two requests at the Host.
SPECIFICATION FairSpec
CONSTANTS
  Ops = {plain, other, configuration}
  Deferrable = {configuration}
  MaxInterrupts = 2
INVARIANTS
  EffectAtMostOnce
  ToldIsTrue
  BarrierCoversUncertainty
PROPERTIES
  OutcomesAreFinal
  UncertaintyEnds
CHECK_DEADLOCK FALSE
