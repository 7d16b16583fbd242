SPECIFICATION DeliverySpec
CONSTANTS
  NoState = NoState
  Chan = chan
  Remembered = 2
  MaxSeq = 5
INVARIANTS
  StateIsHistory
  ConflictOnlyWhenForgotten
PROPERTIES
  NeverRegresses
