SPECIFICATION FairSpec
CONSTANTS
  Limit = 2
  MaxBytes = 5
INVARIANTS SignalsAccounted TailExact ContainerGone
PROPERTY EndsUnlessHeld
CHECK_DEADLOCK FALSE
