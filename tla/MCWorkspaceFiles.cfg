SPECIFICATION Spec
CONSTANTS
  s1 = s1  s2 = s2  x = x  y = y
  Nobody = Nobody
  Sessions = {s1, s2}
  Paths = {x, y}
  Ops = {"stat", "read", "write", "legacy", "create", "edit", "move", "delete"}
  MaxCalls = 2
  MaxForeign = 2
  MaxFaults = 1
INVARIANTS HonestObservation
PROPERTIES ObservedOnly MoveLosesNothing AllOrNothing CancelPublishesNothing
SYMMETRY Symmetry
CHECK_DEADLOCK FALSE
