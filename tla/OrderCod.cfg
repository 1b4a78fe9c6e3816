CONSTANTS
  s1 = s1
  s2 = s2
  Slices <- TwoSlices
  Requests = {r1, r2}
  Method = "COD"
  SliceTotal <- Equal
  MaxAttempts = 2
SPECIFICATION Spec
CHECK_DEADLOCK FALSE
INVARIANTS
  AcceptedBeforeShipment
  ClearedBeforeConfirmation
  CancelledIffReleased
