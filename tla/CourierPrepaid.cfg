CONSTANTS
  s1 = s1
  s2 = s2
  t1 = t1
  t2 = t2
  Slices <- TwoSlices
  Tasks <- TwoTasks
  Requests = {r1}
  c1 = c1
  c2 = c2
  Calls <- TwoCalls
  NoSlice = NoSlice
  Method = "PREPAID"
  SliceTotal <- Prices
  MaxAttempts = 2
SPECIFICATION CourierSpec
CHECK_DEADLOCK FALSE
SYMMETRY Renaming
INVARIANTS
  DeliveredIsComplete
  DeliveredWasAccepted
PROPERTIES
  ContractSpec
