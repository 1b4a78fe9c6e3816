CONSTANTS
  s1 = s1
  s2 = s2
  Slices <- TwoSlices
  Requests = {r1, r2, r3}
  Method = "PREPAID"
  SliceTotal <- Unequal
  MaxAttempts = 2
SPECIFICATION Spec
CHECK_DEADLOCK FALSE
INVARIANTS
  RefundedNotPaidOut
  ReadsStayGood
PROPERTIES
  ContractSpec
