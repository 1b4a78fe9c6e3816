CONSTANTS
  p1 = p1
  p2 = p2
  s1 = s1
  s2 = s2
  r1 = r1
  r2 = r2
  None = None
  Payables <- TwoPayables
  Goods <- Fourteen
  Rate = 1000
  Returned <- Half
  Adjustments <- Down
  MaxNet = 17
  MaxAdjusted = 20
  Settlements <- TwoBatches
  Requests <- TwoCalls
SPECIFICATION Spec
CHECK_DEADLOCK FALSE
SYMMETRY Renaming
INVARIANTS
  SettledIsPaid
  BooksBalance
  SettledInFull
