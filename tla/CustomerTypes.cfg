CONSTANTS
  u1 = u1
  u2 = u2
  c1 = c1
  c2 = c2
  None = None
  Buyers <- TwoBuyers
  MaxReviews = 2
  Ratings <- TwoRatings
  MaxAddresses = 3
  MaxCarts = 3
  Stock = 2
  MaxSessions = 3
  Calls <- TwoCalls
  Goods <- TwoGoods
  MaxLines = 3
  TaxRate = 5
  DeliveryFlat = 49
  FreeDeliveryAbove = 499
  Coupons <- ThreeCoupons
SPECIFICATION Spec
SYMMETRY Renaming
CHECK_DEADLOCK FALSE
INVARIANTS
  TypeOK
