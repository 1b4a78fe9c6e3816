CONSTANTS
  d1 = d1
  d2 = d2
  a1 = a1
  a2 = a2
  w1 = w1
  w2 = w2
  prepaid = prepaid
  cod = cod
  o1 = o1
  o2 = o2
  s1 = s1
  s2 = s2
  b1 = b1
  None = None
  Refused = Refused
  Parts = {"checkout", "order", "shop", "landing", "console", "reports"}
  Desk <- TwoDesks
  Authors <- TwoAuthors
  MaxEdits = 1
  MaxBusy = 2
  Assignments <- TwoAuthors
  Requests <- TwoDesks
  MaxPaid = 2
  Codes <- FourCodes
  Trimmed <- WithoutBlanks
  CouponCodes <- Coupons
  NoCode = "none"
  Stock = 2
  MaxCarts = 2
  BuyerOrders <- BothMethods
  Cod <- ByCash
  Units = 2
  MaxCases = 2
  Ids <- TwoIds
  TagOf <- TwoTags
  All = "all"
  PageSize = 1
  Goods <- TwoGoods
  Bundles <- OneBundle
  Recommended <- Matched
  MAX_ITEMS = 2
  BoxIds <- TwoBoxes
  Pins <- TwoPins
  DefaultPin = "452001"
  MaxUnits = 4
  MaxOrders = 2
  Rows <- TwoRows
  Orders <- TwoOrders
  Sellers <- TwoSellers
  Lines <- LinesOfThem
  GrandTotal <- TotalsOfThem
  ShareOf <- SharesOfThem
  BuyerOf <- OneBuyer
  CategoryOf <- Shelves
  Commission = 10
  Fee = 30
  Windows <- Periods
  DefaultDays = 1
  Limit = 2
  LastInstant = 2
  MaxEvents = 5
  Calls <- CallsAtOnce
  Clicks <- StepsOfTheUser
SPECIFICATION Spec
CHECK_DEADLOCK FALSE
INVARIANTS
  ChargedAsShown
  PagesShowTheServer
  ShowsTheBoard
  ReportsAgree
