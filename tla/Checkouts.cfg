CONSTANTS
  click = click
  again = again
  rival = rival
  direct = direct
  cart1 = cart1
  cart2 = cart2
  page = page
  sev = sev
  bhujia = bhujia
  Calls <- AllCalls
  Carts <- TwoCarts
  Products = {sev, bhujia}
  From <- Sources
  Want <- Baskets
  Stock0 <- Shelf
  Couponed = {click, rival}
  Limit = 1
  Nothing = Nothing
SPECIFICATION LiveSpec
CHECK_DEADLOCK FALSE
INVARIANTS
  OneOrderPerCart
  StockConserved
PROPERTIES
  ContractSpec
  EveryCallEnds
