CONSTANTS
  item = item
  c1 = c1
  c2 = c2
  g1 = g1
  g2 = g2
  r1 = r1
  r2 = r2
  None = None
  Items <- OneItem
  Bought <- TwoUnits
  Cases <- TwoCases
  GatewayRefunds <- TwoRefunds
  Requests <- TwoCalls
  Results = {"PASS", "FAIL"}
  SliceRefunds = {2, 4}
  MaxLost = 1
SPECIFICATION Spec
CHECK_DEADLOCK FALSE
SYMMETRY Renaming
INVARIANTS
  RefundsAreDue
  NoEventSwallowed
PROPERTIES
  ContractSpec
