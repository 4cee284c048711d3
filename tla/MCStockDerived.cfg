SPECIFICATION Spec
CONSTANTS
  None = None
  p1 = p1
  p2 = p2
  o1 = o1
  o2 = o2
  a1 = a1
  Product <- MCProduct
  Order <- MCOrder
  Imported = {}
  ImportedDoc = {}
  Coupon = {}
  TrxId = {}
  Admin <- MCAdmin
  Cart <- MCCart
  Choice = {"FULL_BKASH"}
  MaxQuantity = 2
  Patch <- MCPatch
  StockInput = {0, 2}
  LimitInput = {}
SYMMETRY Symmetry
INVARIANTS
  InStockDerived
CHECK_DEADLOCK FALSE
