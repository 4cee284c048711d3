SPECIFICATION Spec
CONSTANTS
  None = None
  p1 = p1
  o1 = o1
  old = old
  c1 = c1
  t1 = t1
  Product <- MCProduct
  Order <- MCOrder
  Imported <- MCImported
  ImportedDoc <- MCImportedDoc
  Coupon <- MCCoupon
  TrxId <- MCTrxId
  Admin = {}
  Cart <- MCCart
  Choice = {"ADVANCE_DELIVERY"}
  MaxQuantity = 1
  Patch <- MCPatch
  StockInput = {1}
  LimitInput = {1}
INVARIANTS
  RedemptionsBacked
  PaidWasVerified
  FakeFlagReversible
CHECK_DEADLOCK FALSE
