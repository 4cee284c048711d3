SPECIFICATION Spec
CONSTANTS
  None = None
  t1 = t1
  t2 = t2
  a1 = a1
  k1 = k1
  o1 = o1
  o2 = o2
  old = old
  c1 = c1
  x1 = x1
  Checkout <- MCCheckout
  Patcher = {}
  Cron = {}
  Product <- MCProduct
  Order <- MCOrder
  Coupon <- MCCoupon
  TrxId <- MCTrxId
  Cart <- MCCart
  MaxQuantity = 1
  Patch <- MCPatch
  Seed <- MCSeed
  InitialStock = 1
  UsageLimit = 1
  CheckoutInput <- MCInput
  Ageing = {old}
  Archivable = {1}
  MaxRuns = 2
  MaxIds = 2
SYMMETRY Symmetry
INVARIANTS
  TypeOK
  OneOrderPerCheckout
PROPERTIES
  CommitsAreOperations
CHECK_DEADLOCK FALSE
