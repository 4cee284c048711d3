CHECK_DEADLOCK FALSE
SPECIFICATION DispatchSpec
CONSTANTS
  None = None
  p1 = p1
  o1 = o1
  t1 = t1
  c1 = c1
  r1 = r1
  r2 = r2
  Product = {p1}
  Order = {o1}
  Imported = {}
  ImportedDoc = {}
  Coupon = {c1}
  TrxId = {t1}
  Admin = {}
  Cart <- MCCart
  Choice = {"FULL_COD", "ADVANCE_DELIVERY", "FULL_BKASH"}
  MaxQuantity = 1
  Patch <- MCPatch
  StockInput = {1}
  LimitInput = {1}
  Request = {r1, r2}
  Work <- MCWork
  Killable = {r1}
  MaxReruns = 1
  Quote <- MCQuote
  Workload <- MCWorkload
INVARIANTS
  DispatchTypeOK
  CollectsExactlyDue
  ParcelsAccounted
  AutoNeverResends
  StockAnswered
PROPERTIES
  RequestsEnd
