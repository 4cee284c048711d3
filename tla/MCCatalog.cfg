SPECIFICATION Spec
CONSTANTS
  None = None
  r1 = r1
  r2 = r2
  r3 = r3
  c1 = c1
  c2 = c2
  c3 = c3
  p1 = p1
  p2 = p2
  p3 = p3
  v1 = v1
  v2 = v2
  v3 = v3
  v4 = v4
  u1 = u1
  n1 = n1
  n2 = n2
  n3 = n3
  a1 = a1
  a2 = a2
  a3 = a3
  o1 = o1
  o2 = o2
  t1 = t1
  Request <- MCRequest
  CategoryId = {c1, c2, c3}
  ProductId = {p1, p2, p3}
  ReviewId = {v1, v2, v3, v4}
  NewReview = {v2, v4}
  Customer = {u1}
  Name = {n1, n2, n3}
  Asset = {a1, a2, a3}
  OrderId = {o1, o2}
  TrxId = {t1}
  Workload <- MCWorkload
  Export <- MCExport
INVARIANTS
  TypeOK
  NoDanglingCategory
  NoDanglingImage
  AssetHasRow
  CountMatchesReviews
  ReplaceTakesEffect
  ImportComplete
CHECK_DEADLOCK FALSE
