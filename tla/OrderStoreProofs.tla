-------------------------- MODULE OrderStoreProofs --------------------------
(***************************************************************************)
(* Proofs about OrderStore: types, the stock identity, and what the order  *)
(* flags mean, for any number of products, orders, coupons and admins.     *)
(***************************************************************************)
EXTENDS OrderStore, FiniteSetTheorems, TLAPS

-----------------------------------------------------------------------------
(* Documents keep their schema.                                            *)

(* A document is in the schema when each of its fields is.                 *)
LEMMA AbsentType == Absent \in OrderDoc
  BY QuantityBounded DEF Absent, OrderDoc, OrderStatus, PaymentStatus

(* expireOneIfStale writes a valid document.                               *)
LEMMA ExpiredType ==
  ASSUME NEW d \in OrderDoc
  PROVE  /\ Expired(d) \in OrderDoc
         /\ Expired(d).items = d.items
  BY DEF Expired, OrderDoc, OrderStatus

(* createOrder inserts a valid document.                                   *)
LEMMA NewOrderType ==
  ASSUME NEW cart \in [Product -> 0 .. MaxQuantity], NEW choice, NEW payable,
         NEW trx \in TrxId \cup {None}, NEW c \in Coupon \cup {None}
  PROVE  /\ NewOrder(cart, choice, payable, trx, c) \in OrderDoc
         /\ NewOrder(cart, choice, payable, trx, c).items = cart
         /\ NewOrder(cart, choice, payable, trx, c).stockDeducted
  BY QuantityBounded
     DEF NewOrder, InitialPayment, Absent, OrderDoc, OrderStatus, PaymentStatus

(* The fake flag touches the payment status, what it remembers, and itself. *)
LEMMA FakeToggledType ==
  ASSUME NEW d \in OrderDoc
  PROVE  /\ FakeToggled(d) \in OrderDoc
         /\ FakeToggled(d).items = d.items
         /\ FakeToggled(d).stockDeducted = d.stockDeducted
         /\ FakeToggled(d).deleted = d.deleted
         /\ FakeToggled(d).coupon = d.coupon
         /\ FakeToggled(d).status = d.status
<1>0. \A q \in PaymentStatus, r \in PaymentStatus \cup {None}, b \in BOOLEAN :
        [d EXCEPT !.isFakeSuspected = b, !.deliveryPaymentStatus = q,
                  !.statusBeforeFakeSuspicion = r] \in OrderDoc
  BY DEF OrderDoc
<1>1. CASE d.isFakeSuspected
  <2> DEFINE q == IF d.statusBeforeFakeSuspicion = None THEN "COD_PENDING"
                  ELSE d.statusBeforeFakeSuspicion
  <2>1. FakeToggled(d) = [d EXCEPT !.isFakeSuspected = FALSE,
                                   !.deliveryPaymentStatus = q,
                                   !.statusBeforeFakeSuspicion = None]
    BY <1>1 DEF FakeToggled
  <2>2. q \in PaymentStatus
    BY DEF OrderDoc, PaymentStatus
  <2> HIDE DEF q
  <2>3. FakeToggled(d) \in OrderDoc
    BY <1>0, <2>1, <2>2
  <2> QED BY <2>1, <2>3 DEF OrderDoc
<1>2. CASE ~d.isFakeSuspected
  BY <1>2 DEF FakeToggled, OrderDoc, PaymentStatus
<1> QED BY <1>1, <1>2

(* patchOrder saves a valid document and leaves the fields it does not own. *)
LEMMA PatchedType ==
  ASSUME NEW d \in OrderDoc, d.status # "absent", NEW body \in Patch
  PROVE  /\ Patched(d, body) \in OrderDoc
         /\ Patched(d, body).items = d.items
         /\ Patched(d, body).stockDeducted = d.stockDeducted
         /\ Patched(d, body).deleted = d.deleted
         /\ Patched(d, body).coupon = d.coupon
         /\ Patched(d, body).status # "absent"
<1> DEFINE s == StatusSet(d, body.status)
           f == IF body.toggleFakeSuspicion THEN FakeToggled(s) ELSE s
           Kept(x) == /\ x \in OrderDoc
                      /\ x.items = d.items
                      /\ x.stockDeducted = d.stockDeducted
                      /\ x.deleted = d.deleted
                      /\ x.coupon = d.coupon
                      /\ x.status # "absent"
<1>1. Kept(s)
  BY PatchBodies DEF StatusSet, OrderDoc, OrderStatus
<1>2. Kept(FakeToggled(s))
  <2> HIDE DEF s
  <2> QED BY <1>1, FakeToggledType
<1>3. Kept(f)
  BY <1>1, <1>2
<1>4. Kept(PaymentOverridden(f, body.deliveryPaymentStatus))
  <2> HIDE DEF f
  <2> QED BY <1>3, PatchBodies DEF PaymentOverridden, OrderDoc
<1> QED BY <1>4 DEF Patched

-----------------------------------------------------------------------------
(* Counting the units a set of orders holds.  ord is the orders collection *)
(* before or after a step.                                                 *)

UnitsIn(ord, X, p) ==
  {u \in X \X (1 .. MaxQuantity) : u[2] <= ord[u[1]].items[p]}

HeldIn(ord) == {o \in Order : ord[o].stockDeducted}

(* Orders hold finitely many units.                                        *)
LEMMA UnitsFinite ==
  ASSUME NEW ord, NEW X \in SUBSET Order, NEW p
  PROVE  /\ IsFiniteSet(UnitsIn(ord, X, p))
         /\ Cardinality(UnitsIn(ord, X, p)) \in Nat
<1>1. IsFiniteSet(X) /\ IsFiniteSet(1 .. MaxQuantity)
  BY OrdersFinite, QuantityBounded, FS_Subset, FS_Interval
<1>2. IsFiniteSet(X \X (1 .. MaxQuantity))
  BY <1>1, FS_Product
<1>3. UnitsIn(ord, X, p) \in SUBSET (X \X (1 .. MaxQuantity))
  BY DEF UnitsIn
<1>4. IsFiniteSet(UnitsIn(ord, X, p))
  BY <1>2, <1>3, FS_Subset
<1> QED BY <1>4, FS_CardinalityType

(* Disjoint sets of orders hold disjoint units.                            *)
LEMMA UnitsSplit ==
  ASSUME NEW ord, NEW X \in SUBSET Order, NEW Y \in SUBSET Order, NEW p,
         X \cap Y = {}
  PROVE  Cardinality(UnitsIn(ord, X \cup Y, p)) =
           Cardinality(UnitsIn(ord, X, p)) + Cardinality(UnitsIn(ord, Y, p))
<1>1. UnitsIn(ord, X \cup Y, p) = UnitsIn(ord, X, p) \cup UnitsIn(ord, Y, p)
  BY DEF UnitsIn
<1>2. UnitsIn(ord, X, p) \cap UnitsIn(ord, Y, p) = {}
  BY DEF UnitsIn
<1>3. /\ IsFiniteSet(UnitsIn(ord, X, p)) /\ IsFiniteSet(UnitsIn(ord, Y, p))
      /\ Cardinality(UnitsIn(ord, X, p)) \in Nat
      /\ Cardinality(UnitsIn(ord, Y, p)) \in Nat
  BY UnitsFinite
<1>4. Cardinality(UnitsIn(ord, X, p) \cup UnitsIn(ord, Y, p)) =
        Cardinality(UnitsIn(ord, X, p)) + Cardinality(UnitsIn(ord, Y, p))
        - Cardinality(UnitsIn(ord, X, p) \cap UnitsIn(ord, Y, p))
  BY <1>3, FS_Union
<1>5. Cardinality(UnitsIn(ord, X, p) \cap UnitsIn(ord, Y, p)) = 0
  BY <1>2, FS_EmptySet
<1>6. Cardinality(UnitsIn(ord, X \cup Y, p)) =
        Cardinality(UnitsIn(ord, X, p) \cup UnitsIn(ord, Y, p))
  BY <1>1, Zenon
<1> QED BY <1>3, <1>4, <1>5, <1>6

(* One order holds the quantity on its line.                               *)
LEMMA UnitsOfOne ==
  ASSUME NEW ord \in [Order -> OrderDoc], NEW o \in Order, NEW p \in Product
  PROVE  Cardinality(UnitsIn(ord, {o}, p)) = ord[o].items[p]
<1>1. PICK n \in 0 .. MaxQuantity : n = ord[o].items[p]
  BY DEF OrderDoc
<1>2. UnitsIn(ord, {o}, p) = {o} \X (1 .. n)
  BY <1>1, QuantityBounded DEF UnitsIn
<1>3. IsFiniteSet({o}) /\ Cardinality({o}) = 1
  BY FS_Singleton
<1>4. IsFiniteSet(1 .. n) /\ Cardinality(1 .. n) = n
  BY QuantityBounded, FS_Interval
<1>5. Cardinality({o} \X (1 .. n)) = Cardinality({o}) * Cardinality(1 .. n)
  BY <1>3, <1>4, FS_Product
<1>6. Cardinality(UnitsIn(ord, {o}, p)) = Cardinality({o} \X (1 .. n))
  BY <1>2, Zenon
<1> QED BY <1>1, <1>3, <1>4, <1>5, <1>6, QuantityBounded

(* No order, no unit.                                                      *)
LEMMA UnitsOfNone ==
  ASSUME NEW ord, NEW X, X = {}, NEW p
  PROVE  Cardinality(UnitsIn(ord, X, p)) = 0
<1>1. UnitsIn(ord, X, p) = {}
  BY DEF UnitsIn
<1> QED BY <1>1, FS_EmptySet

-----------------------------------------------------------------------------
(* Types.  An id that was never used still has the blank document: the     *)
(* type invariant needs it no more than the others do, but every later     *)
(* proof starts from both.                                                 *)

UnusedIsBlank == \A o \in Order : ~Exists(o) => order[o] = Absent

Sound == TypeOK /\ UnusedIsBlank

(* Releasing never lowers a count.                                         *)
LEMMA RestockedType ==
  ASSUME TypeOK, NEW X \in SUBSET Order
  PROVE  /\ Restocked(X) \in [Product -> Nat]
         /\ \A p \in Product :
              Restocked(X)[p] = stockCount[p] + Cardinality(UnitsIn(order, Holding(X), p))
<1>1. Holding(X) \in SUBSET Order
  BY DEF Holding
<1>2. \A p \in Product : Cardinality(UnitsIn(order, Holding(X), p)) \in Nat
  BY <1>1, UnitsFinite
<1>3. \A p \in Product : Units(Holding(X), p) = UnitsIn(order, Holding(X), p)
  BY Zenon DEF Units, UnitsIn
<1>4. \A p \in Product :
        Cardinality(Units(Holding(X), p)) = Cardinality(UnitsIn(order, Holding(X), p))
  BY <1>3, Zenon
<1> QED BY <1>2, <1>4 DEF Restocked, TypeOK

(* A reservation that was allowed leaves no count below zero.              *)
LEMMA ReservedType ==
  ASSUME NEW count \in [Product -> Nat], NEW items \in [Product -> 0 .. MaxQuantity],
         CanReserve(items, count)
  PROVE  Reserved(items, count) \in [Product -> Nat]
<1> SUFFICES ASSUME NEW p \in Product
             PROVE  count[p] - items[p] \in Nat
  BY DEF Reserved
<1>1. items[p] \in Nat /\ count[p] \in Nat
  BY QuantityBounded
<1>2. items[p] > 0 => count[p] >= items[p]
  BY DEF CanReserve, Lines
<1> QED BY <1>1, <1>2

(* Moving stock keeps both product fields in their types.                  *)
LEMMA MoveStockType ==
  ASSUME TypeOK, NEW T, NEW count \in [Product -> Nat], MoveStock(T, count)
  PROVE  /\ stockCount' \in [Product -> Nat]
         /\ inStock' \in [Product -> BOOLEAN]
<1>1. stockCount' \in [Product -> Nat]
  BY DEF MoveStock
<1>2. ASSUME NEW p \in Product
      PROVE  inStock'[p] \in BOOLEAN
  <2>1. CASE p \in T
    <3>1. inStock'[p] = (count[p] > 0)
      BY <2>1, Zenon DEF MoveStock
    <3> QED BY <3>1
  <2>2. CASE p \notin T
    <3>1. inStock'[p] = inStock[p]
      BY <2>2, Zenon DEF MoveStock
    <3> QED BY <3>1 DEF TypeOK
  <2> QED BY <2>1, <2>2
<1>3. inStock' = [p \in Product |-> inStock'[p]]
  BY Zenon DEF MoveStock
<1> QED BY <1>1, <1>2, <1>3

(* A step that writes one valid document keeps the collection valid.       *)
LEMMA OneDocument ==
  ASSUME Sound, NEW o \in Order, NEW d \in OrderDoc, d.status # "absent",
         order' = [order EXCEPT ![o] = d]
  PROVE  order' \in [Order -> OrderDoc] /\ UnusedIsBlank'
  BY DEF Sound, TypeOK, UnusedIsBlank, Exists

(* createOrder writes valid documents.                                     *)
LEMMA PlaceOrderSound ==
  ASSUME Sound, NEW o \in Order, NEW cart \in Cart,
         NEW X \in SUBSET Blocking(cart), NEW choice \in Choice,
         NEW payable \in BOOLEAN, NEW trx \in TrxId \cup {None},
         NEW c \in Coupon \cup {None}, PlaceOrder(o, X, cart, choice, payable, trx, c)
  PROVE  Sound'
<1>1. X \in SUBSET Order /\ cart \in [Product -> 0 .. MaxQuantity]
  BY CartsHoldQuantities DEF Blocking
<1>2. Restocked(X) \in [Product -> Nat]
  BY <1>1, RestockedType DEF Sound
<1>3. Reserved(cart, Restocked(X)) \in [Product -> Nat]
  BY <1>1, <1>2, ReservedType DEF PlaceOrder
<1>4. /\ stockCount' \in [Product -> Nat]
      /\ inStock' \in [Product -> BOOLEAN]
  BY <1>3, MoveStockType DEF PlaceOrder, Sound
<1>5. NewOrder(cart, choice, payable, trx, c) \in OrderDoc
  BY <1>1, NewOrderType
<1>6. order' \in [Order -> OrderDoc]
  BY <1>5, ExpiredType DEF PlaceOrder, Sound, TypeOK
<1>7. coupon' \in [Coupon -> CouponDoc]
  BY DEF PlaceOrder, Redeem, Sound, TypeOK, CouponDoc
<1>8. UnusedIsBlank'
  <2> SUFFICES ASSUME NEW x \in Order, order'[x].status = "absent"
               PROVE  order'[x] = Absent
    BY DEF UnusedIsBlank, Exists
  <2>1. x # o
    BY DEF PlaceOrder, NewOrder, Absent
  <2>2. x \notin X
    BY <2>1 DEF PlaceOrder, Expired, Sound, TypeOK, OrderDoc
  <2> QED BY <2>1, <2>2 DEF PlaceOrder, Sound, UnusedIsBlank, Exists
<1> QED BY <1>4, <1>6, <1>7, <1>8 DEF PlaceOrder, Sound, TypeOK

(* The expiry of one order writes valid documents.                         *)
LEMMA ExpireOrderSound ==
  ASSUME Sound, NEW o \in Order, ExpireOrder(o)
  PROVE  Sound'
<1>1. Restocked({o}) \in [Product -> Nat]
  BY RestockedType DEF Sound
<1>2. /\ stockCount' \in [Product -> Nat]
      /\ inStock' \in [Product -> BOOLEAN]
  BY <1>1, MoveStockType DEF ExpireOrder, Sound
<1>3. order' \in [Order -> OrderDoc]
  BY ExpiredType DEF ExpireOrder, Sound, TypeOK
<1>4. UnusedIsBlank'
  BY DEF ExpireOrder, Expired, Sound, TypeOK, UnusedIsBlank, Exists, OrderDoc
<1> QED BY <1>2, <1>3, <1>4 DEF ExpireOrder, Sound, TypeOK

(* patchOrder and the stock it moves write valid documents.                *)
LEMMA PatchOrderSound ==
  ASSUME Sound, NEW o \in Order, NEW body \in Patch, PatchOrder(o, body)
  PROVE  Sound'
<1> DEFINE d == Patched(order[o], body)
<1>1. /\ d \in OrderDoc /\ d.status # "absent"
      /\ [d EXCEPT !.stockDeducted = TRUE] \in OrderDoc
      /\ [d EXCEPT !.stockDeducted = FALSE] \in OrderDoc
  <2>1. order[o] \in OrderDoc /\ order[o].status # "absent"
    BY DEF Sound, TypeOK, PatchOrder, Exists
  <2>2. d \in OrderDoc /\ d.status # "absent"
    BY <2>1, PatchedType
  <2> HIDE DEF d
  <2> QED BY <2>2 DEF OrderDoc
<1>2. order' \in [Order -> OrderDoc] /\ UnusedIsBlank'
  <2>1. \/ order' = [order EXCEPT ![o] = d]
        \/ order' = [order EXCEPT ![o] = [d EXCEPT !.stockDeducted = TRUE]]
        \/ order' = [order EXCEPT ![o] = [d EXCEPT !.stockDeducted = FALSE]]
    BY DEF PatchOrder, PatchMovingNothing, PatchReleasing, PatchReserving
  <2> HIDE DEF d
  <2>2. /\ [d EXCEPT !.stockDeducted = TRUE].status # "absent"
        /\ [d EXCEPT !.stockDeducted = FALSE].status # "absent"
    BY <1>1 DEF OrderDoc
  <2> QED BY <1>1, <2>1, <2>2, OneDocument
<1>3. /\ stockCount' \in [Product -> Nat]
      /\ inStock' \in [Product -> BOOLEAN]
  <2>1. d.items \in [Product -> 0 .. MaxQuantity]
    BY <1>1 DEF OrderDoc
  <2>2. Released(d.items, stockCount) \in [Product -> Nat]
    BY <2>1, QuantityBounded DEF Released, Sound, TypeOK
  <2>3. CanReserve(d.items, stockCount)
          => Reserved(d.items, stockCount) \in [Product -> Nat]
    BY <2>1, ReservedType DEF Sound, TypeOK
  <2>4. \/ UNCHANGED <<stockCount, inStock>>
        \/ MoveStock(Lines(d.items), Released(d.items, stockCount))
        \/ /\ CanReserve(d.items, stockCount)
           /\ MoveStock(Lines(d.items), Reserved(d.items, stockCount))
    BY DEF PatchOrder, PatchMovingNothing, PatchReleasing, PatchReserving
  <2> HIDE DEF d
  <2> QED BY <2>2, <2>3, <2>4, MoveStockType DEF Sound, TypeOK
<1>4. UNCHANGED <<archived, draft, coupon, supply, verified>>
  BY DEF PatchOrder
<1> QED BY <1>2, <1>3, <1>4 DEF Sound, TypeOK

(* The other admin operations on an order write valid documents.           *)
LEMMA OrderEditSound ==
  ASSUME Sound, NEW o \in Order,
         \/ VerifyOrderPayment(o)
         \/ SoftDeleteOrder(o)
         \/ CommitDispatch(o)
         \/ Age(o)
  PROVE  Sound'
<1>1. order[o] \in OrderDoc /\ order[o].status # "absent"
  BY DEF Sound, TypeOK, VerifyOrderPayment, SoftDeleteOrder, CommitDispatch, Age, Exists
<1>2. CASE VerifyOrderPayment(o)
  <2> DEFINE d == [order[o] EXCEPT !.deliveryPaymentStatus = "ADVANCE_PAID"]
  <2>1. d \in OrderDoc /\ d.status # "absent"
    BY <1>1 DEF OrderDoc, PaymentStatus
  <2>2. order' = [order EXCEPT ![o] = d]
    BY <1>2 DEF VerifyOrderPayment
  <2>3. order' \in [Order -> OrderDoc] /\ UnusedIsBlank'
    BY <2>1, <2>2, OneDocument
  <2> QED BY <1>2, <2>3 DEF VerifyOrderPayment, Sound, TypeOK
<1>3. CASE SoftDeleteOrder(o)
  <2> DEFINE d == [order[o] EXCEPT !.deleted = TRUE, !.stockDeducted = FALSE]
  <2>1. Restocked({o}) \in [Product -> Nat]
    BY RestockedType DEF Sound
  <2>2. /\ stockCount' \in [Product -> Nat]
        /\ inStock' \in [Product -> BOOLEAN]
    BY <1>3, <2>1, MoveStockType DEF SoftDeleteOrder, Sound
  <2>3. d \in OrderDoc /\ d.status # "absent"
    BY <1>1 DEF OrderDoc
  <2>4. order' = [order EXCEPT ![o] = d]
    BY <1>3, <1>1 DEF SoftDeleteOrder, Sound, TypeOK
  <2>5. order' \in [Order -> OrderDoc] /\ UnusedIsBlank'
    BY <2>3, <2>4, OneDocument
  <2> QED BY <1>3, <2>2, <2>5 DEF SoftDeleteOrder, Sound, TypeOK
<1>4. CASE CommitDispatch(o)
  <2> DEFINE next == IF order[o].status \in {"pending", "processing"}
                     THEN "shipped" ELSE order[o].status
             d == [order[o] EXCEPT !.courier = TRUE, !.status = next]
  <2>1. d \in OrderDoc /\ d.status # "absent"
    BY <1>1 DEF OrderDoc, OrderStatus
  <2>2. order' = [order EXCEPT ![o] = d]
    BY <1>4, <1>1 DEF CommitDispatch, Sound, TypeOK
  <2>3. order' \in [Order -> OrderDoc] /\ UnusedIsBlank'
    BY <2>1, <2>2, OneDocument
  <2> QED BY <1>4, <2>3 DEF CommitDispatch, Sound, TypeOK
<1>5. CASE Age(o)
  <2> DEFINE d == [order[o] EXCEPT !.aged = TRUE]
  <2>1. d \in OrderDoc /\ d.status # "absent"
    BY <1>1 DEF OrderDoc
  <2>2. order' = [order EXCEPT ![o] = d]
    BY <1>5 DEF Age
  <2>3. order' \in [Order -> OrderDoc] /\ UnusedIsBlank'
    BY <2>1, <2>2, OneDocument
  <2> QED BY <1>5, <2>3 DEF Age, Sound, TypeOK
<1> QED BY <1>2, <1>3, <1>4, <1>5

(* updateProduct saves counts an admin typed or the counts it found.       *)
LEMMA SaveProductSound ==
  ASSUME Sound, NEW a \in Admin, NEW count \in StockInput \cup {None},
         SaveProduct(a, count)
  PROVE  Sound'
<1> DEFINE d   == draft[a]
           new == IF count = None THEN d.stockCount ELSE count
<1>1. d \in Draft
  BY DEF SaveProduct, Sound, TypeOK
<1>2. new \in Nat /\ d.product \in Product
  BY <1>1, InputsAreCounts DEF Draft
<1> HIDE DEF d
<1>3. /\ stockCount' \in [Product -> Nat]
      /\ \A p \in Product : stockCount'[p] \in Nat /\ stockCount[p] \in Nat
  <2> HIDE DEF new
  <2>1. \/ stockCount' = stockCount
        \/ stockCount' = [stockCount EXCEPT ![d.product] = new]
    BY DEF SaveProduct, d, new
  <2> QED BY <1>2, <2>1 DEF Sound, TypeOK
<1>4. inStock' \in [Product -> BOOLEAN]
  <2>1. \/ inStock' = inStock
        \/ inStock' = [inStock EXCEPT ![d.product] = new > 0]
    BY DEF SaveProduct, d
  <2>2. (new > 0) \in BOOLEAN
    BY <1>2
  <2> HIDE DEF new
  <2> QED BY <1>2, <2>1, <2>2 DEF Sound, TypeOK
<1>5. supply' \in [Product -> Int]
  <2>1. supply' = [supply EXCEPT ![d.product] = @ + stockCount'[d.product]
                                                 - stockCount[d.product]]
    BY DEF SaveProduct, d
  <2> QED BY <1>2, <1>3, <2>1 DEF Sound, TypeOK
<1>6. /\ draft' \in [Admin -> Draft \cup {None}]
      /\ UNCHANGED <<archived, order, coupon, verified>>
  BY DEF SaveProduct, Sound, TypeOK
<1> QED BY <1>3, <1>4, <1>5, <1>6 DEF Sound, TypeOK, UnusedIsBlank, Exists

(* The steps that only touch a product or a coupon document.               *)
LEMMA CatalogSound ==
  ASSUME Sound,
         \/ \E p \in Product : ProductStep(p)
         \/ \E c \in Coupon : CouponStep(c)
  PROVE  Sound'
<1>1. ASSUME NEW p \in Product, NEW a \in Admin, LoadProduct(a, p)
      PROVE  Sound'
  <2>1. [product |-> p, stockCount |-> stockCount[p], inStock |-> inStock[p]] \in Draft
    BY DEF Draft, Sound, TypeOK
  <2> QED BY <1>1, <2>1 DEF LoadProduct, Sound, TypeOK, UnusedIsBlank, Exists
<1>2. ASSUME NEW p \in Product, SoftDeleteProduct(p) \/ RestoreProduct(p)
      PROVE  Sound'
  BY <1>2 DEF SoftDeleteProduct, RestoreProduct, Sound, TypeOK, UnusedIsBlank, Exists
<1>3. ASSUME NEW c \in Coupon, CouponStep(c)
      PROVE  Sound'
  <2>1. coupon' \in [Coupon -> CouponDoc]
    <3>1. coupon \in [Coupon -> CouponDoc]
      BY DEF Sound, TypeOK
    <3>6. \A b \in BOOLEAN : /\ [coupon[c] EXCEPT !.deleted = b] \in CouponDoc
                             /\ [coupon[c] EXCEPT !.active = b] \in CouponDoc
      BY <3>1 DEF CouponDoc
    <3>2. ASSUME NEW limit \in LimitInput, NEW active \in BOOLEAN,
                 UpdateCoupon(c, limit, active)
          PROVE  coupon' \in [Coupon -> CouponDoc]
      BY <3>1, <3>2, InputsAreCounts DEF UpdateCoupon, CouponDoc
    <3>3. SoftDeleteCoupon(c) => coupon' \in [Coupon -> CouponDoc]
      BY <3>1, <3>6 DEF SoftDeleteCoupon
    <3>4. RestoreCoupon(c) => coupon' \in [Coupon -> CouponDoc]
      BY <3>1, <3>6 DEF RestoreCoupon
    <3>5. CouponExpires(c) => coupon' \in [Coupon -> CouponDoc]
      BY <3>1, <3>6 DEF CouponExpires
    <3> QED BY <1>3, <3>2, <3>3, <3>4, <3>5 DEF CouponStep
  <2>2. UNCHANGED <<productVars, order, verified>>
    BY <1>3
       DEF CouponStep, UpdateCoupon, SoftDeleteCoupon, RestoreCoupon, CouponExpires
  <2> QED BY <2>1, <2>2 DEF productVars, Sound, TypeOK, UnusedIsBlank, Exists
<1> QED BY <1>1, <1>2, <1>3 DEF ProductStep

(* The states the program can start in.                                    *)
LEMMA InitSound == Init => Sound
<1> SUFFICES ASSUME Init PROVE Sound
  OBVIOUS
<1>1. order \in [Order -> OrderDoc]
  BY AbsentType, ImportedDocsAreOrders DEF Init
<1>2. UnusedIsBlank
  BY ImportedDocsAreOrders DEF Init, UnusedIsBlank, Exists
<1>3. stockCount \in [Product -> Nat]
  BY InputsAreCounts DEF Init
<1>4. supply \in [Product -> Int]
  <2>1. \A p \in Product : Cardinality(UnitsIn(order, Holding(Order), p)) \in Nat
    BY UnitsFinite DEF Holding
  <2>2. \A p \in Product : Units(Holding(Order), p) = UnitsIn(order, Holding(Order), p)
    BY Zenon DEF Units, UnitsIn
  <2>3. \A p \in Product : Cardinality(Units(Holding(Order), p)) \in Nat
    BY <2>1, <2>2, Zenon
  <2> QED BY <1>3, <2>3 DEF Init, Restocked
<1>5. /\ inStock \in [Product -> BOOLEAN]
      /\ archived \in [Product -> BOOLEAN]
      /\ draft \in [Admin -> Draft \cup {None}]
      /\ verified \subseteq Order
  BY <1>3, OrdersFinite DEF Init
<1>6. coupon \in [Coupon -> CouponDoc]
  <2>1. \A limit \in LimitInput : NewCoupon(limit) \in CouponDoc
    BY InputsAreCounts DEF NewCoupon, CouponDoc
  <2> QED BY <2>1 DEF Init
<1> QED BY <1>1, <1>2, <1>3, <1>4, <1>5, <1>6 DEF Sound, TypeOK

(* Every operation, and a step that changes nothing, keeps the types.      *)
LEMMA StepSound == Sound /\ [Next]_vars => Sound'
<1> SUFFICES ASSUME Sound, [Next]_vars PROVE Sound'
  OBVIOUS
<1>1. ASSUME NEW o \in Order, OrderStep(o)
      PROVE  Sound'
  BY <1>1, PlaceOrderSound, ExpireOrderSound, PatchOrderSound, OrderEditSound
     DEF OrderStep
<1>2. CASE UNCHANGED vars
  BY <1>2 DEF vars, Sound, TypeOK, UnusedIsBlank, Exists
<1> QED BY <1>1, <1>2, CatalogSound, SaveProductSound DEF Next

(* The invariant every later proof starts from: types hold, and an id that *)
(* no order was given still has the blank document.                        *)
THEOREM StoreSound == Spec => []Sound
<1>1. Sound /\ [Next]_vars => Sound'
  BY StepSound
<1> QED BY <1>1, InitSound, PTL DEF Spec

(* Every document keeps its schema's type, and no stock count is ever      *)
(* below zero: the types of order.model.ts, coupon.model.ts and            *)
(* product.model.ts hold after every operation.                            *)
THEOREM TypeCorrect == Spec => []TypeOK
<1>1. Sound => TypeOK
  BY DEF Sound
<1> QED BY <1>1, StoreSound, PTL

-----------------------------------------------------------------------------
(* The orders collection changes only in order steps.                      *)

LEMMA CatalogLeavesOrders ==
  ASSUME \/ \E p \in Product : ProductStep(p)
         \/ \E a \in Admin, count \in StockInput \cup {None} : SaveProduct(a, count)
         \/ \E c \in Coupon : CouponStep(c)
         \/ UNCHANGED vars
  PROVE  order' = order /\ verified' = verified
<1>1. ASSUME NEW p \in Product, ProductStep(p)
      PROVE  order' = order /\ verified' = verified
  BY <1>1 DEF ProductStep, LoadProduct, SoftDeleteProduct, RestoreProduct
<1>2. ASSUME NEW c \in Coupon, CouponStep(c)
      PROVE  order' = order /\ verified' = verified
  BY <1>2 DEF CouponStep, UpdateCoupon, SoftDeleteCoupon, RestoreCoupon, CouponExpires
<1> QED BY <1>1, <1>2 DEF SaveProduct, vars

(* What patchOrder does to the document, whichever way the stock moves.    *)
LEMMA PatchWrites ==
  ASSUME Sound, NEW o \in Order, NEW body \in Patch, PatchOrder(o, body)
  PROVE  LET d == Patched(order[o], body)
         IN  /\ d \in OrderDoc /\ d.status # "absent"
             /\ \E held \in BOOLEAN :
                  order' = [order EXCEPT ![o] = [d EXCEPT !.stockDeducted = held]]
<1> DEFINE d == Patched(order[o], body)
<1>1. order[o] \in OrderDoc /\ order[o].status # "absent"
  BY DEF Sound, TypeOK, PatchOrder, Exists
<1>2. d \in OrderDoc /\ d.status # "absent"
  BY <1>1, PatchedType
<1>3. \/ order' = [order EXCEPT ![o] = d]
      \/ order' = [order EXCEPT ![o] = [d EXCEPT !.stockDeducted = TRUE]]
      \/ order' = [order EXCEPT ![o] = [d EXCEPT !.stockDeducted = FALSE]]
  BY DEF PatchOrder, PatchMovingNothing, PatchReleasing, PatchReserving
<1> HIDE DEF d
<1>4. d = [d EXCEPT !.stockDeducted = d.stockDeducted] /\ d.stockDeducted \in BOOLEAN
  BY <1>2 DEF OrderDoc
<1>5. \E held \in BOOLEAN :
        order' = [order EXCEPT ![o] = [d EXCEPT !.stockDeducted = held]]
  BY <1>3, <1>4
<1> QED BY <1>2, <1>5 DEF d

-----------------------------------------------------------------------------
(* HeldIffLive is inductive by itself, given the types.                    *)

HeldRight(d) ==
  d.stockDeducted <=> d.status # "absent" /\ d.status # "cancelled" /\ ~d.deleted

LEMMA HeldRightEverywhere ==
  HeldIffLive <=> \A o \in Order \ Imported : HeldRight(order[o])
  BY DEF HeldIffLive, HeldRight, Exists

(* A cancellation releases and a re-opening reserves, so the flag follows  *)
(* the patched status.                                                     *)
LEMMA PatchKeepsHeldRight ==
  ASSUME Sound, NEW o \in Order, HeldRight(order[o]),
         NEW body \in Patch, PatchOrder(o, body)
  PROVE  HeldRight(order'[o])
<1> DEFINE d      == Patched(order[o], body)
           action == StockActionForTransition(order[o].status, d.status)
<1>1. /\ order[o] \in OrderDoc /\ order[o].status # "absent" /\ ~order[o].deleted
      /\ order \in [Order -> OrderDoc]
  BY DEF Sound, TypeOK, PatchOrder, Exists
<1>2. /\ d \in OrderDoc /\ d.status # "absent"
      /\ d.stockDeducted = order[o].stockDeducted /\ ~d.deleted
  BY <1>1, PatchedType
<1>3. \/ PatchMovingNothing(o, d, action)
      \/ PatchReleasing(o, d, action)
      \/ PatchReserving(o, d, action)
  BY DEF PatchOrder
<1> HIDE DEF d
<1>4. /\ action = "release" <=> order[o].status # d.status /\ d.status = "cancelled"
      /\ action = "reserve" <=> order[o].status # d.status /\ order[o].status = "cancelled"
      /\ action = "none" <=> \/ order[o].status = d.status
                             \/ order[o].status # "cancelled" /\ d.status # "cancelled"
  BY DEF StockActionForTransition
<1> HIDE DEF action
<1>5. CASE PatchMovingNothing(o, d, action)
  BY <1>1, <1>2, <1>4, <1>5 DEF PatchMovingNothing, HeldRight, OrderDoc
<1>6. CASE PatchReleasing(o, d, action)
  <2>1. order'[o] = [d EXCEPT !.stockDeducted = FALSE]
    BY <1>1, <1>6 DEF PatchReleasing
  <2> QED BY <1>2, <1>4, <1>6, <2>1 DEF PatchReleasing, HeldRight, OrderDoc
<1>7. CASE PatchReserving(o, d, action)
  <2>1. order'[o] = [d EXCEPT !.stockDeducted = TRUE]
    BY <1>1, <1>7 DEF PatchReserving
  <2> QED BY <1>2, <1>4, <1>7, <2>1 DEF PatchReserving, HeldRight, OrderDoc
<1> QED BY <1>3, <1>5, <1>6, <1>7

(* Every operation on an order leaves its flag right.                      *)
LEMMA StepHeldIffLive == Sound /\ HeldIffLive /\ [Next]_vars => HeldIffLive'
<1> SUFFICES ASSUME Sound, HeldIffLive, [Next]_vars,
                    NEW x \in Order \ Imported
             PROVE  HeldRight(order'[x])
  BY DEF HeldIffLive, HeldRight, Exists
<1>0. /\ HeldRight(order[x]) /\ order[x] \in OrderDoc
      /\ order \in [Order -> OrderDoc]
  BY HeldRightEverywhere DEF Sound, TypeOK
<1>1. ASSUME NEW o \in Order, NEW cart \in Cart,
             NEW X \in SUBSET Blocking(cart), NEW choice \in Choice,
             NEW payable \in BOOLEAN, NEW trx \in TrxId \cup {None},
             NEW c \in Coupon \cup {None}, PlaceOrder(o, X, cart, choice, payable, trx, c)
      PROVE  HeldRight(order'[x])
  <2>1. HeldRight(NewOrder(cart, choice, payable, trx, c))
    BY DEF NewOrder, Absent, HeldRight
  <2>2. HeldRight(Expired(order[x]))
    BY <1>0 DEF Expired, HeldRight, OrderDoc
  <2>3. \/ order'[x] = NewOrder(cart, choice, payable, trx, c)
        \/ order'[x] = Expired(order[x])
        \/ order'[x] = order[x]
    BY <1>1 DEF PlaceOrder
  <2> QED BY <1>0, <2>1, <2>2, <2>3
<1>2. ASSUME NEW o \in Order, ExpireOrder(o)
      PROVE  HeldRight(order'[x])
  <2>1. HeldRight(Expired(order[x]))
    BY <1>0 DEF Expired, HeldRight, OrderDoc
  <2>2. order'[x] = order[x] \/ order'[x] = Expired(order[x])
    BY <1>0, <1>2 DEF ExpireOrder
  <2> QED BY <1>0, <2>1, <2>2
<1>3. ASSUME NEW o \in Order, NEW body \in Patch, PatchOrder(o, body)
      PROVE  HeldRight(order'[x])
  <2>1. CASE x = o
    BY <1>0, <1>3, <2>1, PatchKeepsHeldRight
  <2>2. CASE x # o
    <3>1. order'[x] = order[x]
      BY <1>0, <1>3, <2>2
         DEF PatchOrder, PatchMovingNothing, PatchReleasing, PatchReserving
    <3> QED BY <1>0, <3>1
  <2> QED BY <2>1, <2>2
<1>4. ASSUME NEW o \in Order, VerifyOrderPayment(o) \/ Age(o)
      PROVE  HeldRight(order'[x])
  <2>1. /\ order'[x].stockDeducted = order[x].stockDeducted
        /\ order'[x].deleted = order[x].deleted
        /\ order'[x].status = order[x].status
    <3>1. \/ order' = [order EXCEPT ![o].deliveryPaymentStatus = "ADVANCE_PAID"]
          \/ order' = [order EXCEPT ![o].aged = TRUE]
      BY <1>4 DEF VerifyOrderPayment, Age
    <3>2. CASE order' = [order EXCEPT ![o].deliveryPaymentStatus = "ADVANCE_PAID"]
      BY <1>0, <3>2 DEF OrderDoc
    <3>3. CASE order' = [order EXCEPT ![o].aged = TRUE]
      BY <1>0, <3>3 DEF OrderDoc
    <3> QED BY <3>1, <3>2, <3>3
  <2> QED BY <1>0, <2>1 DEF HeldRight
<1>5. ASSUME NEW o \in Order, SoftDeleteOrder(o)
      PROVE  HeldRight(order'[x])
  BY <1>0, <1>5 DEF SoftDeleteOrder, HeldRight, OrderDoc
<1>6. ASSUME NEW o \in Order, CommitDispatch(o)
      PROVE  HeldRight(order'[x])
  <2>1. /\ order'[x].stockDeducted = order[x].stockDeducted
        /\ order'[x].deleted = order[x].deleted
        /\ \/ order'[x].status = order[x].status
           \/ order[x].status \in {"pending", "processing"} /\ order'[x].status = "shipped"
    BY <1>0, <1>6 DEF CommitDispatch, OrderDoc
  <2> QED BY <1>0, <2>1 DEF HeldRight
<1>7. ASSUME order' = order
      PROVE  HeldRight(order'[x])
  BY <1>0, <1>7
<1> QED
  BY <1>1, <1>2, <1>3, <1>4, <1>5, <1>6, <1>7, CatalogLeavesOrders DEF Next, OrderStep

(* stockDeducted is exact: an order placed by a checkout holds its units   *)
(* as long as it is neither cancelled nor deleted, and not a step longer   *)
(* (reserveStock, releaseStock and setOrderStock with their callers).      *)
THEOREM OrdersHoldWhileLive == Spec => []HeldIffLive
<1>1. Init => HeldIffLive
  <2> SUFFICES ASSUME Init, NEW o \in Order \ Imported
               PROVE  HeldRight(order[o])
    BY HeldRightEverywhere
  <2>1. ~Exists(o) /\ order[o] = Absent
    BY InitSound DEF Init, Sound, UnusedIsBlank
  <2> QED BY <2>1 DEF HeldRight, Absent
<1>2. Sound /\ HeldIffLive /\ [Next]_vars => HeldIffLive'
  BY StepHeldIffLive
<1> QED BY <1>1, <1>2, StoreSound, PTL DEF Spec

-----------------------------------------------------------------------------
(* StockConserved.  Each step moves between the shelf and the orders       *)
(* exactly the units of the orders that start or stop holding stock.       *)

Shelved == \A p \in Product :
             stockCount[p] + Cardinality(UnitsIn(order, HeldIn(order), p)) = supply[p]

LEMMA ConservedIsShelved == StockConserved <=> Shelved
<1>1. HeldOrders = HeldIn(order)
  BY DEF HeldOrders, HeldIn
<1>2. \A p \in Product : Units(HeldOrders, p) = UnitsIn(order, HeldIn(order), p)
  BY <1>1, Zenon DEF Units, UnitsIn
<1>3. \A p \in Product : Cardinality(Units(HeldOrders, p)) =
                           Cardinality(UnitsIn(order, HeldIn(order), p))
  BY <1>2, Zenon
<1> QED BY <1>3, Zenon DEF StockConserved, Shelved

(* The same before and after: Shelved' is stated with order'.              *)
LEMMA ConservedAfter ==
  ASSUME \A p \in Product :
           stockCount'[p] + Cardinality(UnitsIn(order', HeldIn(order'), p)) = supply'[p]
  PROVE  StockConserved'
<1>1. HeldOrders' = HeldIn(order')
  BY DEF HeldOrders, HeldIn
<1>2. \A p \in Product : Units(HeldOrders, p)' = UnitsIn(order', HeldIn(order'), p)
  BY <1>1, Zenon DEF Units, UnitsIn
<1>3. \A p \in Product : Cardinality(Units(HeldOrders, p)') =
                           Cardinality(UnitsIn(order', HeldIn(order'), p))
  BY <1>2, Zenon
<1> QED BY <1>3, Zenon DEF StockConserved

(* Orders Out give their units to the shelf, orders In take theirs, the    *)
(* others keep their items.                                                *)
LEMMA Exchange ==
  ASSUME Sound, Shelved, supply' = supply,
         NEW Out, Out \subseteq HeldIn(order), NEW In, In \subseteq Order,
         In \cap (HeldIn(order) \ Out) = {},
         HeldIn(order') = (HeldIn(order) \ Out) \cup In,
         \A o \in HeldIn(order) \ Out : order'[o].items = order[o].items,
         \A p \in Product :
           stockCount'[p] = stockCount[p] + Cardinality(UnitsIn(order, Out, p))
                                          - Cardinality(UnitsIn(order', In, p))
  PROVE  StockConserved'
<1> SUFFICES ASSUME NEW p \in Product
             PROVE  stockCount'[p] + Cardinality(UnitsIn(order', HeldIn(order'), p))
                      = supply'[p]
  BY ConservedAfter
<1> DEFINE Stay == HeldIn(order) \ Out
<1>1. /\ Stay \subseteq Order /\ Out \subseteq Order
      /\ Stay \cap Out = {} /\ HeldIn(order) = Stay \cup Out
  BY DEF HeldIn
<1>2. HeldIn(order') = Stay \cup In /\ Stay \cap In = {}
  OBVIOUS
<1>3. UnitsIn(order', Stay, p) = UnitsIn(order, Stay, p)
  BY DEF UnitsIn
<1> HIDE DEF Stay
<1>4. Cardinality(UnitsIn(order', Stay, p)) = Cardinality(UnitsIn(order, Stay, p))
  BY <1>3, Zenon
<1>5. Cardinality(UnitsIn(order, Stay \cup Out, p)) =
        Cardinality(UnitsIn(order, Stay, p)) + Cardinality(UnitsIn(order, Out, p))
  BY <1>1, UnitsSplit
<1>6. Cardinality(UnitsIn(order', Stay \cup In, p)) =
        Cardinality(UnitsIn(order', Stay, p)) + Cardinality(UnitsIn(order', In, p))
  BY <1>1, <1>2, UnitsSplit
<1>7. /\ Cardinality(UnitsIn(order, HeldIn(order), p)) =
           Cardinality(UnitsIn(order, Stay \cup Out, p))
      /\ Cardinality(UnitsIn(order', HeldIn(order'), p)) =
           Cardinality(UnitsIn(order', Stay \cup In, p))
  BY <1>1, <1>2, Zenon
<1>8. /\ Cardinality(UnitsIn(order, Stay, p)) \in Nat
      /\ Cardinality(UnitsIn(order, Out, p)) \in Nat
      /\ Cardinality(UnitsIn(order', In, p)) \in Nat
  BY <1>1, UnitsFinite
<1>9. /\ stockCount[p] \in Nat
      /\ stockCount[p] + Cardinality(UnitsIn(order, HeldIn(order), p)) = supply[p]
      /\ stockCount'[p] = stockCount[p] + Cardinality(UnitsIn(order, Out, p))
                                        - Cardinality(UnitsIn(order', In, p))
      /\ supply'[p] = supply[p]
  BY DEF Sound, TypeOK, Shelved
<1> QED BY <1>4, <1>5, <1>6, <1>7, <1>8, <1>9

(* createOrder: the orders it expires give, the new order takes.           *)
LEMMA PlaceOrderConserves ==
  ASSUME Sound, Shelved, NEW o \in Order, NEW cart \in Cart,
         NEW X \in SUBSET Blocking(cart), NEW choice \in Choice,
         NEW payable \in BOOLEAN, NEW trx \in TrxId \cup {None},
         NEW c \in Coupon \cup {None},
         PlaceOrder(o, X, cart, choice, payable, trx, c)
  PROVE  StockConserved'
<1> DEFINE n == NewOrder(cart, choice, payable, trx, c)
<1>1. /\ X \subseteq Order /\ cart \in [Product -> 0 .. MaxQuantity]
      /\ order \in [Order -> OrderDoc] /\ stockCount \in [Product -> Nat]
  BY CartsHoldQuantities DEF Blocking, Sound, TypeOK
<1>2. order' \in [Order -> OrderDoc]
  <2>1. Sound'
    BY PlaceOrderSound, Zenon
  <2> QED BY <2>1 DEF Sound, TypeOK
<1>3. ~order[o].stockDeducted
  BY DEF PlaceOrder, Sound, UnusedIsBlank, Absent
<1>4. order'[o] = n /\ n.items = cart /\ n.stockDeducted
  BY <1>1, NewOrderType DEF PlaceOrder
<1>5. \A x \in X \ {o} : order'[x] = Expired(order[x]) /\ ~order'[x].stockDeducted
  BY <1>1 DEF PlaceOrder, Expired, OrderDoc
<1>6. \A x \in Order \ (X \cup {o}) : order'[x] = order[x]
  BY DEF PlaceOrder
<1>7. o \notin X
  BY DEF PlaceOrder, Exists, Blocking, Expirable
<1>8. \A p \in Product :
        stockCount'[p] = stockCount[p] + Cardinality(UnitsIn(order, Holding(X), p))
                                       - Cardinality(UnitsIn(order', {o}, p))
  <2> SUFFICES ASSUME NEW p \in Product
               PROVE  stockCount'[p] = stockCount[p]
                        + Cardinality(UnitsIn(order, Holding(X), p))
                        - Cardinality(UnitsIn(order', {o}, p))
    OBVIOUS
  <2>1. stockCount'[p] = Restocked(X)[p] - cart[p]
    BY DEF PlaceOrder, MoveStock, Reserved
  <2>2. Restocked(X)[p] = stockCount[p] + Cardinality(UnitsIn(order, Holding(X), p))
    BY <1>1, RestockedType DEF Sound
  <2>3. Cardinality(UnitsIn(order', {o}, p)) = cart[p]
    <3>1. Cardinality(UnitsIn(order', {o}, p)) = order'[o].items[p]
      BY <1>2, UnitsOfOne
    <3>2. order'[o].items = cart
      BY <1>4
    <3> QED BY <3>1, <3>2
  <2>4. Cardinality(UnitsIn(order, Holding(X), p)) \in Nat /\ cart[p] \in Nat
    BY <1>1, QuantityBounded, UnitsFinite DEF Holding
  <2> QED BY <1>1, <2>1, <2>2, <2>3, <2>4
<1> HIDE DEF n
<1>9. /\ Holding(X) \subseteq HeldIn(order)
      /\ {o} \cap (HeldIn(order) \ Holding(X)) = {}
      /\ HeldIn(order') = (HeldIn(order) \ Holding(X)) \cup {o}
  BY <1>1, <1>3, <1>4, <1>5, <1>6, <1>7 DEF HeldIn, Holding
<1>10. \A x \in HeldIn(order) \ Holding(X) : order'[x].items = order[x].items
  BY <1>3, <1>6 DEF HeldIn, Holding
<1>11. supply' = supply
  BY DEF PlaceOrder
<1> QED BY <1>8, <1>9, <1>10, <1>11, Exchange

(* An order that stops holding stock gives back its units.                 *)
LEMMA ReleaseConserves ==
  ASSUME Sound, Shelved, NEW o \in Order, supply' = supply,
         \A x \in Order : x # o => order'[x] = order[x],
         ~order'[o].stockDeducted,
         \A p \in Product : stockCount'[p] =
           stockCount[p] + Cardinality(UnitsIn(order, Holding({o}), p))
  PROVE  StockConserved'
<1> SUFFICES ASSUME NEW p \in Product
             PROVE  stockCount'[p] + Cardinality(UnitsIn(order', HeldIn(order'), p))
                      = supply'[p]
  BY ConservedAfter
<1> DEFINE Stay == HeldIn(order')
           Gone == Holding({o})
<1>1. /\ Stay \subseteq Order /\ Gone \subseteq Order
      /\ Stay \cap Gone = {} /\ HeldIn(order) = Stay \cup Gone
  BY DEF HeldIn, Holding
<1>2. UnitsIn(order', Stay, p) = UnitsIn(order, Stay, p)
  BY DEF UnitsIn, HeldIn
<1> HIDE DEF Stay, Gone
<1>3. Cardinality(UnitsIn(order', Stay, p)) = Cardinality(UnitsIn(order, Stay, p))
  BY <1>2, Zenon
<1>4. Cardinality(UnitsIn(order, Stay \cup Gone, p)) =
        Cardinality(UnitsIn(order, Stay, p)) + Cardinality(UnitsIn(order, Gone, p))
  BY <1>1, UnitsSplit
<1>5. Cardinality(UnitsIn(order, HeldIn(order), p)) =
        Cardinality(UnitsIn(order, Stay \cup Gone, p))
  BY <1>1, Zenon
<1>6. /\ Cardinality(UnitsIn(order, Stay, p)) \in Nat
      /\ Cardinality(UnitsIn(order, Gone, p)) \in Nat
  BY <1>1, UnitsFinite
<1>7. /\ stockCount[p] \in Nat /\ supply'[p] = supply[p]
      /\ stockCount[p] + Cardinality(UnitsIn(order, HeldIn(order), p)) = supply[p]
      /\ stockCount'[p] = stockCount[p] + Cardinality(UnitsIn(order, Gone, p))
  BY DEF Sound, TypeOK, Shelved, Gone
<1> QED BY <1>3, <1>4, <1>5, <1>6, <1>7 DEF Stay

(* Orders and shelf untouched, or only fields stock does not depend on.    *)
LEMMA NothingMovedConserves ==
  ASSUME Sound, Shelved, supply' = supply, stockCount' = stockCount,
         \A x \in Order : /\ order'[x].items = order[x].items
                          /\ order'[x].stockDeducted = order[x].stockDeducted
  PROVE  StockConserved'
<1>1. HeldIn(order') = HeldIn(order)
  BY DEF HeldIn
<1>2. ASSUME NEW p \in Product
      PROVE  Cardinality(UnitsIn(order', HeldIn(order'), p)) =
               Cardinality(UnitsIn(order, HeldIn(order), p))
  <2>1. UnitsIn(order', HeldIn(order), p) = UnitsIn(order, HeldIn(order), p)
    BY DEF UnitsIn, HeldIn
  <2> QED BY <1>1, <2>1, Zenon
<1> QED BY <1>2, ConservedAfter DEF Shelved

(* An order that was not holding stock takes its units.                    *)
LEMMA ReserveConserves ==
  ASSUME Sound, Shelved, NEW o \in Order, supply' = supply,
         order' \in [Order -> OrderDoc],
         \A x \in Order : x # o => order'[x] = order[x],
         ~order[o].stockDeducted, order'[o].stockDeducted,
         \A p \in Product : stockCount'[p] = stockCount[p] - order'[o].items[p]
  PROVE  StockConserved'
<1>0. PICK no : no = {}
  OBVIOUS
<1>1. \A p \in Product :
        stockCount'[p] = stockCount[p] + Cardinality(UnitsIn(order, no, p))
                                       - Cardinality(UnitsIn(order', {o}, p))
  <2> SUFFICES ASSUME NEW p \in Product
               PROVE  stockCount'[p] = stockCount[p] + Cardinality(UnitsIn(order, no, p))
                                         - Cardinality(UnitsIn(order', {o}, p))
    OBVIOUS
  <2>1. Cardinality(UnitsIn(order, no, p)) = 0
    BY <1>0, UnitsOfNone
  <2>2. Cardinality(UnitsIn(order', {o}, p)) = order'[o].items[p]
    BY UnitsOfOne
  <2>3. stockCount[p] \in Nat /\ stockCount'[p] = stockCount[p] - order'[o].items[p]
    BY DEF Sound, TypeOK
  <2>4. order'[o].items[p] \in Nat
    BY QuantityBounded DEF OrderDoc
  <2> QED BY <2>1, <2>2, <2>3, <2>4
<1>2. /\ no \subseteq HeldIn(order)
      /\ {o} \cap (HeldIn(order) \ no) = {}
      /\ HeldIn(order') = (HeldIn(order) \ no) \cup {o}
      /\ {o} \subseteq Order
  BY <1>0 DEF HeldIn
<1>3. \A x \in HeldIn(order) \ no : order'[x].items = order[x].items
  BY <1>0 DEF HeldIn
<1> QED BY <1>1, <1>2, <1>3, Exchange

(* setOrderStock moves the units of the order whose flag it flips.         *)
LEMMA PatchOrderConserves ==
  ASSUME Sound, Shelved, NEW o \in Order, NEW body \in Patch, PatchOrder(o, body)
  PROVE  StockConserved'
<1> DEFINE d == Patched(order[o], body)
           action == StockActionForTransition(order[o].status, d.status)
<1>1. /\ order[o] \in OrderDoc /\ order[o].status # "absent"
      /\ order \in [Order -> OrderDoc] /\ stockCount \in [Product -> Nat]
  BY DEF Sound, TypeOK, PatchOrder, Exists
<1>2. /\ d \in OrderDoc /\ d.items = order[o].items
      /\ d.stockDeducted = order[o].stockDeducted
  BY <1>1, PatchedType
<1>3. /\ supply' = supply
      /\ \/ PatchMovingNothing(o, d, action)
         \/ PatchReleasing(o, d, action)
         \/ PatchReserving(o, d, action)
  BY DEF PatchOrder
<1> HIDE DEF d, action
<1>4. CASE PatchMovingNothing(o, d, action)
  <2>1. /\ stockCount' = stockCount
        /\ \A x \in Order : /\ order'[x].items = order[x].items
                            /\ order'[x].stockDeducted = order[x].stockDeducted
    BY <1>1, <1>2, <1>4 DEF PatchMovingNothing
  <2> QED BY <1>3, <2>1, NothingMovedConserves
<1>5. CASE PatchReleasing(o, d, action)
  <2>1. /\ \A x \in Order : x # o => order'[x] = order[x]
        /\ ~order'[o].stockDeducted
    BY <1>1, <1>2, <1>5 DEF PatchReleasing, OrderDoc
  <2>2. Holding({o}) = {o}
    BY <1>2, <1>5 DEF PatchReleasing, Holding
  <2>3. \A p \in Product : stockCount'[p] =
          stockCount[p] + Cardinality(UnitsIn(order, Holding({o}), p))
    <3> SUFFICES ASSUME NEW p \in Product
                 PROVE  stockCount'[p] =
                          stockCount[p] + Cardinality(UnitsIn(order, Holding({o}), p))
      OBVIOUS
    <3>1. Cardinality(UnitsIn(order, {o}, p)) = order[o].items[p]
      BY <1>1, UnitsOfOne
    <3>2. Cardinality(UnitsIn(order, Holding({o}), p)) =
            Cardinality(UnitsIn(order, {o}, p))
      BY <2>2, Zenon
    <3>3. stockCount'[p] = stockCount[p] + d.items[p]
      BY <1>5 DEF PatchReleasing, MoveStock, Released
    <3> QED BY <1>2, <3>1, <3>2, <3>3
  <2> QED BY <1>3, <2>1, <2>3, ReleaseConserves
<1>6. CASE PatchReserving(o, d, action)
  <2>1. order'[o] = [d EXCEPT !.stockDeducted = TRUE]
    BY <1>1, <1>6 DEF PatchReserving
  <2>2. order'[o].stockDeducted /\ order'[o].items = d.items /\ ~order[o].stockDeducted
    BY <1>2, <1>6, <2>1 DEF PatchReserving, OrderDoc
  <2>3. \A x \in Order : x # o => order'[x] = order[x]
    BY <1>1, <1>6 DEF PatchReserving
  <2>4. \A p \in Product : stockCount'[p] = stockCount[p] - order'[o].items[p]
    BY <1>6, <2>2 DEF PatchReserving, MoveStock, Reserved
  <2>5. order' \in [Order -> OrderDoc]
    BY PatchOrderSound DEF Sound, TypeOK
  <2> QED BY <1>3, <2>2, <2>3, <2>4, <2>5, ReserveConserves
<1> QED BY <1>3, <1>4, <1>5, <1>6

(* Expiry and soft deletion release what the order still held.             *)
LEMMA CloseOrderConserves ==
  ASSUME Sound, Shelved, NEW o \in Order, ExpireOrder(o) \/ SoftDeleteOrder(o)
  PROVE  StockConserved'
<1>1. order \in [Order -> OrderDoc] /\ order[o] \in OrderDoc
  BY DEF Sound, TypeOK
<1>2. \A p \in Product : stockCount'[p] =
        stockCount[p] + Cardinality(UnitsIn(order, Holding({o}), p))
  <2>1. stockCount' = Restocked({o})
    BY DEF ExpireOrder, SoftDeleteOrder, MoveStock
  <2>2. \A p \in Product : Restocked({o})[p] =
          stockCount[p] + Cardinality(UnitsIn(order, Holding({o}), p))
    BY RestockedType DEF Sound
  <2> QED BY <2>1, <2>2
<1>3. /\ \A x \in Order : x # o => order'[x] = order[x]
      /\ ~order'[o].stockDeducted
  <2>1. CASE ExpireOrder(o)
    BY <1>1, <2>1 DEF ExpireOrder, Expired, OrderDoc
  <2>2. CASE SoftDeleteOrder(o)
    BY <1>1, <2>2 DEF SoftDeleteOrder, OrderDoc
  <2> QED BY <2>1, <2>2
<1>4. supply' = supply
  BY DEF ExpireOrder, SoftDeleteOrder
<1> QED BY <1>2, <1>3, <1>4, ReleaseConserves

(* Verification, dispatch and time leave items and flags alone.            *)
LEMMA LabelConserves ==
  ASSUME Sound, Shelved, NEW o \in Order,
         VerifyOrderPayment(o) \/ CommitDispatch(o) \/ Age(o)
  PROVE  StockConserved'
<1>1. order \in [Order -> OrderDoc]
  BY DEF Sound, TypeOK
<1>2. supply' = supply /\ stockCount' = stockCount
  BY DEF VerifyOrderPayment, CommitDispatch, Age
<1>3. \A x \in Order : /\ order'[x].items = order[x].items
                       /\ order'[x].stockDeducted = order[x].stockDeducted
  <2>1. CASE VerifyOrderPayment(o)
    BY <1>1, <2>1 DEF VerifyOrderPayment, OrderDoc
  <2>2. CASE CommitDispatch(o)
    BY <1>1, <2>2 DEF CommitDispatch, OrderDoc
  <2>3. CASE Age(o)
    BY <1>1, <2>3 DEF Age, OrderDoc
  <2> QED BY <2>1, <2>2, <2>3
<1> QED BY <1>2, <1>3, NothingMovedConserves

(* An admin's edit is a delivery or a write-off: supply moves with it.     *)
LEMMA SaveProductConserves ==
  ASSUME Sound, Shelved, NEW a \in Admin, NEW count \in StockInput \cup {None},
         SaveProduct(a, count)
  PROVE  StockConserved'
<1>1. /\ draft[a].product \in Product
      /\ order' = order
      /\ supply' = [supply EXCEPT ![draft[a].product] =
                      @ + stockCount'[draft[a].product] - stockCount[draft[a].product]]
      /\ \A p \in Product : p # draft[a].product => stockCount'[p] = stockCount[p]
  BY DEF SaveProduct, Sound, TypeOK, Draft
<1>2. /\ stockCount \in [Product -> Nat] /\ supply \in [Product -> Int]
      /\ stockCount' \in [Product -> Nat]
  BY SaveProductSound DEF Sound, TypeOK
<1>3. \A p \in Product :
        stockCount'[p] + Cardinality(UnitsIn(order', HeldIn(order'), p)) = supply'[p]
  <2> SUFFICES ASSUME NEW p \in Product
               PROVE  stockCount'[p] + Cardinality(UnitsIn(order, HeldIn(order), p))
                        = supply'[p]
    BY <1>1
  <2>1. /\ Cardinality(UnitsIn(order, HeldIn(order), p)) \in Nat
        /\ stockCount[p] + Cardinality(UnitsIn(order, HeldIn(order), p)) = supply[p]
    BY UnitsFinite DEF HeldIn, Shelved
  <2> QED BY <1>1, <1>2, <2>1
<1> QED BY <1>3, ConservedAfter

(* Product flags and coupons have nothing to do with stock.                *)
LEMMA CatalogConserves ==
  ASSUME Sound, Shelved,
         \/ \E p \in Product : ProductStep(p)
         \/ \E c \in Coupon : CouponStep(c)
         \/ UNCHANGED vars
  PROVE  StockConserved'
<1>1. supply' = supply /\ stockCount' = stockCount /\ order' = order
  BY CatalogLeavesOrders
     DEF ProductStep, LoadProduct, SoftDeleteProduct, RestoreProduct, CouponStep,
         UpdateCoupon, SoftDeleteCoupon, RestoreCoupon, CouponExpires, productVars, vars
<1> QED BY <1>1, NothingMovedConserves

(* Nothing is lost and nothing is invented: whatever order the checkouts,  *)
(* expiries, cancellations, re-openings, deletions and admin edits come    *)
(* in, the units on the shelf and the units held by orders add up to what  *)
(* the shop was given (stock.service.ts).                                  *)
THEOREM StockIsConserved == Spec => []StockConserved
<1>1. Init => StockConserved
  <2> SUFFICES ASSUME Init, NEW p \in Product
               PROVE  stockCount[p] + Cardinality(Units(HeldOrders, p)) = supply[p]
    BY DEF StockConserved
  <2>1. HeldOrders = Holding(Order)
    BY DEF HeldOrders, Holding
  <2>2. supply[p] = stockCount[p] + Cardinality(Units(Holding(Order), p))
    BY DEF Init, Restocked
  <2> QED BY <2>1, <2>2, Zenon
<1>2. Sound /\ StockConserved /\ [Next]_vars => StockConserved'
  <2> SUFFICES ASSUME Sound, Shelved, [Next]_vars PROVE StockConserved'
    BY ConservedIsShelved
  <2>1. ASSUME NEW o \in Order, OrderStep(o)
        PROVE  StockConserved'
    BY <2>1, PlaceOrderConserves, PatchOrderConserves, CloseOrderConserves,
       LabelConserves DEF OrderStep
  <2> QED BY <2>1, SaveProductConserves, CatalogConserves DEF Next
<1> QED BY <1>1, <1>2, StoreSound, PTL DEF Spec

-----------------------------------------------------------------------------
(* Payments.  Three fields of a document say how it was paid; a step       *)
(* leaves them alone, writes those of a new order or of a patched one, or  *)
(* marks a pending advance as paid.                                        *)

SamePayment(d, e) ==
  /\ d.deliveryPaymentStatus = e.deliveryPaymentStatus
  /\ d.isFakeSuspected = e.isFakeSuspected
  /\ d.statusBeforeFakeSuspicion = e.statusBeforeFakeSuspicion

PaymentWritten(o) ==
  \/ SamePayment(order'[o], order[o])
  \/ \E cart \in Cart, choice \in Choice, payable \in BOOLEAN,
        trx \in TrxId \cup {None}, c \in Coupon \cup {None} :
       order'[o] = NewOrder(cart, choice, payable, trx, c)
  \/ \E body \in Patch : SamePayment(order'[o], Patched(order[o], body))
  \/ /\ o \in verified'
     /\ order'[o] = [order[o] EXCEPT !.deliveryPaymentStatus = "ADVANCE_PAID"]

LEMMA StepWritesPayment ==
  ASSUME Sound, [Next]_vars, NEW x \in Order
  PROVE  PaymentWritten(x) /\ verified \subseteq verified'
<1>0. order[x] \in OrderDoc /\ order \in [Order -> OrderDoc]
  BY DEF Sound, TypeOK
<1>1. ASSUME NEW o \in Order, NEW cart \in Cart,
             NEW X \in SUBSET Blocking(cart), NEW choice \in Choice,
             NEW payable \in BOOLEAN, NEW trx \in TrxId \cup {None},
             NEW c \in Coupon \cup {None}, PlaceOrder(o, X, cart, choice, payable, trx, c)
      PROVE  PaymentWritten(x) /\ verified \subseteq verified'
  <2>1. SamePayment(Expired(order[x]), order[x])
    BY <1>0 DEF SamePayment, Expired, OrderDoc
  <2>2. \/ order'[x] = NewOrder(cart, choice, payable, trx, c)
        \/ order'[x] = Expired(order[x])
        \/ order'[x] = order[x]
    BY <1>1 DEF PlaceOrder
  <2>3. verified' = verified
    BY <1>1 DEF PlaceOrder
  <2> QED BY <2>1, <2>2, <2>3 DEF PaymentWritten, SamePayment
<1>2. ASSUME NEW o \in Order, ExpireOrder(o)
      PROVE  PaymentWritten(x) /\ verified \subseteq verified'
  <2>1. SamePayment(Expired(order[x]), order[x])
    BY <1>0 DEF SamePayment, Expired, OrderDoc
  <2>2. order'[x] = order[x] \/ order'[x] = Expired(order[x])
    BY <1>0, <1>2 DEF ExpireOrder
  <2> QED BY <1>2, <2>1, <2>2 DEF ExpireOrder, PaymentWritten, SamePayment
<1>3. ASSUME NEW o \in Order, NEW body \in Patch, PatchOrder(o, body)
      PROVE  PaymentWritten(x) /\ verified \subseteq verified'
  <2> DEFINE d == Patched(order[o], body)
  <2>1. PICK held \in BOOLEAN : order' = [order EXCEPT ![o] = [d EXCEPT !.stockDeducted = held]]
    BY <1>3, PatchWrites
  <2>2. d \in OrderDoc
    BY <1>3, PatchWrites
  <2>3. verified' = verified
    BY <1>3 DEF PatchOrder
  <2> HIDE DEF d
  <2>4. CASE x = o
    <3>1. SamePayment(order'[x], d)
      BY <1>0, <2>1, <2>2, <2>4 DEF SamePayment, OrderDoc
    <3> QED BY <2>3, <2>4, <3>1 DEF PaymentWritten, d
  <2>5. CASE x # o
    BY <1>0, <2>1, <2>3, <2>5 DEF PaymentWritten, SamePayment
  <2> QED BY <2>4, <2>5
<1>4. ASSUME NEW o \in Order, VerifyOrderPayment(o)
      PROVE  PaymentWritten(x) /\ verified \subseteq verified'
  <2>1. CASE x = o
    BY <1>0, <1>4, <2>1 DEF VerifyOrderPayment, PaymentWritten
  <2>2. CASE x # o
    BY <1>0, <1>4, <2>2 DEF VerifyOrderPayment, PaymentWritten, SamePayment
  <2> QED BY <2>1, <2>2
<1>5. ASSUME NEW o \in Order, SoftDeleteOrder(o) \/ CommitDispatch(o) \/ Age(o)
      PROVE  PaymentWritten(x) /\ verified \subseteq verified'
  <2>1. CASE SoftDeleteOrder(o)
    BY <1>0, <2>1 DEF SoftDeleteOrder, PaymentWritten, SamePayment, OrderDoc
  <2>2. CASE CommitDispatch(o)
    BY <1>0, <2>2 DEF CommitDispatch, PaymentWritten, SamePayment, OrderDoc
  <2>3. CASE Age(o)
    BY <1>0, <2>3 DEF Age, PaymentWritten, SamePayment, OrderDoc
  <2> QED BY <1>5, <2>1, <2>2, <2>3
<1>6. ASSUME order' = order, verified' = verified
      PROVE  PaymentWritten(x) /\ verified \subseteq verified'
  BY <1>6 DEF PaymentWritten, SamePayment
<1> QED
  BY <1>1, <1>2, <1>3, <1>4, <1>5, <1>6, CatalogLeavesOrders DEF Next, OrderStep

PaidIn(d) ==
  "ADVANCE_PAID" \in {d.deliveryPaymentStatus, d.statusBeforeFakeSuspicion}

(* A patch body cannot say ADVANCE_PAID, so a patched order shows it only  *)
(* if it already did, or remembered it.                                    *)
LEMMA PatchedPaid ==
  ASSUME NEW d \in OrderDoc, NEW body \in Patch, PaidIn(Patched(d, body))
  PROVE  PaidIn(d)
<1> DEFINE s == StatusSet(d, body.status)
           f == IF body.toggleFakeSuspicion THEN FakeToggled(s) ELSE s
<1>1. s \in OrderDoc /\ SamePayment(s, d)
  BY PatchBodies DEF StatusSet, SamePayment, OrderDoc, OrderStatus
<1>2. PaidIn(FakeToggled(s)) => PaidIn(s)
  <2> HIDE DEF s
  <2>1. CASE s.isFakeSuspected
    BY <1>1, <2>1, NoneIsNoValue DEF FakeToggled, PaidIn, OrderDoc, PaymentStatus
  <2>2. CASE ~s.isFakeSuspected
    BY <1>1, <2>2 DEF FakeToggled, PaidIn, OrderDoc, PaymentStatus
  <2> QED BY <2>1, <2>2
<1>3. f \in OrderDoc /\ (PaidIn(f) => PaidIn(s))
  BY <1>1, <1>2, FakeToggledType
<1>4. PaidIn(PaymentOverridden(f, body.deliveryPaymentStatus)) => PaidIn(f)
  <2> HIDE DEF f
  <2> QED BY <1>3, PatchBodies DEF PaymentOverridden, PaidIn, OrderDoc
<1>5. PaidIn(s) => PaidIn(d)
  BY <1>1 DEF SamePayment, PaidIn
<1> QED BY <1>3, <1>4, <1>5 DEF Patched

LEMMA StepPaidWasVerified == Sound /\ PaidWasVerified /\ [Next]_vars => PaidWasVerified'
<1> SUFFICES ASSUME Sound, PaidWasVerified, [Next]_vars,
                    NEW o \in Order, PaidIn(order'[o])
             PROVE  o \in verified'
  BY DEF PaidWasVerified, PaidIn
<1>0. /\ order[o] \in OrderDoc
      /\ PaidIn(order[o]) => o \in verified
      /\ PaymentWritten(o) /\ verified \subseteq verified'
  BY StepWritesPayment DEF Sound, TypeOK, PaidWasVerified, PaidIn
<1>1. CASE SamePayment(order'[o], order[o])
  BY <1>0, <1>1 DEF SamePayment, PaidIn
<1>2. ASSUME NEW cart \in Cart, NEW choice \in Choice, NEW payable \in BOOLEAN,
             NEW trx \in TrxId \cup {None}, NEW c \in Coupon \cup {None},
             order'[o] = NewOrder(cart, choice, payable, trx, c)
      PROVE  FALSE
  <2>1. ~PaidIn(NewOrder(cart, choice, payable, trx, c))
    BY NoneIsNoValue DEF PaidIn, NewOrder, InitialPayment, Absent, PaymentStatus
  <2> QED BY <1>2, <2>1
<1>3. ASSUME NEW body \in Patch, SamePayment(order'[o], Patched(order[o], body))
      PROVE  o \in verified'
  <2>1. PaidIn(Patched(order[o], body))
    BY <1>3 DEF SamePayment, PaidIn
  <2> QED BY <1>0, <2>1, PatchedPaid
<1> QED BY <1>0, <1>1, <1>2, <1>3 DEF PaymentWritten

(* "ADVANCE_PAID" is only ever reached through verify-payment, whatever an *)
(* admin patches, flags and un-flags (patchOrder, verifyOrderPayment).     *)
THEOREM PaidOnlyWhenVerified == Spec => []PaidWasVerified
<1>1. Init => PaidWasVerified
  <2> SUFFICES ASSUME Init, NEW o \in Order, PaidIn(order[o])
               PROVE  o \in verified
    BY DEF PaidWasVerified, PaidIn
  <2>1. CASE o \in Imported
    BY <2>1 DEF Init
  <2>2. CASE o \notin Imported
    <3>1. order[o] = Absent
      BY <2>2, InitSound DEF Init, Sound, UnusedIsBlank
    <3> QED BY <3>1, NoneIsNoValue DEF PaidIn, Absent, PaymentStatus
  <2> QED BY <2>1, <2>2
<1>2. Sound /\ PaidWasVerified /\ [Next]_vars => PaidWasVerified'
  BY StepPaidWasVerified
<1> QED BY <1>1, <1>2, StoreSound, PTL DEF Spec

FakeRight(d) ==
  /\ d.deliveryPaymentStatus = "FAKE_SUSPECTED" => d.isFakeSuspected
  /\ d.isFakeSuspected <=> d.statusBeforeFakeSuspicion \notin {None, "FAKE_SUSPECTED"}
  /\ ~d.isFakeSuspected => d.statusBeforeFakeSuspicion = None

(* Flagging captures a real status, un-flagging gives it back, and a body  *)
(* cannot say FAKE_SUSPECTED.                                              *)
LEMMA PatchedFake ==
  ASSUME NEW d \in OrderDoc, NEW body \in Patch, FakeRight(d)
  PROVE  FakeRight(Patched(d, body))
<1> DEFINE s == StatusSet(d, body.status)
           f == IF body.toggleFakeSuspicion THEN FakeToggled(s) ELSE s
<1>1. s \in OrderDoc /\ FakeRight(s)
  BY PatchBodies DEF StatusSet, FakeRight, OrderDoc, OrderStatus
<1>2. FakeRight(FakeToggled(s))
  <2> HIDE DEF s
  <2>1. CASE s.isFakeSuspected
    BY <1>1, <2>1, NoneIsNoValue DEF FakeToggled, FakeRight, OrderDoc, PaymentStatus
  <2>2. CASE ~s.isFakeSuspected
    BY <1>1, <2>2, NoneIsNoValue DEF FakeToggled, FakeRight, OrderDoc, PaymentStatus
  <2> QED BY <2>1, <2>2
<1>3. f \in OrderDoc /\ FakeRight(f)
  BY <1>1, <1>2, FakeToggledType
<1>4. FakeRight(PaymentOverridden(f, body.deliveryPaymentStatus))
  <2> HIDE DEF f
  <2> QED BY <1>3, PatchBodies DEF PaymentOverridden, FakeRight, OrderDoc
<1> QED BY <1>4 DEF Patched

LEMMA StepFakeFlag == Sound /\ FakeFlagReversible /\ [Next]_vars => FakeFlagReversible'
<1> SUFFICES ASSUME Sound, FakeFlagReversible, [Next]_vars, NEW o \in Order \ Imported
             PROVE  FakeRight(order'[o])
  BY DEF FakeFlagReversible, FakeRight
<1>0. order[o] \in OrderDoc /\ FakeRight(order[o]) /\ PaymentWritten(o)
  BY StepWritesPayment DEF Sound, TypeOK, FakeFlagReversible, FakeRight
<1>1. CASE SamePayment(order'[o], order[o])
  BY <1>0, <1>1 DEF SamePayment, FakeRight
<1>2. ASSUME NEW cart \in Cart, NEW choice \in Choice, NEW payable \in BOOLEAN,
             NEW trx \in TrxId \cup {None}, NEW c \in Coupon \cup {None},
             order'[o] = NewOrder(cart, choice, payable, trx, c)
      PROVE  FakeRight(order'[o])
  BY <1>2 DEF FakeRight, NewOrder, InitialPayment, Absent
<1>3. ASSUME NEW body \in Patch, SamePayment(order'[o], Patched(order[o], body))
      PROVE  FakeRight(order'[o])
  <2>1. FakeRight(Patched(order[o], body))
    BY <1>0, PatchedFake
  <2> QED BY <1>3, <2>1 DEF SamePayment, FakeRight
<1>4. CASE order'[o] = [order[o] EXCEPT !.deliveryPaymentStatus = "ADVANCE_PAID"]
  BY <1>0, <1>4 DEF FakeRight, OrderDoc
<1> QED BY <1>0, <1>1, <1>2, <1>3, <1>4 DEF PaymentWritten

(* A suspicion can always be taken back: a flagged order remembers a real  *)
(* payment status, and no unflagged one shows FAKE_SUSPECTED (patchOrder,  *)
(* "captured BEFORE it gets overwritten").                                 *)
THEOREM SuspicionIsReversible == Spec => []FakeFlagReversible
<1>1. Init => FakeFlagReversible
  <2> SUFFICES ASSUME Init, NEW o \in Order \ Imported
               PROVE  FakeRight(order[o])
    BY DEF FakeFlagReversible, FakeRight
  <2>1. order[o] = Absent
    BY InitSound DEF Init, Sound, UnusedIsBlank
  <2> QED BY <2>1 DEF FakeRight, Absent
<1>2. Sound /\ FakeFlagReversible /\ [Next]_vars => FakeFlagReversible'
  BY StepFakeFlag
<1> QED BY <1>1, <1>2, StoreSound, PTL DEF Spec

-----------------------------------------------------------------------------
(* ArchivedNotSold.  A reservation has no line of an archived product, and *)
(* everything else that moves stock gives units back.                      *)

LEMMA ReservedSparesArchived ==
  ASSUME NEW count \in [Product -> Nat], NEW items \in [Product -> 0 .. MaxQuantity],
         CanReserve(items, count), NEW p \in Product, archived[p]
  PROVE  Reserved(items, count)[p] = count[p]
<1>1. items[p] \in Nat /\ ~(items[p] > 0)
  BY QuantityBounded DEF CanReserve, Lines
<1>2. items[p] = 0 /\ count[p] \in Nat
  BY <1>1
<1> QED BY <1>2 DEF Reserved

LEMMA RestockedGrows ==
  ASSUME Sound, NEW X \in SUBSET Order, NEW p \in Product
  PROVE  Restocked(X)[p] >= stockCount[p]
<1>1. Restocked(X)[p] = stockCount[p] + Cardinality(UnitsIn(order, Holding(X), p))
  BY RestockedType DEF Sound
<1>2. Cardinality(UnitsIn(order, Holding(X), p)) \in Nat /\ stockCount[p] \in Nat
  BY UnitsFinite DEF Holding, Sound, TypeOK
<1> QED BY <1>1, <1>2

LEMMA StepArchivedNotSold ==
  ASSUME Sound, [Next]_vars, NEW p \in Product,
         archived[p], archived'[p], supply'[p] = supply[p]
  PROVE  stockCount'[p] >= stockCount[p]
<1>0. stockCount[p] \in Nat /\ stockCount \in [Product -> Nat] /\ order \in [Order -> OrderDoc]
  BY DEF Sound, TypeOK
<1>1. ASSUME NEW o \in Order, NEW cart \in Cart,
             NEW X \in SUBSET Blocking(cart), NEW choice \in Choice,
             NEW payable \in BOOLEAN, NEW trx \in TrxId \cup {None},
             NEW c \in Coupon \cup {None}, PlaceOrder(o, X, cart, choice, payable, trx, c)
      PROVE  stockCount'[p] >= stockCount[p]
  <2>1. X \in SUBSET Order /\ cart \in [Product -> 0 .. MaxQuantity]
    BY CartsHoldQuantities DEF Blocking
  <2>2. Restocked(X) \in [Product -> Nat] /\ Restocked(X)[p] >= stockCount[p]
    BY <2>1, RestockedType, RestockedGrows DEF Sound
  <2>3. Reserved(cart, Restocked(X))[p] = Restocked(X)[p]
    BY <1>1, <2>1, <2>2, ReservedSparesArchived DEF PlaceOrder
  <2>4. stockCount'[p] = Reserved(cart, Restocked(X))[p]
    BY <1>1 DEF PlaceOrder, MoveStock
  <2> QED BY <2>2, <2>3, <2>4
<1>2. ASSUME NEW o \in Order, ExpireOrder(o) \/ SoftDeleteOrder(o)
      PROVE  stockCount'[p] >= stockCount[p]
  <2>1. stockCount'[p] = Restocked({o})[p]
    BY <1>2 DEF ExpireOrder, SoftDeleteOrder, MoveStock
  <2> QED BY <2>1, RestockedGrows
<1>3. ASSUME NEW o \in Order, NEW body \in Patch, PatchOrder(o, body)
      PROVE  stockCount'[p] >= stockCount[p]
  <2> DEFINE d == Patched(order[o], body)
             action == StockActionForTransition(order[o].status, d.status)
  <2>1. /\ order[o] \in OrderDoc /\ order[o].status # "absent"
    BY <1>0, <1>3 DEF PatchOrder, Exists
  <2>2. d \in OrderDoc
    BY <2>1, PatchedType
  <2>3. \/ PatchMovingNothing(o, d, action)
        \/ PatchReleasing(o, d, action)
        \/ PatchReserving(o, d, action)
    BY <1>3 DEF PatchOrder
  <2> HIDE DEF d, action
  <2>4. d.items \in [Product -> 0 .. MaxQuantity] /\ d.items[p] \in Nat
    BY <2>2, QuantityBounded DEF OrderDoc
  <2>5. CASE PatchMovingNothing(o, d, action)
    BY <1>0, <2>5 DEF PatchMovingNothing
  <2>6. CASE PatchReleasing(o, d, action)
    <3>1. stockCount'[p] = stockCount[p] + d.items[p]
      BY <2>6 DEF PatchReleasing, MoveStock, Released
    <3> QED BY <1>0, <2>4, <3>1
  <2>7. CASE PatchReserving(o, d, action)
    <3>1. stockCount'[p] = Reserved(d.items, stockCount)[p]
      BY <2>7 DEF PatchReserving, MoveStock
    <3>2. Reserved(d.items, stockCount)[p] = stockCount[p]
      BY <1>0, <2>4, <2>7, ReservedSparesArchived DEF PatchReserving
    <3> QED BY <1>0, <3>1, <3>2
  <2> QED BY <2>3, <2>5, <2>6, <2>7
<1>4. ASSUME NEW a \in Admin, NEW count \in StockInput \cup {None}, SaveProduct(a, count)
      PROVE  stockCount'[p] >= stockCount[p]
  <2>1. supply' = [supply EXCEPT ![draft[a].product] =
                     @ + stockCount'[draft[a].product] - stockCount[draft[a].product]]
    BY <1>4 DEF SaveProduct
  <2>2. /\ stockCount' \in [Product -> Nat] /\ supply \in [Product -> Int]
        /\ draft[a].product \in Product
    BY <1>4, SaveProductSound DEF Sound, TypeOK, SaveProduct, Draft
  <2>3. CASE p = draft[a].product
    <3>1. supply'[p] = supply[p] + stockCount'[p] - stockCount[p]
      BY <2>1, <2>2, <2>3
    <3> QED BY <1>0, <2>2, <3>1
  <2>4. CASE p # draft[a].product
    <3>1. stockCount'[p] = stockCount[p]
      BY <1>0, <1>4, <2>4 DEF SaveProduct
    <3> QED BY <1>0, <3>1
  <2> QED BY <2>3, <2>4
<1>5. ASSUME stockCount' = stockCount
      PROVE  stockCount'[p] >= stockCount[p]
  BY <1>0, <1>5
<1>6. ASSUME \/ \E o \in Order : VerifyOrderPayment(o) \/ CommitDispatch(o) \/ Age(o)
             \/ \E q \in Product : ProductStep(q)
             \/ \E c \in Coupon : CouponStep(c)
             \/ UNCHANGED vars
      PROVE  stockCount' = stockCount
  BY <1>6 DEF VerifyOrderPayment, CommitDispatch, Age, ProductStep, LoadProduct,
              SoftDeleteProduct, RestoreProduct, CouponStep, UpdateCoupon,
              SoftDeleteCoupon, RestoreCoupon, CouponExpires, productVars, vars
<1> QED BY <1>1, <1>2, <1>3, <1>4, <1>5, <1>6 DEF Next, OrderStep

(* No checkout and no re-opened order takes a unit of a product that is    *)
(* archived: only an admin's edit can lower its count (reserveStock).      *)
THEOREM ArchivedIsNotSold == Spec => ArchivedNotSold
<1>1. Sound /\ [Next]_vars =>
        [\A p \in Product :
           archived[p] /\ archived'[p] /\ supply'[p] = supply[p]
             => stockCount'[p] >= stockCount[p]]_vars
  BY StepArchivedNotSold
<1> QED BY <1>1, StoreSound, PTL DEF Spec, ArchivedNotSold

-----------------------------------------------------------------------------
(* RedemptionsBacked.  The coupon of an order is written once, when the    *)
(* order is, in the step that counts the use.                              *)

CarriedBy(ord, c) == {o \in Order : ord[o].coupon = c}

LEMMA CarriedAlike ==
  ASSUME \A o \in Order : order'[o].coupon = order[o].coupon,
         \A c \in Coupon : coupon'[c].timesUsed = coupon[c].timesUsed,
         RedemptionsBacked
  PROVE  RedemptionsBacked'
<1> SUFFICES ASSUME NEW c \in Coupon
             PROVE  coupon'[c].timesUsed = Cardinality({o \in Order : order'[o].coupon = c})
  BY DEF RedemptionsBacked
<1>1. {o \in Order : order'[o].coupon = c} = {o \in Order : order[o].coupon = c}
  OBVIOUS
<1>2. coupon'[c].timesUsed = coupon[c].timesUsed
  OBVIOUS
<1>3. coupon[c].timesUsed = Cardinality({o \in Order : order[o].coupon = c})
  BY DEF RedemptionsBacked
<1> QED BY <1>1, <1>2, <1>3, Zenon

LEMMA PlaceOrderBacks ==
  ASSUME Sound, RedemptionsBacked, NEW o \in Order, NEW cart \in Cart,
         NEW X \in SUBSET Blocking(cart), NEW choice \in Choice,
         NEW payable \in BOOLEAN, NEW trx \in TrxId \cup {None},
         NEW k \in Coupon \cup {None}, PlaceOrder(o, X, cart, choice, payable, trx, k)
  PROVE  RedemptionsBacked'
<1>1. /\ order[o].coupon = None /\ order \in [Order -> OrderDoc]
      /\ coupon \in [Coupon -> CouponDoc]
  BY DEF PlaceOrder, Sound, UnusedIsBlank, Absent, TypeOK
<1>2. order'[o].coupon = k
  BY DEF PlaceOrder, NewOrder, Absent
<1>3. \A x \in Order \ {o} : order'[x].coupon = order[x].coupon
  <2> SUFFICES ASSUME NEW x \in Order \ {o}
               PROVE  order'[x].coupon = order[x].coupon
    OBVIOUS
  <2>1. Expired(order[x]).coupon = order[x].coupon
    BY <1>1 DEF Expired, OrderDoc
  <2> QED BY <2>1 DEF PlaceOrder
<1>4. CASE k = None
  BY <1>1, <1>2, <1>3, <1>4, CarriedAlike DEF PlaceOrder, Redeem
<1>5. CASE k \in Coupon
  <2> SUFFICES ASSUME NEW c \in Coupon
               PROVE  coupon'[c].timesUsed = Cardinality(CarriedBy(order', c))
    BY Zenon DEF RedemptionsBacked, CarriedBy
  <2>1. coupon[c].timesUsed = Cardinality(CarriedBy(order, c))
    BY Zenon DEF RedemptionsBacked, CarriedBy
  <2>2. k # None /\ coupon' = [coupon EXCEPT ![k].timesUsed = @ + 1]
    BY <1>5, NoneIsNoValue DEF PlaceOrder, Redeem
  <2>3. CASE c = k
    <3>1. CarriedBy(order', c) = CarriedBy(order, c) \cup {o}
      BY <1>2, <1>3, <2>3 DEF CarriedBy
    <3>2. o \notin CarriedBy(order, c)
      BY <1>1, <2>2, <2>3 DEF CarriedBy
    <3>3. IsFiniteSet(CarriedBy(order, c))
      BY OrdersFinite, FS_Subset DEF CarriedBy
    <3>4. Cardinality(CarriedBy(order, c) \cup {o}) = Cardinality(CarriedBy(order, c)) + 1
      BY <3>2, <3>3, FS_AddElement
    <3>5. Cardinality(CarriedBy(order', c)) = Cardinality(CarriedBy(order, c) \cup {o})
      BY <3>1, Zenon
    <3>6. coupon'[c].timesUsed = coupon[c].timesUsed + 1
      BY <1>1, <2>2, <2>3 DEF CouponDoc
    <3> QED BY <2>1, <3>4, <3>5, <3>6
  <2>4. CASE c # k
    <3>1. CarriedBy(order', c) = CarriedBy(order, c)
      BY <1>1, <1>2, <1>3, <2>4, NoneIsNoValue DEF CarriedBy
    <3>2. coupon'[c].timesUsed = coupon[c].timesUsed
      BY <1>1, <2>2, <2>4
    <3> QED BY <2>1, <3>1, <3>2, Zenon
  <2> QED BY <2>3, <2>4
<1> QED BY <1>4, <1>5

LEMMA StepRedemptionsBacked == Sound /\ RedemptionsBacked /\ [Next]_vars => RedemptionsBacked'
<1> SUFFICES ASSUME Sound, RedemptionsBacked, [Next]_vars PROVE RedemptionsBacked'
  OBVIOUS
<1>0. order \in [Order -> OrderDoc] /\ coupon \in [Coupon -> CouponDoc]
  BY DEF Sound, TypeOK
<1>1. ASSUME NEW o \in Order, NEW body \in Patch, PatchOrder(o, body)
      PROVE  RedemptionsBacked'
  <2> DEFINE d == Patched(order[o], body)
  <2>1. PICK held \in BOOLEAN : order' = [order EXCEPT ![o] = [d EXCEPT !.stockDeducted = held]]
    BY <1>1, PatchWrites
  <2>2. d \in OrderDoc /\ d.coupon = order[o].coupon
    BY <1>0, <1>1, PatchedType DEF PatchOrder, Exists
  <2> HIDE DEF d
  <2>3. \A x \in Order : order'[x].coupon = order[x].coupon
    BY <1>0, <2>1, <2>2 DEF OrderDoc
  <2> QED BY <1>1, <2>3, CarriedAlike DEF PatchOrder
<1>2. ASSUME NEW o \in Order,
             \/ ExpireOrder(o) \/ VerifyOrderPayment(o) \/ SoftDeleteOrder(o)
             \/ CommitDispatch(o) \/ Age(o)
      PROVE  RedemptionsBacked'
  <2>1. coupon' = coupon
    BY <1>2 DEF ExpireOrder, VerifyOrderPayment, SoftDeleteOrder, CommitDispatch, Age
  <2>2. \A x \in Order : order'[x].coupon = order[x].coupon
    <3>1. CASE ExpireOrder(o)
      BY <1>0, <3>1 DEF ExpireOrder, Expired, OrderDoc
    <3>2. CASE VerifyOrderPayment(o)
      BY <1>0, <3>2 DEF VerifyOrderPayment, OrderDoc
    <3>3. CASE SoftDeleteOrder(o)
      BY <1>0, <3>3 DEF SoftDeleteOrder, OrderDoc
    <3>4. CASE CommitDispatch(o)
      BY <1>0, <3>4 DEF CommitDispatch, OrderDoc
    <3>5. CASE Age(o)
      BY <1>0, <3>5 DEF Age, OrderDoc
    <3> QED BY <1>2, <3>1, <3>2, <3>3, <3>4, <3>5
  <2> QED BY <2>1, <2>2, CarriedAlike
<1>3. ASSUME NEW k \in Coupon, CouponStep(k)
      PROVE  RedemptionsBacked'
  <2>1. order' = order
    BY <1>3, CatalogLeavesOrders
  <2>2. \A c \in Coupon : coupon'[c].timesUsed = coupon[c].timesUsed
    <3>1. ASSUME NEW limit \in LimitInput, NEW active \in BOOLEAN,
                 UpdateCoupon(k, limit, active)
          PROVE  \A c \in Coupon : coupon'[c].timesUsed = coupon[c].timesUsed
      BY <1>0, <3>1 DEF UpdateCoupon, CouponDoc
    <3>2. CASE SoftDeleteCoupon(k)
      BY <1>0, <3>2 DEF SoftDeleteCoupon, CouponDoc
    <3>3. CASE RestoreCoupon(k)
      BY <1>0, <3>3 DEF RestoreCoupon, CouponDoc
    <3>4. CASE CouponExpires(k)
      BY <1>0, <3>4 DEF CouponExpires, CouponDoc
    <3> QED BY <1>3, <3>1, <3>2, <3>3, <3>4 DEF CouponStep
  <2> QED BY <2>1, <2>2, CarriedAlike
<1>4. ASSUME order' = order, coupon' = coupon
      PROVE  RedemptionsBacked'
  BY <1>4, CarriedAlike
<1>5. ASSUME \/ \E p \in Product : ProductStep(p)
             \/ \E a \in Admin, count \in StockInput \cup {None} : SaveProduct(a, count)
             \/ UNCHANGED vars
      PROVE  order' = order /\ coupon' = coupon
  BY <1>5 DEF ProductStep, LoadProduct, SoftDeleteProduct, RestoreProduct,
              SaveProduct, vars
<1> QED BY <1>1, <1>2, <1>3, <1>4, <1>5, PlaceOrderBacks DEF Next, OrderStep

(* "A coupon use is consumed" with the order that carries it and never     *)
(* otherwise: timesUsed is the number of orders with that coupon, whatever *)
(* is cancelled, deleted or edited later (redeemCoupon inside createOrder).*)
THEOREM EveryUseHasItsOrder == Spec => []RedemptionsBacked
<1>1. Init => RedemptionsBacked
  <2> SUFFICES ASSUME Init, NEW c \in Coupon
               PROVE  coupon[c].timesUsed = Cardinality(CarriedBy(order, c))
    BY Zenon DEF RedemptionsBacked, CarriedBy
  <2>1. \A o \in Order : order[o].coupon = None
    BY ImportedDocsAreOrders DEF Init, Absent
  <2>2. CarriedBy(order, c) = {}
    BY <2>1, NoneIsNoValue DEF CarriedBy
  <2>3. Cardinality(CarriedBy(order, c)) = 0
    BY <2>2, FS_EmptySet
  <2>4. coupon[c].timesUsed = 0
    BY DEF Init, NewCoupon
  <2> QED BY <2>3, <2>4
<1>2. Sound /\ RedemptionsBacked /\ [Next]_vars => RedemptionsBacked'
  BY StepRedemptionsBacked
<1> QED BY <1>1, <1>2, StoreSound, PTL DEF Spec

=============================================================================
