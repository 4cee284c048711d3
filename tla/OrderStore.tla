----------------------------- MODULE OrderStore -----------------------------
(***************************************************************************)
(* What the order, stock and coupon services promise about the database:   *)
(* every MongoDB transaction of order.service.ts and stock.service.ts, and *)
(* every single-document update of the admin services that touch the same  *)
(* documents, is one step.  Module OrderTxn opens the transactions up and  *)
(* shows that their commits are steps of this module.                      *)
(*                                                                         *)
(* Data left out: prices and totals, customer fields, lines of one product *)
(* (merged, as stock.service.ts does before it moves stock).  A refusal    *)
(* that depends only on that data (minimum spend, payment policy) is a     *)
(* step not taken.                                                         *)
(***************************************************************************)
EXTENDS Integers, FiniteSets

CONSTANTS
  Product,        \* product ids; documents are archived, never removed
  Order,          \* order ids the id generator can draw
  Imported,       \* orders written by the seed import, not by a checkout
  ImportedDoc,    \* the documents the seed import may have written
  Coupon,         \* coupon ids
  TrxId,          \* bKash transaction ids customers may claim
  Admin,          \* admin requests editing a product at the same time
  Cart,           \* the merged quantities a checkout may ask for
  Choice,         \* the payment choices customers make
  MaxQuantity,    \* largest quantity of one product in one order
  Patch,          \* bodies of PATCH /admin/orders/:id
  StockInput,     \* stock counts an admin may type into the product form
  LimitInput,     \* usage limits an admin may give a coupon
  None            \* a missing value: null or undefined in a document

OrderStatus == {"pending", "processing", "shipped", "delivered", "cancelled"}
PaymentStatus == {"ADVANCE_PAID", "ADVANCE_PENDING", "FULL_PAID",
                  "COD_PENDING", "VERIFIED", "FAKE_SUSPECTED"}
PaymentChoice == {"FULL_COD", "ADVANCE_DELIVERY", "FULL_BKASH"}

OrderDoc ==
  [status                    : OrderStatus \cup {"absent"},
   items                     : [Product -> 0 .. MaxQuantity],
   stockDeducted             : BOOLEAN,
   deleted                   : BOOLEAN,          \* deletedAt # null
   aged                      : BOOLEAN,          \* createdAt < cutoff
   deliveryPaymentStatus     : PaymentStatus,
   isFakeSuspected           : BOOLEAN,
   statusBeforeFakeSuspicion : PaymentStatus \cup {None},
   bkashTrxId                : TrxId \cup {None},
   coupon                    : Coupon \cup {None},
   courier                   : BOOLEAN]          \* courier # null

CouponDoc ==
  [usageLimit : Nat \cup {None}, timesUsed : Nat,
   active  : BOOLEAN,                  \* isActive, and expiresAt not reached
   deleted : BOOLEAN]

Draft == [product : Product, stockCount : Nat, inStock : BOOLEAN]

(* An id no document has yet. *)
Absent ==
  [status |-> "absent", items |-> [p \in Product |-> 0],
   stockDeducted |-> FALSE, deleted |-> FALSE, aged |-> FALSE,
   deliveryPaymentStatus |-> "COD_PENDING", isFakeSuspected |-> FALSE,
   statusBeforeFakeSuspicion |-> None, bkashTrxId |-> None, coupon |-> None,
   courier |-> FALSE]

ASSUME NoneIsNoValue ==
  None \notin Nat \cup PaymentStatus \cup TrxId \cup Coupon \cup Draft
ASSUME OrdersFinite == IsFiniteSet(Order) /\ Imported \subseteq Order
ASSUME QuantityBounded == MaxQuantity \in Nat
ASSUME CartsHoldQuantities == Cart \subseteq [Product -> 0 .. MaxQuantity]
ASSUME ChoicesKnown == Choice \subseteq PaymentChoice
ASSUME ImportedDocsAreOrders ==
  \A d \in ImportedDoc : /\ d \in OrderDoc
                         /\ d.status # "absent"
                         /\ ~d.deleted /\ ~d.isFakeSuspected /\ ~d.courier
                         /\ d.statusBeforeFakeSuspicion = None
                         /\ d.coupon = None
ASSUME PatchBodies ==
  \A b \in Patch :
    /\ b.status \in OrderStatus \cup {None}
    /\ b.toggleFakeSuspicion \in BOOLEAN
    /\ b.deliveryPaymentStatus \in
         (PaymentStatus \ {"FAKE_SUSPECTED", "ADVANCE_PAID"}) \cup {None}
ASSUME InputsAreCounts ==
  /\ StockInput \subseteq Nat
  /\ LimitInput \subseteq (Nat \ {0}) \cup {None}

VARIABLES
  stockCount,  \* Product.stockCount
  inStock,     \* Product.inStock, stored beside the count
  archived,    \* Product.deletedAt # null
  draft,       \* product documents loaded by updateProduct and not saved yet
  order,       \* the orders collection
  coupon,      \* the coupons collection
  supply,      \* history: units of each product the shop has ever been given
  verified     \* history: orders whose payment is known to have been verified

productVars == <<stockCount, inStock, archived, draft, supply>>
vars == <<stockCount, inStock, archived, draft, order, coupon, supply, verified>>

-----------------------------------------------------------------------------
(* Units of a product in the items of a set of orders, as pairs.           *)

Units(X, p) ==
  {u \in X \X (1 .. MaxQuantity) : u[2] <= order[u[1]].items[p]}

HeldOrders == {o \in Order : order[o].stockDeducted}

Holding(X) == {o \in X : order[o].stockDeducted}

Exists(o) == order[o].status # "absent"

-----------------------------------------------------------------------------
(* Stock movements.  T is the set of products a transaction writes; every  *)
(* write recomputes inStock from the new count.                            *)

MoveStock(T, count) ==
  /\ stockCount' = count
  /\ inStock' = [p \in Product |-> IF p \in T THEN count[p] > 0 ELSE inStock[p]]

Lines(items) == {p \in Product : items[p] > 0}

(* Mutant of CanReserve: the count is left out of the filter. *)
CanReserveAny(items, count) ==
  \A p \in Lines(items) : ~archived[p]

(* Mutant of CanReserve: archived products are sold. *)
CanReserveArchived(items, count) ==
  \A p \in Lines(items) : count[p] >= items[p]

(* reserveStock: every line of a live product with enough units, or nothing. *)
CanReserve(items, count) ==
  \A p \in Lines(items) : ~archived[p] /\ count[p] >= items[p]

Reserved(items, count) == [p \in Product |-> count[p] - items[p]]

(* releaseStock: archived products get their units back too. *)
Released(items, count) == [p \in Product |-> count[p] + items[p]]

(* Mutant of Restocked: releases whatever the stockDeducted flag says. *)
RestockedAll(X) ==
  [p \in Product |-> stockCount[p] + Cardinality(Units(X, p))]

(* Releases the items of every order of X that still holds stock. *)
Restocked(X) ==
  [p \in Product |-> stockCount[p] + Cardinality(Units(Holding(X), p))]

(* Mutant of StockActionForTransition: only a pending order gives back. *)
StockActionForPending(from, to) ==
  CASE from = "pending" /\ to = "cancelled" -> "release"
    [] from = "cancelled" /\ to # from      -> "reserve"
    [] OTHER                                -> "none"

StockActionForTransition(from, to) ==
  CASE from # to /\ to = "cancelled"   -> "release"
    [] from # to /\ from = "cancelled" -> "reserve"
    [] OTHER                           -> "none"

-----------------------------------------------------------------------------
(* Stale orders *)

Expirable(o) ==
  order[o].status = "pending" /\ ~order[o].deleted /\ order[o].aged

(* Mutant of Expired: the status is not flipped. *)
ExpiredInPlace(d) == [d EXCEPT !.stockDeducted = FALSE]

Expired(d) == [d EXCEPT !.status = "cancelled", !.stockDeducted = FALSE]

(* Aged pending orders that hold a product the cart asks for. *)
Blocking(cart) ==
  {o \in Order : Expirable(o) /\ Lines(order[o].items) \cap Lines(cart) # {}}

-----------------------------------------------------------------------------
(* createOrder: one transaction that expires the stale orders in the way,  *)
(* redeems the coupon, reserves every line and inserts the order.          *)

(* Mutant of InitialPayment: the customer's claim is trusted. *)
InitialPaymentTrusted(choice, payable) ==
  CASE choice = "FULL_BKASH"                    -> "FULL_PAID"
    [] choice = "ADVANCE_DELIVERY" /\ payable   -> "ADVANCE_PAID"
    [] OTHER                                    -> "COD_PENDING"

InitialPayment(choice, payable) ==
  CASE choice = "FULL_BKASH"                    -> "FULL_PAID"
    [] choice = "ADVANCE_DELIVERY" /\ payable   -> "ADVANCE_PENDING"
    [] OTHER                                    -> "COD_PENDING"

(* bkashTrxId carries a unique index over every order, live or not. *)
TrxFree(trx) == trx = None \/ \A o \in Order : order[o].bkashTrxId # trx

Redeemable(c) ==
  /\ coupon[c].active /\ ~coupon[c].deleted
  /\ coupon[c].usageLimit # None => coupon[c].timesUsed < coupon[c].usageLimit

Redeem(c) ==
  IF c = None THEN UNCHANGED coupon
  ELSE /\ Redeemable(c)
       /\ coupon' = [coupon EXCEPT ![c].timesUsed = @ + 1]

NewOrder(cart, choice, payable, trx, c) ==
  [Absent EXCEPT !.status = "pending", !.items = cart, !.stockDeducted = TRUE,
                 !.deliveryPaymentStatus = InitialPayment(choice, payable),
                 !.bkashTrxId = trx, !.coupon = c]

(* X is what the checkout expires.  It reads from the snapshot of its      *)
(* transaction, so an order that became stale in the meantime may be left. *)
PlaceOrder(o, X, cart, choice, payable, trx, c) ==
  /\ ~Exists(o)
  /\ Lines(cart) # {}
  /\ choice = "FULL_COD" => ~payable
  /\ payable => trx # None
  /\ TrxFree(trx)
  /\ Redeem(c)
  /\ CanReserve(cart, Restocked(X))
  /\ MoveStock(Lines(cart) \cup UNION {Lines(order[x].items) : x \in Holding(X)},
               Reserved(cart, Restocked(X)))
  /\ order' = [x \in Order |->
                 IF x = o THEN NewOrder(cart, choice, payable, trx, c)
                 ELSE IF x \in X THEN Expired(order[x]) ELSE order[x]]
  /\ UNCHANGED <<archived, draft, supply, verified>>

(* One order of expirePendingOrders (cron) or of listAdminOrders. *)
ExpireOrder(o) ==
  /\ Expirable(o)
  /\ MoveStock(UNION {Lines(order[x].items) : x \in Holding({o})}, Restocked({o}))
  /\ order' = [order EXCEPT ![o] = Expired(@)]
  /\ UNCHANGED <<archived, draft, coupon, supply, verified>>

-----------------------------------------------------------------------------
(* patchOrder *)

StatusSet(d, status) ==
  IF status = None THEN d ELSE [d EXCEPT !.status = status]

(* Mutant of FakeToggled: the status is captured after it is overwritten. *)
FakeToggledLate(d) ==
  IF d.isFakeSuspected
  THEN [d EXCEPT !.isFakeSuspected = FALSE,
                 !.deliveryPaymentStatus = d.statusBeforeFakeSuspicion,
                 !.statusBeforeFakeSuspicion = None]
  ELSE [d EXCEPT !.isFakeSuspected = TRUE,
                 !.statusBeforeFakeSuspicion = "FAKE_SUSPECTED",
                 !.deliveryPaymentStatus = "FAKE_SUSPECTED"]

(* Flagging remembers the payment status, un-flagging puts it back. *)
FakeToggled(d) ==
  IF d.isFakeSuspected
  THEN [d EXCEPT !.isFakeSuspected = FALSE,
                 !.deliveryPaymentStatus =
                    IF d.statusBeforeFakeSuspicion = None THEN "COD_PENDING"
                    ELSE d.statusBeforeFakeSuspicion,
                 !.statusBeforeFakeSuspicion = None]
  ELSE [d EXCEPT !.isFakeSuspected = TRUE,
                 !.statusBeforeFakeSuspicion = d.deliveryPaymentStatus,
                 !.deliveryPaymentStatus = "FAKE_SUSPECTED"]

PaymentOverridden(d, payment) ==
  IF payment = None THEN d ELSE [d EXCEPT !.deliveryPaymentStatus = payment]

Patched(d, body) ==
  LET s == StatusSet(d, body.status)
      f == IF body.toggleFakeSuspicion THEN FakeToggled(s) ELSE s
  IN  PaymentOverridden(f, body.deliveryPaymentStatus)

(* setOrderStock: only an order in the opposite state moves stock, and its *)
(* flag moves with it.  d is the patched document.                         *)
PatchMovingNothing(o, d, action) ==
  /\ \/ action = "none"
     \/ action = "release" /\ ~d.stockDeducted
     \/ action = "reserve" /\ d.stockDeducted
  /\ order' = [order EXCEPT ![o] = d]
  /\ UNCHANGED <<stockCount, inStock>>

PatchReleasing(o, d, action) ==
  /\ action = "release" /\ d.stockDeducted
  /\ order' = [order EXCEPT ![o] = [d EXCEPT !.stockDeducted = FALSE]]
  /\ MoveStock(Lines(d.items), Released(d.items, stockCount))

PatchReserving(o, d, action) ==
  /\ action = "reserve" /\ ~d.stockDeducted
  /\ CanReserve(d.items, stockCount)
  /\ order' = [order EXCEPT ![o] = [d EXCEPT !.stockDeducted = TRUE]]
  /\ MoveStock(Lines(d.items), Reserved(d.items, stockCount))

PatchOrder(o, body) ==
  LET d      == Patched(order[o], body)
      action == StockActionForTransition(order[o].status, d.status)
  IN  /\ Exists(o) /\ ~order[o].deleted
      /\ \/ PatchMovingNothing(o, d, action)
         \/ PatchReleasing(o, d, action)
         \/ PatchReserving(o, d, action)
      /\ UNCHANGED <<archived, draft, coupon, supply, verified>>

-----------------------------------------------------------------------------
(* The other admin operations on an order *)

VerifyOrderPayment(o) ==
  /\ Exists(o) /\ ~order[o].deleted
  /\ order[o].deliveryPaymentStatus = "ADVANCE_PENDING"
  /\ order' = [order EXCEPT ![o].deliveryPaymentStatus = "ADVANCE_PAID"]
  /\ verified' = verified \cup {o}
  /\ UNCHANGED <<stockCount, inStock, archived, draft, coupon, supply>>

SoftDeleteOrder(o) ==
  /\ Exists(o) /\ ~order[o].deleted
  /\ MoveStock(UNION {Lines(order[x].items) : x \in Holding({o})}, Restocked({o}))
  /\ order' = [order EXCEPT ![o].deleted = TRUE, ![o].stockDeducted = FALSE]
  /\ UNCHANGED <<archived, draft, coupon, supply, verified>>

(* The transaction at the end of dispatchOrder.  It finds the order by id  *)
(* alone: the check that it is not deleted was made before the courier was *)
(* called, so here it may have been deleted since.                         *)
CommitDispatch(o) ==
  /\ Exists(o)
  /\ order' = [order EXCEPT
                 ![o].courier = TRUE,
                 ![o].status = IF @ \in {"pending", "processing"} THEN "shipped" ELSE @]
  /\ UNCHANGED <<stockCount, inStock, archived, draft, coupon, supply, verified>>

(* The pending timeout passes for an order: only its createdAt counts. *)
Age(o) ==
  /\ Exists(o) /\ ~order[o].aged
  /\ order' = [order EXCEPT ![o].aged = TRUE]
  /\ UNCHANGED <<stockCount, inStock, archived, draft, coupon, supply, verified>>

-----------------------------------------------------------------------------
(* Product administration *)

(* updateProduct, first half: the document is loaded and checked, and the  *)
(* category, the images and the slug are looked up.  A request that fails  *)
(* there leaves nothing, so its slot can be used again.                    *)
LoadProduct(a, p) ==
  /\ ~archived[p]
  /\ draft' = [draft EXCEPT ![a] = [product |-> p, stockCount |-> stockCount[p],
                                    inStock |-> inStock[p]]]
  /\ UNCHANGED <<stockCount, inStock, archived, order, coupon, supply, verified>>

(* updateProduct, second half: save() writes the fields that differ from   *)
(* the loaded document, and only those.  count is None when not sent.      *)
SaveProduct(a, count) ==
  LET d   == draft[a]
      p   == d.product
      new == IF count = None THEN d.stockCount ELSE count
  IN  /\ d # None
      /\ stockCount' = IF new = d.stockCount THEN stockCount
                       ELSE [stockCount EXCEPT ![p] = new]
      /\ inStock' = IF (new > 0) = d.inStock THEN inStock
                    ELSE [inStock EXCEPT ![p] = new > 0]
      /\ supply' = [supply EXCEPT ![p] = @ + stockCount'[p] - stockCount[p]]
      /\ draft' = [draft EXCEPT ![a] = None]
      /\ UNCHANGED <<archived, order, coupon, verified>>

SoftDeleteProduct(p) ==
  /\ ~archived[p]
  /\ archived' = [archived EXCEPT ![p] = TRUE]
  /\ UNCHANGED <<stockCount, inStock, draft, order, coupon, supply, verified>>

RestoreProduct(p) ==
  /\ archived[p]
  /\ archived' = [archived EXCEPT ![p] = FALSE]
  /\ UNCHANGED <<stockCount, inStock, draft, order, coupon, supply, verified>>

-----------------------------------------------------------------------------
(* Coupon administration, the fields a redemption reads (not the code).    *)
(* A save writes only the fields the patch names, timesUsed is never one,  *)
(* and no redemption reads a deleted coupon: so loading and saving are one *)
(* step here.                                                              *)

(* createCoupon *)
NewCoupon(limit) ==
  [usageLimit |-> limit, timesUsed |-> 0, active |-> TRUE, deleted |-> FALSE]

(* Mutant of UpdateCoupon: an edit rewrites the whole document. *)
ReplaceCoupon(c, limit, active) ==
  /\ ~coupon[c].deleted
  /\ coupon' = [coupon EXCEPT ![c] = [NewCoupon(limit) EXCEPT !.active = active]]
  /\ UNCHANGED <<productVars, order, verified>>

UpdateCoupon(c, limit, active) ==
  /\ ~coupon[c].deleted
  /\ coupon' = [coupon EXCEPT ![c].usageLimit = limit, ![c].active = active]
  /\ UNCHANGED <<productVars, order, verified>>

SoftDeleteCoupon(c) ==
  /\ ~coupon[c].deleted
  /\ coupon' = [coupon EXCEPT ![c].deleted = TRUE]
  /\ UNCHANGED <<productVars, order, verified>>

RestoreCoupon(c) ==
  /\ coupon[c].deleted
  /\ coupon' = [coupon EXCEPT ![c].deleted = FALSE]
  /\ UNCHANGED <<productVars, order, verified>>

(* expiresAt passes *)
CouponExpires(c) ==
  /\ coupon[c].active
  /\ coupon' = [coupon EXCEPT ![c].active = FALSE]
  /\ UNCHANGED <<productVars, order, verified>>

-----------------------------------------------------------------------------
Init ==
  /\ stockCount \in [Product -> StockInput]
  /\ inStock = [p \in Product |-> stockCount[p] > 0]
  /\ archived = [p \in Product |-> FALSE]
  /\ draft = [a \in Admin |-> None]
  /\ order \in [Order -> ImportedDoc \cup {Absent}]
  /\ \A o \in Order : Exists(o) <=> o \in Imported
  /\ coupon \in [Coupon -> {NewCoupon(limit) : limit \in LimitInput}]
  /\ supply = Restocked(Order)
  /\ verified = Imported

OrderStep(o) ==
  \/ \E cart \in Cart, choice \in Choice, payable \in BOOLEAN,
        trx \in TrxId \cup {None}, c \in Coupon \cup {None} :
       \E X \in SUBSET Blocking(cart) : PlaceOrder(o, X, cart, choice, payable, trx, c)
  \/ ExpireOrder(o)
  \/ \E body \in Patch : PatchOrder(o, body)
  \/ VerifyOrderPayment(o)
  \/ SoftDeleteOrder(o)
  \/ CommitDispatch(o)
  \/ Age(o)

ProductStep(p) ==
  \/ \E a \in Admin : LoadProduct(a, p)
  \/ SoftDeleteProduct(p)
  \/ RestoreProduct(p)

CouponStep(c) ==
  \/ \E limit \in LimitInput, active \in BOOLEAN : UpdateCoupon(c, limit, active)
  \/ SoftDeleteCoupon(c)
  \/ RestoreCoupon(c)
  \/ CouponExpires(c)

Next ==
  \/ \E o \in Order : OrderStep(o)
  \/ \E p \in Product : ProductStep(p)
  \/ \E a \in Admin, count \in StockInput \cup {None} : SaveProduct(a, count)
  \/ \E c \in Coupon : CouponStep(c)

Spec == Init /\ [][Next]_vars

-----------------------------------------------------------------------------
(* Properties *)

(* Every document and counter has its schema's type; in particular no      *)
(* sequence of reservations and releases takes a stock count below zero.   *)
TypeOK ==
  /\ stockCount \in [Product -> Nat]
  /\ inStock \in [Product -> BOOLEAN]
  /\ archived \in [Product -> BOOLEAN]
  /\ draft \in [Admin -> Draft \cup {None}]
  /\ order \in [Order -> OrderDoc]
  /\ coupon \in [Coupon -> CouponDoc]
  /\ supply \in [Product -> Int]
  /\ verified \subseteq Order

(* The accounting identity of stock.service.ts: what is on the shelf and   *)
(* what orders hold is always what the shop was given.  A unit released    *)
(* twice, reserved without its flag, or lost by an expiry breaks it.       *)
StockConserved ==
  \A p \in Product : stockCount[p] + Cardinality(Units(HeldOrders, p)) = supply[p]

(* "stockDeducted" (order.model.ts) is exact for every order placed here:  *)
(* an order holds stock as long as it is neither cancelled nor deleted, so *)
(* no live order was left without its units and no dead one keeps any.     *)
HeldIffLive ==
  \A o \in Order \ Imported :
    order[o].stockDeducted
      <=> Exists(o) /\ order[o].status # "cancelled" /\ ~order[o].deleted

(* A coupon use is consumed together with the order it belongs to          *)
(* (redeemCoupon): the counter is the number of orders that carry it,      *)
(* whatever happened to those orders later.                                *)
RedemptionsBacked ==
  \A c \in Coupon :
    coupon[c].timesUsed = Cardinality({o \in Order : order[o].coupon = c})

(* An archived product is not sold: between two admin writes of its count  *)
(* no checkout or re-opened order takes a unit of it (reserveStock).       *)
ArchivedNotSold ==
  [][\A p \in Product :
       archived[p] /\ archived'[p] /\ supply'[p] = supply[p]
         => stockCount'[p] >= stockCount[p]]_vars

(* ADVANCE_PAID is reachable only through verify-payment                   *)
(* (order.service.ts, patchOrder and verifyOrderPayment): an order shows   *)
(* it, or will show it when it is un-flagged, only if it was verified.     *)
PaidWasVerified ==
  \A o \in Order :
    "ADVANCE_PAID" \in {order[o].deliveryPaymentStatus,
                        order[o].statusBeforeFakeSuspicion}
      => o \in verified

(* An order shows FAKE_SUSPECTED only while flagged, and a flagged order   *)
(* always remembers a real payment status to go back to (patchOrder).      *)
FakeFlagReversible ==
  \A o \in Order \ Imported :
    /\ order[o].deliveryPaymentStatus = "FAKE_SUSPECTED" => order[o].isFakeSuspected
    /\ order[o].isFakeSuspected
         <=> order[o].statusBeforeFakeSuspicion \notin {None, "FAKE_SUSPECTED"}
    /\ ~order[o].isFakeSuspected => order[o].statusBeforeFakeSuspicion = None

(* "inStock stays derived" (product.service.ts:200, :218): it always says  *)
(* whether units are left.                                                 *)
InStockDerived == \A p \in Product : inStock[p] <=> stockCount[p] > 0

(* Expiry is how the code "abandon[s] an unpaid order"                     *)
(* (expireOneIfStale, order.service.ts:44): no order whose advance was     *)
(* verified (ADVANCE_PAID) is expired.                                     *)
ExpiresOnlyUnpaid ==
  [][\A o \in Order :
       ExpireOrder(o) => order[o].deliveryPaymentStatus # "ADVANCE_PAID"]_vars

=============================================================================
