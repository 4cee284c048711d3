--------------------------- MODULE DispatchProofs ---------------------------
(***************************************************************************)
(* Proofs about Dispatch and Pricing, for any number of orders, requests   *)
(* and quotes: every bill is split without remainder, the courier collects *)
(* exactly what is due, and the steps on the database are those of         *)
(* OrderStore, whose theorems hold here too.  With any courier no parcel   *)
(* is forgotten but by the failures named, no automatic dispatch sends an  *)
(* order a second time, and a patch answers what it did to the stock.      *)
(***************************************************************************)
EXTENDS Dispatch, OrderStoreProofs

-----------------------------------------------------------------------------
(* Pricing                                                                 *)

(* coupon.ts: the discount is never more than what it is taken off.        *)
LEMMA DiscountBounded ==
  ASSUME NEW subtotal \in Nat, NEW percent \in Int, NEW max \in Int \cup {None}
  PROVE  ComputeDiscount(subtotal, percent, max) \in 0 .. subtotal
<1> DEFINE parts == Greatest(0, Least(Capped(subtotal * percent, max), 100 * subtotal))
<1>1. subtotal * percent \in Int
  OBVIOUS
<1>2. Capped(subtotal * percent, max) \in Int
  <2> DEFINE product == subtotal * percent
  <2>1. product \in Int
    BY <1>1
  <2> HIDE DEF product
  <2>2. Capped(product, max) \in Int
    BY <2>1, NoneIsNoValue DEF Capped, Least
  <2> QED BY <2>2 DEF product
<1>3. parts \in 0 .. 100 * subtotal
  BY <1>2 DEF Greatest, Least
<1> HIDE DEF parts
<1>4. Round2(parts, 100) \in 0 .. subtotal
  BY <1>3 DEF Round2
<1> QED BY <1>4 DEF ComputeDiscount, parts

LEMMA DiscountType ==
  ASSUME NEW quote \in Quote, NEW subtotal \in Nat
  PROVE  Discount(quote.terms, subtotal) \in 0 .. subtotal
<1>1. CASE quote.terms = None
  BY <1>1 DEF Discount
<1>2. CASE quote.terms # None
  BY <1>2, QuotesAreOrders, DiscountBounded DEF Discount
<1> QED BY <1>1, <1>2

(* priceOrder splits the bill without remainder.                           *)
Balanced(b) == b.advance + b.due = b.total

LEMMA BillBalances ==
  ASSUME NEW subtotal \in Nat, NEW discount \in Int, NEW choice, NEW delivery,
         NEW zone \in {"inside", "outside"},
         delivery.charge[zone] \in Int \cup {None}
  PROVE  LET b == PriceOrder(subtotal, discount, zone, choice, delivery)
         IN  b \in BillDoc /\ Balanced(b)
<1> DEFINE net == NetTotal(subtotal, discount)
           fee == DeliveryFee(delivery, zone, net)
<1>1. net \in Nat
  BY DEF NetTotal, Least, Greatest
<1>2. fee \in Nat
  <2>1. ZoneCharge(delivery, zone) \in Int
    BY DEF ZoneCharge, DefaultCharge
  <2> QED BY <2>1 DEF DeliveryFee, Greatest
<1> HIDE DEF net, fee
<1>3. /\ Split(choice, net, fee).advance \in Nat
      /\ Split(choice, net, fee).due \in Nat
      /\ Split(choice, net, fee).advance + Split(choice, net, fee).due = net + fee
  BY <1>1, <1>2 DEF Split
<1> QED BY <1>1, <1>2, <1>3 DEF PriceOrder, BillDoc, Balanced, net, fee

-----------------------------------------------------------------------------
(* The database steps are those of OrderStore                              *)

LEMMA ChargesKnown ==
  ASSUME NEW quote \in Quote, NEW cart \in Cart
  PROVE  LET subtotal == ComputeSubtotal(OrderLines(cart, quote.price))
             b == PriceOrder(subtotal, Discount(quote.terms, subtotal),
                             DeriveZone(quote.says), quote.choice, quote.delivery)
         IN  b \in BillDoc /\ Balanced(b)
<1> DEFINE subtotal == ComputeSubtotal(OrderLines(cart, quote.price))
           zone     == DeriveZone(quote.says)
<1>1. subtotal \in Nat
  BY AmountsAreCounts
<1>2. zone \in {"inside", "outside"}
  BY DEF DeriveZone
<1>3. quote.delivery.charge[zone] \in Int \cup {None}
  BY <1>2, AmountsAreCounts
<1> HIDE DEF subtotal, zone
<1>4. Discount(quote.terms, subtotal) \in Int
  BY <1>1, DiscountType
<1>5. LET b == PriceOrder(subtotal, Discount(quote.terms, subtotal), zone,
                          quote.choice, quote.delivery)
      IN  b \in BillDoc /\ Balanced(b)
  BY <1>1, <1>2, <1>3, <1>4, BillBalances
<1> QED BY <1>5 DEF subtotal, zone

(* A checkout, seen from the database and from its bill.                   *)
LEMMA CheckoutPlaces ==
  ASSUME workload \in Workload, NEW o \in Order, Checkout(o)
  PROVE  /\ OrderStep(o) /\ ~Exists(o)
         /\ \E cart \in Cart : \E X \in SUBSET Blocking(cart) :
              \E choice \in Choice, payable \in BOOLEAN, trx \in TrxId \cup {None},
                 c \in Coupon \cup {None} : PlaceOrder(o, X, cart, choice, payable, trx, c)
         /\ \E b \in BillDoc : Balanced(b) /\ bill' = [bill EXCEPT ![o] = b]
         /\ UNCHANGED <<deployment, req, consignment, parcel>>
<1>1. PICK cart \in Cart, quote \in workload.quote, trx \in TrxId \cup {None},
           c \in Coupon \cup {None} :
        LET subtotal == ComputeSubtotal(OrderLines(cart, quote.price))
            b == PriceOrder(subtotal, Discount(quote.terms, subtotal),
                            DeriveZone(quote.says), quote.choice, quote.delivery)
        IN  /\ \E X \in SUBSET Blocking(cart) :
                 PlaceOrder(o, X, cart, quote.choice, Payable(b), trx, c)
            /\ bill' = [bill EXCEPT ![o] = b]
            /\ UNCHANGED <<deployment, req, consignment, parcel>>
  BY ZenonT(30) DEF Checkout
<1>2. quote \in Quote /\ quote.choice \in Choice
  BY WorkloadType, QuotesAreOrders
<1> DEFINE subtotal == ComputeSubtotal(OrderLines(cart, quote.price))
           b == PriceOrder(subtotal, Discount(quote.terms, subtotal),
                           DeriveZone(quote.says), quote.choice, quote.delivery)
<1>3. b \in BillDoc /\ Balanced(b)
  BY <1>2, ChargesKnown
<1>4. /\ \E X \in SUBSET Blocking(cart) :
           PlaceOrder(o, X, cart, quote.choice, Payable(b), trx, c)
      /\ bill' = [bill EXCEPT ![o] = b]
      /\ UNCHANGED <<deployment, req, consignment, parcel>>
  BY <1>1
<1> HIDE DEF b
<1>5. Payable(b) \in BOOLEAN
  BY DEF Payable
<1>6. PICK X \in SUBSET Blocking(cart) :
        PlaceOrder(o, X, cart, quote.choice, Payable(b), trx, c)
  BY <1>4
<1>7. \E payable \in BOOLEAN : PlaceOrder(o, X, cart, quote.choice, payable, trx, c)
  BY <1>5, <1>6
<1>8. OrderStep(o)
  BY <1>2, <1>7 DEF OrderStep
<1>9. ~Exists(o)
  BY <1>6 DEF PlaceOrder
<1> QED BY <1>2, <1>3, <1>4, <1>7, <1>8, <1>9

-----------------------------------------------------------------------------
(* The invariant: an order has a bill from its first moment, the bill is   *)
(* never rewritten, and a request remembers what is due on it.             *)

Movement   == {"none", "deducted", "restored"}
Reply      == {"simulated", "consigned", "unreadable", "refused", "error"}
RequestDoc ==
  [pc : {"idle"} \cup Running \cup Ended, order : Order \cup {None},
   body : {w.body : w \in Work} \cup {None}, provider : Provider \cup {None},
   auto : BOOLEAN, reruns : Nat, stock : Movement, moved : Movement, cod : Nat,
   reply : Reply \cup {None}, unheard : BOOLEAN, before : BOOLEAN]
ParcelDoc  == [order : Order, cod : Nat, booked : BOOLEAN]
CourierDoc == [by : Request, id : {"SIM", "", "consignment"}]

(* The places at which a request has read what is due.                     *)
Informed == {"send", "token", "call", "commit"}

DispatchTyped ==
  /\ Sound
  /\ workload \in Workload /\ live \in BOOLEAN
  /\ req \in [Request -> RequestDoc]
  /\ bill \in [Order -> BillDoc \cup {None}]
  /\ parcel \in [Request -> ParcelDoc \cup {None}]
  /\ consignment \in [Order -> CourierDoc \cup {None}]

Billed ==
  \A o \in Order : /\ Exists(o) <=> bill[o] # None
                   /\ bill[o] # None => Balanced(bill[o])

(* What a request q and its parcel p are about.                            *)
Right(q, p) ==
  /\ q.pc = "patch" => q.body \in Patch
  /\ q.pc # "idle" => q.order \in Order /\ Exists(q.order)
  /\ q.pc \in Informed => q.cod = bill[q.order].due
  /\ p # None => q.pc # "idle" /\ p.order = q.order /\ p.cod = bill[q.order].due

Collecting == DispatchTyped /\ Billed /\ \A r \in Request : Right(req[r], parcel[r])

LEMMA InitCollecting == DispatchInit => Collecting
<1> SUFFICES ASSUME DispatchInit PROVE Collecting
  OBVIOUS
<1>1. Sound
  BY InitSound DEF DispatchInit
<1>2. Idle \in RequestDoc
  BY DEF Idle, RequestDoc, Movement
<1>3. req \in [Request -> RequestDoc] /\ \A r \in Request : req[r].pc = "idle"
  BY <1>2 DEF DispatchInit, Idle
<1>4. \A o \in Order : ~Exists(o) /\ bill[o] = None
  BY NothingImported DEF DispatchInit, Init
<1>5. DispatchTyped
  BY <1>1, <1>3 DEF DispatchInit, DispatchTyped
<1>6. \A r \in Request : Right(req[r], parcel[r])
  BY <1>3 DEF DispatchInit, Right, Informed
<1> QED BY <1>4, <1>5, <1>6 DEF Collecting, Billed

(* No order appears or disappears in the other steps on the database.      *)
LEMMA OrdersStay ==
  ASSUME Sound, NEW o \in Order,
         \/ ExpireOrder(o) \/ VerifyOrderPayment(o) \/ SoftDeleteOrder(o)
         \/ CommitDispatch(o) \/ Age(o)
         \/ \E body \in Patch : PatchOrder(o, body)
  PROVE  \A x \in Order : Exists(x)' <=> Exists(x)
<1>0. order \in [Order -> OrderDoc]
  BY DEF Sound, TypeOK
<1>1. ASSUME NEW body \in Patch, PatchOrder(o, body)
      PROVE  \A x \in Order : Exists(x)' <=> Exists(x)
  <2> DEFINE d == Patched(order[o], body)
  <2>1. /\ d \in OrderDoc /\ d.status # "absent"
        /\ \E held \in BOOLEAN :
             order' = [order EXCEPT ![o] = [d EXCEPT !.stockDeducted = held]]
    BY <1>1, PatchWrites
  <2>2. Exists(o)
    BY <1>1 DEF PatchOrder
  <2> HIDE DEF d
  <2> QED BY <1>0, <2>1, <2>2 DEF Exists, OrderDoc
<1>2. CASE ExpireOrder(o)
  BY <1>0, <1>2 DEF ExpireOrder, Expirable, Expired, Exists, OrderDoc
<1>3. CASE VerifyOrderPayment(o)
  BY <1>0, <1>3 DEF VerifyOrderPayment, Exists, OrderDoc
<1>4. CASE SoftDeleteOrder(o)
  BY <1>0, <1>4 DEF SoftDeleteOrder, Exists, OrderDoc
<1>5. CASE CommitDispatch(o)
  BY <1>0, <1>5 DEF CommitDispatch, Exists, OrderDoc
<1>6. CASE Age(o)
  BY <1>0, <1>6 DEF Age, Exists, OrderDoc
<1> QED BY <1>1, <1>2, <1>3, <1>4, <1>5, <1>6

(* A checkout adds its order and no other.                                 *)
LEMMA OrderAdded ==
  ASSUME Sound, NEW o \in Order, NEW cart \in Cart, NEW X \in SUBSET Blocking(cart),
         NEW choice \in Choice, NEW payable \in BOOLEAN,
         NEW trx \in TrxId \cup {None}, NEW c \in Coupon \cup {None},
         PlaceOrder(o, X, cart, choice, payable, trx, c)
  PROVE  \A x \in Order : Exists(x)' <=> x = o \/ Exists(x)
<1>1. order \in [Order -> OrderDoc]
  BY DEF Sound, TypeOK
<1>2. \A x \in X : x \in Order /\ Exists(x)
  BY DEF Blocking, Expirable, Exists
<1>3. NewOrder(cart, choice, payable, trx, c).status = "pending"
  BY DEF NewOrder, Absent
<1>4. \A x \in Order : Expired(order[x]).status = "cancelled"
  BY <1>1 DEF Expired, OrderDoc
<1>5. \A x \in Order : order'[x] = IF x = o THEN NewOrder(cart, choice, payable, trx, c)
                                   ELSE IF x \in X THEN Expired(order[x]) ELSE order[x]
  BY DEF PlaceOrder
<1> QED BY <1>2, <1>3, <1>4, <1>5 DEF Exists

(* A request becomes q: what must hold of q, and of its parcel.            *)
LEMMA Moves ==
  ASSUME Collecting, Sound', NEW r \in Request, NEW q \in RequestDoc, Becomes(r, q),
         UNCHANGED <<deployment, bill>>,
         \A o \in Order : Exists(o)' <=> Exists(o),
         NEW p \in ParcelDoc \cup {None}, parcel' = [parcel EXCEPT ![r] = p],
         consignment' \in [Order -> CourierDoc \cup {None}],
         Right(q, p)
  PROVE  Collecting'
<1>1. DispatchTyped'
  BY DEF Collecting, DispatchTyped, Becomes, deployment
<1>2. Billed'
  BY DEF Collecting, Billed
<1>3. \A s \in Request : Right(req[s], parcel[s])'
  <2> TAKE s \in Request
  <2>1. bill' = bill
    OBVIOUS
  <2>2. CASE s = r
    <3>1. req'[s] = q /\ parcel'[s] = p
      BY <2>2 DEF Collecting, DispatchTyped, Becomes
    <3> QED BY <2>1, <3>1 DEF Right
  <2>3. CASE s # r
    <3>1. req'[s] = req[s] /\ parcel'[s] = parcel[s]
      BY <2>3 DEF Collecting, DispatchTyped, Becomes
    <3>2. Right(req[s], parcel[s])
      BY DEF Collecting
    <3> QED BY <2>1, <3>1, <3>2 DEF Right
  <2> QED BY <2>2, <2>3
<1> QED BY <1>1, <1>2, <1>3 DEF Collecting

(* A request goes on about the same order, with its parcel as it was.      *)
LEMMA GoesOn ==
  ASSUME Collecting, NEW r \in Request, NEW q \in RequestDoc, Becomes(r, q),
         UNCHANGED <<vars, deployment, bill, consignment, parcel>>,
         req[r].pc # "idle", q.pc # "idle",
         q.order = req[r].order, q.body = req[r].body, q.cod = req[r].cod,
         q.pc = "patch" => req[r].pc = "patch",
         q.pc \in Informed => req[r].pc \in Informed
  PROVE  Collecting'
<1>1. Right(req[r], parcel[r])
  BY DEF Collecting
<1>2. Right(q, parcel[r])
  BY <1>1 DEF Right
<1>3. Sound'
  BY DEF Collecting, DispatchTyped, Sound, TypeOK, UnusedIsBlank, Exists, vars
<1>4. \A o \in Order : Exists(o)' <=> Exists(o)
  BY DEF vars, Exists
<1>5. /\ parcel[r] \in ParcelDoc \cup {None}
      /\ parcel' = [parcel EXCEPT ![r] = parcel[r]]
      /\ consignment' \in [Order -> CourierDoc \cup {None}]
  BY DEF Collecting, DispatchTyped
<1> QED BY <1>2, <1>3, <1>4, <1>5, Moves

(* A request that fails, gives up or is done.                              *)
LEMMA FailedType ==
  ASSUME NEW q \in RequestDoc
  PROVE  /\ Failed(q) \in RequestDoc /\ Failed(q).pc \in {"done", "failed"}
         /\ Failed(q).order = q.order /\ Failed(q).body = q.body /\ Failed(q).cod = q.cod
<1> DEFINE pc == IF q.auto THEN "done" ELSE "failed"
<1>1. pc \in {"done", "failed"}
  OBVIOUS
<1> HIDE DEF pc
<1>2. LET f == [q EXCEPT !.pc = pc]
      IN  /\ f \in RequestDoc /\ f.pc = pc
          /\ f.order = q.order /\ f.body = q.body /\ f.cod = q.cod
  BY <1>1 DEF RequestDoc, Ended
<1> QED BY <1>1, <1>2 DEF Failed, pc

-----------------------------------------------------------------------------
(* Every step keeps the invariant                                          *)

(* An admin's request arrives; it has no parcel yet.                       *)
LEMMA BeginCollecting ==
  ASSUME Collecting, NEW r \in Request, Begin(r)
  PROVE  Collecting'
<1>1. PICK w \in workload.work[r], o \in Order :
        /\ At(r, "idle") /\ Exists(o)
        /\ Becomes(r, [Idle EXCEPT !.pc = IF w.kind = "patch" THEN "patch" ELSE "load",
                                   !.order = o, !.body = w.body,
                                   !.before = Consigned(consignment[o])])
        /\ UNCHANGED <<vars, deployment, bill, consignment, parcel>>
  BY DEF Begin
<1> DEFINE pc == IF w.kind = "patch" THEN "patch" ELSE "load"
           before == Consigned(consignment[o])
           q == [Idle EXCEPT !.pc = pc, !.order = o, !.body = w.body, !.before = before]
<1>2. w \in Work
  BY WorkloadType DEF Collecting, DispatchTyped
<1>3. pc \in {"patch", "load"} /\ (pc = "patch" => w.body \in Patch)
  BY <1>2, WorkKnown
<1>4. before \in BOOLEAN
  BY DEF Consigned
<1>5. Becomes(r, q)
  BY <1>1
<1> HIDE DEF pc, before
<1>6. q \in RequestDoc /\ q.pc = pc /\ q.order = o /\ q.body = w.body
  BY <1>2, <1>3, <1>4 DEF Idle, RequestDoc, Running, Movement
<1> HIDE DEF q
<1>7. parcel[r] = None
  BY <1>1 DEF Collecting, Right, At
<1>8. Right(q, parcel[r])
  BY <1>1, <1>3, <1>6, <1>7 DEF Right, Informed
<1>9. Sound' /\ \A x \in Order : Exists(x)' <=> Exists(x)
  BY <1>1 DEF Collecting, DispatchTyped, Sound, TypeOK, UnusedIsBlank, Exists, vars
<1>10. /\ parcel[r] \in ParcelDoc \cup {None} /\ parcel' = [parcel EXCEPT ![r] = parcel[r]]
       /\ consignment' \in [Order -> CourierDoc \cup {None}]
  BY <1>1 DEF Collecting, DispatchTyped
<1>11. UNCHANGED <<deployment, bill>>
  BY <1>1
<1> QED BY <1>5, <1>6, <1>8, <1>9, <1>10, <1>11, Moves

LEMMA SaidType ==
  ASSUME NEW before \in Movement, NEW action
  PROVE  Said(action, before) \in Movement
BY DEF Said, Movement

(* A request at work knows its order; a patch knows its body.              *)
LEMMA AtWork ==
  ASSUME Collecting, NEW r \in Request, req[r].pc # "idle"
  PROVE  /\ req[r] \in RequestDoc /\ Right(req[r], parcel[r])
         /\ req[r].order \in Order /\ Exists(req[r].order)
         /\ bill[req[r].order] \in BillDoc /\ Balanced(bill[req[r].order])
         /\ req[r].pc = "patch" => req[r].body \in Patch
<1>1. req[r] \in RequestDoc /\ Right(req[r], parcel[r])
  BY DEF Collecting, DispatchTyped
<1>2. /\ req[r].order \in Order /\ Exists(req[r].order)
      /\ req[r].pc = "patch" => req[r].body \in Patch
  BY <1>1 DEF Right
<1> QED BY <1>1, <1>2 DEF Collecting, DispatchTyped, Billed

(* The statements of a patch that leave the database alone.                *)
LEMMA PatchWaits ==
  ASSUME Collecting, NEW r \in Request,
         RerunPatch(r) \/ FailPatch(r) \/ AutoDispatch(r) \/ SkipAutoDispatch(r)
  PROVE  Collecting'
<1>0. req[r].pc \in {"patch", "auto"}
  BY DEF RerunPatch, FailPatch, AutoDispatch, SkipAutoDispatch, At
<1>1. req[r] \in RequestDoc
  BY <1>0, AtWork
<1>2. CASE RerunPatch(r)
  <2> DEFINE said == Said(ActionOf(req[r].order, req[r].body), req[r].stock)
             n == req[r].reruns + 1
             q == [req[r] EXCEPT !.reruns = n, !.stock = said]
  <2>1. said \in Movement /\ n \in Nat
    BY <1>1, SaidType DEF RequestDoc
  <2>2. Becomes(r, q) /\ UNCHANGED <<vars, deployment, bill, consignment, parcel>>
    BY <1>2 DEF RerunPatch
  <2> HIDE DEF said, n
  <2>3. /\ q \in RequestDoc /\ q.pc = req[r].pc /\ q.order = req[r].order
        /\ q.body = req[r].body /\ q.cod = req[r].cod
    BY <1>1, <2>1 DEF RequestDoc
  <2> HIDE DEF q
  <2> QED BY <1>0, <2>2, <2>3, GoesOn
<1>3. ASSUME NEW pc \in {"failed", "done", "load"}, NEW auto \in BOOLEAN,
             Becomes(r, [req[r] EXCEPT !.pc = pc, !.auto = auto]),
             UNCHANGED <<vars, deployment, bill, consignment, parcel>>
      PROVE  Collecting'
  <2> DEFINE q == [req[r] EXCEPT !.pc = pc, !.auto = auto]
  <2>1. /\ q \in RequestDoc /\ q.pc = pc /\ q.order = req[r].order
        /\ q.body = req[r].body /\ q.cod = req[r].cod
    BY ZenonT(30), <1>1 DEF RequestDoc, Running, Ended
  <2> HIDE DEF q
  <2>2. Becomes(r, q)
    BY <1>3 DEF q
  <2> QED BY <1>0, <1>3, <2>1, <2>2, GoesOn DEF Informed
<1>4. CASE AutoDispatch(r)
  BY <1>3, <1>4 DEF AutoDispatch
<1>5. CASE FailPatch(r) \/ SkipAutoDispatch(r)
  <2>1. PICK pc \in {"failed", "done"} : Becomes(r, [req[r] EXCEPT !.pc = pc])
    BY <1>5 DEF FailPatch, SkipAutoDispatch
  <2>2. req[r].auto \in BOOLEAN
    BY <1>1 DEF RequestDoc
  <2>3. [req[r] EXCEPT !.pc = pc] = [req[r] EXCEPT !.pc = pc, !.auto = req[r].auto]
    BY <1>1 DEF RequestDoc
  <2> QED BY <1>3, <1>5, <2>1, <2>2, <2>3 DEF FailPatch, SkipAutoDispatch
<1> QED BY <1>2, <1>4, <1>5

(* The patch commits.                                                      *)
LEMMA CommitPatchCollecting ==
  ASSUME Collecting, NEW r \in Request, CommitPatch(r)
  PROVE  Collecting' /\ OrderStep(req[r].order)
<1> DEFINE o == req[r].order
           pc == IF req[r].body.status \in {"processing", "shipped"} THEN "auto" ELSE "done"
           said == Said(ActionOf(req[r].order, req[r].body), req[r].stock)
           moved == CASE order'[o].stockDeducted /\ ~order[o].stockDeducted -> "deducted"
                      [] order[o].stockDeducted /\ ~order'[o].stockDeducted -> "restored"
                      [] OTHER -> "none"
           q == [req[r] EXCEPT !.pc = pc, !.stock = said, !.moved = moved]
<1>0. req[r].pc = "patch"
  BY DEF CommitPatch, At
<1>1. req[r] \in RequestDoc /\ o \in Order /\ req[r].body \in Patch
  BY <1>0, AtWork
<1>2. /\ pc \in {"auto", "done"} /\ said \in Movement /\ moved \in Movement
  BY <1>1, SaidType DEF RequestDoc, Movement
<1>3. Becomes(r, q) /\ PatchOrder(o, req[r].body)
      /\ UNCHANGED <<deployment, bill, consignment, parcel>>
  BY DEF CommitPatch
<1>4. OrderStep(o)
  BY <1>1, <1>3 DEF OrderStep
<1>5. Sound' /\ \A x \in Order : Exists(x)' <=> Exists(x)
  BY <1>1, <1>3, <1>4, OrdersStay, StepSound DEF Collecting, DispatchTyped, Next
<1> HIDE DEF pc, said, moved
<1>6. /\ q \in RequestDoc /\ q.pc = pc /\ q.order = req[r].order
      /\ q.body = req[r].body /\ q.cod = req[r].cod
  BY <1>1, <1>2 DEF RequestDoc, Running, Ended
<1> HIDE DEF q
<1>7. Right(q, parcel[r])
  BY <1>0, <1>2, <1>6 DEF Collecting, Right, Informed
<1>8. /\ parcel[r] \in ParcelDoc \cup {None} /\ parcel' = [parcel EXCEPT ![r] = parcel[r]]
      /\ consignment' \in [Order -> CourierDoc \cup {None}]
  BY <1>3 DEF Collecting, DispatchTyped
<1> QED BY <1>3, <1>4, <1>5, <1>6, <1>7, <1>8, Moves

(* dispatchOrder reads the order and what is due on it.                    *)
LEMMA LoadCollecting ==
  ASSUME Collecting, NEW r \in Request, LoadForDispatch(r)
  PROVE  Collecting'
<1>0. req[r].pc = "load"
  BY DEF LoadForDispatch, At
<1>1. /\ req[r] \in RequestDoc /\ req[r].order \in Order /\ Exists(req[r].order)
      /\ bill[req[r].order] \in BillDoc /\ Right(req[r], parcel[r])
  BY <1>0, AtWork
<1>2. PICK provider \in Provider :
        Becomes(r, [req[r] EXCEPT !.pc = IF live THEN "send" ELSE "commit",
                                  !.provider = provider,
                                  !.cod = CodAmount(bill[req[r].order]),
                                  !.reply = IF live THEN None ELSE "simulated"])
  BY DEF LoadForDispatch
<1>3. UNCHANGED <<vars, deployment, bill, consignment, parcel>>
  BY DEF LoadForDispatch
<1> DEFINE pc == IF live THEN "send" ELSE "commit"
           cod == CodAmount(bill[req[r].order])
           reply == IF live THEN None ELSE "simulated"
           q == [req[r] EXCEPT !.pc = pc, !.provider = provider, !.cod = cod,
                               !.reply = reply]
<1>4. /\ pc \in {"send", "commit"} /\ cod = bill[req[r].order].due /\ cod \in Nat
      /\ reply \in Reply \cup {None}
  BY <1>1 DEF CodAmount, BillDoc, Reply
<1>5. Becomes(r, q)
  BY <1>2
<1> HIDE DEF pc, cod, reply
<1>6. /\ q \in RequestDoc /\ q.pc = pc /\ q.order = req[r].order /\ q.cod = cod
  BY <1>1, <1>4 DEF RequestDoc, Running
<1> HIDE DEF q
<1>7. Right(q, parcel[r])
  BY <1>1, <1>4, <1>6 DEF Right
<1>8. /\ parcel[r] \in ParcelDoc \cup {None} /\ parcel' = [parcel EXCEPT ![r] = parcel[r]]
      /\ consignment' \in [Order -> CourierDoc \cup {None}]
  BY <1>3 DEF Collecting, DispatchTyped
<1>9. Sound' /\ \A x \in Order : Exists(x)' <=> Exists(x)
  BY <1>3 DEF Collecting, DispatchTyped, Sound, TypeOK, UnusedIsBlank, Exists, vars
<1> QED BY <1>3, <1>5, <1>6, <1>7, <1>8, <1>9, Moves

(* A dispatch that is not sent, asks for a token, gives up, cannot record  *)
(* its parcel, or is killed.                                               *)
LEMMA DispatchWaits ==
  ASSUME Collecting, NEW r \in Request,
         \/ NotSent(r) \/ AskToken(r) \/ RefuseToken(r) \/ GiveUp(r)
         \/ FailRecord(r) \/ Kill(r)
  PROVE  Collecting'
<1>0. req[r].pc # "idle"
  BY DEF NotSent, AskToken, RefuseToken, GiveUp, TimedOut, FailRecord, Kill, Running, At
<1>1. req[r] \in RequestDoc
  BY <1>0, AtWork
<1>2. UNCHANGED <<vars, deployment, bill, consignment, parcel>>
  BY DEF NotSent, AskToken, RefuseToken, GiveUp, FailRecord, Kill
<1>3. CASE AskToken(r) \/ Kill(r)
  <2>1. PICK pc \in {"token", "dead"} :
          /\ Becomes(r, [req[r] EXCEPT !.pc = pc])
          /\ pc = "token" => req[r].pc \in Informed
    BY <1>3 DEF AskToken, Kill, At, Informed
  <2> DEFINE q == [req[r] EXCEPT !.pc = pc]
  <2>2. /\ q \in RequestDoc /\ q.pc = pc /\ q.order = req[r].order
        /\ q.body = req[r].body /\ q.cod = req[r].cod
    BY <1>1 DEF RequestDoc, Running, Ended
  <2>3. Becomes(r, q)
    BY <2>1
  <2> HIDE DEF q
  <2> QED BY <1>0, <1>2, <2>1, <2>2, <2>3, GoesOn DEF Informed
<1>4. CASE NotSent(r) \/ RefuseToken(r) \/ GiveUp(r) \/ FailRecord(r)
  <2>1. PICK unheard \in BOOLEAN :
          \/ Becomes(r, [Failed(req[r]) EXCEPT !.unheard = unheard])
          \/ Becomes(r, Failed(req[r]))
    <3>1. At(r, "call") \in BOOLEAN
      BY DEF At
    <3> QED BY <1>4, <3>1 DEF NotSent, RefuseToken, GiveUp, FailRecord
  <2> DEFINE f == Failed(req[r])
             q == [f EXCEPT !.unheard = unheard]
  <2>2. /\ f \in RequestDoc /\ f.pc \in {"done", "failed"} /\ f.order = req[r].order
        /\ f.body = req[r].body /\ f.cod = req[r].cod
    BY <1>1, FailedType
  <2>3. Becomes(r, q) \/ Becomes(r, f)
    BY <2>1
  <2> HIDE DEF f
  <2>4. /\ q \in RequestDoc /\ q.pc \in {"done", "failed"} /\ q.order = req[r].order
        /\ q.body = req[r].body /\ q.cod = req[r].cod
    BY <2>2 DEF RequestDoc
  <2> HIDE DEF q
  <2>5. CASE Becomes(r, q)
    BY <1>0, <1>2, <2>4, <2>5, GoesOn DEF Informed
  <2>6. CASE Becomes(r, f)
    BY <1>0, <1>2, <2>2, <2>6, GoesOn DEF Informed
  <2> QED BY <2>3, <2>5, <2>6
<1> QED BY <1>3, <1>4

(* What is posted is what was read as due.                                 *)
LEMMA PostCollecting ==
  ASSUME Collecting, NEW r \in Request, PostOrder(r)
  PROVE  Collecting'
<1>0. req[r].pc \in {"send", "token"}
  BY DEF PostOrder, At
<1>1. /\ req[r] \in RequestDoc /\ req[r].order \in Order /\ Exists(req[r].order)
      /\ Right(req[r], parcel[r])
  BY <1>0, AtWork
<1> DEFINE q == [req[r] EXCEPT !.pc = "call"]
           p == Posted(r)
<1>2. /\ Becomes(r, q) /\ parcel' = [parcel EXCEPT ![r] = p]
      /\ UNCHANGED <<vars, deployment, bill, consignment>>
  BY DEF PostOrder
<1>3. /\ q \in RequestDoc /\ q.pc = "call" /\ q.order = req[r].order /\ q.cod = req[r].cod
  BY <1>1 DEF RequestDoc, Running
<1>4. p \in ParcelDoc /\ p.order = req[r].order /\ p.cod = req[r].cod
  BY <1>1 DEF Posted, ParcelDoc, RequestDoc
<1> HIDE DEF q, p
<1>5. Right(q, p)
  BY <1>0, <1>1, <1>3, <1>4 DEF Right, Informed
<1>6. /\ Sound' /\ \A x \in Order : Exists(x)' <=> Exists(x)
      /\ consignment' \in [Order -> CourierDoc \cup {None}]
  BY <1>2 DEF Collecting, DispatchTyped, Sound, TypeOK, UnusedIsBlank, Exists, vars
<1> QED BY <1>2, <1>3, <1>4, <1>5, <1>6, Moves

(* The courier books a parcel, which leaves what it collects alone.        *)
LEMMA BookCollecting ==
  ASSUME Collecting, NEW r \in Request, Book(r)
  PROVE  Collecting'
<1>1. /\ parcel[r] \in ParcelDoc /\ Right(req[r], parcel[r]) /\ req[r] \in RequestDoc
  BY DEF Collecting, DispatchTyped, Book
<1> DEFINE p == [parcel[r] EXCEPT !.booked = TRUE]
<1>2. /\ p \in ParcelDoc /\ p.order = parcel[r].order /\ p.cod = parcel[r].cod
  BY <1>1 DEF ParcelDoc
<1>3. parcel' = [parcel EXCEPT ![r] = p] /\ UNCHANGED <<vars, deployment, req, bill, consignment>>
  BY DEF Book
<1> HIDE DEF p
<1>4. parcel[r] # None
  BY DEF Book
<1>5. Right(req[r], p)
  BY <1>1, <1>2, <1>4 DEF Right
<1>6. Becomes(r, req[r])
  BY <1>3 DEF Becomes, Collecting, DispatchTyped
<1>7. /\ Sound' /\ \A x \in Order : Exists(x)' <=> Exists(x)
      /\ consignment' \in [Order -> CourierDoc \cup {None}]
  BY <1>3 DEF Collecting, DispatchTyped, Sound, TypeOK, UnusedIsBlank, Exists, vars
<1> QED BY <1>1, <1>2, <1>3, <1>5, <1>6, <1>7, Moves

(* The courier's answer arrives.                                           *)
LEMMA AnswerCollecting ==
  ASSUME Collecting, NEW r \in Request,
         NEW reply \in {"consigned", "unreadable", "refused", "error"}, Answer(r, reply)
  PROVE  Collecting'
<1>0. req[r].pc = "call"
  BY DEF Answer, At
<1>1. req[r] \in RequestDoc /\ Right(req[r], parcel[r])
  BY <1>0, AtWork
<1> DEFINE q == [req[r] EXCEPT !.reply = reply]
           done == [q EXCEPT !.pc = "commit"]
           unheard == reply # "refused"
           lost == [Failed(q) EXCEPT !.unheard = unheard]
           p == IF reply = "refused" THEN None ELSE parcel[r]
<1>2. /\ q \in RequestDoc /\ q.order = req[r].order /\ q.cod = req[r].cod
  BY <1>1 DEF RequestDoc, Reply
<1>3. /\ parcel' = [parcel EXCEPT ![r] = p]
      /\ Becomes(r, done) \/ Becomes(r, lost)
      /\ UNCHANGED <<vars, deployment, bill, consignment>>
  BY DEF Answer
<1>4. /\ p \in ParcelDoc \cup {None}
      /\ p # None => p = parcel[r]
  BY DEF Collecting, DispatchTyped
<1>5. unheard \in BOOLEAN
  OBVIOUS
<1> HIDE DEF q, p, unheard
<1>6. /\ done \in RequestDoc /\ done.pc = "commit"
      /\ done.order = req[r].order /\ done.cod = req[r].cod
  BY <1>2 DEF RequestDoc, Running
<1>7. /\ lost \in RequestDoc /\ lost.pc \in {"done", "failed"}
      /\ lost.order = req[r].order /\ lost.cod = req[r].cod
  <2> DEFINE f == Failed(q)
  <2>1. /\ f \in RequestDoc /\ f.pc \in {"done", "failed"}
        /\ f.order = q.order /\ f.cod = q.cod
    BY <1>2, FailedType
  <2> HIDE DEF f
  <2>2. LET g == [f EXCEPT !.unheard = unheard]
        IN  /\ g \in RequestDoc /\ g.pc = f.pc /\ g.order = f.order /\ g.cod = f.cod
    BY <1>5, <2>1 DEF RequestDoc
  <2> QED BY <1>2, <2>1, <2>2 DEF f
<1> HIDE DEF done, lost
<1>8. Right(done, p) /\ Right(lost, p)
  BY <1>0, <1>1, <1>4, <1>6, <1>7 DEF Right, Informed
<1>9. /\ Sound' /\ \A x \in Order : Exists(x)' <=> Exists(x)
      /\ consignment' \in [Order -> CourierDoc \cup {None}]
  BY <1>3 DEF Collecting, DispatchTyped, Sound, TypeOK, UnusedIsBlank, Exists, vars
<1>10. CASE Becomes(r, done)
  BY <1>3, <1>4, <1>6, <1>8, <1>9, <1>10, Moves
<1>11. CASE Becomes(r, lost)
  BY <1>3, <1>4, <1>7, <1>8, <1>9, <1>11, Moves
<1> QED BY <1>3, <1>10, <1>11

(* The consignment is written to the order.                                *)
LEMMA RecordCollecting ==
  ASSUME Collecting, NEW r \in Request, RecordDispatch(r)
  PROVE  Collecting' /\ OrderStep(req[r].order)
<1>0. req[r].pc = "commit"
  BY DEF RecordDispatch, At
<1>1. req[r] \in RequestDoc /\ Right(req[r], parcel[r]) /\ req[r].order \in Order
  BY <1>0, AtWork
<1> DEFINE o == req[r].order
           q == [req[r] EXCEPT !.pc = "done"]
           c == [by |-> r, id |-> ConsignmentId(req[r].reply)]
<1>2. /\ CommitDispatch(o) /\ Becomes(r, q) /\ UNCHANGED <<deployment, bill, parcel>>
      /\ consignment' = [consignment EXCEPT ![o] = c]
  BY DEF RecordDispatch
<1>3. OrderStep(o)
  BY <1>2 DEF OrderStep
<1>4. Sound' /\ \A x \in Order : Exists(x)' <=> Exists(x)
  BY <1>1, <1>2, <1>3, OrdersStay, StepSound DEF Collecting, DispatchTyped, Next
<1>5. /\ q \in RequestDoc /\ q.pc = "done" /\ q.order = req[r].order /\ q.cod = req[r].cod
  BY <1>1 DEF RequestDoc, Ended
<1>6. c \in CourierDoc
  BY DEF CourierDoc, ConsignmentId
<1> HIDE DEF q, c
<1>7. Right(q, parcel[r])
  BY <1>0, <1>1, <1>5 DEF Right, Informed
<1>8. /\ parcel[r] \in ParcelDoc \cup {None} /\ parcel' = [parcel EXCEPT ![r] = parcel[r]]
      /\ consignment' \in [Order -> CourierDoc \cup {None}]
  BY <1>2, <1>6 DEF Collecting, DispatchTyped
<1> QED BY <1>2, <1>3, <1>4, <1>5, <1>7, <1>8, Moves

(* A checkout brings its order and its bill at once.                       *)
LEMMA CheckoutCollecting ==
  ASSUME Collecting, NEW o \in Order, Checkout(o)
  PROVE  Collecting' /\ OrderStep(o)
<1>0. workload \in Workload /\ Sound
  BY DEF Collecting, DispatchTyped
<1>1. /\ OrderStep(o) /\ ~Exists(o)
      /\ \E b \in BillDoc : Balanced(b) /\ bill' = [bill EXCEPT ![o] = b]
      /\ UNCHANGED <<deployment, req, consignment, parcel>>
  BY <1>0, CheckoutPlaces
<1>2. \A x \in Order : Exists(x)' <=> x = o \/ Exists(x)
  BY <1>0, CheckoutPlaces, OrderAdded
<1>3. Sound'
  BY <1>0, <1>1, StepSound DEF Next
<1>4. PICK b \in BillDoc : Balanced(b) /\ bill' = [bill EXCEPT ![o] = b]
  BY <1>1
<1>5. DispatchTyped'
  BY <1>1, <1>3, <1>4 DEF Collecting, DispatchTyped, deployment
<1>6. Billed'
  <2> SUFFICES ASSUME NEW x \in Order
               PROVE  /\ Exists(x)' <=> bill'[x] # None
                      /\ bill'[x] # None => Balanced(bill'[x])
    BY DEF Billed
  <2>1. CASE x = o
    BY <1>2, <1>4, <2>1, NoneIsNoBill DEF Collecting, DispatchTyped
  <2>2. CASE x # o
    BY <1>2, <1>4, <2>2 DEF Collecting, DispatchTyped, Billed
  <2> QED BY <2>1, <2>2
<1>7. \A s \in Request : Right(req[s], parcel[s])'
  <2> TAKE s \in Request
  <2>1. Right(req[s], parcel[s]) /\ req'[s] = req[s] /\ parcel'[s] = parcel[s]
    BY <1>1 DEF Collecting
  <2>2. CASE req[s].pc = "idle"
    BY <2>1, <2>2 DEF Right, Informed
  <2>3. CASE req[s].pc # "idle"
    <3>1. req[s].order \in Order /\ Exists(req[s].order)
      BY <2>3, AtWork
    <3>2. bill'[req[s].order] = bill[req[s].order]
      BY <1>1, <1>4, <3>1 DEF Collecting, DispatchTyped
    <3>3. Exists(req[s].order)'
      BY <1>1, <1>2, <2>1, <3>1
    <3> QED BY <2>1, <3>1, <3>2, <3>3 DEF Right
  <2> QED BY <2>2, <2>3
<1> QED BY <1>1, <1>5, <1>6, <1>7 DEF Collecting

(* The cron, the other admin requests and time.                            *)
LEMMA OtherCollecting ==
  ASSUME Collecting, NEW o \in Order, OtherOrderStep(o)
  PROVE  Collecting' /\ OrderStep(o)
<1>1. OrderStep(o) /\ UNCHANGED dispatchVars
  BY DEF OtherOrderStep, OrderStep
<1>2. Sound' /\ \A x \in Order : Exists(x)' <=> Exists(x)
  BY <1>1, OrdersStay, StepSound DEF OtherOrderStep, Collecting, DispatchTyped, Next
<1>3. /\ DispatchTyped' /\ Billed'
      /\ \A r \in Request : Right(req[r], parcel[r])'
  BY <1>1, <1>2 DEF dispatchVars, deployment, Collecting, DispatchTyped, Billed, Right
<1> QED BY <1>1, <1>3 DEF Collecting

(* Every step keeps the invariant and is, for the database, one of its own *)
(* steps or none.                                                          *)
LEMMA StepCollecting ==
  Collecting /\ [DispatchNext]_<<vars, dispatchVars>> => Collecting' /\ [Next]_vars
<1> SUFFICES ASSUME Collecting, [DispatchNext]_<<vars, dispatchVars>>
             PROVE  Collecting' /\ [Next]_vars
  OBVIOUS
<1>1. ASSUME NEW r \in Request, RequestStep(r) PROVE Collecting' /\ [Next]_vars
  <2>1. CASE CommitPatch(r)
    <3>1. req[r].order \in Order
      BY <2>1, AtWork DEF CommitPatch, At
    <3> QED BY <2>1, <3>1, CommitPatchCollecting DEF Next
  <2>2. CASE RecordDispatch(r)
    <3>1. req[r].order \in Order
      BY <2>2, AtWork DEF RecordDispatch, At
    <3> QED BY <2>2, <3>1, RecordCollecting DEF Next
  <2>3. CASE RerunPatch(r) \/ FailPatch(r) \/ AutoDispatch(r) \/ SkipAutoDispatch(r)
    BY <2>3, PatchWaits DEF RerunPatch, FailPatch, AutoDispatch, SkipAutoDispatch
  <2>4. CASE NotSent(r) \/ AskToken(r) \/ GiveUp(r) \/ FailRecord(r)
    BY <2>4, DispatchWaits DEF NotSent, AskToken, GiveUp, FailRecord
  <2>5. CASE LoadForDispatch(r)
    BY <2>5, LoadCollecting DEF LoadForDispatch
  <2>6. CASE PostOrder(r)
    BY <2>6, PostCollecting DEF PostOrder
  <2> QED BY <1>1, <2>1, <2>2, <2>3, <2>4, <2>5, <2>6 DEF RequestStep
<1>2. ASSUME NEW r \in Request, Begin(r) \/ CourierStep(r) \/ Kill(r)
      PROVE  Collecting' /\ [Next]_vars
  <2>1. CASE Begin(r)
    BY <2>1, BeginCollecting DEF Begin
  <2>2. CASE Kill(r)
    BY <2>2, DispatchWaits DEF Kill
  <2>3. CASE RefuseToken(r)
    BY <2>3, DispatchWaits DEF RefuseToken
  <2>4. CASE PostOrder(r)
    BY <2>4, PostCollecting DEF PostOrder
  <2>5. CASE Book(r)
    BY <2>5, BookCollecting DEF Book
  <2>6. ASSUME NEW reply \in {"consigned", "unreadable", "refused", "error"}, Answer(r, reply)
        PROVE  Collecting' /\ [Next]_vars
    BY <2>6, AnswerCollecting DEF Answer
  <2> QED BY <1>2, <2>1, <2>2, <2>3, <2>4, <2>5, <2>6 DEF CourierStep
<1>3. ASSUME NEW o \in Order, Checkout(o) \/ OtherOrderStep(o)
      PROVE  Collecting' /\ [Next]_vars
  BY <1>3, CheckoutCollecting, OtherCollecting DEF Next
<1>4. CASE UNCHANGED <<vars, dispatchVars>>
  BY <1>4 DEF vars, dispatchVars, deployment, Collecting, DispatchTyped, Billed, Right,
              Exists, Sound, TypeOK, UnusedIsBlank
<1> QED BY <1>1, <1>2, <1>3, <1>4 DEF DispatchNext

LEMMA SpecCollecting == DispatchSpec => []Collecting
BY InitCollecting, StepCollecting, PTL DEF DispatchSpec

-----------------------------------------------------------------------------
(* Results                                                                 *)

(* Whatever the requests, their couriers and the cron do to each other,    *)
(* the database moves as OrderStore says: its theorems (conserved stock,   *)
(* orders that hold exactly while live, backed coupon uses) hold of the    *)
(* composed system as they stand.                                          *)
THEOREM DispatchImplementsStore == DispatchSpec => Spec
<1>1. DispatchInit => Init
  BY DEF DispatchInit
<1>2. Collecting /\ [DispatchNext]_<<vars, dispatchVars>> => [Next]_vars
  BY StepCollecting
<1> QED BY <1>1, <1>2, SpecCollecting, PTL DEF DispatchSpec, Spec

(* Bills, requests, parcels and consignments are well formed: amounts are  *)
(* never negative, and an order has its bill as long as it exists.         *)
THEOREM DispatchTypes == DispatchSpec => []DispatchTypeOK
<1>1. Collecting => DispatchTypeOK
  <2> SUFFICES ASSUME Collecting PROVE DispatchTypeOK
    OBVIOUS
  <2>1. \A r \in Request :
          /\ req[r].pc \in {"idle"} \cup Running \cup Ended
          /\ req[r].pc # "idle" => req[r].order \in Order
          /\ parcel[r] # None => parcel[r].order = req[r].order
    BY DEF Collecting, DispatchTyped, RequestDoc, Right
  <2>2. \A o \in Order :
          /\ Exists(o) <=> bill[o] # None
          /\ bill[o] # None => {bill[o].total, bill[o].advance, bill[o].due} \subseteq Nat
          /\ consignment[o] # None => consignment[o].by \in Request
    BY DEF Collecting, DispatchTyped, Billed, BillDoc, CourierDoc
  <2> QED BY <2>1, <2>2 DEF DispatchTypeOK, Collecting, DispatchTyped
<1> QED BY <1>1, SpecCollecting, PTL

(* BUG_FIXES B1: what the courier collects and what was asked for in       *)
(* advance add up to the bill, for every cart, coupon, zone, setting and   *)
(* payment choice (LoadForDispatch reads amountToCollectOnDelivery, which  *)
(* priceOrder split off the total).                                        *)
THEOREM NobodyPaysTwice == DispatchSpec => []CollectsExactlyDue
<1>1. Collecting => CollectsExactlyDue
  <2> SUFFICES ASSUME Collecting, NEW r \in Request, parcel[r] # None
               PROVE  LET b == bill[parcel[r].order]
                      IN  b # None /\ parcel[r].cod + b.advance = b.total
    BY DEF CollectsExactlyDue
  <2>1. /\ req[r].pc # "idle" /\ parcel[r].order = req[r].order
        /\ parcel[r].cod = bill[req[r].order].due
    BY DEF Collecting, Right
  <2>2. /\ req[r].order \in Order /\ Exists(req[r].order)
        /\ bill[req[r].order] \in BillDoc /\ Balanced(bill[req[r].order])
    BY <2>1, AtWork
  <2> QED BY <2>1, <2>2 DEF Collecting, Billed, Balanced, BillDoc
<1> QED BY <1>1, SpecCollecting, PTL

-----------------------------------------------------------------------------
(* The invariant: what a request has posted and heard follows from where   *)
(* it is, and the consignment of an order is the work of a request that    *)
(* is done.                                                                *)

Unposted == {"idle", "patch", "auto", "load", "send", "token"}

(* A request q and its parcel p, by themselves.                            *)
Underway(q, p) ==
  /\ q.pc \in Unposted => p = None
  /\ q.pc = "call" => p # None
  /\ q.pc \in {"idle", "patch"} => q.moved = "none"
  /\ q.moved # "none" => q.stock = q.moved
  /\ q.pc = "commit" => /\ q.reply \in {"simulated", "consigned", "unreadable"}
                        /\ q.reply = "unreadable" => q.provider = "steadfast"
                        /\ live => p # None /\ p.booked

(* Another request recorded a consignment of o without an id.              *)
Blanked(r, o) ==
  \E s \in Request \ {r} : /\ req[s].pc = "done" /\ req[s].order = o
                           /\ req[s].reply = "unreadable"
                           /\ req[s].provider = "steadfast"

(* What r, being q with parcel p, may conclude about its order.            *)
Noted(r, q, p) ==
  /\ p # None /\ q.pc \in {"done", "failed"} /\ ~q.unheard
       => consignment[q.order] # None
  /\ q.before => q.pc # "idle" /\ consignment[q.order] # None
  /\ q.auto /\ q.before => Blanked(r, q.order)

(* The consignment c of o is what the request that wrote it was told.      *)
Told(o, c) ==
  /\ c.by \in Request
  /\ req[c.by].pc = "done" /\ req[c.by].order = o
  /\ c.id = "" => /\ req[c.by].reply = "unreadable"
                  /\ req[c.by].provider = "steadfast"
  /\ live => parcel[c.by] # None /\ parcel[c.by].booked

Accounted ==
  /\ \A r \in Request : Underway(req[r], parcel[r]) /\ Noted(r, req[r], parcel[r])
  /\ \A o \in Order : consignment[o] # None => Told(o, consignment[o])

Sorted == Collecting /\ Accounted

LEMMA InitAccounted == DispatchInit => Accounted
<1> SUFFICES ASSUME DispatchInit PROVE Accounted
  OBVIOUS
<1>1. ASSUME NEW r \in Request
      PROVE  Underway(req[r], parcel[r]) /\ Noted(r, req[r], parcel[r])
  <2>1. req[r] = Idle /\ parcel[r] = None
    BY DEF DispatchInit
  <2> QED BY <2>1 DEF Underway, Noted, Unposted, Idle
<1>2. \A o \in Order : consignment[o] = None
  BY DEF DispatchInit
<1> QED BY <1>1, <1>2 DEF Accounted

-----------------------------------------------------------------------------
(* How a request moves                                                     *)

(* What a request told stays while that request and its parcel do.         *)
LEMMA ToldStays ==
  ASSUME NEW o, NEW c, Told(o, c), live' = live,
         req'[c.by] = req[c.by], parcel'[c.by] = parcel[c.by]
  PROVE  Told(o, c)'
<1>1. /\ c.by \in Request
      /\ req'[c.by].pc = "done" /\ req'[c.by].order = o
      /\ c.id = "" => /\ req'[c.by].reply = "unreadable"
                      /\ req'[c.by].provider = "steadfast"
  BY DEF Told
<1>2. ASSUME live' PROVE parcel'[c.by] # None /\ parcel'[c.by].booked
  <2>1. live
    BY <1>2
  <2>2. parcel[c.by] # None /\ parcel[c.by].booked
    BY <2>1 DEF Told
  <2> QED BY <2>2
<1> QED BY <1>1, <1>2 DEF Told

(* A request that is not over becomes q, and its parcel p: what others     *)
(* conclude rests on requests that are done, and stays.                    *)
LEMMA ParcelMoves ==
  ASSUME Sorted, NEW r \in Request, req[r].pc # "done",
         NEW q \in RequestDoc, Becomes(r, q),
         NEW p, parcel' = [parcel EXCEPT ![r] = p],
         UNCHANGED <<live, consignment>>,
         Underway(q, p), Noted(r, q, p)
  PROVE  Accounted'
<1>1. /\ \A s \in Request : req'[s] = IF s = r THEN q ELSE req[s]
      /\ \A s \in Request : parcel'[s] = IF s = r THEN p ELSE parcel[s]
  BY DEF Sorted, Collecting, DispatchTyped, Becomes
<1>2. live' = live /\ consignment' = consignment
  OBVIOUS
<1>3. ASSUME NEW s \in Request, NEW o, Blanked(s, o) PROVE Blanked(s, o)'
  BY <1>1, <1>3 DEF Blanked
<1>4. ASSUME NEW s \in Request
      PROVE  Underway(req[s], parcel[s])' /\ Noted(s, req[s], parcel[s])'
  <2>1. PICK a, b : /\ a = req'[s] /\ b = parcel'[s]
                    /\ Underway(a, b) /\ Noted(s, a, b)
    BY <1>1 DEF Sorted, Accounted
  <2>2. Underway(a, b)'
    BY <1>2, <2>1 DEF Underway
  <2>3. Noted(s, a, b)'
    BY <1>2, <1>3, <2>1 DEF Noted
  <2> QED BY <2>1, <2>2, <2>3 DEF Underway, Noted, Blanked
<1>5. ASSUME NEW o \in Order, consignment'[o] # None
      PROVE  Told(o, consignment[o])'
  <2>1. Told(o, consignment[o])
    BY <1>2, <1>5 DEF Sorted, Accounted
  <2>2. PICK c : c = consignment[o] /\ c = consignment'[o]
    BY <1>2
  <2>3. Told(o, c)
    BY <2>1, <2>2
  <2>4. c.by \in Request /\ c.by # r
    BY <2>3 DEF Told
  <2>5. req'[c.by] = req[c.by] /\ parcel'[c.by] = parcel[c.by]
    BY <1>1, <2>4
  <2>6. Told(o, c)'
    BY <1>2, <2>3, <2>5, ToldStays
  <2> QED BY <2>2, <2>6 DEF Told
<1> QED BY <1>4, <1>5 DEF Accounted

(* A request goes on without touching its parcel or what it will answer.   *)
LEMMA Continues ==
  ASSUME Sorted, NEW r \in Request, req[r].pc \in Running,
         NEW q \in RequestDoc, Becomes(r, q),
         UNCHANGED <<vars, deployment, bill, consignment, parcel>>,
         q.order = req[r].order, q.stock = req[r].stock, q.moved = req[r].moved,
         q.before = req[r].before, q.auto = req[r].auto,
         q.pc \notin {"idle", "call"},
         q.pc = "patch" => req[r].pc = "patch",
         q.pc \in Unposted => req[r].pc \in Unposted,
         q.pc = "commit" => q.reply = "simulated" /\ ~live /\ req[r].pc = "load",
         q.pc \in {"done", "failed"} => q.unheard \/ req[r].pc \in Unposted
  PROVE  Accounted'
<1>1. Underway(req[r], parcel[r]) /\ Noted(r, req[r], parcel[r])
  BY DEF Sorted, Accounted
<1>2. Underway(q, parcel[r])
  BY <1>1 DEF Underway
<1>3. Noted(r, q, parcel[r])
  BY <1>1 DEF Noted, Underway
<1>4. parcel' = [parcel EXCEPT ![r] = parcel[r]] /\ UNCHANGED <<live, consignment>>
  BY DEF Sorted, Collecting, DispatchTyped, deployment
<1>5. req[r].pc # "done"
  BY DEF Running
<1> QED BY <1>2, <1>3, <1>4, <1>5, ParcelMoves

(* The steps on the database leave the requests alone.                     *)
LEMMA Unmoved ==
  ASSUME Sorted, UNCHANGED <<live, req, parcel, consignment>>
  PROVE  Accounted'
<1>1. /\ live' = live /\ req' = req /\ parcel' = parcel
      /\ consignment' = consignment /\ Accounted
  BY DEF Sorted
<1>2. \A r \in Request : Underway(req[r], parcel[r])' /\ Noted(r, req[r], parcel[r])'
  BY <1>1 DEF Accounted, Underway, Noted, Blanked
<1>3. ASSUME NEW o \in Order, consignment'[o] # None
      PROVE  Told(o, consignment[o])'
  <2>1. PICK c : c = consignment[o] /\ c = consignment'[o]
    BY <1>1
  <2>2. Told(o, c)
    BY <1>1, <1>3, <2>1 DEF Accounted
  <2>3. Told(o, c)'
    BY <1>1, <2>2, ToldStays
  <2> QED BY <2>1, <2>3 DEF Told
<1> QED BY <1>2, <1>3 DEF Accounted

-----------------------------------------------------------------------------
(* patchOrder                                                              *)

(* A request arrives and looks at the consignment of its order.            *)
LEMMA BeginAccounted ==
  ASSUME Sorted, NEW r \in Request, Begin(r)
  PROVE  Accounted'
<1>1. PICK w \in workload.work[r], o \in Order :
        /\ At(r, "idle") /\ Exists(o)
        /\ Becomes(r, [Idle EXCEPT !.pc = IF w.kind = "patch" THEN "patch" ELSE "load",
                                   !.order = o, !.body = w.body,
                                   !.before = Consigned(consignment[o])])
        /\ UNCHANGED <<vars, deployment, bill, consignment, parcel>>
  BY DEF Begin
<1> DEFINE pc == IF w.kind = "patch" THEN "patch" ELSE "load"
           before == Consigned(consignment[o])
           q == [Idle EXCEPT !.pc = pc, !.order = o, !.body = w.body, !.before = before]
<1>2. w \in Work
  BY WorkloadType DEF Sorted, Collecting, DispatchTyped
<1>3. pc \in {"patch", "load"}
  OBVIOUS
<1>4. before \in BOOLEAN /\ (before => consignment[o] # None)
  BY DEF Consigned
<1>5. Becomes(r, q)
  BY <1>1
<1> HIDE DEF pc, before
<1>6. /\ q \in RequestDoc /\ q.pc = pc /\ q.order = o /\ q.before = before
      /\ q.moved = "none" /\ q.auto = FALSE
  BY <1>2, <1>3, <1>4 DEF Idle, RequestDoc, Running, Movement
<1> HIDE DEF q
<1>7. req[r].pc = "idle" /\ parcel[r] = None
  BY <1>1 DEF Sorted, Accounted, Underway, Unposted, At
<1>8. Underway(q, parcel[r])
  BY <1>3, <1>6, <1>7 DEF Underway
<1>9. Noted(r, q, parcel[r])
  BY <1>3, <1>4, <1>6, <1>7 DEF Noted
<1>10. parcel' = [parcel EXCEPT ![r] = parcel[r]] /\ UNCHANGED <<live, consignment>>
  BY <1>1 DEF Sorted, Collecting, DispatchTyped, deployment
<1> QED BY <1>5, <1>6, <1>7, <1>8, <1>9, <1>10, ParcelMoves

(* An attempt that is run again has only said something.                   *)
LEMMA RerunAccounted ==
  ASSUME Sorted, NEW r \in Request, RerunPatch(r)
  PROVE  Accounted'
<1>1. /\ req[r] \in RequestDoc /\ req[r].pc = "patch"
      /\ Underway(req[r], parcel[r]) /\ Noted(r, req[r], parcel[r])
  BY AtWork DEF RerunPatch, At, Sorted, Accounted
<1> DEFINE said == Said(ActionOf(req[r].order, req[r].body), req[r].stock)
           n == req[r].reruns + 1
           q == [req[r] EXCEPT !.reruns = n, !.stock = said]
<1>2. said \in Movement /\ n \in Nat
  BY <1>1, SaidType DEF RequestDoc
<1>3. Becomes(r, q) /\ UNCHANGED <<vars, deployment, bill, consignment, parcel>>
  BY DEF RerunPatch
<1> HIDE DEF said, n
<1>4. /\ q \in RequestDoc /\ q.pc = "patch" /\ q.order = req[r].order
      /\ q.moved = req[r].moved /\ q.before = req[r].before /\ q.auto = req[r].auto
  BY <1>1, <1>2 DEF RequestDoc
<1> HIDE DEF q
<1>5. Underway(q, parcel[r])
  BY <1>1, <1>4 DEF Underway, Unposted
<1>6. Noted(r, q, parcel[r])
  BY <1>1, <1>4 DEF Noted
<1>7. parcel' = [parcel EXCEPT ![r] = parcel[r]] /\ UNCHANGED <<live, consignment>>
  BY <1>3 DEF Sorted, Collecting, DispatchTyped, deployment
<1> QED BY <1>1, <1>3, <1>4, <1>5, <1>6, <1>7, ParcelMoves

(* A patch moves stock only as its action says (setOrderStock).            *)
LEMMA StockMoves ==
  ASSUME Sound, NEW o \in Order, NEW body \in Patch, PatchOrder(o, body)
  PROVE  /\ order'[o].stockDeducted /\ ~order[o].stockDeducted
              => ActionOf(o, body) = "reserve"
         /\ order[o].stockDeducted /\ ~order'[o].stockDeducted
              => ActionOf(o, body) = "release"
<1> DEFINE d == Patched(order[o], body)
           action == StockActionForTransition(order[o].status, d.status)
<1>1. order \in [Order -> OrderDoc] /\ order[o] \in OrderDoc /\ order[o].status # "absent"
  BY DEF Sound, TypeOK, PatchOrder, Exists
<1>2. d \in OrderDoc /\ d.stockDeducted = order[o].stockDeducted
  BY <1>1, PatchedType
<1>3. action = ActionOf(o, body)
  BY DEF ActionOf
<1>4. \/ PatchMovingNothing(o, d, action)
      \/ PatchReleasing(o, d, action)
      \/ PatchReserving(o, d, action)
  BY DEF PatchOrder
<1> HIDE DEF d, action
<1>5. CASE PatchMovingNothing(o, d, action)
  BY <1>1, <1>2, <1>5 DEF PatchMovingNothing
<1>6. CASE PatchReleasing(o, d, action)
  <2>1. order' = [order EXCEPT ![o] = [d EXCEPT !.stockDeducted = FALSE]]
    BY <1>6 DEF PatchReleasing
  <2>2. order'[o].stockDeducted = FALSE
    BY <1>1, <1>2, <2>1 DEF OrderDoc
  <2> QED BY <1>3, <1>6, <2>2 DEF PatchReleasing
<1>7. CASE PatchReserving(o, d, action)
  <2>1. order' = [order EXCEPT ![o] = [d EXCEPT !.stockDeducted = TRUE]]
    BY <1>7 DEF PatchReserving
  <2>2. order'[o].stockDeducted = TRUE
    BY <1>1, <1>2, <2>1 DEF OrderDoc
  <2> QED BY <1>3, <1>7, <2>2 DEF PatchReserving
<1> QED BY <1>4, <1>5, <1>6, <1>7

LEMMA CommitAccounted ==
  ASSUME Sorted, NEW r \in Request, CommitPatch(r)
  PROVE  Accounted'
<1> DEFINE o == req[r].order
           action == ActionOf(o, req[r].body)
           pc == IF req[r].body.status \in {"processing", "shipped"} THEN "auto" ELSE "done"
           said == Said(action, req[r].stock)
           took == order'[o].stockDeducted /\ ~order[o].stockDeducted
           gave == order[o].stockDeducted /\ ~order'[o].stockDeducted
           moved == CASE took -> "deducted" [] gave -> "restored" [] OTHER -> "none"
           q == [req[r] EXCEPT !.pc = pc, !.stock = said, !.moved = moved]
<1>1. /\ req[r] \in RequestDoc /\ req[r].pc = "patch"
      /\ o \in Order /\ req[r].body \in Patch
      /\ Underway(req[r], parcel[r]) /\ Noted(r, req[r], parcel[r])
  BY AtWork DEF CommitPatch, At, Sorted, Accounted
<1>2. /\ PatchOrder(o, req[r].body) /\ Becomes(r, q)
      /\ UNCHANGED <<deployment, bill, consignment, parcel>>
  BY DEF CommitPatch
<1>3. (took => action = "reserve") /\ (gave => action = "release")
  BY <1>1, <1>2, StockMoves DEF Sorted, Collecting, DispatchTyped
<1>4. moved \in Movement /\ (moved # "none" => took \/ gave)
  BY DEF Movement
<1>5. moved # "none" => said = moved
  <2>1. CASE took
    BY <1>3, <2>1 DEF Said
  <2>2. CASE ~took /\ gave
    BY <1>3, <2>2 DEF Said
  <2> QED BY <1>4, <2>1, <2>2
<1>6. pc \in {"auto", "done"} /\ said \in Movement
  BY <1>1, SaidType DEF RequestDoc
<1> HIDE DEF pc, said, moved
<1>7. /\ q \in RequestDoc /\ q.pc = pc /\ q.order = o /\ q.stock = said
      /\ q.moved = moved /\ q.before = req[r].before /\ q.auto = req[r].auto
  BY <1>1, <1>4, <1>6 DEF RequestDoc, Running, Ended
<1> HIDE DEF q
<1>8. parcel[r] = None
  BY <1>1 DEF Underway, Unposted
<1>9. Underway(q, parcel[r])
  BY <1>5, <1>6, <1>7, <1>8 DEF Underway
<1>10. Noted(r, q, parcel[r])
  BY <1>1, <1>6, <1>7, <1>8 DEF Noted
<1>11. parcel' = [parcel EXCEPT ![r] = parcel[r]] /\ UNCHANGED <<live, consignment>>
  BY <1>2 DEF Sorted, Collecting, DispatchTyped, deployment
<1> QED BY <1>1, <1>2, <1>7, <1>9, <1>10, <1>11, ParcelMoves

(* The order had a consignment when the patch arrived and has none that    *)
(* counts now: another request has written one without an id.              *)
LEMMA AutoAccounted ==
  ASSUME Sorted, NEW r \in Request, AutoDispatch(r)
  PROVE  Accounted'
<1> DEFINE o == req[r].order
           q == [req[r] EXCEPT !.pc = "load", !.auto = TRUE]
<1>1. /\ req[r] \in RequestDoc /\ req[r].pc = "auto" /\ o \in Order
      /\ Underway(req[r], parcel[r]) /\ Noted(r, req[r], parcel[r])
  BY AtWork DEF AutoDispatch, At, Sorted, Accounted
<1>2. /\ ~Consigned(consignment[o]) /\ Becomes(r, q)
      /\ UNCHANGED <<vars, deployment, bill, consignment, parcel>>
  BY DEF AutoDispatch
<1>3. ASSUME req[r].before PROVE Blanked(r, o)
  <2>1. PICK c : c = consignment[o]
    OBVIOUS
  <2>2. c # None /\ c.id = ""
    BY <1>1, <1>2, <1>3, <2>1 DEF Noted, Consigned
  <2>3. Told(o, c)
    BY <1>1, <2>1, <2>2 DEF Sorted, Accounted
  <2>4. c.by # r
    BY <1>1, <2>3 DEF Told
  <2> QED BY <2>2, <2>3, <2>4 DEF Told, Blanked
<1>4. /\ q \in RequestDoc /\ q.pc = "load" /\ q.order = o /\ q.stock = req[r].stock
      /\ q.moved = req[r].moved /\ q.before = req[r].before
  BY ZenonT(40), <1>1 DEF RequestDoc, Running
<1> HIDE DEF q
<1>5. parcel[r] = None
  BY <1>1 DEF Underway, Unposted
<1>6. Underway(q, parcel[r])
  BY <1>1, <1>4, <1>5 DEF Underway
<1>7. Noted(r, q, parcel[r])
  BY <1>1, <1>3, <1>4, <1>5 DEF Noted
<1>8. parcel' = [parcel EXCEPT ![r] = parcel[r]] /\ UNCHANGED <<live, consignment>>
  BY <1>2 DEF Sorted, Collecting, DispatchTyped, deployment
<1> QED BY <1>1, <1>2, <1>4, <1>6, <1>7, <1>8, ParcelMoves

-----------------------------------------------------------------------------
(* dispatchOrder                                                           *)

(* What Failed leaves as it was.                                           *)
LEMMA FailedKeeps ==
  ASSUME NEW q \in RequestDoc, NEW unheard \in BOOLEAN
  PROVE  LET f == [Failed(q) EXCEPT !.unheard = unheard]
         IN  /\ f \in RequestDoc /\ f.pc \in {"done", "failed"} /\ f.unheard = unheard
             /\ f.order = q.order /\ f.stock = q.stock /\ f.moved = q.moved
             /\ f.before = q.before /\ f.auto = q.auto
             /\ unheard = q.unheard => f = Failed(q)
<1> DEFINE pc == IF q.auto THEN "done" ELSE "failed"
           g == [q EXCEPT !.pc = pc]
<1>1. pc \in {"done", "failed"}
  OBVIOUS
<1> HIDE DEF pc
<1>2. /\ g \in RequestDoc /\ g.pc = pc /\ g.unheard = q.unheard
      /\ g.order = q.order /\ g.stock = q.stock /\ g.moved = q.moved
      /\ g.before = q.before /\ g.auto = q.auto
  BY <1>1 DEF RequestDoc, Ended
<1>3. g = Failed(q)
  BY DEF Failed, pc
<1> HIDE DEF g
<1> DEFINE f == [g EXCEPT !.unheard = unheard]
<1>4. f \in RequestDoc
  BY ZenonT(40), <1>2 DEF RequestDoc
<1>5. /\ f.pc = g.pc /\ f.unheard = unheard
      /\ f.order = g.order /\ f.stock = g.stock /\ f.moved = g.moved
      /\ f.before = g.before /\ f.auto = g.auto
  BY <1>2 DEF RequestDoc
<1>6. unheard = g.unheard => f = g
  BY <1>2 DEF RequestDoc
<1> QED BY <1>1, <1>2, <1>3, <1>4, <1>5, <1>6

(* A request that ends without an answer to record: it had posted nothing, *)
(* or knows that it never heard.                                           *)
LEMMA Ends ==
  ASSUME Sorted, NEW r \in Request,
         \/ NotSent(r) \/ RefuseToken(r) \/ GiveUp(r) \/ FailRecord(r)
  PROVE  Accounted'
<1>1. /\ req[r].pc \in Running /\ req[r].pc # "patch"
      /\ UNCHANGED <<vars, deployment, bill, consignment, parcel>>
  BY DEF NotSent, RefuseToken, GiveUp, FailRecord, TimedOut, At, Running
<1>2. req[r] \in RequestDoc
  BY DEF Sorted, Collecting, DispatchTyped
<1>3. ASSUME NEW unheard \in BOOLEAN,
             Becomes(r, [Failed(req[r]) EXCEPT !.unheard = unheard]),
             unheard \/ req[r].pc \in Unposted
      PROVE  Accounted'
  <2> DEFINE q == [Failed(req[r]) EXCEPT !.unheard = unheard]
  <2>1. /\ q \in RequestDoc /\ q.pc \in {"done", "failed"} /\ q.unheard = unheard
        /\ q.order = req[r].order /\ q.stock = req[r].stock /\ q.moved = req[r].moved
        /\ q.before = req[r].before /\ q.auto = req[r].auto
    BY <1>2, FailedKeeps
  <2>2. Becomes(r, q)
    BY <1>3
  <2> HIDE DEF q
  <2> QED BY <1>1, <1>3, <2>1, <2>2, Continues DEF Unposted
<1>4. CASE NotSent(r) \/ RefuseToken(r)
  <2>1. req[r].unheard \in BOOLEAN
    BY <1>2 DEF RequestDoc
  <2>2. Becomes(r, [Failed(req[r]) EXCEPT !.unheard = req[r].unheard])
    BY <1>2, <1>4, <2>1, FailedKeeps DEF NotSent, RefuseToken
  <2>3. req[r].pc \in Unposted
    BY <1>4 DEF NotSent, RefuseToken, At, Unposted
  <2> QED BY <1>3, <2>1, <2>2, <2>3
<1>5. CASE GiveUp(r)
  <2> DEFINE unheard == At(r, "call")
  <2>1. unheard \in BOOLEAN /\ (unheard \/ req[r].pc \in Unposted)
    BY <1>5 DEF GiveUp, TimedOut, At, Unposted
  <2>2. Becomes(r, [Failed(req[r]) EXCEPT !.unheard = unheard])
    BY <1>5 DEF GiveUp
  <2> HIDE DEF unheard
  <2> QED BY <1>3, <2>1, <2>2
<1>6. CASE FailRecord(r)
  BY <1>3, <1>6 DEF FailRecord
<1> QED BY <1>4, <1>5, <1>6

(* A request that only changes its place, before it has posted anything or *)
(* because it is killed.                                                   *)
LEMMA Passes ==
  ASSUME Sorted, NEW r \in Request,
         FailPatch(r) \/ SkipAutoDispatch(r) \/ AskToken(r) \/ Kill(r)
  PROVE  Accounted'
<1>1. PICK pc \in {"failed", "done", "token", "dead"} :
        /\ Becomes(r, [req[r] EXCEPT !.pc = pc])
        /\ pc # "dead" => req[r].pc \in Unposted
        /\ req[r].pc \in Running
        /\ UNCHANGED <<vars, deployment, bill, consignment, parcel>>
  BY DEF FailPatch, SkipAutoDispatch, AskToken, Kill, At, Unposted, Running
<1>2. req[r] \in RequestDoc
  BY DEF Sorted, Collecting, DispatchTyped
<1> DEFINE q == [req[r] EXCEPT !.pc = pc]
<1>3. /\ q \in RequestDoc /\ q.pc = pc
      /\ q.order = req[r].order /\ q.stock = req[r].stock /\ q.moved = req[r].moved
      /\ q.before = req[r].before /\ q.auto = req[r].auto
  BY <1>2 DEF RequestDoc, Running, Ended
<1>4. Becomes(r, q)
  BY <1>1
<1> HIDE DEF q
<1> QED BY <1>1, <1>3, <1>4, Continues DEF Unposted

(* A simulated dispatch has nothing to post.                               *)
LEMMA LoadAccounted ==
  ASSUME Sorted, NEW r \in Request, LoadForDispatch(r)
  PROVE  Accounted'
<1>1. /\ req[r].pc = "load" /\ req[r] \in RequestDoc
      /\ bill[req[r].order] \in BillDoc
  BY AtWork DEF LoadForDispatch, At, Sorted
<1>2. PICK provider \in Provider :
        Becomes(r, [req[r] EXCEPT !.pc = IF live THEN "send" ELSE "commit",
                                  !.provider = provider,
                                  !.cod = CodAmount(bill[req[r].order]),
                                  !.reply = IF live THEN None ELSE "simulated"])
  BY DEF LoadForDispatch
<1>3. UNCHANGED <<vars, deployment, bill, consignment, parcel>>
  BY DEF LoadForDispatch
<1> DEFINE pc == IF live THEN "send" ELSE "commit"
           cod == CodAmount(bill[req[r].order])
           reply == IF live THEN None ELSE "simulated"
           q == [req[r] EXCEPT !.pc = pc, !.provider = provider, !.cod = cod,
                               !.reply = reply]
<1>4. /\ pc \in {"send", "commit"} /\ cod \in Nat /\ reply \in Reply \cup {None}
      /\ pc = "commit" => reply = "simulated" /\ ~live
  BY <1>1 DEF CodAmount, BillDoc, Reply
<1>5. Becomes(r, q)
  BY <1>2
<1> HIDE DEF pc, cod, reply
<1>6. /\ q \in RequestDoc /\ q.pc = pc /\ q.reply = reply
      /\ q.order = req[r].order /\ q.stock = req[r].stock /\ q.moved = req[r].moved
      /\ q.before = req[r].before /\ q.auto = req[r].auto
  BY <1>1, <1>4 DEF RequestDoc, Running
<1> HIDE DEF q
<1>7. req[r].pc \in Unposted /\ req[r].pc \in Running
  BY <1>1 DEF Unposted, Running
<1> QED BY <1>1, <1>3, <1>4, <1>5, <1>6, <1>7, Continues

(* The request waits for the answer about its parcel.                      *)
LEMMA PostAccounted ==
  ASSUME Sorted, NEW r \in Request, PostOrder(r)
  PROVE  Accounted'
<1>1. /\ req[r].pc \in {"send", "token"} /\ req[r] \in RequestDoc
      /\ req[r].order \in Order
      /\ Underway(req[r], parcel[r]) /\ Noted(r, req[r], parcel[r])
  BY AtWork DEF PostOrder, At, Sorted, Accounted
<1> DEFINE q == [req[r] EXCEPT !.pc = "call"]
           p == Posted(r)
<1>2. /\ Becomes(r, q) /\ parcel' = [parcel EXCEPT ![r] = p]
      /\ UNCHANGED <<live, consignment>>
  BY DEF PostOrder, deployment
<1>3. /\ q \in RequestDoc /\ q.pc = "call"
      /\ q.order = req[r].order /\ q.stock = req[r].stock /\ q.moved = req[r].moved
      /\ q.before = req[r].before /\ q.auto = req[r].auto
  BY <1>1 DEF RequestDoc, Running
<1>4. p # None
  <2>1. p \in [order : Order, cod : Nat, booked : BOOLEAN]
    BY <1>1 DEF Posted, RequestDoc
  <2> QED BY <2>1, NoneIsNoParcel
<1> HIDE DEF q, p
<1>5. Underway(q, p)
  BY <1>1, <1>3, <1>4 DEF Underway, Unposted
<1>6. Noted(r, q, p)
  BY <1>1, <1>3 DEF Noted
<1> QED BY <1>1, <1>2, <1>3, <1>5, <1>6, ParcelMoves

(* A success was booked, a refusal never will be, and an answer that tells *)
(* nothing of the booking is remembered as unheard.                        *)
LEMMA AnswerAccounted ==
  ASSUME Sorted, NEW r \in Request,
         NEW reply \in {"consigned", "unreadable", "refused", "error"}, Answer(r, reply)
  PROVE  Accounted'
<1>1. /\ req[r].pc = "call" /\ req[r] \in RequestDoc
      /\ Underway(req[r], parcel[r]) /\ Noted(r, req[r], parcel[r])
  BY AtWork DEF Answer, At, Sorted, Accounted
<1> DEFINE q == [req[r] EXCEPT !.reply = reply]
           done == [q EXCEPT !.pc = "commit"]
           unheard == reply # "refused"
           lost == [Failed(q) EXCEPT !.unheard = unheard]
           p == IF reply = "refused" THEN None ELSE parcel[r]
<1>2. /\ parcel' = [parcel EXCEPT ![r] = p] /\ UNCHANGED <<live, consignment>>
      /\ reply \in {"consigned", "unreadable"} => parcel[r].booked
      /\ \/ Success(reply, q.provider) /\ Becomes(r, done)
         \/ ~Success(reply, q.provider) /\ Becomes(r, lost)
  BY DEF Answer, deployment
<1>3. /\ q \in RequestDoc /\ q.reply = reply /\ q.provider = req[r].provider
      /\ q.order = req[r].order /\ q.stock = req[r].stock /\ q.moved = req[r].moved
      /\ q.before = req[r].before /\ q.auto = req[r].auto
  BY <1>1 DEF RequestDoc, Reply
<1>4. unheard \in BOOLEAN
  OBVIOUS
<1>5. parcel[r] # None
  BY <1>1 DEF Underway
<1> HIDE DEF q
<1>6. CASE Success(reply, q.provider) /\ Becomes(r, done)
  <2>1. /\ reply \in {"consigned", "unreadable"}
        /\ reply = "unreadable" => q.provider = "steadfast"
    BY <1>6 DEF Success
  <2>2. p # None /\ p.booked
    BY <1>2, <1>5, <2>1
  <2>3. /\ done \in RequestDoc /\ done.pc = "commit" /\ done.reply = reply
        /\ done.provider = q.provider
        /\ done.order = req[r].order /\ done.stock = req[r].stock
        /\ done.moved = req[r].moved /\ done.before = req[r].before
        /\ done.auto = req[r].auto
    BY <1>3 DEF RequestDoc, Running
  <2> HIDE DEF done, p
  <2>4. Underway(done, p)
    BY <1>1, <2>1, <2>2, <2>3 DEF Underway, Unposted
  <2>5. Noted(r, done, p)
    BY <1>1, <2>3 DEF Noted
  <2> QED BY <1>1, <1>2, <1>6, <2>3, <2>4, <2>5, ParcelMoves
<1>7. CASE ~Success(reply, q.provider) /\ Becomes(r, lost)
  <2>1. p = None \/ unheard = TRUE
    BY <1>7 DEF Success
  <2> HIDE DEF unheard
  <2>2. /\ lost \in RequestDoc /\ lost.pc \in {"done", "failed"} /\ lost.unheard = unheard
        /\ lost.order = req[r].order /\ lost.stock = req[r].stock
        /\ lost.moved = req[r].moved /\ lost.before = req[r].before
        /\ lost.auto = req[r].auto
    BY <1>3, <1>4, FailedKeeps
  <2> HIDE DEF lost, p
  <2>3. Underway(lost, p)
    BY <1>1, <2>2 DEF Underway, Unposted
  <2>4. Noted(r, lost, p)
    BY <1>1, <2>1, <2>2 DEF Noted
  <2> QED BY <1>1, <1>2, <1>7, <2>2, <2>3, <2>4, ParcelMoves
<1> QED BY <1>2, <1>6, <1>7

(* A booking adds to what was posted and takes nothing back.               *)
LEMMA BookAccounted ==
  ASSUME Sorted, NEW r \in Request, Book(r)
  PROVE  Accounted'
<1> DEFINE p == [parcel[r] EXCEPT !.booked = TRUE]
<1>1. /\ parcel' = [parcel EXCEPT ![r] = p] /\ parcel[r] # None
      /\ live' = live /\ req' = req /\ consignment' = consignment
  BY DEF Book, deployment
<1>2. /\ parcel \in [Request -> ParcelDoc \cup {None}] /\ parcel[r] \in ParcelDoc
  BY <1>1 DEF Sorted, Collecting, DispatchTyped
<1>3. p \in ParcelDoc /\ p.booked = TRUE
  BY <1>2 DEF ParcelDoc
<1>4. p # None
  BY <1>3, NoneIsNoParcel DEF ParcelDoc
<1> HIDE DEF p
<1>5. ASSUME NEW s \in Request
      PROVE  /\ parcel'[s] = None <=> parcel[s] = None
             /\ parcel[s] # None /\ parcel[s].booked => parcel'[s].booked
  BY <1>1, <1>2, <1>3, <1>4
<1>6. ASSUME NEW s \in Request
      PROVE  Underway(req[s], parcel[s])' /\ Noted(s, req[s], parcel[s])'
  <2>1. Underway(req[s], parcel[s]) /\ Noted(s, req[s], parcel[s])
    BY DEF Sorted, Accounted
  <2>2. PICK q, a, b : q = req[s] /\ a = parcel[s] /\ b = parcel'[s]
    OBVIOUS
  <2>3. /\ (b = None <=> a = None) /\ (a # None /\ a.booked => b.booked)
        /\ Underway(q, a) /\ Noted(s, q, a)
    BY <1>5, <2>1, <2>2
  <2>4. Underway(q, b)
    BY <2>3 DEF Underway
  <2>5. Noted(s, q, b)
    BY <2>3 DEF Noted
  <2>6. Underway(q, b)'
    BY <1>1, <2>4 DEF Underway
  <2>7. Noted(s, q, b)'
    BY <1>1, <2>5 DEF Noted, Blanked
  <2>8. q = req'[s]
    BY <1>1, <2>2
  <2> QED BY <2>2, <2>6, <2>7, <2>8 DEF Underway, Noted, Blanked
<1>7. ASSUME NEW o \in Order, consignment'[o] # None
      PROVE  Told(o, consignment[o])'
  <2>1. PICK c : c = consignment[o] /\ c = consignment'[o]
    BY <1>1
  <2>2. Told(o, c)
    BY <1>1, <1>7, <2>1 DEF Sorted, Accounted
  <2>3. c.by \in Request
    BY <2>2 DEF Told
  <2>4. /\ req'[c.by] = req[c.by]
        /\ live' => parcel'[c.by] # None /\ parcel'[c.by].booked
    <3>1. ASSUME live' PROVE parcel'[c.by] # None /\ parcel'[c.by].booked
      <4>1. live
        BY <1>1, <3>1
      <4> QED BY <1>5, <2>2, <2>3, <4>1 DEF Told
    <3> QED BY <1>1, <3>1
  <2>5. Told(o, c)'
    BY <2>2, <2>4 DEF Told
  <2> QED BY <2>1, <2>5 DEF Told
<1> QED BY <1>6, <1>7 DEF Accounted

(* The consignment is written, and its request is done.                    *)
LEMMA RecordAccounted ==
  ASSUME Sorted, NEW r \in Request, RecordDispatch(r)
  PROVE  Accounted'
<1> DEFINE o == req[r].order
           q == [req[r] EXCEPT !.pc = "done"]
           c == [by |-> r, id |-> ConsignmentId(req[r].reply)]
<1>1. /\ req[r].pc = "commit" /\ req[r] \in RequestDoc /\ o \in Order
      /\ Underway(req[r], parcel[r]) /\ Noted(r, req[r], parcel[r])
  BY AtWork DEF RecordDispatch, At, Sorted, Accounted
<1>2. /\ Becomes(r, q) /\ consignment' = [consignment EXCEPT ![o] = c]
      /\ live' = live /\ parcel' = parcel
  BY DEF RecordDispatch, deployment
<1>3. /\ q.pc = "done" /\ q.order = o /\ q.stock = req[r].stock /\ q.moved = req[r].moved
      /\ q.reply = req[r].reply /\ q.provider = req[r].provider
      /\ q.before = req[r].before /\ q.auto = req[r].auto
  BY <1>1 DEF RequestDoc
<1>4. c.by = r /\ (c.id = "" => req[r].reply = "unreadable")
  BY <1>1 DEF ConsignmentId, Underway
<1>5. c # None
  <2>1. c \in [by : Request, id : {"SIM", "", "consignment"}]
    BY DEF ConsignmentId
  <2> QED BY <2>1, NoneIsNoParcel
<1> HIDE DEF q, c
<1>6. /\ \A s \in Request : req'[s] = IF s = r THEN q ELSE req[s]
      /\ \A x \in Order : consignment'[x] = IF x = o THEN c ELSE consignment[x]
  BY <1>1, <1>2 DEF Sorted, Collecting, DispatchTyped, Becomes
<1>7. ASSUME NEW s \in Request, NEW x, Blanked(s, x) PROVE Blanked(s, x)'
  BY <1>1, <1>6, <1>7 DEF Blanked
<1>8. ASSUME NEW s \in Request
      PROVE  Underway(req[s], parcel[s])' /\ Noted(s, req[s], parcel[s])'
  <2>1. Underway(req[s], parcel[s]) /\ Noted(s, req[s], parcel[s])
    BY DEF Sorted, Accounted
  <2>2. PICK a, b : a = req'[s] /\ b = parcel'[s] /\ b = parcel[s]
    BY <1>2
  <2>3. a.before => a.pc # "idle" /\ a.order \in Order
    <3>1. ASSUME s # r, req[s].pc # "idle" PROVE req[s].order \in Order
      BY <3>1, AtWork DEF Sorted
    <3> QED BY <1>1, <1>3, <1>6, <2>1, <2>2, <3>1 DEF Noted
  <2>4. Underway(a, b)
    <3>1. CASE s = r
      BY <1>1, <1>3, <1>6, <2>2, <3>1 DEF Underway, Unposted
    <3>2. CASE s # r
      BY <1>6, <2>1, <2>2, <3>2
    <3> QED BY <3>1, <3>2
  <2>5. Underway(a, b)'
    BY <1>2, <2>4 DEF Underway
  <2>6. Noted(s, a, b)'
    <3>1. CASE s = r
      BY <1>1, <1>3, <1>5, <1>6, <1>7, <2>1, <2>2, <3>1 DEF Noted
    <3>2. CASE s # r
      <4>1. a = req[s]
        BY <1>6, <2>2, <3>2
      <4>2. a.pc # "idle" => a.order \in Order
        BY <4>1, AtWork DEF Sorted
      <4>3. \A x \in Order : consignment[x] # None => consignment'[x] # None
        BY <1>5, <1>6
      <4> QED BY <1>7, <2>1, <2>2, <4>1, <4>2, <4>3 DEF Noted
    <3> QED BY <3>1, <3>2
  <2> QED BY <2>2, <2>5, <2>6 DEF Underway, Noted, Blanked
<1>9. ASSUME NEW x \in Order, consignment'[x] # None
      PROVE  Told(x, consignment[x])'
  <2>1. CASE x = o
    <3>1. ASSUME live' PROVE parcel'[r] # None /\ parcel'[r].booked
      <4>1. live
        BY <1>2, <3>1
      <4> QED BY <1>1, <1>2, <4>1 DEF Underway
    <3>2. PICK d : d = c /\ d = consignment'[x]
      BY <1>6, <2>1
    <3>3. /\ req'[r].pc = "done" /\ req'[r].order = x
          /\ d.id = "" => req'[r].reply = "unreadable" /\ req'[r].provider = "steadfast"
      BY <1>1, <1>3, <1>4, <1>6, <2>1, <3>2 DEF Underway
    <3>4. d.by = r
      BY <1>4, <3>2
    <3>5. Told(x, d)'
      BY <3>1, <3>3, <3>4 DEF Told
    <3> QED BY <3>2, <3>5 DEF Told
  <2>2. CASE x # o
    <3>1. PICK d : d = consignment[x] /\ d = consignment'[x]
      BY <1>6, <2>2
    <3>2. Told(x, d)
      BY <1>9, <3>1 DEF Sorted, Accounted
    <3>3. d.by \in Request /\ d.by # r
      BY <1>1, <3>2 DEF Told
    <3>4. Told(x, d)'
      BY <1>2, <1>6, <3>2, <3>3, ToldStays
    <3> QED BY <3>1, <3>4 DEF Told
  <2> QED BY <2>1, <2>2
<1> QED BY <1>8, <1>9 DEF Accounted

-----------------------------------------------------------------------------
(* Every step keeps the invariant                                          *)

LEMMA StepSorted ==
  Sorted /\ [DispatchNext]_<<vars, dispatchVars>> => Sorted'
<1> SUFFICES ASSUME Sorted, [DispatchNext]_<<vars, dispatchVars>>
             PROVE  Accounted'
  BY StepCollecting DEF Sorted
<1>1. ASSUME NEW r \in Request, RequestStep(r) PROVE Accounted'
  BY <1>1, RerunAccounted, CommitAccounted, AutoAccounted, Passes, Ends,
     LoadAccounted, PostAccounted, RecordAccounted DEF RequestStep
<1>2. ASSUME NEW r \in Request, Begin(r) \/ CourierStep(r) \/ Kill(r)
      PROVE  Accounted'
  BY <1>2, BeginAccounted, Passes, Ends, PostAccounted, BookAccounted,
     AnswerAccounted DEF CourierStep
<1>3. ASSUME NEW o \in Order, Checkout(o) \/ OtherOrderStep(o)
      PROVE  Accounted'
  <2>1. CASE Checkout(o)
    <3>1. UNCHANGED <<deployment, req, consignment, parcel>>
      BY <2>1, CheckoutPlaces DEF Sorted, Collecting, DispatchTyped
    <3> QED BY <3>1, Unmoved DEF deployment
  <2>2. CASE OtherOrderStep(o)
    BY <2>2, Unmoved DEF OtherOrderStep, dispatchVars, deployment
  <2> QED BY <1>3, <2>1, <2>2
<1>4. CASE UNCHANGED <<vars, dispatchVars>>
  BY <1>4, Unmoved DEF dispatchVars, deployment
<1> QED BY <1>1, <1>2, <1>3, <1>4 DEF DispatchNext

LEMMA SpecSorted == DispatchSpec => []Sorted
<1>1. DispatchInit => Sorted
  BY InitCollecting, InitAccounted DEF Sorted
<1> QED BY <1>1, StepSorted, PTL DEF DispatchSpec

-----------------------------------------------------------------------------
(* Results                                                                 *)

(* With live integrations the consignment of an order is a parcel the      *)
(* courier has booked for that order, and a parcel goes unrecorded only    *)
(* with a request that is running, was killed, gave up waiting, got an     *)
(* unreadable answer or could not save (dispatchOrder and its adapters).   *)
THEOREM ParcelsAreAccounted == DispatchSpec => []ParcelsAccounted
<1>1. Sorted => ParcelsAccounted
  <2> SUFFICES ASSUME Sorted PROVE ParcelsAccounted
    OBVIOUS
  <2>1. ASSUME live, NEW o \in Order, consignment[o] # None
        PROVE  LET p == parcel[consignment[o].by]
               IN  p # None /\ p.order = o /\ p.booked
    <3>1. PICK s \in Request : s = consignment[o].by
      BY <2>1 DEF Sorted, Accounted, Told
    <3>2. /\ req[s].order = o
          /\ parcel[s] # None /\ parcel[s].booked
      BY <2>1, <3>1 DEF Sorted, Accounted, Told
    <3>3. parcel[s].order = req[s].order
      BY <3>2 DEF Sorted, Collecting, Right
    <3> QED BY <3>1, <3>2, <3>3
  <2>2. ASSUME NEW r \in Request,
               parcel[r] # None, req[r].pc \in {"done", "failed"}, ~req[r].unheard
        PROVE  consignment[parcel[r].order] # None
    <3>1. parcel[r].order = req[r].order
      BY <2>2 DEF Sorted, Collecting, Right
    <3>2. consignment[req[r].order] # None
      BY <2>2 DEF Sorted, Accounted, Noted
    <3> QED BY <3>1, <3>2
  <2> QED BY <2>1, <2>2 DEF ParcelsAccounted
<1> QED BY <1>1, SpecSorted, PTL

(* order.service.ts:253: the automatic dispatch looks the consignment up   *)
(* again, so an order that had one when the patch arrived is sent again    *)
(* only if a manual dispatch has since recorded one without an id.         *)
THEOREM AutomaticNeverResends == DispatchSpec => []AutoNeverResends
<1>1. Sorted => AutoNeverResends
  <2> SUFFICES ASSUME Sorted, NEW r \in Request, req[r].auto, req[r].before
               PROVE  \E s \in Request \ {r} : /\ req[s].order = req[r].order
                                               /\ req[s].reply = "unreadable"
                                               /\ req[s].provider = "steadfast"
    BY DEF AutoNeverResends
  <2>1. Blanked(r, req[r].order)
    BY DEF Sorted, Accounted, Noted
  <2> QED BY <2>1 DEF Blanked
<1> QED BY <1>1, SpecSorted, PTL

(* order.service.ts:259: stockEffect lives outside the callback of the     *)
(* transaction and keeps what an aborted attempt wrote, yet a patch that   *)
(* moved stock answers the way it moved it.                                *)
THEOREM StockIsAnswered == DispatchSpec => []StockAnswered
<1>1. Sorted => StockAnswered
  BY DEF Sorted, Accounted, Underway, StockAnswered
<1> QED BY <1>1, SpecSorted, PTL

=============================================================================
