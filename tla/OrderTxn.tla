------------------------------ MODULE OrderTxn ------------------------------
(***************************************************************************)
(* The requests that write orders, statement by statement: createOrder,    *)
(* patchOrder and the expiry cron, each inside withTransaction, which runs *)
(* its callback on a snapshot and runs it again on a transient error.      *)
(*                                                                         *)
(* The transactions are MongoDB's: statements read the snapshot and the    *)
(* transaction's own writes; a write to a document that another open       *)
(* transaction wrote, or that changed since the snapshot, is a             *)
(* WriteConflict.  A request may crash anywhere; its transaction is then   *)
(* aborted by the server.  Audit rows are written outside the session.     *)
(***************************************************************************)
EXTENDS Integers, FiniteSets, FiniteSetsExt

CONSTANTS
  Checkout, Patcher, Cron,  \* requests: createOrder, patchOrder, the cron
  Product,                  \* ids as numbers: stock.service.ts sorts them
  Order, Coupon, TrxId, Cart, MaxQuantity, Patch, None,
  Seed,                     \* the imported orders and their documents
  InitialStock, UsageLimit, \* of each product, of each coupon
  CheckoutInput,            \* what checkouts ask for: cart, trx, coupon
  Ageing, Archivable,       \* orders and products the environment may touch
  MaxRuns,                  \* runs of one callback before the driver gives up
  MaxIds                    \* MAX_ID_ATTEMPTS

Request  == Checkout \cup Patcher \cup Cron
Imported == DOMAIN Seed
Key == ({"product"} \X Product) \cup ({"order"} \X Order)
         \cup ({"coupon"} \X Coupon) \cup ({"trx"} \X TrxId)

VARIABLES
  db,       \* the committed documents
  input,    \* what each request asks for
  pc,       \* the statement each request is at
  id,       \* the order each request works on
  ids,      \* order ids a checkout has drawn
  runs,     \* runs of the current callback
  view,     \* snapshot of the open transaction, with its own writes
  wrote,    \* documents the open transaction has written
  missed,   \* documents committed by others since the snapshot
  moving,   \* the order whose stock is being moved
  todo,     \* products whose stock is still to be moved
  expired,  \* orders the request has expired, not audited yet
  audit     \* rows of the audit log

txnVars == <<view, wrote, missed, moving, todo>>
vars == <<db, input, pc, id, ids, runs, txnVars, expired, audit>>

Supply ==
  [p \in Product |->
     InitialStock + Cardinality({u \in Imported \X (1 .. MaxQuantity) :
                                   /\ Seed[u[1]].stockDeducted
                                   /\ u[2] <= Seed[u[1]].items[p]})]

Store ==
  INSTANCE OrderStore WITH
    stockCount <- db.stock, inStock <- [p \in Product |-> db.stock[p] > 0],
    archived <- db.archived, draft <- << >>, order <- db.order,
    coupon <- db.coupon, supply <- Supply, verified <- Imported,
    ImportedDoc <- {Seed[o] : o \in Imported}, Admin <- {},
    Choice <- {"FULL_COD"}, StockInput <- {InitialStock}, LimitInput <- {UsageLimit}

ASSUME ProductsAreSorted == Product \subseteq Nat
ASSUME CheckoutInputs ==
  CheckoutInput \subseteq
    [cart : Cart, trx : TrxId \cup {None}, coupon : Coupon \cup {None}]
ASSUME BoundsArePositive ==
  MaxRuns \in Nat \ {0} /\ MaxIds \in Nat \ {0} /\ MaxQuantity \in Nat
ASSUME RequestsApart ==
  /\ IsFiniteSet(Checkout)
  /\ Checkout \cap Patcher = {} /\ Checkout \cap Cron = {} /\ Patcher \cap Cron = {}
ASSUME InputsAreDocuments ==
  /\ Cart \subseteq [Product -> 0 .. MaxQuantity]
  /\ \A c \in Cart : \E p \in Product : c[p] > 0
  /\ InitialStock \in Nat /\ UsageLimit \in Nat \cup {None}
  /\ \A b \in Patch :
       /\ b.status \in Store!OrderStatus \cup {None}
       /\ b.toggleFakeSuspicion \in BOOLEAN
       /\ b.deliveryPaymentStatus \in Store!PaymentStatus \cup {None}
ASSUME SeedsAreOrders ==
  /\ IsFiniteSet(Order) /\ Imported \subseteq Order
  /\ \A o \in Imported : Seed[o] \in Store!OrderDoc /\ Seed[o].status # "absent"
ASSUME EnvironmentTouchesDocuments ==
  Ageing \subseteq Order /\ Archivable \subseteq Product
ASSUME NoneIsNoId ==
  None \notin Order \cup Coupon \cup TrxId
                \cup [stock : [Product -> Nat], archived : [Product -> BOOLEAN],
                      order : [Order -> Store!OrderDoc],
                      coupon : [Coupon -> Store!CouponDoc]]

Final == {"done", "refused", "failed", "crashed"}

(* A transaction is open from its snapshot to its commit or abort. *)
Open(t) == view[t] # None

-----------------------------------------------------------------------------
(* Transactions *)

Conflicts(t, k) == k \in missed[t] \/ \E u \in Request \ {t} : k \in wrote[u]

(* The transaction of t ends, and t goes on at the given statement. *)
Close(t, at) ==
  /\ pc' = [pc EXCEPT ![t] = at]
  /\ view' = [view EXCEPT ![t] = None]
  /\ wrote' = [wrote EXCEPT ![t] = {}]
  /\ moving' = [moving EXCEPT ![t] = None]
  /\ todo' = [todo EXCEPT ![t] = {}]

Forget(t) == missed' = [missed EXCEPT ![t] = {}]

(* The callback threw: nothing it wrote through the session remains. *)
Abort(t, at) ==
  /\ Close(t, at) /\ Forget(t)
  /\ UNCHANGED <<db, input, id, audit>>

(* One statement writes the documents ks; new is what t sees afterwards. *)
Write(t, ks, new) ==
  /\ \A k \in ks : ~Conflicts(t, k)
  /\ view' = [view EXCEPT ![t] = new]
  /\ wrote' = [wrote EXCEPT ![t] = @ \cup ks]
  /\ UNCHANGED <<db, input, id, ids, runs, missed, audit>>

(* The documents the next statement of t writes. *)
Wants(t) ==
  CASE pc[t] = "redeem" -> {<<"coupon", input[t].coupon>>}
    [] pc[t] = "save"   -> {<<"order", id[t]>>}
    [] pc[t] \in {"release", "reserve"} -> {<<"product", Min(todo[t])>>}
    [] pc[t] = "insert" -> {<<"order", id[t]>>}
                             \cup ({"trx"} \X ({input[t].trx} \ {None}))
    [] OTHER            -> {}

-----------------------------------------------------------------------------
(* Statements shared by the three requests *)

Lines(items) == {p \in Product : items[p] > 0}

(* The stale orders a request expires: the cron all of them, a checkout    *)
(* those with one of its products.                                         *)
Stale(t) ==
  {o \in Order :
     LET d == view[t].order[o]
     IN  /\ d.status = "pending" /\ ~d.deleted /\ d.aged
         /\ t \in Checkout => Lines(d.items) \cap Lines(input[t].cart) # {}}

AfterRelease(t) == IF t \in Checkout THEN "expire" ELSE "commit"
AfterReserve(t) == IF t \in Checkout THEN "insert" ELSE "commit"

(* Goes on with the stock of order o, or at next when there is none to move. *)
MoveLines(t, o, ps, how, next) ==
  /\ moving' = [moving EXCEPT ![t] = o]
  /\ todo' = [todo EXCEPT ![t] = ps]
  /\ pc' = [pc EXCEPT ![t] = IF ps = {} THEN next ELSE how]

(* Mutant of HeldLines: the release is forgotten. *)
HeldLinesNone(d) == {}

HeldLines(d) == IF d.stockDeducted THEN Lines(d.items) ELSE {}

(* expireOneIfStale: flips one stale order.  Its stock flag is cleared     *)
(* last, in a document this transaction has already written.               *)
ExpireOne(t, o) ==
  LET d == view[t].order[o]
  IN  /\ pc[t] = "expire" /\ o \in Stale(t)
      /\ Write(t, {<<"order", o>>}, [view[t] EXCEPT !.order[o] = Store!Expired(d)])
      /\ MoveLines(t, o, HeldLines(d), "release", AfterRelease(t))
      /\ expired' = IF t \in Checkout THEN [expired EXCEPT ![t] = @ \cup {o}]
                    ELSE expired

ExpiryConflict(t) ==
  /\ pc[t] = "expire"
  /\ \E o \in Stale(t) : Conflicts(t, <<"order", o>>)

(* releaseStock, one product *)
ReleaseLine(t) ==
  LET p == Min(todo[t])
      n == view[t].order[moving[t]].items[p]
  IN  /\ pc[t] = "release"
      /\ Write(t, {<<"product", p>>}, [view[t] EXCEPT !.stock[p] = @ + n])
      /\ MoveLines(t, moving[t], todo[t] \ {p}, "release", AfterRelease(t))
      /\ UNCHANGED expired

(* What reserveStock takes: the lines of the checkout, or of the order. *)
Wanted(t) ==
  IF t \in Checkout THEN input[t].cart ELSE view[t].order[moving[t]].items

(* Mutant of InStock: the count is left out of the filter. *)
InStockUnguarded(t, p) == ~view[t].archived[p]

InStock(t, p) == ~view[t].archived[p] /\ view[t].stock[p] >= Wanted(t)[p]

(* reserveStock, one product: the guarded update ... *)
ReserveLine(t) ==
  LET p == Min(todo[t])
  IN  /\ pc[t] = "reserve" /\ InStock(t, p)
      /\ Write(t, {<<"product", p>>}, [view[t] EXCEPT !.stock[p] = @ - Wanted(t)[p]])
      /\ MoveLines(t, moving[t], todo[t] \ {p}, "reserve", AfterReserve(t))
      /\ UNCHANGED expired

(* ... or the 409 when it matches nothing. *)
RefuseLine(t) ==
  /\ pc[t] = "reserve" /\ ~InStock(t, Min(todo[t]))
  /\ Abort(t, "refused")
  /\ UNCHANGED <<ids, runs, expired>>

-----------------------------------------------------------------------------
(* createOrder *)

(* Another id for another attempt, each with a transaction of its own. *)
DrawId(t, o) ==
  /\ pc[t] = "draw"
  /\ id' = [id EXCEPT ![t] = o]
  /\ ids' = [ids EXCEPT ![t] = @ + 1]
  /\ runs' = [runs EXCEPT ![t] = 0]
  /\ pc' = [pc EXCEPT ![t] = "begin"]
  /\ UNCHANGED <<db, input, txnVars, expired, audit>>

(* The snapshot is taken by the first read: the products of the cart. *)
BeginCheckout(t) ==
  /\ t \in Checkout /\ pc[t] = "begin"
  /\ \A p \in Lines(input[t].cart) : ~db.archived[p]
  /\ view' = [view EXCEPT ![t] = db]
  /\ runs' = [runs EXCEPT ![t] = @ + 1]
  /\ expired' = [expired EXCEPT ![t] = {}]
  /\ pc' = [pc EXCEPT ![t] = IF input[t].coupon = None THEN "expire" ELSE "redeem"]
  /\ UNCHANGED <<db, input, id, ids, wrote, missed, moving, todo, audit>>

(* PRODUCT_UNAVAILABLE *)
RefuseCheckout(t) ==
  /\ t \in Checkout /\ pc[t] = "begin"
  /\ \E p \in Lines(input[t].cart) : db.archived[p]
  /\ Abort(t, "refused")
  /\ UNCHANGED <<ids, runs, expired>>

(* redeemCoupon looks the coupon up outside the session, then increments   *)
(* it in a guarded update inside.                                          *)
HasUses(coupon, c) ==
  /\ coupon[c].active /\ ~coupon[c].deleted
  /\ coupon[c].usageLimit # None => coupon[c].timesUsed < coupon[c].usageLimit

RedeemUse(t) ==
  LET c == input[t].coupon
  IN  /\ pc[t] = "redeem"
      /\ HasUses(db.coupon, c) /\ HasUses(view[t].coupon, c)
      /\ Write(t, {<<"coupon", c>>}, [view[t] EXCEPT !.coupon[c].timesUsed = @ + 1])
      /\ pc' = [pc EXCEPT ![t] = "expire"]
      /\ UNCHANGED <<moving, todo, expired>>

RefuseCoupon(t) ==
  /\ pc[t] = "redeem"
  /\ ~HasUses(db.coupon, input[t].coupon) \/ ~HasUses(view[t].coupon, input[t].coupon)
  /\ Abort(t, "refused")
  /\ UNCHANGED <<ids, runs, expired>>

(* The expiry hook of reserveStock ends by auditing, outside the session, *)
(* what it expired inside it.                                              *)
AuditExpiries(t) ==
  audit' = audit \cup ({"order.auto_expired"} \X expired[t])

StartReserving(t) ==
  /\ t \in Checkout /\ pc[t] = "expire" /\ Stale(t) = {}
  /\ MoveLines(t, None, Lines(input[t].cart), "reserve", "insert")
  /\ AuditExpiries(t)
  /\ expired' = [expired EXCEPT ![t] = {}]
  /\ UNCHANGED <<db, input, id, ids, runs, view, wrote, missed>>

(* Mutant of Duplicate: a document under the same id is overwritten. *)
DuplicateTrx(t) ==
  /\ input[t].trx # None
  /\ \E o \in Order : view[t].order[o].bkashTrxId = input[t].trx

(* Unique indexes: the order id and the bKash id. *)
Duplicate(t) ==
  \/ view[t].order[id[t]].status # "absent"
  \/ /\ input[t].trx # None
     /\ \E o \in Order : view[t].order[o].bkashTrxId = input[t].trx

InsertOrder(t) ==
  /\ pc[t] = "insert" /\ ~Duplicate(t)
  /\ Write(t, Wants(t),
           [view[t] EXCEPT !.order[id[t]] =
              Store!NewOrder(input[t].cart, "FULL_COD", FALSE,
                             input[t].trx, input[t].coupon)])
  /\ pc' = [pc EXCEPT ![t] = "commit"]
  /\ UNCHANGED <<moving, todo, expired>>

(* Error 11000 is taken for a collision of the id: another one is tried. *)
InsertDuplicate(t) ==
  /\ pc[t] = "insert" /\ Duplicate(t)
  /\ Abort(t, IF ids[t] < MaxIds THEN "draw" ELSE "failed")
  /\ UNCHANGED <<ids, runs, expired>>

-----------------------------------------------------------------------------
(* patchOrder *)

BeginPatch(t) ==
  LET d == db.order[id[t]]
  IN  /\ t \in Patcher /\ pc[t] = "begin"
      /\ d.status # "absent" /\ ~d.deleted
      /\ view' = [view EXCEPT ![t] = db]
      /\ runs' = [runs EXCEPT ![t] = @ + 1]
      /\ pc' = [pc EXCEPT ![t] = "save"]
      /\ UNCHANGED <<db, input, id, ids, wrote, missed, moving, todo, expired, audit>>

(* ORDER_NOT_FOUND *)
RefusePatch(t) ==
  /\ t \in Patcher /\ pc[t] = "begin"
  /\ db.order[id[t]].status = "absent" \/ db.order[id[t]].deleted
  /\ Abort(t, "refused")
  /\ UNCHANGED <<ids, runs, expired>>

(* Mutant of Flips: the filter on stockDeducted is the wrong way round. *)
FlipsInverted(action, d) ==
  \/ action = "release" /\ ~d.stockDeducted
  \/ action = "reserve" /\ d.stockDeducted

(* setOrderStock moves stock only for an order in the opposite state. *)
Flips(action, d) ==
  \/ action = "release" /\ d.stockDeducted
  \/ action = "reserve" /\ ~d.stockDeducted

(* save(), and the flip of stockDeducted in the same document *)
SavePatch(t) ==
  LET o == id[t]
      before == view[t].order[o]
      d == Store!Patched(before, input[t])
      action == Store!StockActionForTransition(before.status, d.status)
      flips == Flips(action, before)
  IN  /\ pc[t] = "save"
      /\ Write(t, IF d = before THEN {} ELSE {<<"order", o>>},
               [view[t] EXCEPT !.order[o] =
                  IF flips THEN [d EXCEPT !.stockDeducted = ~@] ELSE d])
      /\ MoveLines(t, o, IF flips THEN Lines(d.items) ELSE {}, action, "commit")
      /\ UNCHANGED expired

-----------------------------------------------------------------------------
(* The cron: a transaction for each order, until one finds none *)

BeginCron(t) ==
  /\ t \in Cron /\ pc[t] = "begin"
  /\ view' = [view EXCEPT ![t] = db]
  /\ runs' = [runs EXCEPT ![t] = @ + 1]
  /\ pc' = [pc EXCEPT ![t] = "expire"]
  /\ UNCHANGED <<db, input, id, ids, wrote, missed, moving, todo, expired, audit>>

FinishCron(t) ==
  /\ t \in Cron /\ pc[t] = "expire" /\ Stale(t) = {}
  /\ Close(t, "done") /\ Forget(t)
  /\ AuditExpiries(t)
  /\ UNCHANGED <<db, input, id, ids, runs, expired>>

-----------------------------------------------------------------------------
(* withTransaction *)

(* Commit publishes what was written; other open transactions miss it. *)
Commit(t) ==
  LET w == wrote[t]
  IN  /\ pc[t] = "commit"
      /\ db' = [db EXCEPT
                  !.stock  = [p \in Product |-> IF <<"product", p>> \in w
                                                THEN view[t].stock[p] ELSE @[p]],
                  !.order  = [o \in Order |-> IF <<"order", o>> \in w
                                              THEN view[t].order[o] ELSE @[o]],
                  !.coupon = [c \in Coupon |-> IF <<"coupon", c>> \in w
                                               THEN view[t].coupon[c] ELSE @[c]]]
      /\ Close(t, IF t \in Cron THEN "begin" ELSE "audit")
      /\ missed' = [u \in Request |-> IF u = t \/ ~Open(u) THEN {} ELSE missed[u] \cup w]
      /\ expired' = IF t \in Cron THEN [expired EXCEPT ![t] = @ \cup {moving[t]}]
                    ELSE expired
      /\ runs' = IF t \in Cron THEN [runs EXCEPT ![t] = 0] ELSE runs
      /\ UNCHANGED <<input, id, ids, audit>>

(* A WriteConflict, or a transient error of the commit: the driver runs    *)
(* the callback again, for 120 seconds (here MaxRuns runs), then gives up. *)
RunAgain(t) ==
  /\ \/ \E k \in Wants(t) : Conflicts(t, k)
     \/ ExpiryConflict(t)
     \/ pc[t] = "commit"
  /\ Abort(t, IF runs[t] < MaxRuns THEN "begin" ELSE "failed")
  /\ UNCHANGED <<ids, runs, expired>>

(* The audit row of the request itself, once it has committed. *)
Audit(t) ==
  /\ pc[t] = "audit"
  /\ audit' = audit \cup
       {<<IF t \in Checkout THEN "order.create" ELSE "order.update", id[t]>>}
  /\ pc' = [pc EXCEPT ![t] = "done"]
  /\ UNCHANGED <<db, input, id, ids, runs, txnVars, expired>>

-----------------------------------------------------------------------------
(* The environment *)

(* The function is killed.  Before its first statement, or between two     *)
(* attempts, that is a request that never comes or goes no further.        *)
Crash(t) ==
  /\ Open(t) \/ pc[t] = "audit"
  /\ Abort(t, "crashed")
  /\ UNCHANGED <<ids, runs, expired>>

(* The pending timeout passes.  It is no write: every view sees it. *)
Age(o) ==
  /\ db.order[o].status # "absent" /\ ~db.order[o].aged
  /\ db' = [db EXCEPT !.order[o].aged = TRUE]
  /\ view' = [t \in Request |->
                IF Open(t) THEN [view[t] EXCEPT !.order[o].aged = TRUE] ELSE None]
  /\ UNCHANGED <<input, pc, id, ids, runs, wrote, missed, moving, todo, expired, audit>>

(* softDeleteProduct: a write of its own, which waits for open writers. *)
ArchiveProduct(p) ==
  /\ ~db.archived[p]
  /\ \A t \in Request : <<"product", p>> \notin wrote[t]
  /\ db' = [db EXCEPT !.archived[p] = TRUE]
  /\ missed' = [t \in Request |-> IF Open(t) THEN missed[t] \cup {<<"product", p>>}
                                  ELSE {}]
  /\ UNCHANGED <<input, pc, id, ids, runs, view, wrote, moving, todo, expired, audit>>

-----------------------------------------------------------------------------
Init ==
  /\ db = [stock    |-> [p \in Product |-> InitialStock],
           archived |-> [p \in Product |-> FALSE],
           order    |-> [o \in Order |-> IF o \in Imported THEN Seed[o]
                                         ELSE Store!Absent],
           coupon   |-> [c \in Coupon |-> Store!NewCoupon(UsageLimit)]]
  /\ input \in [Request -> CheckoutInput \cup Patch \cup {None}]
  /\ \A t \in Request : input[t] \in IF t \in Checkout THEN CheckoutInput
                                     ELSE IF t \in Patcher THEN Patch ELSE {None}
  /\ pc = [t \in Request |-> IF t \in Checkout THEN "draw" ELSE "begin"]
  /\ id \in [Request -> Order \cup {None}]
  /\ \A t \in Request : id[t] = None <=> t \notin Patcher
  /\ ids = [t \in Request |-> 0]
  /\ runs = [t \in Request |-> 0]
  /\ view = [t \in Request |-> None]
  /\ wrote = [t \in Request |-> {}]
  /\ missed = [t \in Request |-> {}]
  /\ moving = [t \in Request |-> None]
  /\ todo = [t \in Request |-> {}]
  /\ expired = [t \in Request |-> {}]
  /\ audit = {}

Statement(t) ==
  \/ \E o \in Order : DrawId(t, o)
  \/ BeginCheckout(t) \/ RefuseCheckout(t)
  \/ BeginPatch(t) \/ RefusePatch(t)
  \/ BeginCron(t) \/ FinishCron(t)
  \/ RedeemUse(t) \/ RefuseCoupon(t)
  \/ \E o \in Order : ExpireOne(t, o)
  \/ ReleaseLine(t)
  \/ StartReserving(t) \/ ReserveLine(t) \/ RefuseLine(t)
  \/ InsertOrder(t) \/ InsertDuplicate(t)
  \/ SavePatch(t)
  \/ Commit(t) \/ RunAgain(t)
  \/ Audit(t)

Next ==
  \/ \E t \in Request : Statement(t) \/ Crash(t)
  \/ \E o \in Ageing : Age(o)
  \/ \E p \in Archivable : ArchiveProduct(p)

(* A request that is not killed goes on: every statement is answered. *)
Spec == Init /\ [][Next]_vars /\ \A t \in Request : WF_vars(Statement(t))

-----------------------------------------------------------------------------
(* Properties *)

(* Types, and what an open transaction is: a request between statements    *)
(* holds a snapshot exactly while it holds or misses documents.            *)
TypeOK ==
  /\ db.order \in [Order -> Store!OrderDoc]
  /\ db.stock \in [Product -> Nat]
  /\ runs \in [Request -> 0 .. MaxRuns]
  /\ ids \in [Request -> 0 .. MaxIds]
  /\ \A t \in Request :
       /\ wrote[t] \cup missed[t] \subseteq Key
       /\ wrote[t] \cup missed[t] # {} => Open(t)
       /\ \A u \in Request \ {t} : wrote[t] \cap wrote[u] = {}

(* Whatever the interleaving, the conflicts and the crashes, the committed *)
(* documents go through the operations of OrderStore, one at a time: this  *)
(* is what "ONE MongoDB transaction covers everything" (createOrder) and   *)
(* "moves the stock exactly once" (setOrderStock) come to.  Store!vars are *)
(* functions of db, so this is Store!Spec, said so that TLC looks for an   *)
(* operation only when the documents changed.                              *)
CommitsAreOperations == Store!Init /\ [][db' = db \/ Store!Next]_db

(* Each successful checkout has an order of its own, and no order comes    *)
(* from a checkout that was refused, gave up or is still running, however  *)
(* often its transaction was run and its id drawn again (createOrder).     *)
OneOrderPerCheckout ==
  LET placed == {o \in Order \ Imported : db.order[o].status # "absent"}
      sure   == {t \in Checkout : pc[t] \in {"audit", "done"}}
      maybe  == {t \in Checkout : pc[t] = "crashed"}
  IN  /\ \A t \in sure : id[t] \in placed
      /\ \A t, u \in sure : id[t] = id[u] => t = u
      /\ Cardinality(placed) <= Cardinality(sure) + Cardinality(maybe)

(* Every request that is not killed is answered: transactions that hold    *)
(* documents the other wants never wait for each other (withTransaction).  *)
EveryRequestAnswered == \A t \in Request : <>(pc[t] \in Final)

(* "Sorted by id so every transaction locks in the same order"             *)
(* (merge, stock.service.ts:26): a transaction takes no product after one  *)
(* with a greater id.                                                      *)
SameLockOrder ==
  [][\A t \in Request, p, q \in Product :
       /\ <<"product", p>> \in wrote[t]
       /\ <<"product", q>> \in wrote'[t] \ wrote[t]
       => p < q]_vars

(* "Any failure [...] aborts the WHOLE transaction, so nothing is          *)
(* half-applied" (createOrder, order.service.ts:99-101): once no           *)
(* transaction is open, an order the audit log calls auto-expired is not   *)
(* pending.                                                                *)
NoPhantomExpiry ==
  (\A t \in Request : ~Open(t)) =>
    \A o \in Order : <<"order.auto_expired", o>> \in audit
                       => db.order[o].status # "pending"

=============================================================================
