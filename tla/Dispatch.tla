------------------------------ MODULE Dispatch ------------------------------
(***************************************************************************)
(* Orders on their way to a courier: patchOrder with its automatic         *)
(* dispatch and dispatchOrder of order.service.ts, the Steadfast and       *)
(* Pathao adapters, and the bill each checkout leaves for the courier to   *)
(* collect.  The transactions are the steps of OrderStore; between them a  *)
(* request reads, calls the courier and waits, and others run.             *)
(*                                                                         *)
(* Settings (courier, credentials, delivery charges) may be edited at any  *)
(* time, so every read of them is a free choice.  The courier is external: *)
(* a request that was posted may be booked at any time, also after the     *)
(* server gave up waiting or was answered with an error status; a 2xx      *)
(* answer means that it was booked.                                        *)
(* Imported orders, whose amounts come from the seed files, are left out.  *)
(***************************************************************************)
EXTENDS OrderStore

INSTANCE Pricing WITH Unset <- None

CONSTANTS
  Request,     \* admin requests, each used once
  Work,        \* what a request may be: [kind, body]
  Quote,       \* what a checkout finds: [price, terms, says, choice, delivery]
  Workload,    \* which requests and quotes an instance brings together
  Killable,    \* requests whose function may be killed
  MaxReruns    \* aborted attempts of a patch's transaction

ASSUME WorkKnown ==
  \A w \in Work : /\ w.kind \in {"dispatch", "patch"}
                   /\ w.kind = "patch" => w.body \in Patch
ASSUME RequestsBounded == MaxReruns \in Nat /\ Killable \subseteq Request
ASSUME WorkloadType ==
  \A w \in Workload : /\ w.work \in [Request -> SUBSET Work]
                       /\ w.quote \subseteq Quote
ASSUME NoneIsNoRequest == None \notin Request
ASSUME NothingImported == Imported = {}
ASSUME QuotesAreOrders ==
  \A quote \in Quote :
    /\ quote.choice \in Choice
    /\ quote.terms # None => /\ quote.terms.discountPercent \in Int
                              /\ quote.terms.maxDiscountAmount \in Int \cup {None}

(* One line per product: OrderStore merges the lines of a cart. *)
OrderLines(cart, price) ==
  [p \in Lines(cart) |-> [unitPrice |-> price[p], quantity |-> cart[p]]]

(* The prover cannot compute a fold, so what it returns on the inputs is   *)
(* an assumption that the runs evaluate.                                   *)
ASSUME AmountsAreCounts ==
  \A cart \in Cart, quote \in Quote :
    /\ ComputeSubtotal(OrderLines(cart, quote.price)) \in Nat
    /\ \A zone \in {"inside", "outside"} :
         quote.delivery.charge[zone] \in Int \cup {None}

BillDoc == [subtotal : Nat, total : Nat, deliveryFee : Nat, advance : Nat, due : Nat]

ASSUME NoneIsNoBill == None \notin BillDoc
ASSUME NoneIsNoParcel ==
  /\ None \notin [order : Order, cod : Nat, booked : BOOLEAN]
  /\ None \notin [by : Request, id : {"SIM", "", "consignment"}]

VARIABLES
  workload,     \* the workload of this behaviour
  live,         \* ENABLE_LIVE_INTEGRATIONS of this deployment
  req,          \* the requests
  bill,         \* the amounts stored with each order
  consignment,  \* order.courier: the request that wrote it, and its id
  parcel        \* what the courier was asked to collect, by request

deployment == <<workload, live>>
dispatchVars == <<deployment, req, bill, consignment, parcel>>

Provider == {"steadfast", "pathao"}
Running == {"patch", "auto", "load", "send", "token", "call", "commit"}
Ended == {"done", "failed", "dead"}

Idle == [pc |-> "idle", order |-> None, body |-> None, provider |-> None,
         auto |-> FALSE, reruns |-> 0, stock |-> "none", moved |-> "none",
         cod |-> 0, reply |-> None, unheard |-> FALSE, before |-> FALSE]

At(r, pc) == req[r].pc = pc

Becomes(r, q) == req' = [req EXCEPT ![r] = q]

(* fresh?.courier?.consignmentId is set and not empty. *)
Consigned(c) == c # None /\ c.id # ""

(* Mutant of CodAmount: the courier collects the raw total (BUG_FIXES B1). *)
CodAmountTotal(b) == b.total

CodAmount(b) == b.due

-----------------------------------------------------------------------------
(* createOrder, with the amounts OrderStore leaves out. *)
Checkout(o) ==
  \E cart \in Cart, quote \in workload.quote, trx \in TrxId \cup {None},
     c \in Coupon \cup {None} :
    LET subtotal == ComputeSubtotal(OrderLines(cart, quote.price))
        b == PriceOrder(subtotal, Discount(quote.terms, subtotal),
                        DeriveZone(quote.says), quote.choice, quote.delivery)
    IN  /\ (c = None) <=> (quote.terms = None)
        /\ quote.terms # None => MeetsMinimum(quote.terms, subtotal)
        /\ PolicyAllows(quote.choice, quote.delivery)
        /\ \E X \in SUBSET Blocking(cart) :
             PlaceOrder(o, X, cart, quote.choice, Payable(b), trx, c)
        /\ bill' = [bill EXCEPT ![o] = b]
        /\ UNCHANGED <<deployment, req, consignment, parcel>>

-----------------------------------------------------------------------------
(* patchOrder *)

(* An admin sends a request about an order. *)
Begin(r) ==
  \E w \in workload.work[r], o \in Order :
    /\ At(r, "idle") /\ Exists(o)
    /\ Becomes(r, [Idle EXCEPT !.pc = IF w.kind = "patch" THEN "patch" ELSE "load",
                               !.order = o, !.body = w.body,
                               !.before = Consigned(consignment[o])])
    /\ UNCHANGED <<vars, deployment, bill, consignment, parcel>>

ActionOf(o, body) ==
  StockActionForTransition(order[o].status, Patched(order[o], body).status)

(* Mutant of Said: only a release is reported. *)
SaidRelease(action, before) ==
  IF action = "release" THEN "restored" ELSE before

(* stockEffect after an attempt: kept when no stock action was needed. *)
Said(action, before) ==
  CASE action = "reserve" -> "deducted"
    [] action = "release" -> "restored"
    [] OTHER              -> before

(* setOrderStock would come back without an error. *)
StockSettled(o, body) ==
  /\ Exists(o) /\ ~order[o].deleted
  /\ ActionOf(o, body) = "reserve" /\ ~order[o].stockDeducted
       => CanReserve(order[o].items, stockCount)

(* An attempt whose transaction is aborted and run again: stockEffect      *)
(* lives outside the callback and keeps what the attempt wrote.            *)
RerunPatch(r) ==
  LET q == req[r] IN
  /\ At(r, "patch") /\ q.reruns < MaxReruns
  /\ StockSettled(q.order, q.body)
  /\ Becomes(r, [q EXCEPT !.reruns = @ + 1,
                          !.stock = Said(ActionOf(q.order, q.body), @)])
  /\ UNCHANGED <<vars, deployment, bill, consignment, parcel>>

CommitPatch(r) ==
  LET q == req[r] IN
  /\ At(r, "patch")
  /\ PatchOrder(q.order, q.body)
  /\ Becomes(r, [q EXCEPT
       !.pc = IF q.body.status \in {"processing", "shipped"} THEN "auto" ELSE "done",
       !.stock = Said(ActionOf(q.order, q.body), @),
       !.moved = CASE order'[q.order].stockDeducted /\ ~order[q.order].stockDeducted -> "deducted"
                   [] order[q.order].stockDeducted /\ ~order'[q.order].stockDeducted -> "restored"
                   [] OTHER -> "none"])
  /\ UNCHANGED <<deployment, bill, consignment, parcel>>

(* Not found, not enough stock, or the database failed. *)
FailPatch(r) ==
  /\ At(r, "patch")
  /\ Becomes(r, [req[r] EXCEPT !.pc = "failed"])
  /\ UNCHANGED <<vars, deployment, bill, consignment, parcel>>

(* Mutant of AutoDispatch: the order is not looked up again. *)
AutoDispatchUnchecked(r) ==
  /\ At(r, "auto")
  /\ Becomes(r, [req[r] EXCEPT !.pc = "load", !.auto = TRUE])
  /\ UNCHANGED <<vars, deployment, bill, consignment, parcel>>

(* The automatic dispatch after the commit, unless it is switched off, the *)
(* default courier is manual, or the order has a consignment.              *)
AutoDispatch(r) ==
  /\ At(r, "auto")
  /\ ~Consigned(consignment[req[r].order])
  /\ Becomes(r, [req[r] EXCEPT !.pc = "load", !.auto = TRUE])
  /\ UNCHANGED <<vars, deployment, bill, consignment, parcel>>

SkipAutoDispatch(r) ==
  /\ At(r, "auto")
  /\ Becomes(r, [req[r] EXCEPT !.pc = "done"])
  /\ UNCHANGED <<vars, deployment, bill, consignment, parcel>>

-----------------------------------------------------------------------------
(* dispatchOrder *)

(* The order is read, and with it what the courier must collect. *)
LoadForDispatch(r) ==
  LET o == req[r].order IN
  /\ At(r, "load") /\ ~order[o].deleted
  /\ \E provider \in Provider :
       Becomes(r, [req[r] EXCEPT !.pc = IF live THEN "send" ELSE "commit",
                                 !.provider = provider, !.cod = CodAmount(bill[o]),
                                 !.reply = IF live THEN None ELSE "simulated"])
  /\ UNCHANGED <<vars, deployment, bill, consignment, parcel>>

(* A failed dispatch touches nothing on the order.  The patch that started *)
(* it ignores the error.                                                   *)
Failed(q) == [q EXCEPT !.pc = IF q.auto THEN "done" ELSE "failed"]

(* The order is deleted or no courier is set; the courier is disabled, its *)
(* credentials are missing or its host is not on the list.                 *)
NotSent(r) ==
  /\ req[r].pc \in {"load", "send"}
  /\ Becomes(r, Failed(req[r]))
  /\ UNCHANGED <<vars, deployment, bill, consignment, parcel>>

Posted(r) == [order |-> req[r].order, cod |-> req[r].cod, booked |-> FALSE]

(* Pathao wants a token first. *)
AskToken(r) ==
  /\ At(r, "send") /\ req[r].provider = "pathao"
  /\ Becomes(r, [req[r] EXCEPT !.pc = "token"])
  /\ UNCHANGED <<vars, deployment, bill, consignment, parcel>>

PostOrder(r) ==
  /\ \/ At(r, "send") /\ req[r].provider = "steadfast"
     \/ At(r, "token")
  /\ Becomes(r, [req[r] EXCEPT !.pc = "call"])
  /\ parcel' = [parcel EXCEPT ![r] = Posted(r)]
  /\ UNCHANGED <<vars, deployment, bill, consignment>>

RefuseToken(r) ==
  /\ At(r, "token")
  /\ Becomes(r, Failed(req[r]))
  /\ UNCHANGED <<vars, deployment, bill, consignment, parcel>>

(* Mutants of TimedOut and of Success: the token call is made without a    *)
(* time limit, and the status of the answer is not looked at.              *)
TimedOutCall(pc) == pc = "call"
SuccessAnyStatus(reply, provider) == reply # "unreadable" \/ provider = "steadfast"

(* Both calls of an adapter are aborted after ten seconds. *)
TimedOut(pc) == pc \in {"token", "call"}

(* An answer without a readable body has no consignment id: an error for   *)
(* Pathao, but Steadfast's adapter falls through to success.               *)
Success(reply, provider) ==
  \/ reply = "consigned"
  \/ reply = "unreadable" /\ provider = "steadfast"

GiveUp(r) ==
  /\ TimedOut(req[r].pc)
  /\ Becomes(r, [Failed(req[r]) EXCEPT !.unheard = At(r, "call")])
  /\ UNCHANGED <<vars, deployment, bill, consignment, parcel>>

(* The courier books what was posted, or answers. *)
Book(r) ==
  /\ parcel[r] # None
  /\ ~parcel[r].booked
  /\ parcel' = [parcel EXCEPT ![r].booked = TRUE]
  /\ UNCHANGED <<vars, deployment, req, bill, consignment>>

(* The server cannot tell the courier's refusal from an error status that  *)
(* says nothing of the booking, which may have been made or may yet be.     *)
Answer(r, reply) ==
  LET q == [req[r] EXCEPT !.reply = reply] IN
  /\ At(r, "call")
  /\ reply \in {"consigned", "unreadable"} => parcel[r].booked
  /\ reply = "refused" => ~parcel[r].booked
  /\ parcel' = [parcel EXCEPT ![r] = IF reply = "refused" THEN None ELSE @]
  /\ IF Success(reply, q.provider) THEN Becomes(r, [q EXCEPT !.pc = "commit"])
     ELSE Becomes(r, [Failed(q) EXCEPT !.unheard = (reply # "refused")])
  /\ UNCHANGED <<vars, deployment, bill, consignment>>

ConsignmentId(reply) ==
  CASE reply = "simulated"  -> "SIM"
    [] reply = "unreadable" -> ""
    [] OTHER                -> "consignment"

RecordDispatch(r) ==
  LET o == req[r].order IN
  /\ At(r, "commit")
  /\ CommitDispatch(o)
  /\ consignment' = [consignment EXCEPT
                       ![o] = [by |-> r, id |-> ConsignmentId(req[r].reply)]]
  /\ Becomes(r, [req[r] EXCEPT !.pc = "done"])
  /\ UNCHANGED <<deployment, bill, parcel>>

(* The last transaction fails: the courier has the parcel, the order does  *)
(* not know.                                                               *)
FailRecord(r) ==
  /\ At(r, "commit")
  /\ Becomes(r, [Failed(req[r]) EXCEPT !.unheard = TRUE])
  /\ UNCHANGED <<vars, deployment, bill, consignment, parcel>>

(* The function is killed: whatever it had not written is lost. *)
Kill(r) ==
  /\ r \in Killable /\ req[r].pc \in Running
  /\ Becomes(r, [req[r] EXCEPT !.pc = "dead"])
  /\ UNCHANGED <<vars, deployment, bill, consignment, parcel>>

-----------------------------------------------------------------------------
DispatchInit ==
  /\ Init
  /\ workload \in Workload
  /\ live \in BOOLEAN
  /\ req = [r \in Request |-> Idle]
  /\ bill = [o \in Order |-> None]
  /\ consignment = [o \in Order |-> None]
  /\ parcel = [r \in Request |-> None]

(* What a request does by itself; the courier's answers are not its own. *)
RequestStep(r) ==
  \/ RerunPatch(r) \/ CommitPatch(r) \/ FailPatch(r)
  \/ AutoDispatch(r) \/ SkipAutoDispatch(r)
  \/ LoadForDispatch(r) \/ NotSent(r) \/ AskToken(r)
  \/ At(r, "send") /\ PostOrder(r)
  \/ GiveUp(r) \/ RecordDispatch(r) \/ FailRecord(r)

CourierStep(r) ==
  \/ At(r, "token") /\ PostOrder(r)
  \/ RefuseToken(r) \/ Book(r)
  \/ \E reply \in {"consigned", "unreadable", "refused", "error"} : Answer(r, reply)

OtherOrderStep(o) ==
  /\ ExpireOrder(o) \/ VerifyOrderPayment(o) \/ SoftDeleteOrder(o) \/ Age(o)
  /\ UNCHANGED dispatchVars

DispatchNext ==
  \/ \E r \in Request : Begin(r) \/ RequestStep(r) \/ CourierStep(r) \/ Kill(r)
  \/ \E o \in Order : Checkout(o) \/ OtherOrderStep(o)

(* A request that is not killed goes on: the runtime schedules it, and the *)
(* timers of its calls fire.  Nothing is assumed of the courier.           *)
DispatchSpec ==
  /\ DispatchInit /\ [][DispatchNext]_<<vars, dispatchVars>>
  /\ \A r \in Request : WF_<<vars, dispatchVars>>(RequestStep(r))

-----------------------------------------------------------------------------
(* Properties *)

(* Amounts are never negative and every request is where its code can be. *)
DispatchTypeOK ==
  /\ live \in BOOLEAN
  /\ \A r \in Request :
       /\ req[r].pc \in {"idle"} \cup Running \cup Ended
       /\ req[r].pc # "idle" => req[r].order \in Order
       /\ parcel[r] # None => parcel[r].order = req[r].order
  /\ \A o \in Order :
       /\ Exists(o) <=> bill[o] # None
       /\ bill[o] # None => {bill[o].total, bill[o].advance, bill[o].due} \subseteq Nat
       /\ consignment[o] # None => consignment[o].by \in Request

(* BUG_FIXES B1 (order.service.ts:345): whatever the cart, the coupon, the *)
(* zone and the payment choice, what the courier collects and what was     *)
(* asked for in advance add up to the bill: nobody pays twice, and no      *)
(* parcel is given away.                                                   *)
CollectsExactlyDue ==
  \A r \in Request :
    parcel[r] # None =>
      LET b == bill[parcel[r].order]
      IN  b # None /\ parcel[r].cod + b.advance = b.total

(* Every parcel is accounted for (dispatchOrder's failure handling): the   *)
(* consignment of an order is a parcel the courier has booked, and a       *)
(* parcel was recorded by its request unless that one is still running,    *)
(* was killed, never heard of the booking, was answered with an error or   *)
(* could not save it.                                                      *)
ParcelsAccounted ==
  /\ live => \A o \in Order : consignment[o] # None =>
               LET p == parcel[consignment[o].by]
               IN  p # None /\ p.order = o /\ p.booked
  /\ \A r \in Request :
       parcel[r] # None /\ req[r].pc \in {"done", "failed"} /\ ~req[r].unheard
         => consignment[parcel[r].order] # None

(* "the order has no consignment yet" (order.service.ts:253): no automatic *)
(* dispatch sends an order that had a consignment when its patch arrived,  *)
(* unless a manual one has since been recorded without an id.              *)
AutoNeverResends ==
  \A r \in Request :
    parcel[r] # None /\ req[r].auto /\ req[r].before
      => \E s \in Request \ {r} : /\ req[s].order = req[r].order
                                  /\ req[s].reply = "unreadable"
                                  /\ req[s].provider = "steadfast"

(* A patch that moved stock says so and says which way, however often its  *)
(* transaction was run again (stockEffect outlives its attempts).          *)
StockAnswered ==
  \A r \in Request : req[r].moved # "none" => req[r].stock = req[r].moved

(* A courier that never answers holds no request up: each one ends.        *)
RequestsEnd ==
  \A r \in Request : req[r].pc \in Running ~> req[r].pc \in Ended

=============================================================================
