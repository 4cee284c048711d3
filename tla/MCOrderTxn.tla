----------------------------- MODULE MCOrderTxn -----------------------------
(***************************************************************************)
(* OrderTxn with two checkouts, an admin and the cron, two products of     *)
(* which one unit each is left, and an imported order that may be stale.   *)
(***************************************************************************)
EXTENDS OrderTxn, TLC

CONSTANTS t1, t2, a1, k1, o1, o2, old, c1, x1

MCCheckout == {t1, t2}
MCPatcher  == {a1}
MCCron     == {k1}
MCProduct  == {1, 2}
MCOrder    == {o1, o2, old}
MCCoupon   == {c1}
MCTrxId    == {x1}

Qty(a, b) == [p \in MCProduct |-> IF p = 1 THEN a ELSE b]

MCCart == {Qty(1, 0), Qty(0, 1), Qty(1, 1)}

(* Some want the same product, coupon or bKash id; some can both be had. *)
MCInput ==
  {[cart |-> Qty(1, 1), trx |-> x1,   coupon |-> None],
   [cart |-> Qty(1, 0), trx |-> None, coupon |-> c1],
   [cart |-> Qty(0, 1), trx |-> x1,   coupon |-> c1]}

MCOneInput == {[cart |-> Qty(1, 1), trx |-> x1, coupon |-> c1]}

(* A pending order that holds a unit of product 2. *)
MCSeed ==
  [o \in {old} |->
     [status |-> "pending", items |-> Qty(0, 1), stockDeducted |-> TRUE,
      deleted |-> FALSE, aged |-> FALSE, deliveryPaymentStatus |-> "COD_PENDING",
      isFakeSuspected |-> FALSE, statusBeforeFakeSuspicion |-> None,
      bkashTrxId |-> None, coupon |-> None, courier |-> FALSE]]

MCPatch ==
  {[status |-> s, toggleFakeSuspicion |-> FALSE, deliveryPaymentStatus |-> None] :
     s \in {"cancelled", "processing"}}

Symmetry == Permutations(MCCheckout) \cup Permutations({o1, o2})

=============================================================================
