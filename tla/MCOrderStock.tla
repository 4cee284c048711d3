---------------------------- MODULE MCOrderStock ----------------------------
(***************************************************************************)
(* OrderStore with two products and two checkouts, one admin editing a     *)
(* product, and the patches that cancel and re-open an order: the stock    *)
(* accounting.  Coupons and payments are left to MCOrderPayment.           *)
(***************************************************************************)
EXTENDS OrderStore, TLC

CONSTANTS p1, p2, o1, o2, a1

MCProduct == {p1, p2}
MCOrder   == {o1, o2}
MCAdmin   == {a1}

(* One unit of p1, or one of p1 and two of p2. *)
MCCart == {[p \in MCProduct |-> IF p = p1 THEN 1 ELSE n] : n \in {0, 2}}

MCPatch ==
  {[status |-> s, toggleFakeSuspicion |-> FALSE, deliveryPaymentStatus |-> None] :
     s \in {"pending", "cancelled"}}

Symmetry == Permutations(MCOrder)

=============================================================================
