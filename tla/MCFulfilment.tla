---------------------------- MODULE MCFulfilment ----------------------------
(***************************************************************************)
(* Dispatch with one order: every bill with one dispatch, or one bill and  *)
(* two requests, patches (a status change, a cancellation) and manual      *)
(* dispatches.                                                             *)
(***************************************************************************)
EXTENDS Dispatch, TLC

CONSTANTS p1, o1, r1, r2, t1, c1

Body(status) == [status |-> status, toggleFakeSuspicion |-> FALSE,
                 deliveryPaymentStatus |-> None]

MCPatch == {Body("processing"), Body("cancelled")}

MCWork == {[kind |-> "patch", body |-> b] : b \in MCPatch}
          \cup {[kind |-> "dispatch", body |-> None]}

MCCart == {[p \in {p1} |-> 1]}

Charges(inside, outside) ==
  [zone \in {"inside", "outside"} |-> IF zone = "inside" THEN inside ELSE outside]

MCDelivery ==
  {[charge |-> Charges(None, 12050), enableFreeDelivery |-> FALSE,
    freeDeliveryThreshold |-> 0, requireAdvanceDeliveryCharge |-> FALSE],
   [charge |-> Charges(6000, None), enableFreeDelivery |-> TRUE,
    freeDeliveryThreshold |-> 12000, requireAdvanceDeliveryCharge |-> TRUE]}

MCTerms ==
  {None,
   [discountPercent |-> 33, maxDiscountAmount |-> None, minOrderAmount |-> 0],
   [discountPercent |-> 100, maxDiscountAmount |-> 2000, minOrderAmount |-> 5000],
   [discountPercent |-> 100, maxDiscountAmount |-> None, minOrderAmount |-> 0]}

(* One price is below every delivery charge and rounds, one is above. *)
MCQuote ==
  [price : {[p \in {p1} |-> x] : x \in {30005, 150000}}, terms : MCTerms,
   says : {{}, {"dhaka"}, {"inside", "outside"}}, choice : Choice,
   delivery : MCDelivery]

Patches == {w \in MCWork : w.kind = "patch"}
Manual == {w \in MCWork : w.kind = "dispatch"}

Jobs(a, b) == [r \in {r1, r2} |-> IF r = r1 THEN a ELSE b]

Prepaid == {q \in MCQuote : /\ q.terms = None /\ q.says = {}
                            /\ q.price[p1] = 150000
                            /\ q.choice = "ADVANCE_DELIVERY"
                            /\ q.delivery.enableFreeDelivery}

(* Every bill and one request, or one bill and two requests. *)
MCWorkload ==
  {[quote |-> MCQuote, work |-> Jobs({}, Manual)],
   [quote |-> Prepaid, work |-> Jobs(MCWork, Patches)],
   [quote |-> Prepaid, work |-> Jobs(Manual, Manual)]}

=============================================================================
