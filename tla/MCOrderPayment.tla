--------------------------- MODULE MCOrderPayment ---------------------------
(***************************************************************************)
(* OrderStore with one product of which a single unit is offered, one      *)
(* checkout, one imported order, a coupon and a bKash id, and every kind   *)
(* of patch: the payment status, the fake flag and the coupon counter.     *)
(***************************************************************************)
EXTENDS OrderStore

CONSTANTS p1, o1, old, c1, t1

MCProduct  == {p1}
MCOrder    == {o1, old}
MCImported == {old}
MCCoupon   == {c1}
MCTrxId    == {t1}
MCCart     == {[p \in MCProduct |-> 1]}

(* An old pending row of the seed import that holds no stock. *)
MCImportedDoc ==
  {[Absent EXCEPT !.status = "pending", !.aged = TRUE,
                  !.items = [p \in MCProduct |-> 1]]}

MCPatch ==
  {[status |-> s, toggleFakeSuspicion |-> t, deliveryPaymentStatus |-> d] :
     <<s, t, d>> \in {<<"cancelled", FALSE, None>>, <<None, TRUE, None>>,
                     <<None, FALSE, "ADVANCE_PENDING">>,
                     <<"cancelled", TRUE, "ADVANCE_PENDING">>}}

=============================================================================
