------------------------------- MODULE Pricing -------------------------------
(***************************************************************************)
(* The bill of a checkout: domain/pricing.ts, the discount of              *)
(* domain/coupon.ts, and the zone of domain/zone.ts.                       *)
(*                                                                         *)
(* Amounts are whole poisha (hundredths of a taka), which is what round2   *)
(* leaves.  Unit prices are tenths of a poisha and a percentage yields     *)
(* hundredths of one, so the places where the code rounds really round.    *)
(* The code computes in binary floating point: an error of the last bit of *)
(* a double is not modelled.                                               *)
(***************************************************************************)
EXTENDS Integers
LOCAL INSTANCE FiniteSetsExt

CONSTANT Unset   \* a setting or a cap that is not given

Least(a, b) == IF a <= b THEN a ELSE b
Greatest(a, b) == IF a >= b THEN a ELSE b

(* Math.round of n parts, of which unit make a poisha. *)
Round2(n, unit) == (2 * n + unit) \div (2 * unit)

-----------------------------------------------------------------------------
(* A line is rounded before the lines are added up. *)
LineTotal(line) == Round2(line.unitPrice * line.quantity, 10)

ComputeSubtotal(lines) ==
  MapThenSumSet(LAMBDA l : LineTotal(lines[l]), DOMAIN lines)

(* coupon.ts: percent of the subtotal, at most the cap, at most the        *)
(* subtotal.  A cap of zero is no cap.                                     *)
Capped(parts, max) ==
  IF max # Unset /\ max > 0 THEN Least(parts, 100 * max) ELSE parts

ComputeDiscount(subtotal, percent, max) ==
  Round2(Greatest(0, Least(Capped(subtotal * percent, max), 100 * subtotal)), 100)

MeetsMinimum(terms, subtotal) ==
  terms.minOrderAmount > 0 => subtotal >= terms.minOrderAmount

(* What the coupon layer takes off: nothing without a coupon. *)
Discount(terms, subtotal) ==
  IF terms = Unset THEN 0
  ELSE ComputeDiscount(subtotal, terms.discountPercent, terms.maxDiscountAmount)

(* deriveZone: the patterns the lower-cased city matches.  "outside" wins, *)
(* and a city nothing is known of costs the higher charge.                 *)
DeriveZone(says) ==
  IF "outside" \notin says /\ says # {} THEN "inside" ELSE "outside"

-----------------------------------------------------------------------------
(* priceOrder *)

DefaultCharge(zone) == IF zone = "inside" THEN 8000 ELSE 16000

ZoneCharge(delivery, zone) ==
  IF delivery.charge[zone] = Unset THEN DefaultCharge(zone) ELSE delivery.charge[zone]

FreeDelivery(delivery, net) ==
  /\ delivery.enableFreeDelivery
  /\ delivery.freeDeliveryThreshold > 0
  /\ net >= delivery.freeDeliveryThreshold

(* The discount is clamped again to [0, subtotal]. *)
NetTotal(subtotal, discount) ==
  subtotal - Least(Greatest(discount, 0), subtotal)

DeliveryFee(delivery, zone, net) ==
  IF FreeDelivery(delivery, net) THEN 0 ELSE Greatest(0, ZoneCharge(delivery, zone))

(* Mutant of Split: the fee is taken off a net amount that never had it. *)
SplitLessFee(choice, net, fee) ==
  CASE choice = "FULL_BKASH"       -> [advance |-> net + fee, due |-> 0]
    [] choice = "ADVANCE_DELIVERY" -> [advance |-> fee, due |-> net - fee]
    [] OTHER                       -> [advance |-> 0, due |-> net + fee]

(* What is paid before the parcel leaves, and what the courier collects. *)
Split(choice, net, fee) ==
  CASE choice = "FULL_BKASH"       -> [advance |-> net + fee, due |-> 0]
    [] choice = "ADVANCE_DELIVERY" -> [advance |-> fee, due |-> net]
    [] OTHER                       -> [advance |-> 0, due |-> net + fee]

PriceOrder(subtotal, discount, zone, choice, delivery) ==
  LET net == NetTotal(subtotal, discount)
      fee == DeliveryFee(delivery, zone, net)
  IN  [subtotal |-> subtotal, total |-> net + fee, deliveryFee |-> fee,
       advance |-> Split(choice, net, fee).advance,
       due |-> Split(choice, net, fee).due]

(* The two refusals that depend on amounts or settings. *)
Payable(bill) == bill.advance > 0

PolicyAllows(choice, delivery) ==
  delivery.requireAdvanceDeliveryCharge => choice # "FULL_COD"

=============================================================================
