--------------------------- MODULE OrderTxnProofs ---------------------------
(***************************************************************************)
(* Proofs about OrderTxn, for any number of requests, products and orders: *)
(* what an open transaction knows, and that each successful checkout has   *)
(* an order of its own, however the transactions interleave, conflict, are *)
(* run again or crash.                                                     *)
(***************************************************************************)
EXTENDS OrderTxn, FiniteSetTheorems, TLAPS

-----------------------------------------------------------------------------
(* Documents                                                               *)

(* todo is worked off from its least element (the sort of merge).          *)
LEMMA MinIsLeast ==
  ASSUME NEW S \in SUBSET Nat, S # {}
  PROVE  Min(S) \in S
<1> DEFINE R == StrictSubsetOrdering(Nat)
           F == FiniteSubsetsOf(Nat)
           T == {0 .. n : n \in S}
<1>1. IsWellFoundedOn(R, F)
  BY FS_StrictSubsetOrderingWellFounded
<1>2. T \subseteq F /\ T # {}
  <2>1. ASSUME NEW n \in S PROVE 0 .. n \in F
    <3>1. n \in Nat /\ IsFiniteSet(0 .. n)
      BY FS_Interval
    <3> QED BY <3>1 DEF FiniteSubsetsOf
  <2> QED BY <2>1
<1>3. PICK A \in T : \A B \in T : ~ (<<B, A>> \in R)
  <2> HIDE DEF R, F, T
  <2> QED BY <1>1, <1>2, WFMin
<1>4. PICK x \in S : A = 0 .. x
  OBVIOUS
<1>5. ASSUME NEW y \in S, y < x PROVE FALSE
  <2>1. 0 .. y \in T /\ 0 .. y \in SUBSET Nat /\ 0 .. x \in SUBSET Nat
    OBVIOUS
  <2>2. 0 .. y \subseteq 0 .. x /\ 0 .. y # 0 .. x
    <3>1. x \in 0 .. x /\ x \notin 0 .. y
      BY <1>5
    <3> QED BY <1>5, <3>1
  <2>3. <<0 .. y, A>> \in R
    BY <1>4, <2>1, <2>2 DEF StrictSubsetOrdering
  <2> QED BY <1>3, <2>1, <2>3
<1>6. \A y \in S : x <= y
  BY <1>4, <1>5
<1> HIDE DEF R, F, T
<1> QED BY <1>6 DEF Min

LEMMA FakeToggledType ==
  ASSUME NEW d \in Store!OrderDoc
  PROVE  Store!FakeToggled(d) \in Store!OrderDoc /\ Store!FakeToggled(d).status = d.status
<1>0. \A q \in Store!PaymentStatus, r \in Store!PaymentStatus \cup {None}, b \in BOOLEAN :
        [d EXCEPT !.isFakeSuspected = b, !.deliveryPaymentStatus = q,
                  !.statusBeforeFakeSuspicion = r] \in Store!OrderDoc
  BY DEF Store!OrderDoc
<1>1. CASE d.isFakeSuspected
  <2> DEFINE q == IF d.statusBeforeFakeSuspicion = None THEN "COD_PENDING"
                  ELSE d.statusBeforeFakeSuspicion
  <2>1. Store!FakeToggled(d) = [d EXCEPT !.isFakeSuspected = FALSE,
                                         !.deliveryPaymentStatus = q,
                                         !.statusBeforeFakeSuspicion = None]
    BY <1>1 DEF Store!FakeToggled
  <2>2. q \in Store!PaymentStatus
    BY DEF Store!OrderDoc, Store!PaymentStatus
  <2> HIDE DEF q
  <2>3. Store!FakeToggled(d) \in Store!OrderDoc
    BY <1>0, <2>1, <2>2
  <2> QED BY <2>1, <2>3 DEF Store!OrderDoc
<1>2. CASE ~d.isFakeSuspected
  BY <1>2 DEF Store!FakeToggled, Store!OrderDoc, Store!PaymentStatus
<1> QED BY <1>1, <1>2

(* What the statements write to an order is an order.                      *)
LEMMA PatchedIsOrder ==
  ASSUME NEW d \in Store!OrderDoc, d.status # "absent", NEW body \in Patch
  PROVE  Store!Patched(d, body) \in Store!OrderDoc /\ Store!Patched(d, body).status # "absent"
<1> DEFINE s == Store!StatusSet(d, body.status)
           f == IF body.toggleFakeSuspicion THEN Store!FakeToggled(s) ELSE s
           Real(x) == x \in Store!OrderDoc /\ x.status # "absent"
<1>1. Real(s)
  BY InputsAreDocuments DEF Store!StatusSet, Store!OrderDoc, Store!OrderStatus
<1>2. Real(Store!FakeToggled(s))
  <2> HIDE DEF s
  <2> QED BY <1>1, FakeToggledType
<1>3. Real(f)
  BY <1>1, <1>2
<1>4. Real(Store!PaymentOverridden(f, body.deliveryPaymentStatus))
  <2> HIDE DEF f
  <2> QED BY <1>3, InputsAreDocuments DEF Store!PaymentOverridden, Store!OrderDoc
<1> QED BY <1>4 DEF Store!Patched

LEMMA ExpiredIsOrder ==
  ASSUME NEW d \in Store!OrderDoc
  PROVE  Store!Expired(d) \in Store!OrderDoc /\ Store!Expired(d).status # "absent"
BY DEF Store!Expired, Store!OrderDoc, Store!OrderStatus

LEMMA NewOrderIsOrder ==
  ASSUME NEW cart \in Cart, NEW trx \in TrxId \cup {None}, NEW c \in Coupon \cup {None}
  PROVE  LET d == Store!NewOrder(cart, "FULL_COD", FALSE, trx, c)
         IN  d \in Store!OrderDoc /\ d.status # "absent"
BY InputsAreDocuments
   DEF Store!NewOrder, Store!InitialPayment, Store!Absent, Store!OrderDoc,
       Store!OrderStatus, Store!PaymentStatus

LEMMA AbsentIsOrder == Store!Absent \in Store!OrderDoc
BY InputsAreDocuments, BoundsArePositive
   DEF Store!Absent, Store!OrderDoc, Store!OrderStatus, Store!PaymentStatus

-----------------------------------------------------------------------------
(* The invariant                                                           *)

(* The statements at which a transaction is open.                          *)
Working == {"redeem", "expire", "release", "reserve", "insert", "save", "commit"}
Place   == Working \cup {"draw", "begin", "audit"} \cup Final

DbDoc == [stock : [Product -> Nat], archived : [Product -> BOOLEAN],
          order : [Order -> Store!OrderDoc], coupon : [Coupon -> Store!CouponDoc]]

CheckoutDoc == [cart : Cart, trx : TrxId \cup {None}, coupon : Coupon \cup {None}]

Typed ==
  /\ db \in DbDoc
  /\ \A t \in Request : /\ t \in Checkout => input[t] \in CheckoutDoc
                        /\ t \in Patcher => input[t] \in Patch
  /\ pc \in [Request -> Place]
  /\ id \in [Request -> Order \cup {None}]
  /\ ids \in [Request -> 0 .. MaxIds]
  /\ runs \in [Request -> 0 .. MaxRuns]
  /\ view \in [Request -> DbDoc \cup {None}]
  /\ wrote \in [Request -> SUBSET Key]
  /\ missed \in [Request -> SUBSET Key]
  /\ moving \in [Request -> Order \cup {None}]
  /\ todo \in [Request -> SUBSET Product]

(* What t is doing at q: order i, n ids drawn, r runs, snapshot v, written *)
(* w, missed m, moving the stock of order mv with products td to go.       *)
FitsAt(t, q, i, n, r, v, w, m, mv, td) ==
  /\ v # None <=> q \in Working
  /\ w \cup m # {} => v # None
  /\ q \in {"draw", "redeem", "insert"} => t \in Checkout
  /\ q = "redeem" => input[t].coupon # None
  /\ q = "save" => t \in Patcher
  /\ t \in Checkout /\ q # "draw" => i \in Order
  /\ t \in Patcher => i \in Order
  /\ q \in {"release", "reserve"} => td # {}
  /\ q = "release" => mv \in Order
  /\ q = "reserve" => t \in Checkout \/ mv \in Order
  /\ q = "begin" => r < MaxRuns
  /\ q = "draw" => n < MaxIds

Fits(t) == FitsAt(t, pc[t], id[t], ids[t], runs[t], view[t], wrote[t], missed[t],
                  moving[t], todo[t])

(* The snapshot is right about which orders exist, but for those missed;   *)
(* an order that was written exists, but for the one a checkout commits.   *)
(* A patch saves an order it found.                                        *)
AgreesAt(t, q, i, v, w, m) ==
  /\ \A o \in Order :
       /\ <<"order", o>> \in w =>
            /\ <<"order", o>> \notin m
            /\ v.order[o].status # "absent"
            /\ \/ db.order[o].status # "absent"
               \/ t \in Checkout /\ q = "commit" /\ i = o
       /\ v # None /\ <<"order", o>> \notin w \cup m =>
            (v.order[o].status = "absent" <=> db.order[o].status = "absent")
  /\ t \in Checkout /\ q = "commit" =>
       <<"order", i>> \in w /\ db.order[i].status = "absent"
  /\ q = "save" => v.order[i].status # "absent"

Agrees(t) == AgreesAt(t, pc[t], id[t], view[t], wrote[t], missed[t])

Exclusive ==
  \A t, u \in Request : t # u => wrote[t] \cap wrote[u] = {}

(* Orders are seeds or belong to checkouts that committed, each to its own. *)
Placed ==
  /\ \A o \in Imported : db.order[o].status # "absent"
  /\ \A o \in Order \ Imported : db.order[o].status # "absent" =>
       \E t \in Checkout : pc[t] \in {"audit", "done", "crashed"} /\ id[t] = o
  /\ \A t \in Checkout : pc[t] \in {"audit", "done"} =>
       id[t] \in Order \ Imported /\ db.order[id[t]].status # "absent"
  /\ \A t, u \in Checkout :
       /\ pc[t] \in {"audit", "done"} /\ pc[u] \in {"audit", "done"}
       /\ id[t] = id[u]
       => t = u

Orderly == Typed /\ (\A t \in Request : Fits(t) /\ Agrees(t)) /\ Exclusive /\ Placed

LEMMA InitOrderly == Init => Orderly
<1> SUFFICES ASSUME Init PROVE Orderly
  OBVIOUS
<1>1. db \in DbDoc
  <2>1. Store!NewCoupon(UsageLimit) \in Store!CouponDoc
    BY InputsAreDocuments DEF Store!NewCoupon, Store!CouponDoc
  <2>2. \A o \in Order : (IF o \in Imported THEN Seed[o] ELSE Store!Absent) \in Store!OrderDoc
    BY SeedsAreOrders, AbsentIsOrder
  <2>3. InitialStock \in Nat
    BY InputsAreDocuments
  <2> QED BY <2>1, <2>2, <2>3 DEF Init, DbDoc
<1>2. \A t \in Request : /\ t \in Checkout => input[t] \in CheckoutDoc
                         /\ t \in Patcher => input[t] \in Patch
  BY CheckoutInputs, RequestsApart DEF Init, CheckoutDoc, Request
<1>3. /\ pc \in [Request -> Place]
      /\ ids \in [Request -> 0 .. MaxIds] /\ runs \in [Request -> 0 .. MaxRuns]
      /\ view \in [Request -> DbDoc \cup {None}]
  BY BoundsArePositive DEF Init, Place, Working
<1>4. /\ wrote \in [Request -> SUBSET Key] /\ missed \in [Request -> SUBSET Key]
      /\ moving \in [Request -> Order \cup {None}] /\ todo \in [Request -> SUBSET Product]
  BY DEF Init
<1>5. Typed
  <2>1. id \in [Request -> Order \cup {None}]
    BY DEF Init
  <2> QED BY <1>1, <1>2, <1>3, <1>4, <2>1 DEF Typed
<1>6. ASSUME NEW t \in Request PROVE Fits(t)
  BY BoundsArePositive, NoneIsNoId, RequestsApart
     DEF Init, Fits, FitsAt, Working, Request
<1>7. ASSUME NEW t \in Request PROVE Agrees(t)
  BY DEF Init, Agrees, AgreesAt
<1>8. Exclusive
  BY DEF Init, Exclusive
<1>9. Placed
  <2>1. \A o \in Order : db.order[o] = IF o \in Imported THEN Seed[o] ELSE Store!Absent
    BY DEF Init
  <2>2. \A t \in Checkout : pc[t] = "draw"
    BY DEF Init, Request
  <2> QED BY <2>1, <2>2, SeedsAreOrders DEF Placed, Store!Absent
<1> QED BY <1>5, <1>6, <1>7, <1>8, <1>9 DEF Orderly

-----------------------------------------------------------------------------
(* How a request moves, the database standing still                        *)

(* t may go on at q with the values named as in FitsAt.                    *)
MayMove(t, q, i, n, r, v, w, m, mv, td) ==
  /\ q \in Place /\ i \in Order \cup {None} /\ n \in 0 .. MaxIds /\ r \in 0 .. MaxRuns
  /\ v \in DbDoc \cup {None} /\ w \in SUBSET Key /\ m \in SUBSET Key
  /\ mv \in Order \cup {None} /\ td \in SUBSET Product
  /\ FitsAt(t, q, i, n, r, v, w, m, mv, td) /\ AgreesAt(t, q, i, v, w, m)
  /\ \A k \in w \ wrote[t] : \A u \in Request \ {t} : k \notin wrote[u]
  /\ pc[t] = "draw" \/ i = id[t]
  /\ t \in Checkout =>
       /\ q \in {"audit", "done"} => pc[t] \in {"audit", "done"}
       /\ pc[t] \in {"audit", "done", "crashed"} => q \in {"audit", "done", "crashed"}

LEMMA RequestMoves ==
  ASSUME Orderly, NEW t \in Request, NEW q, NEW i, NEW n, NEW r, NEW v, NEW w, NEW m,
         NEW mv, NEW td, MayMove(t, q, i, n, r, v, w, m, mv, td),
         UNCHANGED <<db, input>>,
         pc' = [pc EXCEPT ![t] = q], id' = [id EXCEPT ![t] = i],
         ids' = [ids EXCEPT ![t] = n], runs' = [runs EXCEPT ![t] = r],
         view' = [view EXCEPT ![t] = v], wrote' = [wrote EXCEPT ![t] = w],
         missed' = [missed EXCEPT ![t] = m], moving' = [moving EXCEPT ![t] = mv],
         todo' = [todo EXCEPT ![t] = td]
  PROVE  Orderly'
<1>0. db' = db /\ input' = input
  OBVIOUS
<1>1. Typed'
  BY DEF Orderly, Typed, MayMove
<1>2. /\ pc'[t] = q /\ id'[t] = i /\ ids'[t] = n /\ runs'[t] = r /\ view'[t] = v
      /\ wrote'[t] = w /\ missed'[t] = m /\ moving'[t] = mv /\ todo'[t] = td
  BY DEF Orderly, Typed
<1>3. \A s \in Request \ {t} :
        /\ pc'[s] = pc[s] /\ id'[s] = id[s] /\ ids'[s] = ids[s] /\ runs'[s] = runs[s]
        /\ view'[s] = view[s] /\ wrote'[s] = wrote[s] /\ missed'[s] = missed[s]
        /\ moving'[s] = moving[s] /\ todo'[s] = todo[s]
  BY DEF Orderly, Typed
<1>4. ASSUME NEW s \in Request PROVE Fits(s)'
  <2>1. CASE s = t
    BY <1>0, <1>2, <2>1 DEF Fits, FitsAt, MayMove
  <2>2. CASE s # t
    BY <1>0, <1>3, <2>2 DEF Orderly, Fits, FitsAt
  <2> QED BY <2>1, <2>2
<1>5. ASSUME NEW s \in Request PROVE Agrees(s)'
  <2>1. CASE s = t
    BY <1>0, <1>2, <2>1 DEF Agrees, AgreesAt, MayMove
  <2>2. CASE s # t
    <3>1. PICK a, b, c, d, e : /\ a = pc'[s] /\ b = id'[s] /\ c = view'[s]
                               /\ d = wrote'[s] /\ e = missed'[s]
      OBVIOUS
    <3>2. AgreesAt(s, a, b, c, d, e)
      BY <1>3, <2>2, <3>1 DEF Orderly, Agrees
    <3>3. AgreesAt(s, a, b, c, d, e)'
      BY <1>0, <3>2 DEF AgreesAt
    <3> QED BY <3>1, <3>3 DEF Agrees, AgreesAt
  <2> QED BY <2>1, <2>2
<1>6. Exclusive'
  BY <1>2, <1>3 DEF Orderly, Exclusive, MayMove
<1>7. Placed'
  <2>1. Checkout \subseteq Request
    BY DEF Request
  <2>2. \A o \in Order \ Imported : db.order[o].status # "absent" =>
          \E s \in Checkout : pc'[s] \in {"audit", "done", "crashed"} /\ id'[s] = o
    BY <1>2, <1>3, <2>1 DEF Orderly, Placed, MayMove
  <2>3. \A s \in Checkout : pc'[s] \in {"audit", "done"} =>
          pc[s] \in {"audit", "done"} /\ id'[s] = id[s]
    BY <1>2, <1>3, <2>1 DEF MayMove
  <2> QED BY <1>0, <2>2, <2>3 DEF Orderly, Placed
<1> QED BY <1>1, <1>4, <1>5, <1>6, <1>7 DEF Orderly

LEMMA AtWork ==
  ASSUME Orderly, NEW t \in Request, pc[t] \in Working
  PROVE  /\ db \in DbDoc /\ view[t] \in DbDoc /\ todo[t] \in SUBSET Product
         /\ Fits(t) /\ Agrees(t)
         /\ t \in Checkout => input[t] \in CheckoutDoc /\ id[t] \in Order
         /\ t \in Patcher => input[t] \in Patch /\ id[t] \in Order
         /\ pc[t] \in {"release", "reserve"} => Min(todo[t]) \in todo[t]
<1>1. Fits(t) /\ Agrees(t)
  BY DEF Orderly
<1>2. todo[t] \in SUBSET Product /\ (pc[t] \in {"release", "reserve"} => todo[t] # {})
  BY <1>1 DEF Orderly, Typed, Fits, FitsAt
<1>3. pc[t] \in {"release", "reserve"} => Min(todo[t]) \in todo[t]
  BY <1>2, ProductsAreSorted, MinIsLeast
<1>4. view[t] # None /\ pc[t] # "draw"
  BY <1>1 DEF Fits, FitsAt, Working
<1> QED BY <1>1, <1>2, <1>3, <1>4 DEF Orderly, Typed, Fits, FitsAt

(* An order that t sees and may write exists exactly if t sees it.         *)
LEMMA SeesOrders ==
  ASSUME Orderly, NEW t \in Request, pc[t] \in Working, pc[t] # "commit",
         NEW o \in Order, ~Conflicts(t, <<"order", o>>)
  PROVE  view[t].order[o].status = "absent" <=> db.order[o].status = "absent"
<1>1. view[t] # None /\ Agrees(t)
  BY AtWork DEF Fits, FitsAt
<1>2. <<"order", o>> \notin missed[t]
  BY DEF Conflicts
<1> QED BY <1>1, <1>2 DEF Agrees, AgreesAt

(* A callback throws, or its transaction ends without a commit.            *)
MayEnd(t, at) ==
  /\ at \in {"refused", "draw", "failed", "begin", "crashed", "done"}
  /\ pc[t] \in Working \/ pc[t] = "begin" \/ (pc[t] = "audit" /\ at = "crashed")
  /\ at = "begin" => runs[t] < MaxRuns
  /\ at = "draw" => t \in Checkout /\ ids[t] < MaxIds
  /\ at = "done" => t \notin Checkout

LEMMA ClosingKeeps ==
  ASSUME Orderly, NEW t \in Request, NEW at, MayEnd(t, at),
         Close(t, at), Forget(t), UNCHANGED <<db, input, id, ids, runs>>
  PROVE  Orderly'
<1>1. Fits(t) /\ pc[t] # "draw"
  BY DEF Orderly, Working, MayEnd
<1>2. FitsAt(t, at, id[t], ids[t], runs[t], None, {}, {}, None, {})
  BY <1>1 DEF Fits, FitsAt, Working, MayEnd
<1>3. AgreesAt(t, at, id[t], None, {}, {})
  BY DEF AgreesAt, MayEnd
<1>4. /\ id' = [id EXCEPT ![t] = id[t]] /\ ids' = [ids EXCEPT ![t] = ids[t]]
      /\ runs' = [runs EXCEPT ![t] = runs[t]]
      /\ id[t] \in Order \cup {None} /\ ids[t] \in 0 .. MaxIds /\ runs[t] \in 0 .. MaxRuns
  BY DEF Orderly, Typed
<1>5. at \in Place
  BY DEF Place, Final, MayEnd
<1>6. UNCHANGED <<db, input>>
  OBVIOUS
<1>7. t \in Checkout =>
        /\ at \in {"audit", "done"} => pc[t] \in {"audit", "done"}
        /\ pc[t] \in {"audit", "done", "crashed"} => at \in {"audit", "done", "crashed"}
  BY DEF Working, MayEnd
<1>8. /\ pc' = [pc EXCEPT ![t] = at] /\ view' = [view EXCEPT ![t] = None]
      /\ wrote' = [wrote EXCEPT ![t] = {}] /\ missed' = [missed EXCEPT ![t] = {}]
      /\ moving' = [moving EXCEPT ![t] = None] /\ todo' = [todo EXCEPT ![t] = {}]
  BY DEF Close, Forget
<1>9. /\ None \in DbDoc \cup {None} /\ None \in Order \cup {None}
      /\ {} \in SUBSET Key /\ {} \in SUBSET Product
      /\ \A k \in {} \ wrote[t] : \A u \in Request \ {t} : k \notin wrote[u]
  OBVIOUS
<1>10. MayMove(t, at, id[t], ids[t], runs[t], None, {}, {}, None, {})
  BY <1>2, <1>3, <1>4, <1>5, <1>7, <1>9 DEF MayMove
<1> QED BY <1>4, <1>6, <1>8, <1>10, RequestMoves

(* A transaction begins with a snapshot of the database.                   *)
LEMMA BeginningKeeps ==
  ASSUME Orderly, NEW t \in Request, NEW q \in {"redeem", "expire", "save"},
         pc[t] = "begin", NEW r \in 0 .. MaxRuns, NEW v, v = db,
         UNCHANGED <<db, input>>,
         pc' = [pc EXCEPT ![t] = q], view' = [view EXCEPT ![t] = v],
         runs' = [runs EXCEPT ![t] = r],
         id' = [id EXCEPT ![t] = id[t]], ids' = [ids EXCEPT ![t] = ids[t]],
         wrote' = [wrote EXCEPT ![t] = {}], missed' = [missed EXCEPT ![t] = {}],
         moving' = [moving EXCEPT ![t] = moving[t]],
         todo' = [todo EXCEPT ![t] = todo[t]],
         q = "redeem" => t \in Checkout /\ input[t].coupon # None,
         q = "save" => t \in Patcher,
         AgreesAt(t, q, id[t], v, {}, {})
  PROVE  Orderly'
<1>1. Fits(t)
  BY DEF Orderly
<1>2. /\ id[t] \in Order \cup {None} /\ ids[t] \in 0 .. MaxIds
      /\ moving[t] \in Order \cup {None} /\ todo[t] \in SUBSET Product
  BY DEF Orderly, Typed
<1>3. v \in DbDoc /\ v # None
  BY NoneIsNoId DEF Orderly, Typed, DbDoc
<1>4. FitsAt(t, q, id[t], ids[t], r, v, {}, {}, moving[t], todo[t])
  BY <1>1, <1>3 DEF Fits, FitsAt, Working
<1>6. q \in Place /\ v \in DbDoc \cup {None} /\ {} \in SUBSET Key
  BY <1>3 DEF Place, Working
<1>7. \A k \in {} \ wrote[t] : \A u \in Request \ {t} : k \notin wrote[u]
  OBVIOUS
<1>8. t \in Checkout =>
        /\ q \in {"audit", "done"} => pc[t] \in {"audit", "done"}
        /\ pc[t] \in {"audit", "done", "crashed"} => q \in {"audit", "done", "crashed"}
  OBVIOUS
<1>9. MayMove(t, q, id[t], ids[t], r, v, {}, {}, moving[t], todo[t])
  BY <1>2, <1>4, <1>6, <1>7, <1>8 DEF MayMove
<1> QED BY <1>9, RequestMoves

(* A statement writes the documents ks and leaves new in the view; t goes  *)
(* on at q, moving the stock of mv with td to go.                          *)
MayWrite(t, ks, new, q, mv, td) ==
  /\ pc[t] \in Working /\ pc[t] # "commit"
  /\ ks \in SUBSET Key /\ new \in DbDoc
  /\ q \in {"expire", "release", "reserve", "insert", "commit"}
  /\ mv \in Order \cup {None} /\ td \in SUBSET Product
  /\ q = "insert" => t \in Checkout
  /\ q \in {"release", "reserve"} => td # {}
  /\ q = "release" => mv \in Order
  /\ q = "reserve" => t \in Checkout \/ mv \in Order
  /\ \A o \in Order :
       IF <<"order", o>> \in ks
       THEN /\ new.order[o].status # "absent"
            /\ \/ db.order[o].status # "absent"
               \/ t \in Checkout /\ q = "commit" /\ id[t] = o
       ELSE new.order[o].status = view[t].order[o].status
  /\ t \in Checkout /\ q = "commit" =>
       <<"order", id[t]>> \in ks /\ db.order[id[t]].status = "absent"

LEMMA WritingKeeps ==
  ASSUME Orderly, NEW t \in Request, NEW ks, NEW new, NEW q, NEW mv, NEW td,
         MayWrite(t, ks, new, q, mv, td), Write(t, ks, new),
         pc' = [pc EXCEPT ![t] = q], moving' = [moving EXCEPT ![t] = mv],
         todo' = [todo EXCEPT ![t] = td]
  PROVE  Orderly'
<1>0. PICK w, i, n, r, m : /\ w = wrote[t] \cup ks
                           /\ i = id[t] /\ n = ids[t] /\ r = runs[t] /\ m = missed[t]
  OBVIOUS
<1>1. Fits(t) /\ Agrees(t) /\ view[t] # None
  BY AtWork DEF Fits, FitsAt, MayWrite
<1>2. new # None
  BY NoneIsNoId DEF DbDoc, MayWrite
<1>3. \A k \in ks : k \notin missed[t] /\ \A u \in Request \ {t} : k \notin wrote[u]
  BY DEF Write, Conflicts, MayWrite
<1>4. FitsAt(t, q, i, n, r, new, w, m, mv, td)
  BY <1>0, <1>1, <1>2, AtWork DEF Fits, FitsAt, MayWrite, Working
<1>5. AgreesAt(t, q, i, new, w, m)
  <2>1. ASSUME NEW o \in Order, <<"order", o>> \in w
        PROVE  /\ <<"order", o>> \notin missed[t]
               /\ new.order[o].status # "absent"
               /\ \/ db.order[o].status # "absent"
                  \/ t \in Checkout /\ q = "commit" /\ id[t] = o
    BY <1>0, <1>1, <1>3, <2>1 DEF Agrees, AgreesAt, MayWrite
  <2>2. ASSUME NEW o \in Order, <<"order", o>> \notin w \cup missed[t]
        PROVE  new.order[o].status = "absent" <=> db.order[o].status = "absent"
    BY <1>0, <1>1, <2>2 DEF Agrees, AgreesAt, MayWrite
  <2> QED BY <1>0, <1>3, <2>1, <2>2 DEF AgreesAt, MayWrite
<1>6. /\ id' = [id EXCEPT ![t] = i] /\ ids' = [ids EXCEPT ![t] = n]
      /\ runs' = [runs EXCEPT ![t] = r] /\ missed' = [missed EXCEPT ![t] = m]
      /\ i \in Order \cup {None} /\ n \in 0 .. MaxIds /\ r \in 0 .. MaxRuns
      /\ m \in SUBSET Key /\ w \in SUBSET Key
  BY <1>0 DEF Orderly, Typed, Write, MayWrite
<1>7. /\ view' = [view EXCEPT ![t] = new] /\ wrote' = [wrote EXCEPT ![t] = w]
      /\ UNCHANGED <<db, input>>
  BY <1>0 DEF Write
<1>8. \A k \in w \ wrote[t] : \A u \in Request \ {t} : k \notin wrote[u]
  BY <1>0, <1>3
<1>9. t \in Checkout =>
        /\ q \in {"audit", "done"} => pc[t] \in {"audit", "done"}
        /\ pc[t] \in {"audit", "done", "crashed"} => q \in {"audit", "done", "crashed"}
  BY DEF Working, MayWrite
<1>10. /\ q \in Place /\ new \in DbDoc \cup {None}
       /\ mv \in Order \cup {None} /\ td \in SUBSET Product
       /\ pc[t] = "draw" \/ i = id[t]
  BY <1>0 DEF MayWrite, Place, Working
<1>11. MayMove(t, q, i, n, r, new, w, m, mv, td)
  BY <1>4, <1>5, <1>6, <1>8, <1>9, <1>10 DEF MayMove
<1> QED BY <1>6, <1>7, <1>11, RequestMoves

-----------------------------------------------------------------------------
(* The statements                                                          *)

LEMMA BeginsKeep ==
  ASSUME Orderly, NEW t \in Request,
         BeginCheckout(t) \/ BeginPatch(t) \/ BeginCron(t)
  PROVE  Orderly'
<1>1. PICK q, r, v :
         /\ q = IF t \in Patcher THEN "save"
                ELSE IF t \in Cron \/ input[t].coupon = None THEN "expire" ELSE "redeem"
         /\ r = runs[t] + 1 /\ v = db
  OBVIOUS
<1>2. pc[t] = "begin" /\ UNCHANGED <<db, input, id, ids, wrote, missed, moving, todo>>
  BY DEF BeginCheckout, BeginPatch, BeginCron
<1>3. Fits(t) /\ wrote[t] = {} /\ missed[t] = {} /\ runs[t] < MaxRuns
  BY <1>2 DEF Orderly, Fits, FitsAt, Working
<1>4. r \in 0 .. MaxRuns
  BY <1>1, <1>3, BoundsArePositive DEF Orderly, Typed
<1>5. /\ id' = [id EXCEPT ![t] = id[t]] /\ ids' = [ids EXCEPT ![t] = ids[t]]
      /\ wrote' = [wrote EXCEPT ![t] = {}] /\ missed' = [missed EXCEPT ![t] = {}]
      /\ moving' = [moving EXCEPT ![t] = moving[t]]
      /\ todo' = [todo EXCEPT ![t] = todo[t]]
  BY <1>2, <1>3 DEF Orderly, Typed
<1>6. view' = [view EXCEPT ![t] = v] /\ runs' = [runs EXCEPT ![t] = r]
  BY <1>1 DEF BeginCheckout, BeginPatch, BeginCron
<1>7. pc' = [pc EXCEPT ![t] = q]
  BY <1>1, RequestsApart DEF BeginCheckout, BeginPatch, BeginCron
<1>8. /\ q \in {"redeem", "expire", "save"}
      /\ q = "redeem" => t \in Checkout /\ input[t].coupon # None
      /\ q = "save" => t \in Patcher
  BY <1>1, RequestsApart DEF BeginCheckout, BeginPatch, BeginCron
<1>12. AgreesAt(t, q, id[t], v, {}, {})
  BY <1>1, RequestsApart DEF BeginCheckout, BeginPatch, BeginCron, AgreesAt
<1>9. UNCHANGED <<db, input>>
  BY <1>2
<1>10. pc[t] = "begin"
  BY <1>2
<1>11. v = db
  BY <1>1
<1> HIDE <1>1
<1> QED BY <1>4, <1>5, <1>6, <1>7, <1>8, <1>9, <1>10, <1>11, <1>12, BeginningKeeps

(* A callback that throws, is run again or killed, and the cron's last.    *)
LEMMA EndsKeep ==
  ASSUME Orderly, NEW t \in Request,
         \/ RefuseCheckout(t) \/ RefusePatch(t) \/ RefuseCoupon(t) \/ RefuseLine(t)
         \/ InsertDuplicate(t) \/ FinishCron(t) \/ RunAgain(t) \/ Crash(t)
  PROVE  Orderly'
<1> DEFINE Ends(at) == Close(t, at) /\ Forget(t) /\ UNCHANGED <<db, input, id, ids, runs>>
<1>0. \A at : MayEnd(t, at) /\ Ends(at) => Orderly'
  BY ClosingKeeps
<1>1. Fits(t)
  BY DEF Orderly
<1>2. CASE RefuseCheckout(t) \/ RefusePatch(t) \/ RefuseCoupon(t) \/ RefuseLine(t)
  <2>1. pc[t] \in Working \/ pc[t] = "begin"
    BY <1>2 DEF RefuseCheckout, RefusePatch, RefuseCoupon, RefuseLine, Working
  <2>2. MayEnd(t, "refused")
    BY <2>1 DEF MayEnd
  <2>3. Ends("refused")
    BY <1>2 DEF RefuseCheckout, RefusePatch, RefuseCoupon, RefuseLine, Abort
  <2> QED BY <1>0, <2>2, <2>3
<1>3. CASE InsertDuplicate(t)
  <2>1. PICK at : at = IF ids[t] < MaxIds THEN "draw" ELSE "failed"
    OBVIOUS
  <2>2. pc[t] \in Working /\ t \in Checkout
    BY <1>1, <1>3 DEF InsertDuplicate, Fits, FitsAt, Working
  <2>3. MayEnd(t, at)
    BY <2>1, <2>2 DEF MayEnd
  <2>4. Ends(at)
    BY <1>3, <2>1 DEF InsertDuplicate, Abort
  <2> QED BY <1>0, <2>3, <2>4
<1>4. CASE FinishCron(t)
  <2>1. pc[t] \in Working /\ t \notin Checkout
    BY <1>4, RequestsApart DEF FinishCron, Working
  <2>2. MayEnd(t, "done")
    BY <2>1 DEF MayEnd
  <2>3. Ends("done")
    BY <1>4 DEF FinishCron
  <2> QED BY <1>0, <2>2, <2>3
<1>5. CASE RunAgain(t)
  <2>1. PICK at : at = IF runs[t] < MaxRuns THEN "begin" ELSE "failed"
    OBVIOUS
  <2>2. pc[t] \in Working
    BY <1>5 DEF RunAgain, ExpiryConflict, Wants, Working
  <2>3. MayEnd(t, at)
    BY <2>1, <2>2 DEF MayEnd
  <2>4. Ends(at)
    BY <1>5, <2>1 DEF RunAgain, Abort
  <2> QED BY <1>0, <2>3, <2>4
<1>6. CASE Crash(t)
  <2>1. pc[t] \in Working \/ pc[t] = "audit"
    BY <1>1, <1>6 DEF Crash, Open, Fits, FitsAt
  <2>2. MayEnd(t, "crashed")
    BY <2>1 DEF MayEnd
  <2>3. Ends("crashed")
    BY <1>6 DEF Crash, Abort
  <2> QED BY <1>0, <2>2, <2>3
<1> QED BY <1>2, <1>3, <1>4, <1>5, <1>6

(* The attempts of a checkout, and what comes after its commit.            *)
LEMMA DrawIdKeeps ==
  ASSUME Orderly, NEW t \in Request, NEW o \in Order, DrawId(t, o)
  PROVE  Orderly'
<1>1. PICK n, v, w, m, mv, td :
        /\ n = ids[t] + 1 /\ v = view[t] /\ w = wrote[t] /\ m = missed[t]
        /\ mv = moving[t] /\ td = todo[t]
  OBVIOUS
<1>2. pc[t] = "draw" /\ Fits(t) /\ Agrees(t)
  BY DEF DrawId, Orderly
<1>3. n \in 0 .. MaxIds /\ 0 \in 0 .. MaxRuns /\ 0 < MaxRuns
  BY <1>1, <1>2, BoundsArePositive DEF Orderly, Typed, Fits, FitsAt
<1>4. /\ pc' = [pc EXCEPT ![t] = "begin"] /\ id' = [id EXCEPT ![t] = o]
      /\ ids' = [ids EXCEPT ![t] = n] /\ runs' = [runs EXCEPT ![t] = 0]
      /\ UNCHANGED <<db, input>>
  BY <1>1 DEF DrawId
<1>5. /\ view' = [view EXCEPT ![t] = v] /\ wrote' = [wrote EXCEPT ![t] = w]
      /\ missed' = [missed EXCEPT ![t] = m] /\ moving' = [moving EXCEPT ![t] = mv]
      /\ todo' = [todo EXCEPT ![t] = td]
  BY <1>1 DEF DrawId, txnVars, Orderly, Typed
<1>6. /\ v \in DbDoc \cup {None} /\ w \in SUBSET Key /\ m \in SUBSET Key
      /\ mv \in Order \cup {None} /\ td \in SUBSET Product
      /\ "begin" \in Place /\ o \in Order \cup {None}
  BY <1>1 DEF Orderly, Typed, Place
<1>7. FitsAt(t, "begin", o, n, 0, v, w, m, mv, td)
  BY <1>1, <1>2, <1>3 DEF Fits, FitsAt, Working
<1>8. AgreesAt(t, "begin", o, v, w, m)
  BY <1>1, <1>2 DEF Agrees, AgreesAt, Fits, FitsAt, Working
<1>9. \A k \in w \ wrote[t] : \A u \in Request \ {t} : k \notin wrote[u]
  BY <1>1
<1>10. t \in Checkout =>
         /\ "begin" \in {"audit", "done"} => pc[t] \in {"audit", "done"}
         /\ pc[t] \in {"audit", "done", "crashed"} => "begin" \in {"audit", "done", "crashed"}
  BY <1>2
<1>11. pc[t] = "draw" \/ o = id[t]
  BY <1>2
<1>12. MayMove(t, "begin", o, n, 0, v, w, m, mv, td)
  BY <1>3, <1>6, <1>7, <1>8, <1>9, <1>10, <1>11 DEF MayMove
<1> QED BY <1>4, <1>5, <1>12, RequestMoves

LEMMA AuditKeeps ==
  ASSUME Orderly, NEW t \in Request, Audit(t)
  PROVE  Orderly'
<1>1. pc[t] = "audit" /\ Fits(t) /\ Agrees(t)
  BY DEF Audit, Orderly
<1>2. pc' = [pc EXCEPT ![t] = "done"] /\ UNCHANGED <<db, input>>
  BY DEF Audit
<1>3. /\ id' = [id EXCEPT ![t] = id[t]] /\ ids' = [ids EXCEPT ![t] = ids[t]]
      /\ runs' = [runs EXCEPT ![t] = runs[t]]
      /\ view' = [view EXCEPT ![t] = view[t]] /\ wrote' = [wrote EXCEPT ![t] = wrote[t]]
      /\ missed' = [missed EXCEPT ![t] = missed[t]]
      /\ moving' = [moving EXCEPT ![t] = moving[t]] /\ todo' = [todo EXCEPT ![t] = todo[t]]
  BY DEF Audit, txnVars, Orderly, Typed
<1>4. /\ id[t] \in Order \cup {None} /\ ids[t] \in 0 .. MaxIds /\ runs[t] \in 0 .. MaxRuns
      /\ view[t] \in DbDoc \cup {None} /\ wrote[t] \in SUBSET Key
      /\ missed[t] \in SUBSET Key /\ moving[t] \in Order \cup {None}
      /\ todo[t] \in SUBSET Product /\ "done" \in Place
  BY DEF Orderly, Typed, Place, Final
<1>5. FitsAt(t, "done", id[t], ids[t], runs[t], view[t], wrote[t], missed[t],
             moving[t], todo[t])
  BY <1>1 DEF Fits, FitsAt, Working
<1>6. AgreesAt(t, "done", id[t], view[t], wrote[t], missed[t])
  BY <1>1 DEF Agrees, AgreesAt, Fits, FitsAt, Working
<1>7. \A k \in wrote[t] \ wrote[t] : \A u \in Request \ {t} : k \notin wrote[u]
  OBVIOUS
<1>8. t \in Checkout =>
        /\ "done" \in {"audit", "done"} => pc[t] \in {"audit", "done"}
        /\ pc[t] \in {"audit", "done", "crashed"} => "done" \in {"audit", "done", "crashed"}
  BY <1>1
<1>9. MayMove(t, "done", id[t], ids[t], runs[t], view[t], wrote[t], missed[t],
               moving[t], todo[t])
  BY <1>4, <1>5, <1>6, <1>7, <1>8 DEF MayMove
<1> QED BY <1>2, <1>3, <1>9, RequestMoves

(* What a statement leaves in the view.                                    *)
LEMMA OrderWritten ==
  ASSUME NEW v \in DbDoc, NEW o \in Order, NEW d \in Store!OrderDoc
  PROVE  /\ [v EXCEPT !.order[o] = d] \in DbDoc
         /\ \A x \in Order : [v EXCEPT !.order[o] = d].order[x] =
                               IF x = o THEN d ELSE v.order[x]
BY DEF DbDoc

LEMMA StockWritten ==
  ASSUME NEW v \in DbDoc, NEW p \in Product, NEW n \in Nat
  PROVE  /\ [v EXCEPT !.stock[p] = n] \in DbDoc
         /\ [v EXCEPT !.stock[p] = n].order = v.order
BY DEF DbDoc

LEMMA CouponWritten ==
  ASSUME NEW v \in DbDoc, NEW c \in Coupon
  PROVE  LET n == v.coupon[c].timesUsed + 1
         IN  /\ [v EXCEPT !.coupon[c].timesUsed = n] \in DbDoc
             /\ [v EXCEPT !.coupon[c].timesUsed = n].order = v.order
<1>1. PICK d : d = [v.coupon[c] EXCEPT !.timesUsed = @ + 1]
  OBVIOUS
<1>2. v.coupon \in [Coupon -> Store!CouponDoc]
  BY DEF DbDoc
<1>3. d \in Store!CouponDoc
  BY <1>1, <1>2 DEF Store!CouponDoc
<1>4. [v EXCEPT !.coupon[c] = d] \in DbDoc /\ [v EXCEPT !.coupon[c] = d].order = v.order
  BY <1>3 DEF DbDoc
<1> QED BY <1>1, <1>4

LEMMA LinesOfOrder ==
  ASSUME NEW d \in Store!OrderDoc
  PROVE  /\ Lines(d.items) \in SUBSET Product
         /\ HeldLines(d) \in SUBSET Product
         /\ \A p \in Product : d.items[p] \in Nat
BY BoundsArePositive DEF Lines, HeldLines, Store!OrderDoc

LEMMA ReleaseLineKeeps ==
  ASSUME Orderly, NEW t \in Request, ReleaseLine(t)
  PROVE  Orderly'
<1>1. /\ pc[t] = "release" /\ pc[t] \in Working
      /\ view[t] \in DbDoc /\ Min(todo[t]) \in Product /\ moving[t] \in Order
      /\ todo[t] \in SUBSET Product
  BY AtWork DEF ReleaseLine, Working, Fits, FitsAt
<1>2. PICK p, n, new, ks, td, q, mv :
        /\ p = Min(todo[t])
        /\ n = view[t].stock[p] + view[t].order[moving[t]].items[p]
        /\ new = [view[t] EXCEPT !.stock[p] = n] /\ ks = {<<"product", p>>}
        /\ td = todo[t] \ {p} /\ mv = moving[t]
        /\ q = IF td = {} THEN AfterRelease(t) ELSE "release"
  OBVIOUS
<1>3. n \in Nat
  BY <1>1, <1>2, LinesOfOrder DEF DbDoc
<1>4. new \in DbDoc /\ new.order = view[t].order
  BY <1>1, <1>2, <1>3, StockWritten
<1>5. ks \in SUBSET Key /\ \A o \in Order : <<"order", o>> \notin ks
  BY <1>1, <1>2 DEF Key
<1>6. Write(t, ks, new)
  BY <1>2 DEF ReleaseLine
<1>7. /\ pc' = [pc EXCEPT ![t] = q] /\ moving' = [moving EXCEPT ![t] = mv]
      /\ todo' = [todo EXCEPT ![t] = td]
  BY <1>2 DEF ReleaseLine, MoveLines
<1>8. /\ q \in {"expire", "release", "commit"}
      /\ q = "release" => td # {}
      /\ t \in Checkout => q # "commit"
  BY <1>2 DEF AfterRelease
<1>9. mv \in Order /\ td \in SUBSET Product
  BY <1>1, <1>2
<1>10. MayWrite(t, ks, new, q, mv, td)
  BY <1>1, <1>4, <1>5, <1>8, <1>9 DEF MayWrite
<1> QED BY <1>6, <1>7, <1>10, WritingKeeps

LEMMA ReserveLineKeeps ==
  ASSUME Orderly, NEW t \in Request, ReserveLine(t)
  PROVE  Orderly'
<1>1. /\ pc[t] = "reserve" /\ pc[t] \in Working
      /\ view[t] \in DbDoc /\ Min(todo[t]) \in Product /\ todo[t] \in SUBSET Product
      /\ moving[t] \in Order \cup {None} /\ (t \in Checkout \/ moving[t] \in Order)
      /\ t \in Checkout => input[t] \in CheckoutDoc
  BY AtWork DEF ReserveLine, Working, Orderly, Typed, Fits, FitsAt
<1>2. PICK p, n, new, ks, td, q, mv :
        /\ p = Min(todo[t]) /\ n = view[t].stock[p] - Wanted(t)[p]
        /\ new = [view[t] EXCEPT !.stock[p] = n] /\ ks = {<<"product", p>>}
        /\ td = todo[t] \ {p} /\ mv = moving[t]
        /\ q = IF td = {} THEN AfterReserve(t) ELSE "reserve"
  OBVIOUS
<1>3. n \in Nat
  <2>1. Wanted(t)[p] \in Nat
    <3>1. CASE t \in Checkout
      <4>1. input[t].cart \in [Product -> 0 .. MaxQuantity]
        BY <1>1, <3>1, InputsAreDocuments DEF CheckoutDoc
      <4>2. Wanted(t) = input[t].cart
        BY <3>1 DEF Wanted
      <4> QED BY <1>1, <1>2, <4>1, <4>2, BoundsArePositive
    <3>2. CASE t \notin Checkout
      BY <1>1, <1>2, <3>2, LinesOfOrder DEF Wanted, DbDoc
    <3> QED BY <3>1, <3>2
  <2>2. view[t].stock[p] \in Nat /\ view[t].stock[p] >= Wanted(t)[p]
    BY <1>1, <1>2 DEF ReserveLine, InStock, DbDoc
  <2> QED BY <1>2, <2>1, <2>2
<1>4. new \in DbDoc /\ new.order = view[t].order
  BY <1>1, <1>2, <1>3, StockWritten
<1>5. ks \in SUBSET Key /\ \A o \in Order : <<"order", o>> \notin ks
  BY <1>1, <1>2 DEF Key
<1>6. Write(t, ks, new)
  BY <1>2 DEF ReserveLine
<1>7. /\ pc' = [pc EXCEPT ![t] = q] /\ moving' = [moving EXCEPT ![t] = mv]
      /\ todo' = [todo EXCEPT ![t] = td]
  BY <1>2 DEF ReserveLine, MoveLines
<1>8. /\ q \in {"insert", "reserve", "commit"}
      /\ q = "reserve" => td # {}
      /\ q = "insert" => t \in Checkout
      /\ t \in Checkout => q # "commit"
  BY <1>2 DEF AfterReserve
<1>9. mv \in Order \cup {None} /\ (t \in Checkout \/ mv \in Order) /\ td \in SUBSET Product
  BY <1>1, <1>2
<1>10. MayWrite(t, ks, new, q, mv, td)
  BY <1>1, <1>4, <1>5, <1>8, <1>9 DEF MayWrite
<1> QED BY <1>6, <1>7, <1>10, WritingKeeps

LEMMA RedeemUseKeeps ==
  ASSUME Orderly, NEW t \in Request, RedeemUse(t)
  PROVE  Orderly'
<1>1. /\ pc[t] = "redeem" /\ pc[t] \in Working /\ view[t] \in DbDoc
      /\ t \in Checkout /\ input[t] \in CheckoutDoc /\ input[t].coupon # None
  BY AtWork DEF RedeemUse, Working, Fits, FitsAt
<1>2. PICK c, new, ks, mv, td :
        /\ c = input[t].coupon
        /\ new = [view[t] EXCEPT !.coupon[c].timesUsed = @ + 1]
        /\ ks = {<<"coupon", c>>} /\ mv = moving[t] /\ td = todo[t]
  OBVIOUS
<1>3. c \in Coupon
  BY <1>1, <1>2 DEF CheckoutDoc
<1>4. new \in DbDoc /\ new.order = view[t].order
  BY <1>1, <1>2, <1>3, CouponWritten
<1>5. ks \in SUBSET Key /\ \A o \in Order : <<"order", o>> \notin ks
  BY <1>2, <1>3 DEF Key
<1>6. Write(t, ks, new)
  BY <1>2 DEF RedeemUse
<1>7. /\ pc' = [pc EXCEPT ![t] = "expire"] /\ moving' = [moving EXCEPT ![t] = mv]
      /\ todo' = [todo EXCEPT ![t] = td]
  BY <1>2 DEF RedeemUse, Orderly, Typed
<1>8. mv \in Order \cup {None} /\ td \in SUBSET Product
  BY <1>2 DEF Orderly, Typed
<1>9. MayWrite(t, ks, new, "expire", mv, td)
  BY <1>1, <1>4, <1>5, <1>8 DEF MayWrite
<1> QED BY <1>6, <1>7, <1>9, WritingKeeps

LEMMA ExpireOneKeeps ==
  ASSUME Orderly, NEW t \in Request, NEW o \in Order, ExpireOne(t, o)
  PROVE  Orderly'
<1>1. PICK d, new, ks, td, q :
        /\ d = view[t].order[o]
        /\ new = [view[t] EXCEPT !.order[o] = Store!Expired(d)]
        /\ ks = {<<"order", o>>} /\ td = HeldLines(d)
        /\ q = IF td = {} THEN AfterRelease(t) ELSE "release"
  OBVIOUS
<1>2. pc[t] = "expire" /\ pc[t] \in Working /\ view[t] \in DbDoc
  BY AtWork DEF ExpireOne, Working
<1>3. d \in Store!OrderDoc /\ d.status # "absent"
  BY <1>1, <1>2 DEF ExpireOne, Stale, DbDoc
<1>4. Write(t, ks, new)
  BY <1>1 DEF ExpireOne
<1>5. db.order[o].status # "absent"
  <2>1. ~Conflicts(t, <<"order", o>>)
    BY <1>1, <1>4 DEF Write
  <2> QED BY <1>1, <1>2, <1>3, <2>1, SeesOrders
<1>6. /\ new \in DbDoc
      /\ \A x \in Order : new.order[x] = IF x = o THEN Store!Expired(d) ELSE view[t].order[x]
  BY <1>1, <1>2, <1>3, ExpiredIsOrder, OrderWritten
<1>7. /\ pc' = [pc EXCEPT ![t] = q] /\ moving' = [moving EXCEPT ![t] = o]
      /\ todo' = [todo EXCEPT ![t] = td]
  BY <1>1 DEF ExpireOne, MoveLines
<1>8. /\ q \in {"expire", "release", "commit"}
      /\ q = "release" => td # {}
      /\ t \in Checkout => q # "commit"
  BY <1>1 DEF AfterRelease
<1>9. ks \in SUBSET Key /\ \A x \in Order : <<"order", x>> \in ks <=> x = o
  BY <1>1 DEF Key
<1>10. td \in SUBSET Product
  BY <1>1, <1>3, LinesOfOrder
<1>11. Store!Expired(d).status # "absent"
  BY <1>3, ExpiredIsOrder
<1>12. MayWrite(t, ks, new, q, o, td)
  BY <1>2, <1>5, <1>6, <1>8, <1>9, <1>10, <1>11 DEF MayWrite
<1> QED BY <1>4, <1>7, <1>12, WritingKeeps

LEMMA InsertOrderKeeps ==
  ASSUME Orderly, NEW t \in Request, InsertOrder(t)
  PROVE  Orderly'
<1>1. PICK o, d, new, ks, mv, td :
        /\ o = id[t]
        /\ d = Store!NewOrder(input[t].cart, "FULL_COD", FALSE, input[t].trx, input[t].coupon)
        /\ new = [view[t] EXCEPT !.order[o] = d] /\ ks = Wants(t)
        /\ mv = moving[t] /\ td = todo[t]
  OBVIOUS
<1>2. /\ pc[t] = "insert" /\ pc[t] \in Working /\ view[t] \in DbDoc
      /\ t \in Checkout /\ input[t] \in CheckoutDoc /\ o \in Order
  BY <1>1, AtWork DEF InsertOrder, Working, Fits, FitsAt
<1>3. d \in Store!OrderDoc /\ d.status # "absent"
  BY <1>1, <1>2, NewOrderIsOrder DEF CheckoutDoc
<1>4. Write(t, ks, new)
  BY <1>1 DEF InsertOrder
<1>5. ks = {<<"order", o>>} \cup ({"trx"} \X ({input[t].trx} \ {None}))
  BY <1>1, <1>2 DEF Wants
<1>6. db.order[o].status = "absent"
  <2>1. ~Conflicts(t, <<"order", o>>)
    BY <1>4, <1>5 DEF Write
  <2>2. view[t].order[o].status = "absent"
    BY <1>1 DEF InsertOrder, Duplicate
  <2> QED BY <1>2, <2>1, <2>2, SeesOrders
<1>7. /\ new \in DbDoc
      /\ \A x \in Order : new.order[x] = IF x = o THEN d ELSE view[t].order[x]
  <2>1. new = [view[t] EXCEPT !.order[o] = d]
    BY <1>1
  <2> QED BY <1>2, <1>3, <2>1, OrderWritten
<1>8. /\ pc' = [pc EXCEPT ![t] = "commit"] /\ moving' = [moving EXCEPT ![t] = mv]
      /\ todo' = [todo EXCEPT ![t] = td]
      /\ mv \in Order \cup {None} /\ td \in SUBSET Product
  BY <1>1 DEF InsertOrder, Orderly, Typed
<1>9. ks \in SUBSET Key /\ \A x \in Order : <<"order", x>> \in ks <=> x = o
  BY <1>2, <1>5 DEF Key, CheckoutDoc
<1>10. MayWrite(t, ks, new, "commit", mv, td)
  BY <1>1, <1>2, <1>3, <1>6, <1>7, <1>8, <1>9 DEF MayWrite
<1> QED BY <1>4, <1>8, <1>10, WritingKeeps

LEMMA SavePatchKeeps ==
  ASSUME Orderly, NEW t \in Request, SavePatch(t)
  PROVE  Orderly'
<1>1. PICK o, before, d, action :
        /\ o = id[t] /\ before = view[t].order[o]
        /\ d = Store!Patched(before, input[t])
        /\ action = Store!StockActionForTransition(before.status, d.status)
  OBVIOUS
<1>2. /\ pc[t] = "save" /\ pc[t] \in Working /\ view[t] \in DbDoc
      /\ t \in Patcher /\ input[t] \in Patch /\ o \in Order
      /\ before.status # "absent"
  BY <1>1, AtWork DEF SavePatch, Working, Fits, FitsAt, Agrees, AgreesAt
<1>3. before \in Store!OrderDoc
  BY <1>1, <1>2 DEF DbDoc
<1>4. d \in Store!OrderDoc /\ d.status # "absent"
  BY <1>1, <1>2, <1>3, PatchedIsOrder
<1>5. PICK saved, new, ks, td, q :
        /\ saved = IF Flips(action, before) THEN [d EXCEPT !.stockDeducted = ~@] ELSE d
        /\ new = [view[t] EXCEPT !.order[o] = saved]
        /\ ks = IF d = before THEN {} ELSE {<<"order", o>>}
        /\ td = IF Flips(action, before) THEN Lines(d.items) ELSE {}
        /\ q = IF td = {} THEN "commit" ELSE action
  OBVIOUS
<1>6. saved \in Store!OrderDoc /\ saved.status = d.status
  BY <1>4, <1>5 DEF Store!OrderDoc
<1>7. Write(t, ks, new)
  BY <1>1, <1>5 DEF SavePatch
<1>8. /\ new \in DbDoc
      /\ \A x \in Order : new.order[x] = IF x = o THEN saved ELSE view[t].order[x]
  BY <1>2, <1>5, <1>6, OrderWritten
<1>9. ASSUME ks # {} PROVE db.order[o].status # "absent"
  <2>1. ~Conflicts(t, <<"order", o>>)
    BY <1>5, <1>7, <1>9 DEF Write
  <2> QED BY <1>1, <1>2, <2>1, SeesOrders
<1>10. \A x \in Order :
         IF <<"order", x>> \in ks
         THEN new.order[x].status # "absent" /\ db.order[x].status # "absent"
         ELSE new.order[x].status = view[t].order[x].status
  BY <1>1, <1>4, <1>5, <1>6, <1>8, <1>9
<1>11. /\ pc' = [pc EXCEPT ![t] = q] /\ moving' = [moving EXCEPT ![t] = o]
       /\ todo' = [todo EXCEPT ![t] = td]
  BY <1>1, <1>5 DEF SavePatch, MoveLines
<1>12. td \in SUBSET Product /\ ks \in SUBSET Key
  BY <1>2, <1>4, <1>5, LinesOfOrder DEF Key
<1>13. q \in {"release", "reserve", "commit"} /\ (q # "commit" => td # {})
  BY <1>5 DEF Flips
<1>14. t \notin Checkout
  BY <1>2, RequestsApart
<1>15. MayWrite(t, ks, new, q, o, td)
  BY <1>2, <1>8, <1>10, <1>12, <1>13, <1>14 DEF MayWrite
<1> QED BY <1>7, <1>11, <1>15, WritingKeeps

LEMMA StartReservingKeeps ==
  ASSUME Orderly, NEW t \in Request, StartReserving(t)
  PROVE  Orderly'
<1>1. PICK q, td, i, n, r, v, w, m :
        /\ td = Lines(input[t].cart) /\ q = IF td = {} THEN "insert" ELSE "reserve"
        /\ i = id[t] /\ n = ids[t] /\ r = runs[t]
        /\ v = view[t] /\ w = wrote[t] /\ m = missed[t]
  OBVIOUS
<1>2. pc[t] = "expire" /\ pc[t] \in Working /\ t \in Checkout /\ Fits(t) /\ Agrees(t)
  BY AtWork DEF StartReserving, Working
<1>3. /\ pc' = [pc EXCEPT ![t] = q] /\ moving' = [moving EXCEPT ![t] = None]
      /\ todo' = [todo EXCEPT ![t] = td] /\ UNCHANGED <<db, input>>
  BY <1>1 DEF StartReserving, MoveLines
<1>4. /\ id' = [id EXCEPT ![t] = i] /\ ids' = [ids EXCEPT ![t] = n]
      /\ runs' = [runs EXCEPT ![t] = r] /\ view' = [view EXCEPT ![t] = v]
      /\ wrote' = [wrote EXCEPT ![t] = w] /\ missed' = [missed EXCEPT ![t] = m]
  BY <1>1 DEF StartReserving, Orderly, Typed
<1>5. /\ i \in Order \cup {None} /\ n \in 0 .. MaxIds /\ r \in 0 .. MaxRuns
      /\ v \in DbDoc \cup {None} /\ w \in SUBSET Key /\ m \in SUBSET Key
  BY <1>1 DEF Orderly, Typed
<1>6. None \in Order \cup {None} /\ td \in SUBSET Product /\ q \in Place
  BY <1>1 DEF Lines, Place, Working
<1>7. FitsAt(t, q, i, n, r, v, w, m, None, td)
  BY <1>1, <1>2 DEF Fits, FitsAt, Working
<1>8. AgreesAt(t, q, i, v, w, m)
  BY <1>1, <1>2 DEF Agrees, AgreesAt
<1>9. \A k \in w \ wrote[t] : \A u \in Request \ {t} : k \notin wrote[u]
  BY <1>1
<1>10. t \in Checkout =>
         /\ q \in {"audit", "done"} => pc[t] \in {"audit", "done"}
         /\ pc[t] \in {"audit", "done", "crashed"} => q \in {"audit", "done", "crashed"}
  BY <1>1, <1>2
<1>11. pc[t] = "draw" \/ i = id[t]
  BY <1>1
<1>12. MayMove(t, q, i, n, r, v, w, m, None, td)
  BY <1>5, <1>6, <1>7, <1>8, <1>9, <1>10, <1>11 DEF MayMove
<1> QED BY <1>3, <1>4, <1>12, RequestMoves

-----------------------------------------------------------------------------
(* The commit, and the environment                                         *)

(* What a commit publishes.                                                *)
LEMMA Published ==
  ASSUME Orderly, NEW t \in Request, Commit(t)
  PROVE  /\ db' \in DbDoc
         /\ \A o \in Order : db'.order[o] = IF <<"order", o>> \in wrote[t]
                                            THEN view[t].order[o] ELSE db.order[o]
<1>1. db \in DbDoc /\ view[t] \in DbDoc
  BY AtWork DEF Commit, Working
<1>2. PICK st, ord, cp :
        /\ st = [p \in Product |-> IF <<"product", p>> \in wrote[t]
                                   THEN view[t].stock[p] ELSE db.stock[p]]
        /\ ord = [o \in Order |-> IF <<"order", o>> \in wrote[t]
                                  THEN view[t].order[o] ELSE db.order[o]]
        /\ cp = [c \in Coupon |-> IF <<"coupon", c>> \in wrote[t]
                                  THEN view[t].coupon[c] ELSE db.coupon[c]]
  OBVIOUS
<1>3. st \in [Product -> Nat] /\ cp \in [Coupon -> Store!CouponDoc]
  BY <1>1, <1>2 DEF DbDoc
<1>4. ord \in [Order -> Store!OrderDoc]
  BY <1>1, <1>2 DEF DbDoc
<1>5. db' = [db EXCEPT !.stock = st, !.order = ord, !.coupon = cp]
  BY <1>1, <1>2 DEF Commit, DbDoc
<1>6. db' \in DbDoc /\ db'.order = ord
  BY <1>1, <1>3, <1>4, <1>5 DEF DbDoc
<1> QED BY <1>2, <1>6

LEMMA CommitKeeps ==
  ASSUME Orderly, NEW t \in Request, Commit(t)
  PROVE  Orderly'
<1>1. /\ pc[t] = "commit" /\ pc[t] \in Working /\ Fits(t) /\ Agrees(t)
      /\ t \in Checkout => id[t] \in Order
  BY AtWork DEF Commit, Working
<1>2. PICK at, w : at = (IF t \in Cron THEN "begin" ELSE "audit") /\ w = wrote[t]
  OBVIOUS
<1>3. /\ db' \in DbDoc
      /\ \A o \in Order : db'.order[o] = IF <<"order", o>> \in w
                                         THEN view[t].order[o] ELSE db.order[o]
  BY <1>2, Published
<1>4. /\ input' = input /\ id' = id /\ ids' = ids
      /\ pc' = [pc EXCEPT ![t] = at] /\ view' = [view EXCEPT ![t] = None]
      /\ wrote' = [wrote EXCEPT ![t] = {}] /\ moving' = [moving EXCEPT ![t] = None]
      /\ todo' = [todo EXCEPT ![t] = {}]
  BY <1>2 DEF Commit, Close
<1>5. runs' = IF t \in Cron THEN [runs EXCEPT ![t] = 0] ELSE runs
  BY DEF Commit
<1>6. missed' = [u \in Request |-> IF u = t \/ view[u] = None THEN {}
                                   ELSE missed[u] \cup w]
  BY <1>2 DEF Commit, Open
<1>7. Typed'
  <2>1. at \in Place /\ w \in SUBSET Key
    BY <1>2 DEF Place, Orderly, Typed
  <2>2. missed' \in [Request -> SUBSET Key]
    BY <1>6, <2>1 DEF Orderly, Typed
  <2>3. runs' \in [Request -> 0 .. MaxRuns]
    BY <1>5, BoundsArePositive DEF Orderly, Typed
  <2> QED BY <1>3, <1>4, <2>1, <2>2, <2>3 DEF Orderly, Typed
<1>8. /\ pc'[t] = at /\ view'[t] = None /\ wrote'[t] = {} /\ missed'[t] = {}
      /\ moving'[t] = None /\ todo'[t] = {}
  BY <1>4, <1>6 DEF Orderly, Typed
<1>9. ASSUME NEW u \in Request, u # t
      PROVE  /\ pc'[u] = pc[u] /\ view'[u] = view[u] /\ wrote'[u] = wrote[u]
             /\ moving'[u] = moving[u] /\ todo'[u] = todo[u] /\ runs'[u] = runs[u]
             /\ missed'[u] = IF view[u] = None THEN {} ELSE missed[u] \cup w
  BY <1>4, <1>5, <1>6, <1>9 DEF Orderly, Typed
<1>10. ASSUME NEW u \in Request PROVE Fits(u)'
  <2>1. CASE u = t
    <3>1. t \in Cron => runs'[t] = 0 /\ t \notin Checkout
      BY <1>5, RequestsApart DEF Orderly, Typed
    <3> QED BY <1>1, <1>2, <1>4, <1>8, <2>1, <3>1, BoundsArePositive
            DEF Fits, FitsAt, Working
  <2>2. CASE u # t
    <3>1. PICK q, i, n, r, v, x, m, mv, td :
            /\ q = pc'[u] /\ i = id'[u] /\ n = ids'[u] /\ r = runs'[u] /\ v = view'[u]
            /\ x = wrote'[u] /\ m = missed'[u] /\ mv = moving'[u] /\ td = todo'[u]
      OBVIOUS
    <3>2. FitsAt(u, q, i, n, r, v, x, missed[u], mv, td)
      BY <1>4, <1>9, <2>2, <3>1 DEF Orderly, Fits
    <3>3. FitsAt(u, q, i, n, r, v, x, m, mv, td)
      BY <1>9, <2>2, <3>1, <3>2 DEF FitsAt
    <3>4. FitsAt(u, q, i, n, r, v, x, m, mv, td)'
      BY <1>4, <3>3 DEF FitsAt
    <3> QED BY <3>1, <3>4 DEF Fits, FitsAt
  <2> QED BY <2>1, <2>2
<1>11. ASSUME NEW u \in Request PROVE Agrees(u)'
  <2>1. CASE u = t
    BY <1>2, <1>8, <2>1 DEF Agrees, AgreesAt
  <2>2. CASE u # t
    <3>1. PICK q, i, v, x, m : /\ q = pc'[u] /\ i = id'[u] /\ v = view'[u]
                               /\ x = wrote'[u] /\ m = missed'[u]
      OBVIOUS
    <3>2. AgreesAt(u, q, i, v, x, missed[u]) /\ Fits(u)
      BY <1>4, <1>9, <2>2, <3>1 DEF Orderly, Agrees
    <3>3. x \cap w = {}
      BY <1>2, <1>9, <2>2, <3>1 DEF Orderly, Exclusive
    <3>4. (x # {} => v # None) /\ (q = "commit" /\ u \in Checkout => i \in Order /\ x # {})
      BY <1>4, <1>9, <2>2, <3>1, <3>2 DEF Fits, FitsAt, AgreesAt
    <3>5. v # None => m = missed[u] \cup w
      BY <1>9, <2>2, <3>1
    <3>6. ASSUME NEW o \in Order, <<"order", o>> \in x
          PROVE  /\ <<"order", o>> \notin m /\ v.order[o].status # "absent"
                 /\ db'.order[o] = db.order[o]
      BY <1>3, <3>2, <3>3, <3>4, <3>5, <3>6 DEF AgreesAt
    <3>7. ASSUME NEW o \in Order, v # None, <<"order", o>> \notin x \cup m
          PROVE  v.order[o].status = "absent" <=> db'.order[o].status = "absent"
      <4>1. <<"order", o>> \notin x \cup missed[u] /\ db'.order[o] = db.order[o]
        BY <1>3, <3>5, <3>7
      <4> QED BY <3>2, <3>7, <4>1 DEF AgreesAt
    <3>8. AgreesAt(u, q, i, v, x, m)'
      BY <1>4, <3>2, <3>4, <3>6, <3>7 DEF AgreesAt
    <3> QED BY <3>1, <3>8 DEF Agrees, AgreesAt
  <2> QED BY <2>1, <2>2
<1>12. Exclusive'
  BY <1>8, <1>9 DEF Orderly, Exclusive
<1>13. Placed'
  <2>1. \A o \in Order : db.order[o].status # "absent" => db'.order[o].status # "absent"
    BY <1>1, <1>2, <1>3 DEF Agrees, AgreesAt
  <2>2. Checkout \subseteq Request /\ (t \in Checkout => at = "audit")
    BY <1>2, RequestsApart DEF Request
  <2>3. \A o \in Imported : db'.order[o].status # "absent"
    BY <2>1, SeedsAreOrders DEF Orderly, Placed
  <2>4. ASSUME NEW o \in Order \ Imported, db'.order[o].status # "absent"
        PROVE  \E s \in Checkout : pc'[s] \in {"audit", "done", "crashed"} /\ id'[s] = o
    <3>1. CASE db.order[o].status # "absent"
      <4>1. PICK s \in Checkout : pc[s] \in {"audit", "done", "crashed"} /\ id[s] = o
        BY <3>1 DEF Orderly, Placed
      <4>2. s # t /\ s \in Request
        BY <1>1, <2>2, <4>1
      <4> QED BY <1>4, <1>9, <4>1, <4>2
    <3>2. CASE db.order[o].status = "absent"
      <4>1. <<"order", o>> \in w
        BY <1>3, <2>4, <3>2
      <4>2. t \in Checkout /\ id[t] = o
        BY <1>1, <1>2, <3>2, <4>1 DEF Agrees, AgreesAt
      <4> QED BY <1>4, <1>8, <2>2, <4>2
    <3> QED BY <3>1, <3>2
  <2>5. t \in Checkout => /\ id[t] \in Order \ Imported
                          /\ db.order[id[t]].status = "absent"
                          /\ db'.order[id[t]].status # "absent"
    BY <1>1, <1>2, <1>3 DEF Agrees, AgreesAt, Orderly, Placed
  <2>6. ASSUME NEW s \in Checkout, pc'[s] \in {"audit", "done"}
        PROVE  id'[s] \in Order \ Imported /\ db'.order[id'[s]].status # "absent"
    <3>1. CASE s = t
      BY <1>4, <2>5, <3>1
    <3>2. CASE s # t
      BY <1>4, <1>9, <2>1, <2>2, <2>6, <3>2 DEF Orderly, Placed
    <3> QED BY <3>1, <3>2
  <2>7. ASSUME NEW s \in Checkout, NEW u \in Checkout, s # u,
               pc'[s] \in {"audit", "done"}, pc'[u] \in {"audit", "done"}
        PROVE  id'[s] # id'[u]
    <3>1. \A x \in Checkout \ {t} : pc'[x] \in {"audit", "done"} =>
            pc[x] \in {"audit", "done"} /\ db.order[id[x]].status # "absent"
      BY <1>9, <2>2 DEF Orderly, Placed
    <3>2. CASE s # t /\ u # t
      BY <1>4, <2>7, <3>1, <3>2 DEF Orderly, Placed
    <3>3. CASE s = t \/ u = t
      BY <1>4, <2>5, <2>7, <3>1, <3>3
    <3> QED BY <3>2, <3>3
  <2> QED BY <2>3, <2>4, <2>6, <2>7 DEF Placed
<1> QED BY <1>7, <1>10, <1>11, <1>12, <1>13 DEF Orderly

(* The environment changes no status and no transaction.                   *)
LEMMA EnvironmentKeeps ==
  ASSUME Orderly, db' \in DbDoc,
         \A o \in Order : db'.order[o].status = db.order[o].status,
         UNCHANGED <<input, pc, id, ids, runs, wrote, moving, todo>>,
         view' \in [Request -> DbDoc \cup {None}],
         missed' \in [Request -> SUBSET Key],
         \A t \in Request :
           /\ view'[t] = None <=> view[t] = None
           /\ view[t] # None => \A o \in Order :
                view'[t].order[o].status = view[t].order[o].status
           /\ view[t] = None => missed'[t] = {}
           /\ \A o \in Order : view[t] # None =>
                (<<"order", o>> \in missed'[t] <=> <<"order", o>> \in missed[t])
  PROVE  Orderly'
<1>1. Typed'
  BY DEF Orderly, Typed
<1>2. ASSUME NEW t \in Request PROVE Fits(t)'
  <2>1. Fits(t)
    BY DEF Orderly
  <2> QED BY <2>1 DEF Fits, FitsAt
<1>3. ASSUME NEW t \in Request PROVE Agrees(t)'
  <2>1. PICK q, i, v, w, m : /\ q = pc[t] /\ i = id[t] /\ v = view'[t]
                             /\ w = wrote[t] /\ m = missed'[t]
    OBVIOUS
  <2>2. AgreesAt(t, q, i, view[t], w, missed[t]) /\ Fits(t)
    BY <2>1 DEF Orderly, Agrees
  <2>3. /\ w # {} => view[t] # None
        /\ q = "commit" /\ t \in Checkout => i \in Order
        /\ q = "save" => view[t] # None /\ i \in Order
    BY <2>1, <2>2 DEF Fits, FitsAt, Working
  <2>4. ASSUME NEW o \in Order, <<"order", o>> \in w
        PROVE  /\ <<"order", o>> \notin m /\ v.order[o].status # "absent"
               /\ \/ db'.order[o].status # "absent"
                  \/ t \in Checkout /\ q = "commit" /\ i = o
    BY <2>1, <2>2, <2>3, <2>4 DEF AgreesAt
  <2>5. ASSUME NEW o \in Order, v # None, <<"order", o>> \notin w \cup m
        PROVE  v.order[o].status = "absent" <=> db'.order[o].status = "absent"
    <3>1. view[t] # None /\ <<"order", o>> \notin w \cup missed[t]
      BY <2>1, <2>5
    <3>2. v.order[o].status = view[t].order[o].status
      BY <2>1, <3>1
    <3> QED BY <2>2, <3>1, <3>2 DEF AgreesAt
  <2>6. /\ t \in Checkout /\ q = "commit" =>
             <<"order", i>> \in w /\ db'.order[i].status = "absent"
        /\ q = "save" => v.order[i].status # "absent"
    BY <2>1, <2>2, <2>3 DEF AgreesAt
  <2>7. AgreesAt(t, q, i, v, w, m)'
    BY <2>4, <2>5, <2>6 DEF AgreesAt
  <2> QED BY <2>1, <2>7 DEF Agrees, AgreesAt
<1>4. Exclusive'
  BY DEF Orderly, Exclusive
<1>5. Placed'
  <2>1. \A o \in Imported : o \in Order
    BY SeedsAreOrders
  <2> QED BY <2>1 DEF Orderly, Placed
<1> QED BY <1>1, <1>2, <1>3, <1>4, <1>5 DEF Orderly

LEMMA AgedOrder ==
  ASSUME NEW v \in DbDoc, NEW o \in Order
  PROVE  /\ [v EXCEPT !.order[o].aged = TRUE] \in DbDoc
         /\ \A x \in Order : [v EXCEPT !.order[o].aged = TRUE].order[x].status
                               = v.order[x].status
<1>1. PICK d : d = [v.order[o] EXCEPT !.aged = TRUE]
  OBVIOUS
<1>2. d \in Store!OrderDoc /\ d.status = v.order[o].status
  <2>1. v.order[o] \in Store!OrderDoc
    BY DEF DbDoc
  <2> QED BY <1>1, <2>1 DEF Store!OrderDoc
<1>3. /\ [v EXCEPT !.order[o] = d] \in DbDoc
      /\ \A x \in Order : [v EXCEPT !.order[o] = d].order[x] =
                            IF x = o THEN d ELSE v.order[x]
  BY <1>2, OrderWritten
<1> QED BY <1>1, <1>2, <1>3

LEMMA AgeKeeps ==
  ASSUME Orderly, NEW o \in Order, Age(o)
  PROVE  Orderly'
<1>1. db \in DbDoc /\ view \in [Request -> DbDoc \cup {None}] /\ None \notin DbDoc
  BY NoneIsNoId DEF Orderly, Typed, DbDoc
<1>2. /\ db' \in DbDoc
      /\ \A x \in Order : db'.order[x].status = db.order[x].status
  <2>1. db' = [db EXCEPT !.order[o].aged = TRUE]
    BY DEF Age
  <2> QED BY <1>1, <2>1, AgedOrder
<1>3. ASSUME NEW t \in Request, view[t] # None
      PROVE  /\ view'[t] \in DbDoc
             /\ \A x \in Order : view'[t].order[x].status = view[t].order[x].status
  <2>1. view[t] \in DbDoc
    BY <1>1, <1>3
  <2>2. view'[t] = [view[t] EXCEPT !.order[o].aged = TRUE]
    BY <1>3 DEF Age, Open
  <2> QED BY <2>1, <2>2, AgedOrder
<1>4. \A t \in Request : view[t] = None => view'[t] = None
  BY DEF Age, Open
<1>5. view' \in [Request -> DbDoc \cup {None}]
  <2>1. \A t \in Request : view'[t] \in DbDoc \cup {None}
    BY <1>3, <1>4
  <2>2. view' = [t \in Request |-> view'[t]]
    BY DEF Age
  <2> QED BY <2>1, <2>2
<1>6. missed' = missed /\ \A t \in Request : view[t] = None => missed[t] = {}
  BY DEF Age, Orderly, Fits, FitsAt
<1>7. UNCHANGED <<input, pc, id, ids, runs, wrote, moving, todo>>
  BY DEF Age
<1>8. missed' \in [Request -> SUBSET Key]
  BY <1>6 DEF Orderly, Typed
<1>9. \A t \in Request : view'[t] = None <=> view[t] = None
  BY <1>1, <1>3, <1>4
<1> QED BY <1>2, <1>3, <1>5, <1>6, <1>7, <1>8, <1>9, EnvironmentKeeps

LEMMA ArchiveProductKeeps ==
  ASSUME Orderly, NEW p \in Product, ArchiveProduct(p)
  PROVE  Orderly'
<1>1. db' \in DbDoc /\ db'.order = db.order
  <2>1. db' = [db EXCEPT !.archived[p] = TRUE] /\ db \in DbDoc
    BY DEF ArchiveProduct, Orderly, Typed
  <2> QED BY <2>1 DEF DbDoc
<1>2. missed' = [t \in Request |-> IF view[t] # None
                                   THEN missed[t] \cup {<<"product", p>>} ELSE {}]
  BY DEF ArchiveProduct, Open
<1>3. missed' \in [Request -> SUBSET Key]
  BY <1>2 DEF Orderly, Typed, Key
<1>4. \A t \in Request, o \in Order : view[t] # None =>
        (<<"order", o>> \in missed'[t] <=> <<"order", o>> \in missed[t])
  BY <1>2
<1>5. \A t \in Request : view[t] = None => missed'[t] = {}
  BY <1>2
<1>6. UNCHANGED <<input, pc, id, ids, runs, wrote, moving, todo>> /\ view' = view
  BY DEF ArchiveProduct
<1>7. view' \in [Request -> DbDoc \cup {None}]
  BY <1>6 DEF Orderly, Typed
<1> QED BY <1>1, <1>3, <1>4, <1>5, <1>6, <1>7, EnvironmentKeeps

-----------------------------------------------------------------------------
(* Every step, and what follows                                            *)

LEMMA StepOrderly == Orderly /\ [Next]_vars => Orderly'
<1> SUFFICES ASSUME Orderly, [Next]_vars PROVE Orderly'
  OBVIOUS
<1>1. ASSUME NEW t \in Request, Statement(t) PROVE Orderly'
  <2>1. CASE \E o \in Order : DrawId(t, o) \/ ExpireOne(t, o)
    BY <2>1, DrawIdKeeps, ExpireOneKeeps
  <2>2. CASE BeginCheckout(t) \/ BeginPatch(t) \/ BeginCron(t)
    BY <2>2, BeginsKeep
  <2>3. CASE \/ RefuseCheckout(t) \/ RefusePatch(t) \/ RefuseCoupon(t) \/ RefuseLine(t)
             \/ InsertDuplicate(t) \/ FinishCron(t) \/ RunAgain(t)
    BY <2>3, EndsKeep
  <2>4. CASE RedeemUse(t) \/ ReleaseLine(t) \/ ReserveLine(t)
    BY <2>4, RedeemUseKeeps, ReleaseLineKeeps, ReserveLineKeeps
  <2>5. CASE StartReserving(t) \/ InsertOrder(t) \/ SavePatch(t)
    BY <2>5, StartReservingKeeps, InsertOrderKeeps, SavePatchKeeps
  <2>6. CASE Commit(t) \/ Audit(t)
    BY <2>6, CommitKeeps, AuditKeeps
  <2> QED BY <1>1, <2>1, <2>2, <2>3, <2>4, <2>5, <2>6 DEF Statement
<1>2. ASSUME NEW t \in Request, Crash(t) PROVE Orderly'
  BY <1>2, EndsKeep
<1>3. ASSUME NEW o \in Ageing, Age(o) PROVE Orderly'
  BY <1>3, AgeKeeps, EnvironmentTouchesDocuments
<1>4. ASSUME NEW p \in Archivable, ArchiveProduct(p) PROVE Orderly'
  BY <1>4, ArchiveProductKeeps, EnvironmentTouchesDocuments
<1>5. CASE UNCHANGED vars
  <2>1. /\ UNCHANGED <<input, pc, id, ids, runs, wrote, moving, todo>>
        /\ db' = db /\ view' = view /\ missed' = missed
    BY <1>5 DEF vars, txnVars
  <2>2. /\ db' \in DbDoc /\ view' \in [Request -> DbDoc \cup {None}]
        /\ missed' \in [Request -> SUBSET Key]
    BY <2>1 DEF Orderly, Typed
  <2>3. \A t \in Request : view[t] = None => missed'[t] = {}
    BY <2>1 DEF Orderly, Fits, FitsAt
  <2> QED BY <2>1, <2>2, <2>3, EnvironmentKeeps
<1> QED BY <1>1, <1>2, <1>3, <1>4, <1>5 DEF Next

LEMMA SpecOrderly == Spec => []Orderly
<1> QED BY InitOrderly, StepOrderly, PTL DEF Spec

LEMMA OrderlyTypeOK == Orderly => TypeOK
<1> SUFFICES ASSUME Orderly PROVE TypeOK
  OBVIOUS
<1>1. /\ db.order \in [Order -> Store!OrderDoc] /\ db.stock \in [Product -> Nat]
      /\ runs \in [Request -> 0 .. MaxRuns] /\ ids \in [Request -> 0 .. MaxIds]
  BY DEF Orderly, Typed, DbDoc
<1>2. ASSUME NEW t \in Request
      PROVE  /\ wrote[t] \cup missed[t] \subseteq Key
             /\ wrote[t] \cup missed[t] # {} => Open(t)
             /\ \A u \in Request \ {t} : wrote[t] \cap wrote[u] = {}
  BY DEF Orderly, Typed, Fits, FitsAt, Exclusive, Open
<1> QED BY <1>1, <1>2 DEF TypeOK

LEMMA OrderlyPlaces == Orderly => OneOrderPerCheckout
<1> SUFFICES ASSUME Orderly PROVE OneOrderPerCheckout
  OBVIOUS
<1>1. PICK placed, sure, maybe :
        /\ placed = {o \in Order \ Imported : db.order[o].status # "absent"}
        /\ sure = {t \in Checkout : pc[t] \in {"audit", "done"}}
        /\ maybe = {t \in Checkout : pc[t] = "crashed"}
  OBVIOUS
<1>2. \A t \in sure : id[t] \in placed
  BY <1>1 DEF Orderly, Placed
<1>3. \A t, u \in sure : id[t] = id[u] => t = u
  BY <1>1 DEF Orderly, Placed
<1>4. Cardinality(placed) <= Cardinality(sure) + Cardinality(maybe)
  <2>1. /\ IsFiniteSet(sure) /\ IsFiniteSet(maybe)
        /\ Cardinality(sure) \in Nat /\ Cardinality(maybe) \in Nat
    BY <1>1, RequestsApart, FS_Subset, FS_CardinalityType
  <2>2. IsFiniteSet(sure \cup maybe)
    BY <2>1, FS_Union
  <2>3. Cardinality(sure \cup maybe) = Cardinality(sure) + Cardinality(maybe)
    <3>1. sure \cap maybe = {}
      BY <1>1
    <3>2. Cardinality(sure \cap maybe) = 0
      BY <3>1, FS_EmptySet
    <3>3. Cardinality(sure \cup maybe)
            = Cardinality(sure) + Cardinality(maybe) - Cardinality(sure \cap maybe)
      BY <2>1, FS_Union
    <3> QED BY <2>1, <3>2, <3>3
  <2>4. placed \subseteq {id[t] : t \in sure \cup maybe}
    BY <1>1 DEF Orderly, Placed
  <2>5. /\ IsFiniteSet({id[t] : t \in sure \cup maybe})
        /\ Cardinality({id[t] : t \in sure \cup maybe}) <= Cardinality(sure \cup maybe)
    <3>1. PICK f : f = [t \in sure \cup maybe |-> id[t]]
      OBVIOUS
    <3>2. f \in Surjection(sure \cup maybe, {id[t] : t \in sure \cup maybe})
      BY <3>1 DEF Surjection
    <3> QED BY <2>2, <3>2, FS_Surjection
  <2>6. IsFiniteSet(placed)
    BY <2>4, <2>5, FS_Subset
  <2>7. Cardinality(placed) <= Cardinality({id[t] : t \in sure \cup maybe})
    BY <2>4, <2>5, FS_Subset
  <2> QED BY <2>1, <2>2, <2>3, <2>5, <2>6, <2>7, FS_CardinalityType
<1> QED BY <1>1, <1>2, <1>3, <1>4 DEF OneOrderPerCheckout

(* Every open transaction holds and misses documents of the database, no   *)
(* two hold the same one, and the committed orders, counts and retries     *)
(* keep their types, whatever the requests, carts and patches are.         *)
THEOREM TransactionsTyped == Spec => []TypeOK
<1> QED BY SpecOrderly, OrderlyTypeOK, PTL

(* However often a checkout's transaction conflicts, is run again or draws *)
(* another id, and wherever it is killed: each checkout that is answered   *)
(* with success has an order of its own, and no order comes from a         *)
(* checkout that was refused, gave up or is still running.                 *)
THEOREM CheckoutsHaveOneOrder == Spec => []OneOrderPerCheckout
<1> QED BY SpecOrderly, OrderlyPlaces, PTL

=============================================================================
