----------------------- MODULE OrderRefinementProofs -----------------------
(***************************************************************************)
(* OrderTxn implements OrderStore, for any number of requests: every       *)
(* commit is one operation on the documents as they are at that moment,    *)
(* whatever was committed since the transaction took its snapshot.         *)
(***************************************************************************)
EXTENDS OrderTxnProofs

-----------------------------------------------------------------------------
(* What an open transaction is worth                                       *)

(* A snapshot is right about every document it does not miss, but for its  *)
(* own writes, and knows every bKash id it may still claim.                *)
SnapshotAt(v, w, m) ==
  /\ w \cap m = {}
  /\ \A p \in Product : <<"product", p>> \notin m =>
       /\ v.archived[p] = db.archived[p]
       /\ <<"product", p>> \notin w => v.stock[p] = db.stock[p]
  /\ \A o \in Order : <<"order", o>> \notin w \cup m => v.order[o] = db.order[o]
  /\ \A c \in Coupon : <<"coupon", c>> \notin w \cup m => v.coupon[c] = db.coupon[c]
  /\ \A x \in TrxId :
       /\ <<"trx", x>> \notin m
       /\ \E o \in Order : db.order[o].bkashTrxId = x
       => \E o \in Order : v.order[o].bkashTrxId = x

(* The orders a checkout or the cron has expired.                          *)
Turned(t, q, i, w) ==
  {o \in Order : <<"order", o>> \in w /\ ~(t \in Checkout /\ q = "commit" /\ o = i)}

UnitsIn(ord, X, p) == {u \in X \X (1 .. MaxQuantity) : u[2] <= ord[u[1]].items[p]}

(* Units of p the orders of X hold.                                        *)
Back(X, p) == Cardinality(UnitsIn(db.order, {o \in X : db.order[o].stockDeducted}, p))

(* Units still to be put back, and units taken for the new order.          *)
Due(q, mv, td, p) == IF q = "release" /\ p \in td THEN db.order[mv].items[p] ELSE 0

Sold(t, q, td, p) ==
  IF t \in Checkout /\ q \in {"reserve", "insert", "commit"} /\ p \notin td
  THEN input[t].cart[p] ELSE 0

(* What a checkout or the cron has made of the committed documents.        *)
ExpiryAt(t, q, X, v, w, mv, td) ==
  /\ \A o \in X : /\ db.order[o].status = "pending" /\ ~db.order[o].deleted
                  /\ db.order[o].aged
                  /\ v.order[o] = Store!Expired(db.order[o])
  /\ q = "release" => mv \in X /\ db.order[mv].stockDeducted
  /\ \A p \in Product :
       IF <<"product", p>> \in w
       THEN v.stock[p] + Due(q, mv, td, p) + Sold(t, q, td, p) = db.stock[p] + Back(X, p)
       ELSE Back(X, p) = Due(q, mv, td, p) /\ Sold(t, q, td, p) = 0

CheckoutAt(t, q, i, X, v, w, td) ==
  /\ \A o \in X : Lines(db.order[o].items) \cap Lines(input[t].cart) # {}
  /\ \A c \in Coupon :
       /\ <<"coupon", c>> \in w <=> c = input[t].coupon /\ q # "redeem"
       /\ <<"coupon", c>> \in w =>
            /\ HasUses(db.coupon, c)
            /\ v.coupon[c] = [db.coupon[c] EXCEPT !.timesUsed = @ + 1]
  /\ q \in {"reserve", "insert", "commit"} =>
       \A p \in Lines(input[t].cart) \ td : <<"product", p>> \in w /\ ~v.archived[p]
  /\ q = "commit" =>
       /\ v.order[i] = Store!NewOrder(input[t].cart, "FULL_COD", FALSE,
                                      input[t].trx, input[t].coupon)
       /\ input[t].trx # None =>
            /\ <<"trx", input[t].trx>> \in w
            /\ \A o \in Order : db.order[o].bkashTrxId # input[t].trx

CronAt(q, w, mv) ==
  /\ q \in {"expire", "release", "commit"}
  /\ q = "expire" => w = {}
  /\ q # "expire" => mv \in Order /\ \A o \in Order : <<"order", o>> \in w <=> o = mv
  /\ \A c \in Coupon : <<"coupon", c>> \notin w

(* What a patch has made of its order, and of the stock so far.            *)
PatchAt(t, before, q, i, v, w, mv, td) ==
  LET d      == Store!Patched(before, input[t])
      action == Store!StockActionForTransition(before.status, d.status)
      flips  == Flips(action, before)
      n(p)   == before.items[p]
  IN  /\ q = "save" => w = {} /\ v.order[i].status # "absent" /\ ~v.order[i].deleted
      /\ q # "save" => mv = i
      /\ q # "save" /\ <<"order", i>> \notin w => w = {} /\ q = "commit"
      /\ q # "save" /\ <<"order", i>> \in w =>
           /\ before.status # "absent" /\ ~before.deleted
           /\ v.order[i] = IF flips THEN [d EXCEPT !.stockDeducted = ~@] ELSE d
           /\ q # "commit" => q = action /\ flips
           /\ td \subseteq Lines(before.items)
           /\ \A p \in Product :
                /\ <<"product", p>> \in w <=> flips /\ p \in Lines(before.items) \ td
                /\ <<"product", p>> \in w =>
                     v.stock[p] + (IF action = "reserve" THEN n(p) ELSE 0)
                       = db.stock[p] + (IF action = "release" THEN n(p) ELSE 0)
                /\ <<"product", p>> \in w /\ action = "reserve" => ~v.archived[p]
      /\ \A o \in Order \ {i} : <<"order", o>> \notin w
      /\ \A c \in Coupon : <<"coupon", c>> \notin w

HoldsAt(t, q, i, v, w, m, mv, td) ==
  LET X == Turned(t, q, i, w)
  IN  /\ q \notin {"release", "reserve"} => td = {}
      /\ v # None => SnapshotAt(v, w, m)
      /\ v # None /\ t \notin Patcher => ExpiryAt(t, q, X, v, w, mv, td)
      /\ v # None /\ t \in Checkout => CheckoutAt(t, q, i, X, v, w, td)
      /\ v # None /\ t \in Cron => CronAt(q, w, mv)
      /\ v # None /\ t \in Patcher => PatchAt(t, db.order[i], q, i, v, w, mv, td)

Holds(t) == HoldsAt(t, pc[t], id[t], view[t], wrote[t], missed[t], moving[t], todo[t])

(* No bKash id is claimed by an order that does not exist.                 *)
Blank == \A o \in Order : db.order[o].status = "absent" => db.order[o].bkashTrxId = None

Refining == Orderly /\ Blank /\ \A t \in Request : Holds(t)

-----------------------------------------------------------------------------
(* The database moves under an open transaction                            *)

(* From a state to the next, only documents of m change, and only bKash    *)
(* ids of m are claimed.                                                   *)
MovesWithin(m) ==
  /\ db \in DbDoc /\ db' \in DbDoc /\ input' = input
  /\ \A p \in Product : <<"product", p>> \notin m =>
       db'.stock[p] = db.stock[p] /\ db'.archived[p] = db.archived[p]
  /\ \A o \in Order : <<"order", o>> \notin m => db'.order[o] = db.order[o]
  /\ \A c \in Coupon : <<"coupon", c>> \notin m => db'.coupon[c] = db.coupon[c]
  /\ \A x \in TrxId :
       /\ <<"trx", x>> \notin m
       /\ \E o \in Order : db'.order[o].bkashTrxId = x
       => \E o \in Order : db.order[o].bkashTrxId = x

LEMMA BackMoves ==
  ASSUME NEW X \in SUBSET Order, NEW p \in Product,
         \A o \in X : db'.order[o] = db.order[o]
  PROVE  Back(X, p)' = Back(X, p)
<1>1. PICK a, b : a = db.order /\ b = db'.order
  OBVIOUS
<1>2. \A o \in X : a[o] = b[o]
  BY <1>1
<1>3. {o \in X : a[o].stockDeducted} = {o \in X : b[o].stockDeducted}
  BY <1>2, Zenon
<1>4. PICK H : H = {o \in X : a[o].stockDeducted} /\ H = {o \in X : b[o].stockDeducted}
  BY <1>3
<1>5. H \subseteq X
  BY <1>4
<1>6. UnitsIn(a, H, p) = UnitsIn(b, H, p)
  BY <1>2, <1>5 DEF UnitsIn
<1>7. Back(X, p) = Cardinality(UnitsIn(a, H, p))
  BY <1>1, <1>4 DEF Back
<1>8. Back(X, p)' = Cardinality(UnitsIn(b, H, p))
  BY <1>1, <1>4 DEF Back
<1> QED BY <1>6, <1>7, <1>8

LEMMA SnapshotMoves ==
  ASSUME NEW v, NEW w, NEW m, NEW n, SnapshotAt(v, w, m), m \subseteq n, w \cap n = {},
         MovesWithin(n)
  PROVE  SnapshotAt(v, w, n)'
<1>1. \A p \in Product : <<"product", p>> \notin n =>
        /\ v.archived[p] = db'.archived[p]
        /\ <<"product", p>> \notin w => v.stock[p] = db'.stock[p]
  BY DEF SnapshotAt, MovesWithin
<1>2. \A o \in Order : <<"order", o>> \notin w \cup n => v.order[o] = db'.order[o]
  BY DEF SnapshotAt, MovesWithin
<1>3. \A c \in Coupon : <<"coupon", c>> \notin w \cup n => v.coupon[c] = db'.coupon[c]
  BY DEF SnapshotAt, MovesWithin
<1>4. \A x \in TrxId :
        /\ <<"trx", x>> \notin n
        /\ \E o \in Order : db'.order[o].bkashTrxId = x
        => \E o \in Order : v.order[o].bkashTrxId = x
  BY DEF SnapshotAt, MovesWithin
<1> QED BY <1>1, <1>2, <1>3, <1>4 DEF SnapshotAt

LEMMA ExpiryMoves ==
  ASSUME NEW t, NEW q, NEW X \in SUBSET Order, NEW v, NEW w, NEW mv, NEW td,
         ExpiryAt(t, q, X, v, w, mv, td), input' = input,
         \A o \in X : db'.order[o] = db.order[o],
         \A p \in Product : <<"product", p>> \in w => db'.stock[p] = db.stock[p]
  PROVE  ExpiryAt(t, q, X, v, w, mv, td)'
<1>1. \A o \in X : /\ db'.order[o].status = "pending" /\ ~db'.order[o].deleted
                   /\ db'.order[o].aged
                   /\ v.order[o] = Store!Expired(db'.order[o])
  BY Zenon DEF ExpiryAt
<1>2. q = "release" => mv \in X /\ db'.order[mv].stockDeducted
  BY Zenon DEF ExpiryAt
<1>3. ASSUME NEW p \in Product
      PROVE  /\ Due(q, mv, td, p)' = Due(q, mv, td, p)
             /\ Sold(t, q, td, p)' = Sold(t, q, td, p)
             /\ Back(X, p)' = Back(X, p)
  <2>1. Back(X, p)' = Back(X, p)
    BY BackMoves
  <2>2. Due(q, mv, td, p)' = Due(q, mv, td, p)
    BY DEF Due, ExpiryAt
  <2>3. Sold(t, q, td, p)' = Sold(t, q, td, p)
    BY DEF Sold
  <2> QED BY <2>1, <2>2, <2>3
<1>4. ASSUME NEW p \in Product
      PROVE  IF <<"product", p>> \in w
             THEN v.stock[p] + Due(q, mv, td, p)' + Sold(t, q, td, p)'
                    = db'.stock[p] + Back(X, p)'
             ELSE Back(X, p)' = Due(q, mv, td, p)' /\ Sold(t, q, td, p)' = 0
  BY <1>3 DEF ExpiryAt
<1>5. X' = X
  OBVIOUS
<1> QED BY <1>1, <1>2, <1>4, <1>5 DEF ExpiryAt

LEMMA CheckoutMoves ==
  ASSUME NEW t, NEW q, NEW i, NEW X \in SUBSET Order, NEW v, NEW w, NEW td, NEW n,
         CheckoutAt(t, q, i, X, v, w, td), MovesWithin(n), w \cap n = {},
         \A o \in X : db'.order[o] = db.order[o],
         input[t].trx \in TrxId \cup {None}
  PROVE  CheckoutAt(t, q, i, X, v, w, td)'
<1>0. input' = input
  BY DEF MovesWithin
<1>1. \A o \in X : Lines(db'.order[o].items) \cap Lines(input[t].cart) # {}
  BY DEF CheckoutAt
<1>2. \A c \in Coupon : <<"coupon", c>> \in w =>
        /\ HasUses(db'.coupon, c)
        /\ v.coupon[c] = [db'.coupon[c] EXCEPT !.timesUsed = @ + 1]
  BY DEF CheckoutAt, MovesWithin, HasUses
<1>3. q = "commit" /\ input[t].trx # None =>
        \A o \in Order : db'.order[o].bkashTrxId # input[t].trx
  BY DEF CheckoutAt, MovesWithin
<1> QED BY <1>0, <1>1, <1>2, <1>3 DEF CheckoutAt, HasUses

LEMMA PatchMoves ==
  ASSUME NEW t, NEW before, NEW q, NEW i, NEW v, NEW w, NEW mv, NEW td,
         PatchAt(t, before, q, i, v, w, mv, td), input' = input,
         \A p \in Product : <<"product", p>> \in w => db'.stock[p] = db.stock[p]
  PROVE  PatchAt(t, before, q, i, v, w, mv, td)'
BY DEF PatchAt

(* Holds with the values of t named, the way it is used below.             *)
LEMMA WorldMoves ==
  ASSUME NEW t, NEW q, NEW i, NEW v, NEW w, NEW m, NEW n, NEW mv, NEW td,
         HoldsAt(t, q, i, v, w, m, mv, td),
         v # None => m \subseteq n /\ w \cap n = {} /\ MovesWithin(n),
         t \in Checkout => input[t].trx \in TrxId \cup {None},
         t \in Patcher => i \in Order
  PROVE  HoldsAt(t, q, i, v, w, n, mv, td)'
<1>1. CASE v = None
  BY <1>1 DEF HoldsAt
<1>2. CASE v # None
  <2>1. PICK X : X = Turned(t, q, i, w)
    OBVIOUS
  <2>2. X \in SUBSET Order /\ \A o \in X : <<"order", o>> \in w
    BY <2>1 DEF Turned
  <2>3. /\ m \subseteq n /\ w \cap n = {} /\ MovesWithin(n) /\ input' = input
        /\ \A o \in X : db'.order[o] = db.order[o]
        /\ \A p \in Product : <<"product", p>> \in w => db'.stock[p] = db.stock[p]
    BY <1>2, <2>2 DEF MovesWithin
  <2>4. SnapshotAt(v, w, n)'
    <3>1. SnapshotAt(v, w, m)
      BY <1>2 DEF HoldsAt
    <3> QED BY <2>3, <3>1, SnapshotMoves
  <2>5. ASSUME t \notin Patcher PROVE ExpiryAt(t, q, X, v, w, mv, td)'
    <3>1. ExpiryAt(t, q, X, v, w, mv, td)
      BY <1>2, <2>1, <2>5 DEF HoldsAt
    <3> QED BY <2>2, <2>3, <3>1, ExpiryMoves
  <2>6. ASSUME t \in Checkout PROVE CheckoutAt(t, q, i, X, v, w, td)'
    <3>1. CheckoutAt(t, q, i, X, v, w, td)
      BY <1>2, <2>1, <2>6 DEF HoldsAt
    <3> QED BY <2>2, <2>3, <2>6, <3>1, CheckoutMoves
  <2>7. ASSUME t \in Patcher PROVE PatchAt(t, db.order[i], q, i, v, w, mv, td)'
    <3>1. PICK before, after : before = db.order[i] /\ after = db'.order[i]
      OBVIOUS
    <3>2. PatchAt(t, before, q, i, v, w, mv, td)
      BY <1>2, <2>7, <3>1 DEF HoldsAt
    <3>3. PatchAt(t, before, q, i, v, w, mv, td)'
      BY <2>3, <3>2, PatchMoves
    <3>4. CASE <<"order", i>> \in w
      <4>1. before = after
        BY <2>3, <2>7, <3>1, <3>4 DEF MovesWithin
      <4> QED BY <3>1, <3>3, <4>1 DEF PatchAt
    <3>5. CASE <<"order", i>> \notin w
      <4>1. PatchAt(t, after, q, i, v, w, mv, td)'
        BY <3>3, <3>5 DEF PatchAt
      <4> QED BY <3>1, <4>1 DEF PatchAt
    <3> QED BY <3>4, <3>5
  <2>8. /\ q \notin {"release", "reserve"} => td = {}
        /\ t \in Cron => CronAt(q, w, mv)
    BY <1>2 DEF HoldsAt
  <2>9. X' = Turned(t, q, i, w)' /\ CronAt(q, w, mv)' = CronAt(q, w, mv)
    BY <2>1 DEF Turned, CronAt
  <2> QED BY <2>1, <2>4, <2>5, <2>6, <2>7, <2>8, <2>9 DEF HoldsAt
<1> QED BY <1>1, <1>2

-----------------------------------------------------------------------------
(* Statements: the database stands still, and one request moves            *)

LEMMA StandsStill ==
  ASSUME NEW t, NEW q, NEW i, NEW v, NEW w, NEW m, NEW mv, NEW td,
         HoldsAt(t, q, i, v, w, m, mv, td), db \in DbDoc, UNCHANGED <<db, input>>,
         t \in Checkout => input[t].trx \in TrxId \cup {None},
         t \in Patcher => i \in Order \/ v = None
  PROVE  HoldsAt(t, q, i, v, w, m, mv, td)'
<1>1. CASE v = None
  BY <1>1 DEF HoldsAt
<1>2. CASE v # None
  <2>1. MovesWithin(m)
    BY DEF MovesWithin
  <2>2. m \subseteq m /\ w \cap m = {}
    BY <1>2 DEF HoldsAt, SnapshotAt
  <2> QED BY <1>2, <2>1, <2>2, WorldMoves
<1> QED BY <1>1, <1>2

(* What the other requests are doing.                                      *)
Others(t) ==
  \A u \in Request \ {t} :
    /\ pc'[u] = pc[u] /\ id'[u] = id[u] /\ view'[u] = view[u]
    /\ wrote'[u] = wrote[u] /\ missed'[u] = missed[u]
    /\ moving'[u] = moving[u] /\ todo'[u] = todo[u]

LEMMA InputsTyped ==
  ASSUME Orderly, NEW t \in Request
  PROVE  /\ t \in Checkout => input[t].trx \in TrxId \cup {None}
         /\ t \in Patcher => id[t] \in Order
<1>1. Fits(t)
  BY DEF Orderly
<1> QED BY <1>1 DEF Orderly, Typed, CheckoutDoc, Fits, FitsAt

LEMMA StepHolds ==
  ASSUME Refining, Orderly', NEW t \in Request, UNCHANGED <<db, input>>, Others(t),
         NEW q, NEW i, NEW v, NEW w, NEW m, NEW mv, NEW td,
         HoldsAt(t, q, i, v, w, m, mv, td),
         pc'[t] = q, id'[t] = i, view'[t] = v, wrote'[t] = w, missed'[t] = m,
         moving'[t] = mv, todo'[t] = td
  PROVE  Refining'
<1>1. Orderly /\ db \in DbDoc /\ db' = db /\ input' = input
  BY DEF Refining, Orderly, Typed
<1>2. Blank'
  BY <1>1 DEF Refining, Blank
<1>3. ASSUME NEW u \in Request PROVE Holds(u)'
  <2>1. PICK a, b, c, d, e, f, g :
          /\ a = pc'[u] /\ b = id'[u] /\ c = view'[u] /\ d = wrote'[u]
          /\ e = missed'[u] /\ f = moving'[u] /\ g = todo'[u]
    OBVIOUS
  <2>2. HoldsAt(u, a, b, c, d, e, f, g)
    <3>1. CASE u = t
      BY <2>1, <3>1
    <3>2. CASE u # t
      BY <2>1, <3>2 DEF Others, Refining, Holds
    <3> QED BY <3>1, <3>2
  <2>3. /\ u \in Checkout => input[u].trx \in TrxId \cup {None}
        /\ u \in Patcher => b \in Order
    <3>1. /\ u \in Checkout => input'[u].trx \in TrxId \cup {None}
          /\ u \in Patcher => id'[u] \in Order
      <4>1. Fits(u)'
        BY DEF Orderly
      <4> QED BY <4>1 DEF Orderly, Typed, CheckoutDoc, Fits, FitsAt
    <3> QED BY <1>1, <2>1, <3>1
  <2>4. HoldsAt(u, a, b, c, d, e, f, g)'
    BY <1>1, <2>2, <2>3, StandsStill
  <2> QED BY <2>1, <2>4 DEF Holds, HoldsAt, Turned
<1> QED BY <1>2, <1>3 DEF Refining

(* A statement leaves new where the transaction saw v, having written ks.  *)
WritesOnly(v, ks, new) ==
  /\ new.archived = v.archived
  /\ \A p \in Product : <<"product", p>> \notin ks => new.stock[p] = v.stock[p]
  /\ \A o \in Order : <<"order", o>> \notin ks => new.order[o] = v.order[o]
  /\ \A c \in Coupon : <<"coupon", c>> \notin ks => new.coupon[c] = v.coupon[c]
  /\ \A o \in Order : v.order[o].bkashTrxId \in {None, new.order[o].bkashTrxId}

LEMMA SnapshotWrites ==
  ASSUME NEW v, NEW w, NEW m, NEW ks, NEW new,
         SnapshotAt(v, w, m), ks \cap m = {}, WritesOnly(v, ks, new)
  PROVE  SnapshotAt(new, w \cup ks, m)
<1>1. ASSUME NEW x \in TrxId, <<"trx", x>> \notin m,
             \E o \in Order : db.order[o].bkashTrxId = x
      PROVE  \E o \in Order : new.order[o].bkashTrxId = x
  <2>1. PICK o \in Order : v.order[o].bkashTrxId = x
    BY <1>1 DEF SnapshotAt
  <2> QED BY <1>1, <2>1, NoneIsNoId DEF WritesOnly
<1>2. \A p \in Product : <<"product", p>> \notin m =>
        /\ new.archived[p] = db.archived[p]
        /\ <<"product", p>> \notin w \cup ks => new.stock[p] = db.stock[p]
  BY DEF SnapshotAt, WritesOnly
<1>3. \A o \in Order : <<"order", o>> \notin (w \cup ks) \cup m =>
        new.order[o] = db.order[o]
  BY DEF SnapshotAt, WritesOnly
<1>4. \A c \in Coupon : <<"coupon", c>> \notin (w \cup ks) \cup m =>
        new.coupon[c] = db.coupon[c]
  BY DEF SnapshotAt, WritesOnly
<1>5. (w \cup ks) \cap m = {}
  BY DEF SnapshotAt
<1> QED BY <1>1, <1>2, <1>3, <1>4, <1>5 DEF SnapshotAt

LEMMA WritingHolds ==
  ASSUME Refining, Orderly', NEW t \in Request, NEW ks, NEW new, NEW q, NEW mv, NEW td,
         Write(t, ks, new), pc' = [pc EXCEPT ![t] = q],
         moving' = [moving EXCEPT ![t] = mv], todo' = [todo EXCEPT ![t] = td],
         HoldsAt(t, q, id[t], new, wrote[t] \cup ks, missed[t], mv, td)
  PROVE  Refining'
<1>1. UNCHANGED <<db, input>>
  BY DEF Write
<1>2. Typed
  BY DEF Refining, Orderly
<1>3. /\ pc'[t] = q /\ id'[t] = id[t] /\ view'[t] = new /\ wrote'[t] = wrote[t] \cup ks
      /\ missed'[t] = missed[t] /\ moving'[t] = mv /\ todo'[t] = td
  BY <1>2 DEF Write, Typed
<1>4. Others(t)
  BY <1>2 DEF Write, Typed, Others
<1> QED BY <1>1, <1>3, <1>4, StepHolds

(* What a statement at work may rely on.                                   *)
LEMMA WorkingHolds ==
  ASSUME Refining, NEW t \in Request, pc[t] \in Working
  PROVE  /\ Holds(t) /\ view[t] # None /\ Orderly
         /\ SnapshotAt(view[t], wrote[t], missed[t])
<1>1. Orderly /\ Holds(t)
  BY DEF Refining
<1>2. view[t] # None
  BY <1>1 DEF Orderly, Fits, FitsAt
<1> QED BY <1>1, <1>2 DEF Holds, HoldsAt

LEMMA RedeemUseAt ==
  ASSUME NEW t \in Checkout, NEW i, NEW v \in DbDoc, v # None, NEW w, NEW m, NEW mv,
         NEW td, HoldsAt(t, "redeem", i, v, w, m, mv, td),
         NEW c \in Coupon, c = input[t].coupon, <<"coupon", c>> \notin m,
         HasUses(db.coupon, c),
         NEW d, d = [v.coupon[c] EXCEPT !.timesUsed = @ + 1],
         NEW new, new = [v EXCEPT !.coupon[c] = d]
  PROVE  HoldsAt(t, "expire", i, new, w \cup {<<"coupon", c>>}, m, mv, td)
<1>1. PICK X : X = Turned(t, "redeem", i, w)
  OBVIOUS
<1>2. X = Turned(t, "expire", i, w \cup {<<"coupon", c>>})
  BY <1>1 DEF Turned
<1>3. /\ td = {} /\ SnapshotAt(v, w, m)
      /\ ExpiryAt(t, "redeem", X, v, w, mv, td) /\ CheckoutAt(t, "redeem", i, X, v, w, td)
  BY <1>1, RequestsApart DEF HoldsAt
<1>4. /\ new.stock = v.stock /\ new.order = v.order /\ new.archived = v.archived
      /\ new.coupon = [v.coupon EXCEPT ![c] = d]
  BY DEF DbDoc
<1>5. SnapshotAt(new, w \cup {<<"coupon", c>>}, m)
  <2>1. WritesOnly(v, {<<"coupon", c>>}, new)
    BY <1>4 DEF WritesOnly, DbDoc
  <2>2. {<<"coupon", c>>} \cap m = {}
    OBVIOUS
  <2> QED BY <1>3, <2>1, <2>2, SnapshotWrites
<1>6. ExpiryAt(t, "expire", X, new, w \cup {<<"coupon", c>>}, mv, td)
  BY <1>3, <1>4 DEF ExpiryAt, Due, Sold
<1>7. CheckoutAt(t, "expire", i, X, new, w \cup {<<"coupon", c>>}, td)
  <2>1. <<"coupon", c>> \notin w
    BY <1>3 DEF CheckoutAt
  <2>2. v.coupon[c] = db.coupon[c] /\ v.coupon \in [Coupon -> Store!CouponDoc]
    BY <1>3, <2>1 DEF SnapshotAt, DbDoc
  <2>3. new.coupon[c] = [db.coupon[c] EXCEPT !.timesUsed = @ + 1]
    BY <1>4, <2>2
  <2>4. \A x \in Coupon : <<"coupon", x>> \in w \cup {<<"coupon", c>>} <=> x = c
    BY <1>3 DEF CheckoutAt
  <2> QED BY <1>3, <2>3, <2>4 DEF CheckoutAt
<1> QED BY <1>2, <1>3, <1>5, <1>6, <1>7, RequestsApart DEF HoldsAt

LEMMA RedeemUseHolds ==
  ASSUME Refining, Orderly', NEW t \in Request, RedeemUse(t)
  PROVE  Refining'
<1>1. PICK c, i, v, w, m, mv, td, new, ks :
        /\ c = input[t].coupon /\ i = id[t] /\ v = view[t] /\ w = wrote[t]
        /\ m = missed[t] /\ mv = moving[t] /\ td = todo[t]
        /\ new = [v EXCEPT !.coupon[c].timesUsed = @ + 1]
        /\ ks = {<<"coupon", c>>}
  OBVIOUS
<1>2. pc[t] = "redeem" /\ pc[t] \in Working
  BY DEF RedeemUse, Working
<1>3. Holds(t) /\ view[t] # None /\ Orderly
  BY <1>2, WorkingHolds
<1>4. /\ t \in Checkout /\ c \in Coupon /\ v \in DbDoc
  BY <1>1, <1>2, <1>3, AtWork DEF Fits, FitsAt, CheckoutDoc
<1>5. Write(t, ks, new)
  BY <1>1 DEF RedeemUse
<1>6. <<"coupon", c>> \notin m
  BY <1>1, <1>5 DEF Write, Conflicts
<1>7. HoldsAt(t, "redeem", i, v, w, m, mv, td)
  BY <1>1, <1>2, <1>3 DEF Holds
<1>8. HoldsAt(t, "expire", i, new, w \cup ks, m, mv, td)
  <2>1. HasUses(db.coupon, c) /\ v # None /\ c = input[t].coupon
    BY <1>1, <1>3 DEF RedeemUse
  <2>2. PICK d : d = [v.coupon[c] EXCEPT !.timesUsed = @ + 1]
    OBVIOUS
  <2>3. new = [v EXCEPT !.coupon[c] = d]
    BY <1>1, <2>2
  <2>4. ks = {<<"coupon", c>>}
    BY <1>1
  <2>5. HoldsAt(t, "expire", i, new, w \cup {<<"coupon", c>>}, m, mv, td)
    <3> HIDE <1>1
    <3> QED BY <1>4, <1>6, <1>7, <2>1, <2>2, <2>3, RedeemUseAt
  <2> QED BY <2>4, <2>5
<1>9. /\ pc' = [pc EXCEPT ![t] = "expire"] /\ moving' = [moving EXCEPT ![t] = mv]
      /\ todo' = [todo EXCEPT ![t] = td]
  BY <1>1, <1>3 DEF RedeemUse, Orderly, Typed
<1> QED BY <1>1, <1>5, <1>8, <1>9, WritingHolds

-----------------------------------------------------------------------------
(* Units of the expired orders                                             *)

LEMMA UnitsFinite ==
  ASSUME NEW ord, NEW X \in SUBSET Order, NEW p
  PROVE  /\ IsFiniteSet(UnitsIn(ord, X, p))
         /\ Cardinality(UnitsIn(ord, X, p)) \in Nat
<1>1. IsFiniteSet(X) /\ IsFiniteSet(1 .. MaxQuantity)
  BY SeedsAreOrders, BoundsArePositive, FS_Subset, FS_Interval
<1>2. IsFiniteSet(X \X (1 .. MaxQuantity))
  BY <1>1, FS_Product
<1>3. UnitsIn(ord, X, p) \in SUBSET (X \X (1 .. MaxQuantity))
  BY DEF UnitsIn
<1>4. IsFiniteSet(UnitsIn(ord, X, p))
  BY <1>2, <1>3, FS_Subset
<1> QED BY <1>4, FS_CardinalityType

LEMMA UnitsOfOneMore ==
  ASSUME NEW ord \in [Order -> Store!OrderDoc], NEW X \in SUBSET Order,
         NEW o \in Order, o \notin X, NEW p \in Product
  PROVE  Cardinality(UnitsIn(ord, X \cup {o}, p)) =
           Cardinality(UnitsIn(ord, X, p)) + ord[o].items[p]
<1>1. PICK n \in 0 .. MaxQuantity : n = ord[o].items[p]
  BY DEF Store!OrderDoc
<1>2. PICK A, B : A = UnitsIn(ord, X, p) /\ B = {o} \X (1 .. n)
  OBVIOUS
<1>3. UnitsIn(ord, X \cup {o}, p) = A \cup B /\ A \cap B = {}
  BY <1>1, <1>2, BoundsArePositive DEF UnitsIn
<1>4. IsFiniteSet(A) /\ Cardinality(A) \in Nat
  BY <1>2, UnitsFinite
<1>5. IsFiniteSet(B) /\ Cardinality(B) = n
  <2>1. IsFiniteSet({o}) /\ Cardinality({o}) = 1
    BY FS_Singleton
  <2>2. IsFiniteSet(1 .. n) /\ Cardinality(1 .. n) = n
    BY BoundsArePositive, FS_Interval
  <2>3. /\ IsFiniteSet({o} \X (1 .. n))
        /\ Cardinality({o} \X (1 .. n)) = Cardinality({o}) * Cardinality(1 .. n)
    BY <2>1, <2>2, FS_Product
  <2> QED BY <1>2, <2>1, <2>2, <2>3
<1>6. Cardinality(A \cup B) = Cardinality(A) + Cardinality(B) - Cardinality(A \cap B)
  BY <1>4, <1>5, FS_Union
<1>7. Cardinality(A \cap B) = 0
  BY <1>3, FS_EmptySet
<1>8. Cardinality(UnitsIn(ord, X \cup {o}, p)) = Cardinality(A \cup B)
  BY <1>3, Zenon
<1>9. Cardinality(UnitsIn(ord, X, p)) = Cardinality(A)
  BY <1>2, Zenon
<1> QED BY <1>1, <1>4, <1>5, <1>6, <1>7, <1>8, <1>9

LEMMA BackType ==
  ASSUME NEW X \in SUBSET Order, NEW p \in Product
  PROVE  Back(X, p) \in Nat
<1>1. PICK H : H = {o \in X : db.order[o].stockDeducted}
  OBVIOUS
<1>2. H \in SUBSET Order
  BY <1>1
<1>3. Back(X, p) = Cardinality(UnitsIn(db.order, H, p))
  BY <1>1 DEF Back
<1> QED BY <1>2, <1>3, UnitsFinite

LEMMA BackOfNone ==
  ASSUME NEW X \in SUBSET Order, NEW p \in Product,
         \A o \in X : db.order[o].stockDeducted => ~(db.order[o].items[p] > 0),
         db \in DbDoc
  PROVE  Back(X, p) = 0
<1>1. PICK H : H = {o \in X : db.order[o].stockDeducted}
  OBVIOUS
<1>2. \A o \in H : db.order[o].items[p] \in Nat /\ ~(db.order[o].items[p] > 0)
  BY <1>1, BoundsArePositive DEF DbDoc, Store!OrderDoc
<1>3. UnitsIn(db.order, H, p) = {}
  BY <1>2, BoundsArePositive DEF UnitsIn
<1>4. Back(X, p) = Cardinality(UnitsIn(db.order, H, p))
  BY <1>1 DEF Back
<1> QED BY <1>3, <1>4, FS_EmptySet

LEMMA BackOfOneMore ==
  ASSUME NEW X \in SUBSET Order, NEW p \in Product, NEW o \in Order, o \notin X,
         db \in DbDoc
  PROVE  Back(X \cup {o}, p) =
           Back(X, p) + (IF db.order[o].stockDeducted THEN db.order[o].items[p] ELSE 0)
<1>1. PICK H, G : /\ H = {x \in X : db.order[x].stockDeducted}
                  /\ G = {x \in X \cup {o} : db.order[x].stockDeducted}
  OBVIOUS
<1>2. /\ Back(X, p) = Cardinality(UnitsIn(db.order, H, p))
      /\ Back(X \cup {o}, p) = Cardinality(UnitsIn(db.order, G, p))
  BY <1>1 DEF Back
<1>3. db.order \in [Order -> Store!OrderDoc] /\ H \in SUBSET Order /\ o \notin H
  BY <1>1 DEF DbDoc
<1>4. Cardinality(UnitsIn(db.order, H, p)) \in Nat
  BY <1>3, UnitsFinite
<1>5. CASE db.order[o].stockDeducted
  <2>1. G = H \cup {o}
    BY <1>1, <1>5
  <2>2. Cardinality(UnitsIn(db.order, H \cup {o}, p)) =
          Cardinality(UnitsIn(db.order, H, p)) + db.order[o].items[p]
    BY <1>3, UnitsOfOneMore
  <2> QED BY <1>2, <1>5, <2>1, <2>2
<1>6. CASE ~db.order[o].stockDeducted
  <2>1. G = H
    BY <1>1, <1>6
  <2> QED BY <1>2, <1>4, <1>6, <2>1
<1> QED BY <1>5, <1>6

-----------------------------------------------------------------------------
(* Expiry                                                                  *)

LEMMA ExpiredDoc ==
  ASSUME NEW d \in Store!OrderDoc
  PROVE  /\ Store!Expired(d).status = "cancelled" /\ Store!Expired(d).items = d.items
         /\ Store!Expired(d).bkashTrxId = d.bkashTrxId
BY DEF Store!Expired, Store!OrderDoc

LEMMA ExpireOneAt ==
  ASSUME NEW t \in Checkout \cup Cron, NEW i, NEW v \in DbDoc, v # None, NEW w, NEW m,
         NEW mv, NEW td, HoldsAt(t, "expire", i, v, w, m, mv, td), db \in DbDoc,
         NEW o \in Order, <<"order", o>> \notin m,
         v.order[o].status = "pending", ~v.order[o].deleted, v.order[o].aged,
         t \in Checkout => Lines(v.order[o].items) \cap Lines(input[t].cart) # {},
         NEW td1, td1 = HeldLines(v.order[o]),
         NEW q1, q1 = (IF td1 = {} THEN AfterRelease(t) ELSE "release"),
         NEW e, e = Store!Expired(v.order[o]),
         NEW new, new = [v EXCEPT !.order[o] = e]
  PROVE  HoldsAt(t, q1, i, new, w \cup {<<"order", o>>}, m, o, td1)
<1>1. PICK X, w1 : X = Turned(t, "expire", i, w) /\ w1 = w \cup {<<"order", o>>}
  OBVIOUS
<1>2. /\ td = {} /\ SnapshotAt(v, w, m) /\ t \notin Patcher
      /\ ExpiryAt(t, "expire", X, v, w, mv, td)
      /\ t \in Checkout => CheckoutAt(t, "expire", i, X, v, w, td)
      /\ t \in Cron => CronAt("expire", w, mv)
  BY <1>1, RequestsApart DEF HoldsAt
<1>3. o \notin X /\ <<"order", o>> \notin w
  <2>1. \A x \in X : v.order[x] = Store!Expired(db.order[x]) /\ db.order[x] \in Store!OrderDoc
    BY <1>1, <1>2 DEF ExpiryAt, Turned, DbDoc
  <2>2. \A x \in X : v.order[x].status = "cancelled"
    BY <2>1, ExpiredDoc
  <2> QED BY <1>1, <2>2 DEF Turned
<1>4. v.order[o] = db.order[o] /\ db.order[o] \in Store!OrderDoc
  BY <1>2, <1>3 DEF SnapshotAt, DbDoc
<1>5. /\ new.stock = v.stock /\ new.archived = v.archived /\ new.coupon = v.coupon
      /\ \A x \in Order : new.order[x] = IF x = o THEN e ELSE v.order[x]
  BY DEF DbDoc
<1>6. /\ q1 \in {"release", "expire", "commit"} /\ (t \in Checkout => q1 # "commit")
      /\ q1 = "release" <=> td1 # {}
      /\ t \in Cron => q1 # "expire"
  BY RequestsApart DEF AfterRelease
<1>7. X \cup {o} = Turned(t, q1, i, w1)
  BY <1>1, <1>6 DEF Turned
<1>8. SnapshotAt(new, w1, m)
  <2>1. e.bkashTrxId = v.order[o].bkashTrxId
    BY <1>4, ExpiredDoc
  <2>2. WritesOnly(v, {<<"order", o>>}, new)
    BY <1>5, <2>1 DEF WritesOnly
  <2>3. {<<"order", o>>} \cap m = {}
    OBVIOUS
  <2>4. SnapshotAt(new, w \cup {<<"order", o>>}, m)
    BY <1>2, <2>2, <2>3, SnapshotWrites
  <2> QED BY <1>1, <2>4
<1>9. ExpiryAt(t, q1, X \cup {o}, new, w1, o, td1)
  <2>1. ASSUME NEW p \in Product
        PROVE  IF <<"product", p>> \in w1
               THEN new.stock[p] + Due(q1, o, td1, p) + Sold(t, q1, td1, p)
                      = db.stock[p] + Back(X \cup {o}, p)
               ELSE /\ Back(X \cup {o}, p) = Due(q1, o, td1, p)
                    /\ Sold(t, q1, td1, p) = 0
    <3>1. Due(q1, o, td1, p) =
            IF db.order[o].stockDeducted THEN db.order[o].items[p] ELSE 0
      <4>1. db.order[o].items[p] \in Nat
        BY <1>4, BoundsArePositive DEF Store!OrderDoc
      <4>2. CASE db.order[o].stockDeducted
        BY <1>4, <1>6, <4>1, <4>2 DEF Due, HeldLines, Lines
      <4>3. CASE ~db.order[o].stockDeducted
        BY <1>4, <1>6, <4>3 DEF Due, HeldLines
      <4> QED BY <4>2, <4>3
    <3>2. Back(X \cup {o}, p) = Back(X, p) + Due(q1, o, td1, p)
      <4>1. X \in SUBSET Order
        BY <1>1 DEF Turned
      <4> QED BY <1>3, <3>1, <4>1, BackOfOneMore
    <3>3. /\ Sold(t, q1, td1, p) = 0 /\ Sold(t, "expire", td, p) = 0
          /\ Due("expire", mv, td, p) = 0
      BY <1>6, RequestsApart DEF Sold, Due
    <3>4. /\ Due(q1, o, td1, p) \in Nat /\ Back(X, p) \in Nat
          /\ v.stock[p] \in Nat /\ db.stock[p] \in Nat
      <4>1. X \in SUBSET Order
        BY <1>1 DEF Turned
      <4>2. db.order[o].items[p] \in Nat
        BY <1>4, BoundsArePositive DEF Store!OrderDoc
      <4>3. Due(q1, o, td1, p) \in Nat
        BY <3>1, <4>2
      <4> QED BY <4>1, <4>3, BackType DEF DbDoc
    <3>5. <<"product", p>> \in w1 <=> <<"product", p>> \in w
      BY <1>1
    <3>6. IF <<"product", p>> \in w
          THEN v.stock[p] + 0 + 0 = db.stock[p] + Back(X, p)
          ELSE Back(X, p) = 0
      BY <1>2, <3>3 DEF ExpiryAt
    <3>7. CASE <<"product", p>> \in w
      BY <1>5, <3>2, <3>3, <3>4, <3>5, <3>6, <3>7
    <3>8. CASE <<"product", p>> \notin w
      BY <3>2, <3>3, <3>4, <3>5, <3>6, <3>8
    <3> QED BY <3>7, <3>8
  <2>2. \A x \in X \cup {o} : /\ db.order[x].status = "pending" /\ ~db.order[x].deleted
                              /\ db.order[x].aged
                              /\ new.order[x] = Store!Expired(db.order[x])
    <3>1. \A x \in X : x \in Order /\ x # o
      BY <1>1, <1>3 DEF Turned
    <3>2. /\ db.order[o].status = "pending" /\ ~db.order[o].deleted /\ db.order[o].aged
          /\ new.order[o] = Store!Expired(db.order[o])
      BY <1>4, <1>5
    <3>3. \A x \in X : /\ db.order[x].status = "pending" /\ ~db.order[x].deleted
                       /\ db.order[x].aged
                       /\ new.order[x] = Store!Expired(db.order[x])
      BY <1>2, <1>5, <3>1 DEF ExpiryAt
    <3> QED BY <3>2, <3>3
  <2>3. q1 = "release" => db.order[o].stockDeducted
    BY <1>4, <1>6 DEF HeldLines
  <2> QED BY <2>1, <2>2, <2>3 DEF ExpiryAt
<1>10. ASSUME t \in Checkout PROVE CheckoutAt(t, q1, i, X \cup {o}, new, w1, td1)
  <2>1. \A x \in X \cup {o} : Lines(db.order[x].items) \cap Lines(input[t].cart) # {}
    BY <1>2, <1>4, <1>10 DEF CheckoutAt
  <2>2. \A c \in Coupon : <<"coupon", c>> \in w1 <=> <<"coupon", c>> \in w
    BY <1>1
  <2>3. \A c \in Coupon :
          /\ <<"coupon", c>> \in w <=> c = input[t].coupon
          /\ <<"coupon", c>> \in w =>
               /\ HasUses(db.coupon, c)
               /\ v.coupon[c] = [db.coupon[c] EXCEPT !.timesUsed = @ + 1]
    BY <1>2, <1>10 DEF CheckoutAt
  <2>4. q1 = "release" \/ q1 = "expire"
    BY <1>6, <1>10
  <2>5. \A c \in Coupon :
          /\ <<"coupon", c>> \in w1 <=> c = input[t].coupon /\ q1 # "redeem"
          /\ <<"coupon", c>> \in w1 =>
               /\ HasUses(db.coupon, c)
               /\ new.coupon[c] = [db.coupon[c] EXCEPT !.timesUsed = @ + 1]
    BY <1>5, <2>2, <2>3, <2>4
  <2> QED BY <2>1, <2>4, <2>5 DEF CheckoutAt
<1>11. ASSUME t \in Cron PROVE CronAt(q1, w1, o)
  BY <1>1, <1>2, <1>6, <1>11 DEF CronAt
<1>12. q1 \notin {"release", "reserve"} => td1 = {}
  BY <1>6
<1> QED BY <1>1, <1>2, <1>7, <1>8, <1>9, <1>10, <1>11, <1>12 DEF HoldsAt

LEMMA ExpireOneHolds ==
  ASSUME Refining, Orderly', NEW t \in Request, NEW o \in Order, ExpireOne(t, o)
  PROVE  Refining'
<1>1. PICK i, v, w, m, mv, td, td1, q1, e, new, ks :
        /\ i = id[t] /\ v = view[t] /\ w = wrote[t] /\ m = missed[t]
        /\ mv = moving[t] /\ td = todo[t] /\ td1 = HeldLines(v.order[o])
        /\ q1 = IF td1 = {} THEN AfterRelease(t) ELSE "release"
        /\ e = Store!Expired(v.order[o]) /\ new = [v EXCEPT !.order[o] = e]
        /\ ks = {<<"order", o>>}
  OBVIOUS
<1>2. pc[t] = "expire" /\ pc[t] \in Working
  BY DEF ExpireOne, Working
<1>3. Holds(t) /\ view[t] # None /\ Orderly
  BY <1>2, WorkingHolds
<1>4. v \in DbDoc /\ db \in DbDoc /\ v # None
  BY <1>1, <1>2, <1>3, AtWork
<1>5. t \in Checkout \cup Cron
  <2>1. t \notin Patcher
    BY <1>2, <1>3 DEF Holds, HoldsAt, PatchAt, Flips
  <2> QED BY <2>1 DEF Request
<1>6. Write(t, ks, new)
  BY <1>1 DEF ExpireOne
<1>7. <<"order", o>> \notin m
  BY <1>1, <1>6 DEF Write, Conflicts
<1>8. HoldsAt(t, "expire", i, v, w, m, mv, td)
  BY <1>1, <1>2, <1>3 DEF Holds
<1>9. /\ v.order[o].status = "pending" /\ ~v.order[o].deleted /\ v.order[o].aged
      /\ t \in Checkout => Lines(v.order[o].items) \cap Lines(input[t].cart) # {}
  BY <1>1 DEF ExpireOne, Stale
<1>10. HoldsAt(t, q1, i, new, w \cup {<<"order", o>>}, m, o, td1)
  BY <1>1, <1>4, <1>5, <1>7, <1>8, <1>9, ExpireOneAt
<1>11. /\ pc' = [pc EXCEPT ![t] = q1] /\ moving' = [moving EXCEPT ![t] = o]
       /\ todo' = [todo EXCEPT ![t] = td1]
  BY <1>1 DEF ExpireOne, MoveLines
<1>12. HoldsAt(t, q1, id[t], new, wrote[t] \cup ks, missed[t], o, td1)
  BY <1>1, <1>10
<1> QED BY <1>6, <1>11, <1>12, WritingHolds

-----------------------------------------------------------------------------
(* Stock, one product at a time                                            *)

LEMMA ReleaseExpiredAt ==
  ASSUME NEW t \in Checkout \cup Cron, NEW i, NEW v \in DbDoc, v # None, NEW w, NEW m,
         NEW mv, NEW td \in SUBSET Product, HoldsAt(t, "release", i, v, w, m, mv, td),
         db \in DbDoc, NEW p \in td, <<"product", p>> \notin m,
         NEW td1, td1 = td \ {p},
         NEW q1, q1 = (IF td1 = {} THEN AfterRelease(t) ELSE "release"),
         NEW n, n = v.stock[p] + v.order[mv].items[p],
         NEW new, new = [v EXCEPT !.stock[p] = n]
  PROVE  HoldsAt(t, q1, i, new, w \cup {<<"product", p>>}, m, mv, td1)
<1>1. PICK X, w1 : X = Turned(t, "release", i, w) /\ w1 = w \cup {<<"product", p>>}
  OBVIOUS
<1>2. /\ SnapshotAt(v, w, m) /\ t \notin Patcher
      /\ ExpiryAt(t, "release", X, v, w, mv, td)
      /\ t \in Checkout => CheckoutAt(t, "release", i, X, v, w, td)
      /\ t \in Cron => CronAt("release", w, mv)
  BY <1>1, RequestsApart DEF HoldsAt
<1>3. /\ X \in SUBSET Order /\ mv \in X /\ db.order[mv] \in Store!OrderDoc
      /\ v.order[mv].items = db.order[mv].items
  BY <1>1, <1>2, ExpiredDoc DEF ExpiryAt, Turned, DbDoc
<1>4. /\ WritesOnly(v, {<<"product", p>>}, new)
      /\ new.archived = v.archived /\ new.order = v.order /\ new.coupon = v.coupon
      /\ \A x \in Product : new.stock[x] = IF x = p THEN n ELSE v.stock[x]
  <2>1. /\ new.archived = v.archived /\ new.order = v.order /\ new.coupon = v.coupon
        /\ \A x \in Product : new.stock[x] = IF x = p THEN n ELSE v.stock[x]
    BY DEF DbDoc
  <2> QED BY <2>1 DEF WritesOnly
<1>5. /\ q1 \in {"release", "expire", "commit"} /\ (t \in Checkout => q1 # "commit")
      /\ q1 = "release" <=> td1 # {}
      /\ t \in Cron => q1 # "expire"
  BY RequestsApart DEF AfterRelease
<1>6. X = Turned(t, q1, i, w1)
  BY <1>1, <1>5 DEF Turned
<1>7. SnapshotAt(new, w1, m)
  <2>1. {<<"product", p>>} \cap m = {}
    OBVIOUS
  <2>2. SnapshotAt(new, w \cup {<<"product", p>>}, m)
    BY <1>2, <1>4, <2>1, SnapshotWrites
  <2> QED BY <1>1, <2>2
<1>8. ExpiryAt(t, q1, X, new, w1, mv, td1)
  <2>1. ASSUME NEW x \in Product
        PROVE  IF <<"product", x>> \in w1
               THEN new.stock[x] + Due(q1, mv, td1, x) + Sold(t, q1, td1, x)
                      = db.stock[x] + Back(X, x)
               ELSE Back(X, x) = Due(q1, mv, td1, x) /\ Sold(t, q1, td1, x) = 0
    <3>1. PICK k, b : k = db.order[mv].items[x] /\ b = Back(X, x)
      OBVIOUS
    <3>2. /\ k \in Nat /\ b \in Nat /\ v.stock[x] \in Nat /\ db.stock[x] \in Nat
      BY <1>3, <3>1, BackType, BoundsArePositive DEF Store!OrderDoc, DbDoc
    <3>3. /\ Sold(t, q1, td1, x) = 0 /\ Sold(t, "release", td, x) = 0
          /\ Due("release", mv, td, x) = IF x \in td THEN k ELSE 0
          /\ Due(q1, mv, td1, x) = IF x \in td1 THEN k ELSE 0
      BY <1>5, <3>1, RequestsApart DEF Sold, Due
    <3>4. IF <<"product", x>> \in w
          THEN v.stock[x] + (IF x \in td THEN k ELSE 0) + 0 = db.stock[x] + b
          ELSE b = (IF x \in td THEN k ELSE 0)
      BY <1>2, <3>1, <3>3 DEF ExpiryAt
    <3>5. CASE x # p
      <4>1. /\ <<"product", x>> \in w1 <=> <<"product", x>> \in w
            /\ x \in td1 <=> x \in td
            /\ new.stock[x] = v.stock[x]
        BY <1>1, <1>4, <3>5
      <4> QED BY <3>1, <3>3, <3>4, <4>1
    <3>6. CASE x = p
      <4>1. <<"product", x>> \in w1 /\ x \in td /\ x \notin td1 /\ new.stock[x] = v.stock[x] + k
        BY <1>1, <1>3, <1>4, <3>1, <3>6
      <4>2. <<"product", x>> \notin w => v.stock[x] = db.stock[x]
        BY <1>2, <3>6 DEF SnapshotAt
      <4>3. v.stock[x] + k = db.stock[x] + b
        BY <3>2, <3>4, <4>1, <4>2
      <4> QED BY <3>1, <3>2, <3>3, <4>1, <4>3
    <3> QED BY <3>5, <3>6
  <2> QED BY <1>2, <1>4, <2>1 DEF ExpiryAt
<1>9. ASSUME t \in Checkout PROVE CheckoutAt(t, q1, i, X, new, w1, td1)
  <2>1. \A c \in Coupon : <<"coupon", c>> \in w1 <=> <<"coupon", c>> \in w
    BY <1>1
  <2> QED BY <1>2, <1>4, <1>5, <1>9, <2>1 DEF CheckoutAt
<1>10. ASSUME t \in Cron PROVE CronAt(q1, w1, mv)
  BY <1>1, <1>2, <1>5, <1>10 DEF CronAt
<1>11. q1 \notin {"release", "reserve"} => td1 = {}
  BY <1>5
<1> QED BY <1>1, <1>2, <1>6, <1>7, <1>8, <1>9, <1>10, <1>11 DEF HoldsAt

(* A patch moves the lines of its order, out of stock or back into it.     *)
LEMMA PatchLineAt ==
  ASSUME NEW t \in Patcher, NEW q \in {"release", "reserve"}, NEW i \in Order,
         NEW v \in DbDoc, v # None, NEW w, NEW m,
         NEW mv, NEW td \in SUBSET Product, HoldsAt(t, q, i, v, w, m, mv, td),
         db \in DbDoc, input[t] \in Patch, NEW p \in td, <<"product", p>> \notin m,
         NEW td1, td1 = td \ {p}, NEW q1, q1 = (IF td1 = {} THEN "commit" ELSE q),
         NEW k, k = v.order[mv].items[p],
         NEW n, n = (IF q = "release" THEN v.stock[p] + k ELSE v.stock[p] - k),
         q = "reserve" => ~v.archived[p],
         NEW new, new = [v EXCEPT !.stock[p] = n]
  PROVE  HoldsAt(t, q1, i, new, w \cup {<<"product", p>>}, m, mv, td1)
<1>1. PICK w1, before, d, action :
        /\ w1 = w \cup {<<"product", p>>} /\ before = db.order[i]
        /\ d = Store!Patched(before, input[t])
        /\ action = Store!StockActionForTransition(before.status, d.status)
  OBVIOUS
<1>2. SnapshotAt(v, w, m) /\ PatchAt(t, before, q, i, v, w, mv, td)
  BY <1>1 DEF HoldsAt
<1>3. /\ mv = i /\ <<"order", i>> \in w /\ q = action /\ Flips(action, before)
      /\ before.status # "absent" /\ ~before.deleted
      /\ v.order[i] = [d EXCEPT !.stockDeducted = ~@]
      /\ td \subseteq Lines(before.items)
  BY <1>1, <1>2 DEF PatchAt
<1>4. /\ \A x \in Product :
           /\ <<"product", x>> \in w <=> x \in Lines(before.items) \ td
           /\ <<"product", x>> \in w =>
                v.stock[x] + (IF action = "reserve" THEN before.items[x] ELSE 0)
                  = db.stock[x] + (IF action = "release" THEN before.items[x] ELSE 0)
           /\ <<"product", x>> \in w /\ action = "reserve" => ~v.archived[x]
      /\ \A o \in Order \ {i} : <<"order", o>> \notin w
      /\ \A c \in Coupon : <<"coupon", c>> \notin w
  <2>1. q # "save" /\ <<"order", i>> \in w /\ Flips(action, before)
    BY <1>3
  <2> QED BY <1>1, <1>2, <2>1 DEF PatchAt
<1>5. before \in Store!OrderDoc /\ v.order[i].items = before.items
  <2>1. before \in Store!OrderDoc
    BY <1>1 DEF DbDoc
  <2>2. d \in Store!OrderDoc
    BY <1>1, <1>3, <2>1, PatchedIsOrder
  <2>3. d.items = before.items
    BY <1>1, <2>1 DEF Store!Patched, Store!PaymentOverridden, Store!FakeToggled,
                      Store!StatusSet, Store!OrderDoc
  <2> QED BY <1>3, <2>1, <2>2, <2>3 DEF Store!OrderDoc
<1>6. /\ WritesOnly(v, {<<"product", p>>}, new)
      /\ new.archived = v.archived /\ new.order = v.order /\ new.coupon = v.coupon
      /\ \A x \in Product : new.stock[x] = IF x = p THEN n ELSE v.stock[x]
  <2>1. /\ new.archived = v.archived /\ new.order = v.order /\ new.coupon = v.coupon
        /\ \A x \in Product : new.stock[x] = IF x = p THEN n ELSE v.stock[x]
    BY DEF DbDoc
  <2> QED BY <2>1 DEF WritesOnly
<1>7. SnapshotAt(new, w1, m)
  <2>1. {<<"product", p>>} \cap m = {}
    OBVIOUS
  <2>2. SnapshotAt(new, w \cup {<<"product", p>>}, m)
    BY <1>2, <1>6, <2>1, SnapshotWrites
  <2> QED BY <1>1, <2>2
<1>8. ASSUME NEW x \in Product
      PROVE  /\ <<"product", x>> \in w1 <=> x \in Lines(before.items) \ td1
             /\ <<"product", x>> \in w1 =>
                  new.stock[x] + (IF action = "reserve" THEN before.items[x] ELSE 0)
                    = db.stock[x] + (IF action = "release" THEN before.items[x] ELSE 0)
             /\ <<"product", x>> \in w1 /\ action = "reserve" => ~new.archived[x]
  <2>1. CASE x # p
    <3>1. /\ <<"product", x>> \in w1 <=> <<"product", x>> \in w
          /\ x \in td1 <=> x \in td
          /\ new.stock[x] = v.stock[x] /\ new.archived[x] = v.archived[x]
      BY <1>1, <1>6, <2>1
    <3> QED BY <1>4, <3>1
  <2>2. CASE x = p
    <3>1. <<"product", x>> \in w1 /\ x \notin td1 /\ x \in Lines(before.items)
      BY <1>1, <1>3, <2>2
    <3>2. v.stock[x] = db.stock[x]
      BY <1>2, <1>4, <2>2 DEF SnapshotAt
    <3>3. /\ before.items[x] \in Nat /\ v.stock[x] \in Nat
          /\ k = before.items[x] /\ new.stock[x] = n
      BY <1>3, <1>5, <1>6, <2>2, BoundsArePositive DEF DbDoc, Store!OrderDoc
    <3>4. new.stock[x] + (IF action = "reserve" THEN before.items[x] ELSE 0)
            = db.stock[x] + (IF action = "release" THEN before.items[x] ELSE 0)
      BY <1>3, <2>2, <3>2, <3>3
    <3> QED BY <1>3, <1>6, <2>2, <3>1, <3>4
  <2> QED BY <2>1, <2>2
<1>9. PatchAt(t, before, q1, i, new, w1, mv, td1)
  <2>1. /\ <<"order", i>> \in w1 /\ q1 # "save" /\ (q1 # "commit" => q1 = action)
        /\ td1 \subseteq Lines(before.items)
        /\ \A o \in Order \ {i} : <<"order", o>> \notin w1
        /\ \A c \in Coupon : <<"coupon", c>> \notin w1
    BY <1>1, <1>3, <1>4
  <2>2. Flips(Store!StockActionForTransition(before.status,
                Store!Patched(before, input[t]).status), before)
    BY <1>1, <1>3
  <2>3. new.order[i] = v.order[i]
    BY <1>6
  <2> QED BY <1>1, <1>3, <1>8, <2>1, <2>2, <2>3 DEF PatchAt
<1>10. q1 \notin {"release", "reserve"} => td1 = {}
  OBVIOUS
<1> QED BY <1>1, <1>7, <1>9, <1>10, RequestsApart DEF HoldsAt

LEMMA ReleaseLineHolds ==
  ASSUME Refining, Orderly', NEW t \in Request, ReleaseLine(t)
  PROVE  Refining'
<1>1. PICK i, v, w, m, mv, td, p, k, n, td1, q1, new, ks :
        /\ i = id[t] /\ v = view[t] /\ w = wrote[t] /\ m = missed[t]
        /\ mv = moving[t] /\ td = todo[t] /\ p = Min(td) /\ td1 = td \ {p}
        /\ k = v.order[mv].items[p] /\ n = v.stock[p] + k
        /\ q1 = IF td1 = {} THEN AfterRelease(t) ELSE "release"
        /\ new = [v EXCEPT !.stock[p] = n] /\ ks = {<<"product", p>>}
  OBVIOUS
<1>2. pc[t] = "release" /\ pc[t] \in Working
  BY DEF ReleaseLine, Working
<1>3. Holds(t) /\ v # None /\ Orderly
  BY <1>1, <1>2, WorkingHolds
<1>4. /\ v \in DbDoc /\ db \in DbDoc /\ td \in SUBSET Product /\ p \in td
      /\ t \in Patcher => input[t] \in Patch /\ i \in Order
  BY <1>1, <1>2, <1>3, AtWork
<1>5. Write(t, ks, new)
  BY <1>1 DEF ReleaseLine
<1>6. <<"product", p>> \notin m
  BY <1>1, <1>5 DEF Write, Conflicts
<1>7. HoldsAt(t, "release", i, v, w, m, mv, td)
  BY <1>1, <1>2, <1>3 DEF Holds
<1>8. HoldsAt(t, q1, i, new, w \cup {<<"product", p>>}, m, mv, td1)
  <2>1. td1 = td \ {p} /\ new = [v EXCEPT !.stock[p] = n]
    BY <1>1
  <2>2. CASE t \in Checkout \cup Cron
    <3>1. /\ q1 = (IF td1 = {} THEN AfterRelease(t) ELSE "release")
          /\ n = v.stock[p] + v.order[mv].items[p]
      BY <1>1
    <3> HIDE <1>1
    <3> QED BY <1>3, <1>4, <1>6, <1>7, <2>1, <2>2, <3>1, ReleaseExpiredAt
  <2>3. CASE t \in Patcher
    <3>1. /\ q1 = (IF td1 = {} THEN "commit" ELSE "release")
          /\ k = v.order[mv].items[p]
          /\ n = (IF "release" = "release" THEN v.stock[p] + k ELSE v.stock[p] - k)
          /\ "release" = "reserve" => ~v.archived[p]
      BY <1>1, <2>3, RequestsApart DEF AfterRelease
    <3>2. "release" \in {"release", "reserve"}
      OBVIOUS
    <3> HIDE <1>1
    <3> QED BY <1>3, <1>4, <1>6, <1>7, <2>1, <2>3, <3>1, <3>2, PatchLineAt
  <2> QED BY <2>2, <2>3 DEF Request
<1>9. /\ pc' = [pc EXCEPT ![t] = q1] /\ moving' = [moving EXCEPT ![t] = mv]
      /\ todo' = [todo EXCEPT ![t] = td1]
  BY <1>1 DEF ReleaseLine, MoveLines
<1>10. HoldsAt(t, q1, id[t], new, wrote[t] \cup ks, missed[t], mv, td1)
  BY <1>1, <1>8
<1> QED BY <1>5, <1>9, <1>10, WritingHolds

-----------------------------------------------------------------------------
(* The reservation and the insert of a checkout                            *)

LEMMA StartReservingAt ==
  ASSUME NEW t \in Checkout, NEW i, NEW v \in DbDoc, v # None, NEW w, NEW m,
         NEW mv, NEW td, HoldsAt(t, "expire", i, v, w, m, mv, td),
         input[t] \in CheckoutDoc, NEW td1, td1 = Lines(input[t].cart)
  PROVE  td1 # {} /\ HoldsAt(t, "reserve", i, v, w, m, None, td1)
<1>1. PICK X : X = Turned(t, "expire", i, w) /\ X = Turned(t, "reserve", i, w)
  BY DEF Turned
<1>2. /\ td = {} /\ SnapshotAt(v, w, m)
      /\ ExpiryAt(t, "expire", X, v, w, mv, td)
      /\ CheckoutAt(t, "expire", i, X, v, w, td)
  BY <1>1, RequestsApart DEF HoldsAt
<1>3. input[t].cart \in [Product -> 0 .. MaxQuantity] /\ td1 # {}
  BY InputsAreDocuments DEF CheckoutDoc, Lines
<1>4. ExpiryAt(t, "reserve", X, v, w, None, td1)
  <2>1. ASSUME NEW p \in Product
        PROVE  /\ Due("reserve", None, td1, p) = Due("expire", mv, td, p)
               /\ Sold(t, "reserve", td1, p) = 0 /\ Sold(t, "expire", td, p) = 0
    BY <1>3, BoundsArePositive DEF Due, Sold, Lines
  <2> QED BY <1>2, <2>1 DEF ExpiryAt
<1>5. CheckoutAt(t, "reserve", i, X, v, w, td1)
  BY <1>2 DEF CheckoutAt
<1> QED BY <1>1, <1>2, <1>3, <1>4, <1>5, RequestsApart DEF HoldsAt

LEMMA StartReservingHolds ==
  ASSUME Refining, Orderly', NEW t \in Request, StartReserving(t)
  PROVE  Refining'
<1>1. PICK i, v, w, m, mv, td, td1 :
        /\ i = id[t] /\ v = view[t] /\ w = wrote[t] /\ m = missed[t]
        /\ mv = moving[t] /\ td = todo[t] /\ td1 = Lines(input[t].cart)
  OBVIOUS
<1>2. pc[t] = "expire" /\ pc[t] \in Working /\ t \in Checkout
  BY DEF StartReserving, Working
<1>3. Holds(t) /\ v # None /\ Orderly
  BY <1>1, <1>2, WorkingHolds
<1>4. v \in DbDoc /\ input[t] \in CheckoutDoc
  BY <1>1, <1>2, <1>3, AtWork
<1>5. HoldsAt(t, "expire", i, v, w, m, mv, td)
  BY <1>1, <1>2, <1>3 DEF Holds
<1>6. td1 # {} /\ HoldsAt(t, "reserve", i, v, w, m, None, td1)
  BY <1>1, <1>2, <1>3, <1>4, <1>5, StartReservingAt
<1>7. /\ pc'[t] = "reserve" /\ id'[t] = i /\ view'[t] = v /\ wrote'[t] = w
      /\ missed'[t] = m /\ moving'[t] = None /\ todo'[t] = td1
  BY <1>1, <1>3, <1>6 DEF StartReserving, MoveLines, Orderly, Typed
<1>8. Others(t) /\ UNCHANGED <<db, input>>
  BY <1>3 DEF StartReserving, MoveLines, Orderly, Typed, Others
<1> QED BY <1>6, <1>7, <1>8, StepHolds

LEMMA ReserveNewAt ==
  ASSUME NEW t \in Checkout, NEW i, NEW v \in DbDoc, v # None, NEW w, NEW m,
         NEW mv, NEW td \in SUBSET Product, HoldsAt(t, "reserve", i, v, w, m, mv, td),
         db \in DbDoc, input[t] \in CheckoutDoc, NEW p \in td, <<"product", p>> \notin m,
         ~v.archived[p], NEW td1, td1 = td \ {p},
         NEW q1, q1 = (IF td1 = {} THEN "insert" ELSE "reserve"),
         NEW k, k = input[t].cart[p], NEW n, n = v.stock[p] - k,
         NEW new, new = [v EXCEPT !.stock[p] = n]
  PROVE  HoldsAt(t, q1, i, new, w \cup {<<"product", p>>}, m, mv, td1)
<1>1. PICK X, w1 : X = Turned(t, "reserve", i, w) /\ w1 = w \cup {<<"product", p>>}
  OBVIOUS
<1>2. /\ SnapshotAt(v, w, m)
      /\ ExpiryAt(t, "reserve", X, v, w, mv, td)
      /\ CheckoutAt(t, "reserve", i, X, v, w, td)
  BY <1>1, RequestsApart DEF HoldsAt
<1>3. /\ WritesOnly(v, {<<"product", p>>}, new)
      /\ new.archived = v.archived /\ new.order = v.order /\ new.coupon = v.coupon
      /\ \A x \in Product : new.stock[x] = IF x = p THEN n ELSE v.stock[x]
  <2>1. /\ new.archived = v.archived /\ new.order = v.order /\ new.coupon = v.coupon
        /\ \A x \in Product : new.stock[x] = IF x = p THEN n ELSE v.stock[x]
    BY DEF DbDoc
  <2> QED BY <2>1 DEF WritesOnly
<1>4. q1 \in {"reserve", "insert"} /\ (q1 = "reserve" <=> td1 # {})
  OBVIOUS
<1>5. X = Turned(t, q1, i, w1) /\ X \in SUBSET Order
  BY <1>1, <1>4 DEF Turned
<1>6. SnapshotAt(new, w1, m)
  <2>1. {<<"product", p>>} \cap m = {}
    OBVIOUS
  <2>2. SnapshotAt(new, w \cup {<<"product", p>>}, m)
    BY <1>2, <1>3, <2>1, SnapshotWrites
  <2> QED BY <1>1, <2>2
<1>7. ExpiryAt(t, q1, X, new, w1, mv, td1)
  <2>1. ASSUME NEW x \in Product
        PROVE  IF <<"product", x>> \in w1
               THEN new.stock[x] + Due(q1, mv, td1, x) + Sold(t, q1, td1, x)
                      = db.stock[x] + Back(X, x)
               ELSE Back(X, x) = Due(q1, mv, td1, x) /\ Sold(t, q1, td1, x) = 0
    <3>1. PICK c, b : c = input[t].cart[x] /\ b = Back(X, x)
      OBVIOUS
    <3>2. /\ c \in Nat /\ b \in Nat /\ v.stock[x] \in Nat /\ db.stock[x] \in Nat
      <4>1. input[t].cart \in [Product -> 0 .. MaxQuantity]
        BY InputsAreDocuments DEF CheckoutDoc
      <4> QED BY <1>5, <3>1, <4>1, BackType, BoundsArePositive DEF DbDoc
    <3>3. /\ Due("reserve", mv, td, x) = 0 /\ Due(q1, mv, td1, x) = 0
          /\ Sold(t, "reserve", td, x) = IF x \in td THEN 0 ELSE c
          /\ Sold(t, q1, td1, x) = IF x \in td1 THEN 0 ELSE c
      BY <1>4, <3>1 DEF Sold, Due
    <3>4. IF <<"product", x>> \in w
          THEN v.stock[x] + 0 + (IF x \in td THEN 0 ELSE c) = db.stock[x] + b
          ELSE b = 0 /\ (IF x \in td THEN 0 ELSE c) = 0
      BY <1>2, <3>1, <3>3 DEF ExpiryAt
    <3>5. CASE x # p
      <4>1. /\ <<"product", x>> \in w1 <=> <<"product", x>> \in w
            /\ x \in td1 <=> x \in td
            /\ new.stock[x] = v.stock[x]
        BY <1>1, <1>3, <3>5
      <4> QED BY <3>1, <3>3, <3>4, <4>1
    <3>6. CASE x = p
      <4>1. /\ <<"product", x>> \in w1 /\ x \in td /\ x \notin td1
            /\ new.stock[x] = v.stock[x] - c
        BY <1>1, <1>3, <3>1, <3>6
      <4>2. <<"product", x>> \notin w => v.stock[x] = db.stock[x]
        BY <1>2, <3>6 DEF SnapshotAt
      <4>3. v.stock[x] = db.stock[x] + b
        BY <3>2, <3>4, <4>1, <4>2
      <4> QED BY <3>1, <3>2, <3>3, <4>1, <4>3
    <3> QED BY <3>5, <3>6
  <2> QED BY <1>2, <1>3, <1>4, <2>1 DEF ExpiryAt
<1>8. CheckoutAt(t, q1, i, X, new, w1, td1)
  <2>1. \A c \in Coupon : <<"coupon", c>> \in w1 <=> <<"coupon", c>> \in w
    BY <1>1
  <2>2. \A x \in Lines(input[t].cart) \ td1 : <<"product", x>> \in w1 /\ ~new.archived[x]
    BY <1>1, <1>2, <1>3 DEF CheckoutAt
  <2> QED BY <1>2, <1>3, <1>4, <2>1, <2>2 DEF CheckoutAt
<1>9. q1 \notin {"release", "reserve"} => td1 = {}
  BY <1>4
<1> QED BY <1>5, <1>1, <1>6, <1>7, <1>8, <1>9, RequestsApart DEF HoldsAt

LEMMA ReserveLineHolds ==
  ASSUME Refining, Orderly', NEW t \in Request, ReserveLine(t)
  PROVE  Refining'
<1>1. PICK i, v, w, m, mv, td, p, k, n, td1, q1, new, ks :
        /\ i = id[t] /\ v = view[t] /\ w = wrote[t] /\ m = missed[t]
        /\ mv = moving[t] /\ td = todo[t] /\ p = Min(td) /\ td1 = td \ {p}
        /\ k = Wanted(t)[p] /\ n = v.stock[p] - k
        /\ q1 = IF td1 = {} THEN AfterReserve(t) ELSE "reserve"
        /\ new = [v EXCEPT !.stock[p] = n] /\ ks = {<<"product", p>>}
  OBVIOUS
<1>2. pc[t] = "reserve" /\ pc[t] \in Working
  BY DEF ReserveLine, Working
<1>3. Holds(t) /\ v # None /\ Orderly
  BY <1>1, <1>2, WorkingHolds
<1>4. /\ v \in DbDoc /\ db \in DbDoc /\ td \in SUBSET Product /\ p \in td
      /\ t \in Patcher => input[t] \in Patch /\ i \in Order
      /\ t \in Checkout => input[t] \in CheckoutDoc
      /\ ~v.archived[p]
  BY <1>1, <1>2, <1>3, AtWork DEF ReserveLine, InStock
<1>5. Write(t, ks, new)
  BY <1>1 DEF ReserveLine
<1>6. <<"product", p>> \notin m
  BY <1>1, <1>5 DEF Write, Conflicts
<1>7. HoldsAt(t, "reserve", i, v, w, m, mv, td)
  BY <1>1, <1>2, <1>3 DEF Holds
<1>8. HoldsAt(t, q1, i, new, w \cup {<<"product", p>>}, m, mv, td1)
  <2>1. td1 = td \ {p} /\ new = [v EXCEPT !.stock[p] = n]
    BY <1>1
  <2>2. CASE t \in Checkout
    <3>1. /\ q1 = (IF td1 = {} THEN "insert" ELSE "reserve")
          /\ k = input[t].cart[p] /\ n = v.stock[p] - k
      BY <1>1, <2>2 DEF AfterReserve, Wanted
    <3> HIDE <1>1
    <3> QED BY <1>3, <1>4, <1>6, <1>7, <2>1, <2>2, <3>1, ReserveNewAt
  <2>3. CASE t \in Patcher
    <3>1. /\ q1 = (IF td1 = {} THEN "commit" ELSE "reserve")
          /\ k = v.order[mv].items[p]
          /\ n = (IF "reserve" = "release" THEN v.stock[p] + k ELSE v.stock[p] - k)
          /\ "reserve" = "reserve" => ~v.archived[p]
      BY <1>1, <1>4, <2>3, RequestsApart DEF AfterReserve, Wanted
    <3>2. "reserve" \in {"release", "reserve"}
      OBVIOUS
    <3> HIDE <1>1
    <3> QED BY <1>3, <1>4, <1>6, <1>7, <2>1, <2>3, <3>1, <3>2, PatchLineAt
  <2>4. t \notin Cron
    BY <1>1, <1>3, <1>7 DEF HoldsAt, CronAt
  <2> QED BY <2>2, <2>3, <2>4 DEF Request
<1>9. /\ pc' = [pc EXCEPT ![t] = q1] /\ moving' = [moving EXCEPT ![t] = mv]
      /\ todo' = [todo EXCEPT ![t] = td1]
  BY <1>1 DEF ReserveLine, MoveLines
<1>10. HoldsAt(t, q1, id[t], new, wrote[t] \cup ks, missed[t], mv, td1)
  BY <1>1, <1>8
<1> QED BY <1>5, <1>9, <1>10, WritingHolds

LEMMA InsertOrderAt ==
  ASSUME NEW t \in Checkout, NEW i \in Order, NEW v \in DbDoc, v # None, NEW w, NEW m,
         NEW mv, NEW td, HoldsAt(t, "insert", i, v, w, m, mv, td),
         Blank, db \in DbDoc, input[t] \in CheckoutDoc,
         v.order[i].status = "absent", <<"order", i>> \notin m,
         NEW x, x = input[t].trx,
         x # None => <<"trx", x>> \notin m /\ \A o \in Order : v.order[o].bkashTrxId # x,
         NEW ks, ks = {<<"order", i>>} \cup ({"trx"} \X ({x} \ {None})),
         NEW d, d = Store!NewOrder(input[t].cart, "FULL_COD", FALSE, x, input[t].coupon),
         NEW new, new = [v EXCEPT !.order[i] = d]
  PROVE  HoldsAt(t, "commit", i, new, w \cup ks, m, mv, td)
<1>1. PICK X, w1 : X = Turned(t, "insert", i, w) /\ w1 = w \cup ks
  OBVIOUS
<1>2. /\ td = {} /\ SnapshotAt(v, w, m)
      /\ ExpiryAt(t, "insert", X, v, w, mv, td)
      /\ CheckoutAt(t, "insert", i, X, v, w, td)
  BY <1>1, RequestsApart DEF HoldsAt
<1>3. i \notin X /\ <<"order", i>> \notin w
  <2>1. \A o \in X : v.order[o] = Store!Expired(db.order[o]) /\ db.order[o] \in Store!OrderDoc
    BY <1>1, <1>2 DEF ExpiryAt, Turned, DbDoc
  <2>2. \A o \in X : v.order[o].status = "cancelled"
    BY <2>1, ExpiredDoc
  <2> QED BY <1>1, <2>2 DEF Turned
<1>4. v.order[i].bkashTrxId = None
  <2>1. v.order[i] = db.order[i]
    BY <1>2, <1>3 DEF SnapshotAt
  <2> QED BY <2>1 DEF Blank
<1>5. /\ new.stock = v.stock /\ new.archived = v.archived /\ new.coupon = v.coupon
      /\ \A o \in Order : new.order[o] = IF o = i THEN d ELSE v.order[o]
  BY DEF DbDoc
<1>6. /\ \A p \in Product : <<"product", p>> \notin ks
      /\ \A c \in Coupon : <<"coupon", c>> \notin ks
      /\ \A o \in Order : <<"order", o>> \in ks <=> o = i
      /\ x # None => <<"trx", x>> \in ks
      /\ ks \cap m = {}
  OBVIOUS
<1>7. X = Turned(t, "commit", i, w1)
  BY <1>1, <1>3, <1>6 DEF Turned
<1>8. SnapshotAt(new, w1, m)
  <2>1. WritesOnly(v, ks, new)
    BY <1>4, <1>5, <1>6 DEF WritesOnly
  <2>2. SnapshotAt(new, w \cup ks, m)
    BY <1>2, <1>6, <2>1, SnapshotWrites
  <2> QED BY <1>1, <2>2
<1>9. ExpiryAt(t, "commit", X, new, w1, mv, td)
  <2>1. ASSUME NEW p \in Product
        PROVE  /\ Due("commit", mv, td, p) = Due("insert", mv, td, p)
               /\ Sold(t, "commit", td, p) = Sold(t, "insert", td, p)
               /\ <<"product", p>> \in w1 <=> <<"product", p>> \in w
    BY <1>1, <1>6 DEF Due, Sold
  <2>2. \A o \in X : new.order[o] = v.order[o]
    BY <1>1, <1>3, <1>5 DEF Turned
  <2>3. \A o \in X : /\ db.order[o].status = "pending" /\ ~db.order[o].deleted
                     /\ db.order[o].aged
                     /\ new.order[o] = Store!Expired(db.order[o])
    BY <1>2, <2>2 DEF ExpiryAt
  <2>4. ASSUME NEW p \in Product
        PROVE  IF <<"product", p>> \in w1
               THEN new.stock[p] + Due("commit", mv, td, p) + Sold(t, "commit", td, p)
                      = db.stock[p] + Back(X, p)
               ELSE /\ Back(X, p) = Due("commit", mv, td, p)
                    /\ Sold(t, "commit", td, p) = 0
    BY <1>2, <1>5, <2>1 DEF ExpiryAt
  <2> QED BY <2>3, <2>4 DEF ExpiryAt
<1>10. CheckoutAt(t, "commit", i, X, new, w1, td)
  <2>1. \A c \in Coupon : <<"coupon", c>> \in w1 <=> <<"coupon", c>> \in w
    BY <1>1, <1>6
  <2>2. x # None => <<"trx", x>> \in w1 /\ \A o \in Order : db.order[o].bkashTrxId # x
    <3>1. x \in TrxId \cup {None}
      BY DEF CheckoutDoc
    <3> QED BY <1>1, <1>2, <1>6, <3>1 DEF SnapshotAt
  <2>3. new.order[i] = Store!NewOrder(input[t].cart, "FULL_COD", FALSE,
                                      input[t].trx, input[t].coupon)
    BY <1>5
  <2>4. \A p \in Lines(input[t].cart) \ td : <<"product", p>> \in w1 /\ ~new.archived[p]
    BY <1>1, <1>2, <1>5 DEF CheckoutAt
  <2> QED BY <1>2, <1>5, <2>1, <2>2, <2>3, <2>4 DEF CheckoutAt
<1> QED BY <1>1, <1>2, <1>7, <1>8, <1>9, <1>10, RequestsApart DEF HoldsAt

LEMMA InsertOrderHolds ==
  ASSUME Refining, Orderly', NEW t \in Request, InsertOrder(t)
  PROVE  Refining'
<1>1. PICK i, v, w, m, mv, td, x, d, new, ks :
        /\ i = id[t] /\ v = view[t] /\ w = wrote[t] /\ m = missed[t]
        /\ mv = moving[t] /\ td = todo[t] /\ x = input[t].trx
        /\ d = Store!NewOrder(input[t].cart, "FULL_COD", FALSE, x, input[t].coupon)
        /\ new = [v EXCEPT !.order[i] = d] /\ ks = Wants(t)
  OBVIOUS
<1>2. pc[t] = "insert" /\ pc[t] \in Working
  BY DEF InsertOrder, Working
<1>3. Holds(t) /\ v # None /\ Orderly /\ Blank
  BY <1>1, <1>2, WorkingHolds DEF Refining
<1>4. /\ v \in DbDoc /\ db \in DbDoc /\ t \in Checkout /\ i \in Order
      /\ input[t] \in CheckoutDoc
  BY <1>1, <1>2, <1>3, AtWork DEF Fits, FitsAt
<1>5. Write(t, ks, new)
  BY <1>1 DEF InsertOrder
<1>6. ks = {<<"order", i>>} \cup ({"trx"} \X ({x} \ {None}))
  BY <1>1, <1>2 DEF Wants
<1>7. /\ <<"order", i>> \notin m /\ (x # None => <<"trx", x>> \notin m)
  BY <1>1, <1>5, <1>6 DEF Write, Conflicts
<1>8. /\ v.order[i].status = "absent"
      /\ x # None => \A o \in Order : v.order[o].bkashTrxId # x
  BY <1>1 DEF InsertOrder, Duplicate
<1>9. HoldsAt(t, "insert", i, v, w, m, mv, td)
  BY <1>1, <1>2, <1>3 DEF Holds
<1>10. HoldsAt(t, "commit", i, new, w \cup ks, m, mv, td)
  <2>1. /\ x = input[t].trx /\ new = [v EXCEPT !.order[i] = d]
        /\ d = Store!NewOrder(input[t].cart, "FULL_COD", FALSE, x, input[t].coupon)
    BY <1>1
  <2> HIDE <1>1
  <2> QED BY <1>3, <1>4, <1>6, <1>7, <1>8, <1>9, <2>1, InsertOrderAt
<1>11. /\ pc' = [pc EXCEPT ![t] = "commit"] /\ moving' = [moving EXCEPT ![t] = mv]
       /\ todo' = [todo EXCEPT ![t] = td]
  BY <1>1, <1>3 DEF InsertOrder, Orderly, Typed
<1>12. HoldsAt(t, "commit", id[t], new, wrote[t] \cup ks, missed[t], mv, td)
  BY <1>1, <1>10
<1> QED BY <1>5, <1>11, <1>12, WritingHolds

-----------------------------------------------------------------------------
(* The patch                                                               *)

LEMMA PatchedDoc ==
  ASSUME NEW d \in Store!OrderDoc, d.status # "absent", NEW body \in Patch
  PROVE  /\ Store!Patched(d, body) \in Store!OrderDoc
         /\ Store!Patched(d, body).items = d.items
         /\ Store!Patched(d, body).deleted = d.deleted
         /\ Store!Patched(d, body).bkashTrxId = d.bkashTrxId
         /\ Store!Patched(d, body).stockDeducted = d.stockDeducted
<1> DEFINE Same(x) == /\ x \in Store!OrderDoc
                      /\ x.items = d.items /\ x.deleted = d.deleted
                      /\ x.bkashTrxId = d.bkashTrxId
                      /\ x.stockDeducted = d.stockDeducted
           s == Store!StatusSet(d, body.status)
           f == IF body.toggleFakeSuspicion THEN Store!FakeToggled(s) ELSE s
<1>1. Same(s)
  BY InputsAreDocuments DEF Store!StatusSet, Store!OrderDoc, Store!OrderStatus
<1>2. Same(Store!FakeToggled(s))
  <2> HIDE DEF s
  <2>1. Store!FakeToggled(s) \in Store!OrderDoc
    BY <1>1, FakeToggledType
  <2>2. CASE s.isFakeSuspected
    BY <1>1, <2>1, <2>2 DEF Store!FakeToggled, Store!OrderDoc
  <2>3. CASE ~s.isFakeSuspected
    BY <1>1, <2>1, <2>3 DEF Store!FakeToggled, Store!OrderDoc
  <2> QED BY <2>2, <2>3
<1>3. Same(f)
  BY <1>1, <1>2
<1>4. Same(Store!PaymentOverridden(f, body.deliveryPaymentStatus))
  <2> HIDE DEF f
  <2> QED BY <1>3, InputsAreDocuments DEF Store!PaymentOverridden, Store!OrderDoc
<1> QED BY <1>4 DEF Store!Patched

(* The document a patch saves, and the products it goes on to move.        *)
Saved(action, before, d) ==
  IF Flips(action, before) THEN [d EXCEPT !.stockDeducted = ~@] ELSE d

Moved(action, before, d) == IF Flips(action, before) THEN Lines(d.items) ELSE {}

(* How t saves order i of v: it writes ks, leaves new and goes on at q.    *)
MaySave(t, i, v, before, d, action, ks, new, q, td) ==
  /\ before = v.order[i] /\ d = Store!Patched(before, input[t])
  /\ action = Store!StockActionForTransition(before.status, d.status)
  /\ ks = IF d = before THEN {} ELSE {<<"order", i>>}
  /\ new = [v EXCEPT !.order[i] = Saved(action, before, d)]
  /\ td = Moved(action, before, d)
  /\ q = IF td = {} THEN "commit" ELSE action

LEMMA SavePatchAt ==
  ASSUME NEW t \in Patcher, NEW i \in Order, NEW v \in DbDoc, v # None, NEW w, NEW m,
         NEW mv, NEW td, HoldsAt(t, "save", i, v, w, m, mv, td),
         input[t] \in Patch, NEW before, NEW d, NEW action, NEW ks, NEW new, NEW q1,
         NEW td1, MaySave(t, i, v, before, d, action, ks, new, q1, td1), ks \cap m = {}
  PROVE  HoldsAt(t, q1, i, new, w \cup ks, m, i, td1)
<1>1. PICK w1, saved : w1 = w \cup ks /\ saved = Saved(action, before, d)
  OBVIOUS
<1> USE DEF MaySave
<1>2. /\ td = {} /\ SnapshotAt(v, w, m) /\ w = {}
      /\ before.status # "absent" /\ ~before.deleted
      /\ \A o \in Order \ {i} : <<"order", o>> \notin w
      /\ \A c \in Coupon : <<"coupon", c>> \notin w
  BY DEF HoldsAt, PatchAt
<1>3. /\ before \in Store!OrderDoc /\ d \in Store!OrderDoc
      /\ d.items = before.items /\ d.bkashTrxId = before.bkashTrxId
  <2>1. before \in Store!OrderDoc
    BY DEF DbDoc
  <2> QED BY <1>2, <2>1, PatchedDoc
<1>4. saved.items = before.items /\ saved.bkashTrxId = before.bkashTrxId
  BY <1>1, <1>3 DEF Saved, Store!OrderDoc
<1>5. /\ new.stock = v.stock /\ new.archived = v.archived /\ new.coupon = v.coupon
      /\ \A o \in Order : new.order[o] = IF o = i THEN saved ELSE v.order[o]
  BY <1>1 DEF DbDoc
<1>6. ASSUME ks = {} PROVE ~Flips(action, before) /\ td1 = {} /\ q1 = "commit" /\ saved = before
  BY <1>1, <1>6 DEF Saved, Moved, Flips, Store!StockActionForTransition
<1>7. SnapshotAt(new, w1, m)
  <2>1. WritesOnly(v, ks, new)
    BY <1>4, <1>5, <1>6 DEF WritesOnly
  <2>2. SnapshotAt(new, w \cup ks, m)
    BY <1>2, <2>1, SnapshotWrites
  <2> QED BY <1>1, <2>2
<1>8. PatchAt(t, db.order[i], q1, i, new, w1, i, td1)
  <2>1. /\ q1 # "save" /\ w1 = ks
        /\ q1 # "commit" => q1 = action /\ Flips(action, before)
        /\ \A o \in Order \ {i} : <<"order", o>> \notin w1
        /\ \A c \in Coupon : <<"coupon", c>> \notin w1
    BY <1>1, <1>2 DEF Moved, Store!StockActionForTransition
  <2>2. CASE ks = {}
    BY <1>6, <2>1, <2>2 DEF PatchAt
  <2>3. CASE ks # {}
    <3>1. <<"order", i>> \in w1 /\ db.order[i] = before
      BY <1>2, <2>1, <2>3 DEF SnapshotAt
    <3>2. \A p \in Product :
            /\ <<"product", p>> \notin w1
            /\ Flips(action, before) => Lines(before.items) \ td1 = {}
      BY <1>3, <2>1 DEF Moved
    <3>3. new.order[i] = saved /\ td1 \subseteq Lines(before.items)
      BY <1>3, <1>5 DEF Moved
    <3>4. PatchAt(t, before, q1, i, new, w1, i, td1)
      BY <1>1, <1>2, <2>1, <3>1, <3>2, <3>3 DEF PatchAt, Saved
    <3> QED BY <3>1, <3>4
  <2> QED BY <2>2, <2>3
<1>9. q1 \notin {"release", "reserve"} => td1 = {}
  BY DEF Flips, Moved
<1> QED BY <1>1, <1>7, <1>8, <1>9, RequestsApart DEF HoldsAt

LEMMA SavePatchHolds ==
  ASSUME Refining, Orderly', NEW t \in Request, SavePatch(t)
  PROVE  Refining'
<1>1. PICK i, v, w, m, mv, td, before, d, action, ks, saved, new, td1, q1 :
        /\ i = id[t] /\ v = view[t] /\ w = wrote[t] /\ m = missed[t]
        /\ mv = moving[t] /\ td = todo[t] /\ before = v.order[i]
        /\ d = Store!Patched(before, input[t])
        /\ action = Store!StockActionForTransition(before.status, d.status)
        /\ ks = IF d = before THEN {} ELSE {<<"order", i>>}
        /\ saved = Saved(action, before, d)
        /\ new = [v EXCEPT !.order[i] = saved]
        /\ td1 = Moved(action, before, d)
        /\ q1 = IF td1 = {} THEN "commit" ELSE action
  OBVIOUS
<1>2. pc[t] = "save" /\ pc[t] \in Working
  BY DEF SavePatch, Working
<1>3. Holds(t) /\ v # None /\ Orderly
  BY <1>1, <1>2, WorkingHolds
<1>4. v \in DbDoc /\ t \in Patcher /\ i \in Order /\ input[t] \in Patch
  BY <1>1, <1>2, <1>3, AtWork DEF Fits, FitsAt
<1>5. Write(t, ks, new)
  BY <1>1 DEF SavePatch, Saved
<1>6. ks \cap m = {}
  BY <1>1, <1>5 DEF Write, Conflicts
<1>7. HoldsAt(t, "save", i, v, w, m, mv, td)
  BY <1>1, <1>2, <1>3 DEF Holds
<1>8. HoldsAt(t, q1, i, new, w \cup ks, m, i, td1)
  <2>1. MaySave(t, i, v, before, d, action, ks, new, q1, td1)
    BY <1>1 DEF MaySave
  <2> HIDE <1>1
  <2> QED BY <1>3, <1>4, <1>6, <1>7, <2>1, SavePatchAt
<1>9. /\ pc' = [pc EXCEPT ![t] = q1] /\ moving' = [moving EXCEPT ![t] = i]
      /\ todo' = [todo EXCEPT ![t] = td1]
  BY <1>1 DEF SavePatch, MoveLines, Moved
<1>10. HoldsAt(t, q1, id[t], new, wrote[t] \cup ks, missed[t], i, td1)
  BY <1>1, <1>8
<1> QED BY <1>5, <1>9, <1>10, WritingHolds

-----------------------------------------------------------------------------
(* Beginnings and ends                                                     *)

(* A fresh snapshot owes nothing.                                          *)
LEMMA FreshAt ==
  ASSUME NEW t \in Request, NEW q \in {"redeem", "expire", "save"}, NEW i, NEW mv,
         NEW v, v = db, db \in DbDoc,
         q = "redeem" => t \in Checkout,
         q = "expire" => t \notin Patcher,
         t \in Checkout => /\ input[t] \in CheckoutDoc
                           /\ q # "redeem" => input[t].coupon = None,
         t \in Cron => q = "expire",
         t \in Patcher => q = "save" /\ v.order[i].status # "absent" /\ ~v.order[i].deleted
  PROVE  HoldsAt(t, q, i, v, {}, {}, mv, {})
<1>1. PICK X : X = Turned(t, q, i, {})
  OBVIOUS
<1>2. X = {}
  BY <1>1 DEF Turned
<1>3. SnapshotAt(v, {}, {})
  BY DEF SnapshotAt
<1>4. ASSUME t \notin Patcher PROVE ExpiryAt(t, q, X, v, {}, mv, {})
  <2>1. \A p \in Product : Back(X, p) = 0
    BY <1>2, BackOfNone
  <2>2. \A p \in Product : Due(q, mv, {}, p) = 0 /\ Sold(t, q, {}, p) = 0
    BY DEF Due, Sold
  <2> QED BY <1>2, <2>1, <2>2 DEF ExpiryAt
<1>5. ASSUME t \in Checkout PROVE CheckoutAt(t, q, i, X, v, {}, {})
  <2>1. \A c \in Coupon : ~(c = input[t].coupon /\ q # "redeem")
    BY <1>5, NoneIsNoId
  <2> QED BY <1>2, <1>5, <2>1 DEF CheckoutAt
<1>6. ASSUME t \in Cron PROVE CronAt(q, {}, mv)
  BY <1>6 DEF CronAt
<1>7. ASSUME t \in Patcher PROVE PatchAt(t, db.order[i], q, i, v, {}, mv, {})
  BY <1>7 DEF PatchAt
<1> QED BY <1>1, <1>3, <1>4, <1>5, <1>6, <1>7 DEF HoldsAt

LEMMA BeginsHold ==
  ASSUME Refining, Orderly', NEW t \in Request,
         BeginCheckout(t) \/ BeginPatch(t) \/ BeginCron(t)
  PROVE  Refining'
<1>1. PICK q, i, v, mv :
         /\ q = IF t \in Patcher THEN "save"
                ELSE IF t \in Cron \/ input[t].coupon = None THEN "expire" ELSE "redeem"
         /\ i = id[t] /\ v = db /\ mv = moving[t]
  OBVIOUS
<1>2. pc[t] = "begin" /\ UNCHANGED <<db, input, id, ids, wrote, missed, moving, todo>>
  BY DEF BeginCheckout, BeginPatch, BeginCron
<1>3. Orderly /\ Holds(t)
  BY DEF Refining
<1>4. wrote[t] = {} /\ missed[t] = {} /\ todo[t] = {}
  BY <1>2, <1>3 DEF Orderly, Fits, FitsAt, Working, Holds, HoldsAt
<1>5. view' = [view EXCEPT ![t] = v]
  BY <1>1 DEF BeginCheckout, BeginPatch, BeginCron
<1>6. pc' = [pc EXCEPT ![t] = q]
  BY <1>1, RequestsApart DEF BeginCheckout, BeginPatch, BeginCron
<1>7. /\ pc'[t] = q /\ id'[t] = i /\ view'[t] = v /\ wrote'[t] = {}
      /\ missed'[t] = {} /\ moving'[t] = mv /\ todo'[t] = {}
  BY <1>1, <1>2, <1>3, <1>4, <1>5, <1>6 DEF Orderly, Typed
<1>8. Others(t)
  BY <1>2, <1>3, <1>5, <1>6 DEF Orderly, Typed, Others
<1>9. HoldsAt(t, q, i, v, {}, {}, mv, {})
  <2>1. q \in {"redeem", "expire", "save"} /\ v = db /\ db \in DbDoc
    BY <1>1, <1>3 DEF Orderly, Typed
  <2>2. /\ q = "redeem" => t \in Checkout
        /\ q = "expire" => t \notin Patcher
        /\ t \in Cron => q = "expire"
    BY <1>1, RequestsApart DEF Request
  <2>3. t \in Checkout => /\ input[t] \in CheckoutDoc
                          /\ q # "redeem" => input[t].coupon = None
    BY <1>1, <1>3, RequestsApart DEF Orderly, Typed
  <2>4. t \in Patcher => q = "save" /\ v.order[i].status # "absent" /\ ~v.order[i].deleted
    BY <1>1, RequestsApart DEF BeginCheckout, BeginPatch, BeginCron
  <2> HIDE <1>1
  <2> QED BY <2>1, <2>2, <2>3, <2>4, FreshAt
<1> QED BY <1>2, <1>7, <1>8, <1>9, StepHolds

(* A closed transaction owes nothing either.                               *)
LEMMA ClosedAt ==
  ASSUME NEW t, NEW q, NEW i, NEW w, NEW m, NEW mv, NEW td,
         q \notin {"release", "reserve"}, td = {}
  PROVE  HoldsAt(t, q, i, None, w, m, mv, td)
BY DEF HoldsAt

LEMMA ClosingHolds ==
  ASSUME Refining, Orderly', NEW t \in Request, NEW at, at \notin {"release", "reserve"},
         Close(t, at), Forget(t), UNCHANGED <<db, input, id>>
  PROVE  Refining'
<1>1. Typed
  BY DEF Refining, Orderly
<1>2. /\ pc'[t] = at /\ id'[t] = id[t] /\ view'[t] = None /\ wrote'[t] = {}
      /\ missed'[t] = {} /\ moving'[t] = None /\ todo'[t] = {}
  BY <1>1 DEF Close, Forget, Typed
<1>3. Others(t)
  BY <1>1 DEF Close, Forget, Typed, Others
<1>4. HoldsAt(t, at, id[t], None, {}, {}, None, {})
  BY ClosedAt
<1> QED BY <1>2, <1>3, <1>4, StepHolds

LEMMA EndsHold ==
  ASSUME Refining, Orderly', NEW t \in Request,
         \/ RefuseCheckout(t) \/ RefusePatch(t) \/ RefuseCoupon(t) \/ RefuseLine(t)
         \/ InsertDuplicate(t) \/ FinishCron(t) \/ RunAgain(t) \/ Crash(t)
  PROVE  Refining'
<1>1. \E at : /\ at \notin {"release", "reserve"}
              /\ Close(t, at) /\ Forget(t) /\ UNCHANGED <<db, input, id>>
  <2>1. CASE RefuseCheckout(t) \/ RefusePatch(t) \/ RefuseCoupon(t) \/ RefuseLine(t)
    BY <2>1 DEF RefuseCheckout, RefusePatch, RefuseCoupon, RefuseLine, Abort
  <2>2. CASE InsertDuplicate(t)
    BY <2>2 DEF InsertDuplicate, Abort
  <2>3. CASE FinishCron(t)
    BY <2>3 DEF FinishCron
  <2>4. CASE RunAgain(t)
    BY <2>4 DEF RunAgain, Abort
  <2>5. CASE Crash(t)
    BY <2>5 DEF Crash, Abort
  <2> QED BY <2>1, <2>2, <2>3, <2>4, <2>5
<1> QED BY <1>1, ClosingHolds

LEMMA DrawIdHolds ==
  ASSUME Refining, Orderly', NEW t \in Request, NEW o \in Order, DrawId(t, o)
  PROVE  Refining'
<1>1. PICK w, m, mv : w = wrote[t] /\ m = missed[t] /\ mv = moving[t]
  OBVIOUS
<1>2. Orderly /\ Holds(t) /\ pc[t] = "draw"
  BY DEF Refining, DrawId
<1>3. view[t] = None /\ todo[t] = {}
  BY <1>2 DEF Orderly, Fits, FitsAt, Working, Holds, HoldsAt
<1>4. /\ pc'[t] = "begin" /\ id'[t] = o /\ view'[t] = None /\ wrote'[t] = w
      /\ missed'[t] = m /\ moving'[t] = mv /\ todo'[t] = {}
  BY <1>1, <1>2, <1>3 DEF DrawId, txnVars, Orderly, Typed
<1>5. Others(t) /\ UNCHANGED <<db, input>>
  BY <1>2 DEF DrawId, txnVars, Orderly, Typed, Others
<1>6. HoldsAt(t, "begin", o, None, w, m, mv, {})
  BY ClosedAt
<1> QED BY <1>4, <1>5, <1>6, StepHolds

LEMMA AuditHolds ==
  ASSUME Refining, Orderly', NEW t \in Request, Audit(t)
  PROVE  Refining'
<1>1. PICK i, w, m, mv : i = id[t] /\ w = wrote[t] /\ m = missed[t] /\ mv = moving[t]
  OBVIOUS
<1>2. Orderly /\ Holds(t) /\ pc[t] = "audit"
  BY DEF Refining, Audit
<1>3. view[t] = None /\ todo[t] = {}
  BY <1>2 DEF Orderly, Fits, FitsAt, Working, Holds, HoldsAt
<1>4. /\ pc'[t] = "done" /\ id'[t] = i /\ view'[t] = None /\ wrote'[t] = w
      /\ missed'[t] = m /\ moving'[t] = mv /\ todo'[t] = {}
  BY <1>1, <1>2, <1>3 DEF Audit, txnVars, Orderly, Typed
<1>5. Others(t) /\ UNCHANGED <<db, input>>
  BY <1>2 DEF Audit, txnVars, Orderly, Typed, Others
<1>6. HoldsAt(t, "done", i, None, w, m, mv, {})
  BY ClosedAt
<1> QED BY <1>4, <1>5, <1>6, StepHolds

-----------------------------------------------------------------------------
(* The commit, seen by the other requests                                  *)

LEMMA PublishedAll ==
  ASSUME Orderly, NEW t \in Request, Commit(t), NEW v, v = view[t], NEW w, w = wrote[t]
  PROVE  /\ db' \in DbDoc /\ db'.archived = db.archived
         /\ db'.stock = [p \in Product |-> IF <<"product", p>> \in w
                                           THEN v.stock[p] ELSE db.stock[p]]
         /\ db'.order = [o \in Order |-> IF <<"order", o>> \in w
                                         THEN v.order[o] ELSE db.order[o]]
         /\ db'.coupon = [c \in Coupon |-> IF <<"coupon", c>> \in w
                                           THEN v.coupon[c] ELSE db.coupon[c]]
<1>1. db \in DbDoc
  BY DEF Orderly, Typed
<1>2. db' \in DbDoc
  BY Published
<1>3. PICK st, ord, cp :
        /\ st = [p \in Product |-> IF <<"product", p>> \in w THEN v.stock[p] ELSE db.stock[p]]
        /\ ord = [o \in Order |-> IF <<"order", o>> \in w THEN v.order[o] ELSE db.order[o]]
        /\ cp = [c \in Coupon |-> IF <<"coupon", c>> \in w THEN v.coupon[c] ELSE db.coupon[c]]
  OBVIOUS
<1>4. db' = [db EXCEPT !.stock = st, !.order = ord, !.coupon = cp]
  BY <1>1, <1>3 DEF Commit, DbDoc
<1>5. db'.archived = db.archived /\ db'.stock = st /\ db'.order = ord /\ db'.coupon = cp
  BY <1>1, <1>4 DEF DbDoc
<1> QED BY <1>2, <1>3, <1>5

(* An order a transaction commits has the bKash id it had, or one the      *)
(* transaction holds.                                                      *)
LEMMA ClaimsAt ==
  ASSUME NEW t \in Request, NEW i, NEW v \in DbDoc, v # None, NEW w, NEW m,
         NEW mv, NEW td, HoldsAt(t, "commit", i, v, w, m, mv, td), db \in DbDoc,
         t \in Patcher => input[t] \in Patch /\ i \in Order,
         NEW o \in Order, <<"order", o>> \in w, NEW x, x = v.order[o].bkashTrxId
  PROVE  x = db.order[o].bkashTrxId \/ x = None \/ <<"trx", x>> \in w
<1>1. CASE t \in Patcher
  <2>1. o = i /\ PatchAt(t, db.order[i], "commit", i, v, w, mv, td)
    BY <1>1 DEF HoldsAt, PatchAt
  <2>2. PICK before, d : before = db.order[i] /\ d = Store!Patched(before, input[t])
    OBVIOUS
  <2>3. /\ before.status # "absent"
        /\ v.order[i] = d \/ v.order[i] = [d EXCEPT !.stockDeducted = ~@]
    BY <2>1, <2>2 DEF PatchAt
  <2>4. before \in Store!OrderDoc
    BY <1>1, <2>2 DEF DbDoc
  <2>5. d \in Store!OrderDoc /\ d.bkashTrxId = before.bkashTrxId
    BY <1>1, <2>2, <2>3, <2>4, PatchedDoc
  <2>6. [d EXCEPT !.stockDeducted = ~@].bkashTrxId = d.bkashTrxId
    BY <2>5 DEF Store!OrderDoc
  <2> QED BY <2>1, <2>2, <2>3, <2>5, <2>6
<1>2. CASE t \in Checkout /\ o = i
  <2>1. v.order[i] = Store!NewOrder(input[t].cart, "FULL_COD", FALSE,
                                    input[t].trx, input[t].coupon)
    BY <1>2, RequestsApart DEF HoldsAt, CheckoutAt
  <2>2. v.order[i].bkashTrxId = input[t].trx
    BY <2>1 DEF Store!NewOrder, Store!Absent
  <2>3. input[t].trx # None => <<"trx", input[t].trx>> \in w
    BY <1>2, RequestsApart DEF HoldsAt, CheckoutAt
  <2> QED BY <1>2, <2>2, <2>3
<1>3. CASE t \notin Patcher /\ ~(t \in Checkout /\ o = i)
  <2>1. v.order[o] = Store!Expired(db.order[o])
    <3>1. o \in Turned(t, "commit", i, w)
      BY <1>3 DEF Turned
    <3> QED BY <1>3, <3>1 DEF HoldsAt, ExpiryAt
  <2>2. db.order[o] \in Store!OrderDoc
    BY DEF DbDoc
  <2> QED BY <2>1, <2>2, ExpiredDoc
<1> QED BY <1>1, <1>2, <1>3

LEMMA CommitHolds ==
  ASSUME Refining, Orderly', NEW t \in Request, Commit(t)
  PROVE  Refining'
<1>1. PICK v, w : v = view[t] /\ w = wrote[t]
  OBVIOUS
<1>2. pc[t] = "commit" /\ pc[t] \in Working
  BY DEF Commit, Working
<1>3. Orderly /\ Holds(t) /\ v # None
  BY <1>1, <1>2, WorkingHolds
<1>4. /\ db \in DbDoc /\ v \in DbDoc /\ Agrees(t)
      /\ t \in Patcher => input[t] \in Patch /\ id[t] \in Order
  BY <1>1, <1>2, <1>3, AtWork
<1>5. /\ db' \in DbDoc /\ db'.archived = db.archived
      /\ db'.stock = [p \in Product |-> IF <<"product", p>> \in w
                                        THEN v.stock[p] ELSE db.stock[p]]
      /\ db'.order = [o \in Order |-> IF <<"order", o>> \in w
                                      THEN v.order[o] ELSE db.order[o]]
      /\ db'.coupon = [c \in Coupon |-> IF <<"coupon", c>> \in w
                                        THEN v.coupon[c] ELSE db.coupon[c]]
  BY <1>1, <1>3, PublishedAll
<1>6. input' = input /\ id' = id
  BY DEF Commit
<1>7. /\ pc'[t] \in {"begin", "audit"} /\ view'[t] = None /\ todo'[t] = {}
      /\ \A u \in Request \ {t} :
           /\ pc'[u] = pc[u] /\ view'[u] = view[u] /\ wrote'[u] = wrote[u]
           /\ moving'[u] = moving[u] /\ todo'[u] = todo[u]
  BY <1>3 DEF Commit, Close, Orderly, Typed
<1>8. \A u \in Request \ {t} : view[u] # None => missed'[u] = missed[u] \cup w
  BY <1>1 DEF Commit, Open
<1>9. Blank'
  <2>1. \A o \in Order : <<"order", o>> \in w => v.order[o].status # "absent"
    BY <1>1, <1>4 DEF Agrees, AgreesAt
  <2> QED BY <1>5, <2>1 DEF Refining, Blank
<1>10. ASSUME NEW n, w \subseteq n PROVE MovesWithin(n)
  <2>1. ASSUME NEW x \in TrxId, <<"trx", x>> \notin n, NEW o \in Order,
               db'.order[o].bkashTrxId = x
        PROVE  \E y \in Order : db.order[y].bkashTrxId = x
    <3>1. CASE <<"order", o>> \notin w
      BY <1>5, <2>1, <3>1
    <3>2. CASE <<"order", o>> \in w
      <4>1. x = v.order[o].bkashTrxId /\ x # None /\ <<"trx", x>> \notin w
        BY <1>5, <1>10, <2>1, <3>2, NoneIsNoId
      <4>2. HoldsAt(t, "commit", id[t], v, w, missed[t], moving[t], todo[t])
        BY <1>1, <1>2, <1>3 DEF Holds
      <4>3. x = db.order[o].bkashTrxId
        <5>1. PICK i, m, mv, td : i = id[t] /\ m = missed[t] /\ mv = moving[t] /\ td = todo[t]
          OBVIOUS
        <5>2. /\ HoldsAt(t, "commit", i, v, w, m, mv, td)
              /\ db \in DbDoc /\ v \in DbDoc /\ v # None
              /\ t \in Patcher => input[t] \in Patch /\ i \in Order
          BY <1>3, <1>4, <4>2, <5>1
        <5> HIDE <5>1
        <5> QED BY <3>2, <4>1, <5>2, ClaimsAt
      <4> QED BY <4>3
    <3> QED BY <3>1, <3>2
  <2>2. \A p \in Product : <<"product", p>> \notin n =>
          db'.stock[p] = db.stock[p] /\ db'.archived[p] = db.archived[p]
    BY <1>5, <1>10
  <2>3. \A o \in Order : <<"order", o>> \notin n => db'.order[o] = db.order[o]
    BY <1>5, <1>10
  <2>4. \A c \in Coupon : <<"coupon", c>> \notin n => db'.coupon[c] = db.coupon[c]
    BY <1>5, <1>10
  <2> QED BY <1>4, <1>5, <1>6, <2>1, <2>2, <2>3, <2>4 DEF MovesWithin
<1>11. ASSUME NEW u \in Request PROVE Holds(u)'
  <2>1. PICK a, b, c, d, e, f, g :
          /\ a = pc'[u] /\ b = id'[u] /\ c = view'[u] /\ d = wrote'[u]
          /\ e = missed'[u] /\ f = moving'[u] /\ g = todo'[u]
    OBVIOUS
  <2>2. HoldsAt(u, a, b, c, d, e, f, g)'
    <3>1. CASE u = t
      BY <1>7, <2>1, <3>1 DEF HoldsAt
    <3>2. CASE u # t
      <4>1. HoldsAt(u, a, b, c, d, missed[u], f, g)
        BY <1>6, <1>7, <2>1, <3>2 DEF Refining, Holds
      <4>2. c # None => missed[u] \subseteq e /\ w \subseteq e /\ d \cap e = {}
        <5>1. c # None => SnapshotAt(c, d, missed[u])
          BY <4>1 DEF HoldsAt
        <5>2. d \cap w = {}
          BY <1>1, <1>3, <1>7, <2>1, <3>2 DEF Orderly, Exclusive
        <5>3. c # None => e = missed[u] \cup w
          BY <1>7, <1>8, <2>1, <3>2
        <5> QED BY <5>1, <5>2, <5>3 DEF SnapshotAt
      <4>3. c # None => MovesWithin(e)
        BY <1>10, <4>2
      <4>4. /\ u \in Checkout => input[u].trx \in TrxId \cup {None}
            /\ u \in Patcher => b \in Order
        BY <1>3, <1>6, <2>1, InputsTyped
      <4> QED BY <4>1, <4>2, <4>3, <4>4, WorldMoves
    <3> QED BY <3>1, <3>2
  <2> QED BY <2>1, <2>2 DEF Holds, HoldsAt, Turned
<1> QED BY <1>9, <1>11 DEF Refining

-----------------------------------------------------------------------------
(* The environment                                                         *)

LEMMA ArchiveProductHolds ==
  ASSUME Refining, Orderly', NEW p \in Product, ArchiveProduct(p)
  PROVE  Refining'
<1>1. Orderly /\ db \in DbDoc
  BY DEF Refining, Orderly, Typed
<1>2. /\ db' \in DbDoc /\ db'.stock = db.stock /\ db'.order = db.order
      /\ db'.coupon = db.coupon
      /\ \A x \in Product : x # p => db'.archived[x] = db.archived[x]
  <2>1. db' = [db EXCEPT !.archived[p] = TRUE]
    BY DEF ArchiveProduct
  <2> QED BY <1>1, <2>1 DEF DbDoc
<1>3. Blank'
  BY <1>2 DEF Refining, Blank
<1>4. UNCHANGED <<input, pc, id, view, wrote, moving, todo>>
  BY DEF ArchiveProduct
<1>5. \A u \in Request : /\ view[u] # None => missed'[u] = missed[u] \cup {<<"product", p>>}
                         /\ <<"product", p>> \notin wrote[u]
  BY DEF ArchiveProduct, Open
<1>6. ASSUME NEW u \in Request PROVE Holds(u)'
  <2>1. PICK a, b, c, d, e, f, g :
          /\ a = pc'[u] /\ b = id'[u] /\ c = view'[u] /\ d = wrote'[u]
          /\ e = missed'[u] /\ f = moving'[u] /\ g = todo'[u]
    OBVIOUS
  <2>2. HoldsAt(u, a, b, c, d, missed[u], f, g)
    BY <1>4, <2>1 DEF Refining, Holds
  <2>3. c # None => missed[u] \subseteq e /\ d \cap e = {} /\ <<"product", p>> \in e
    <3>1. c # None => SnapshotAt(c, d, missed[u])
      BY <2>2 DEF HoldsAt
    <3> QED BY <1>4, <1>5, <2>1, <3>1 DEF SnapshotAt
  <2>4. c # None => MovesWithin(e)
    BY <1>1, <1>2, <1>4, <2>3 DEF MovesWithin
  <2>5. /\ u \in Checkout => input[u].trx \in TrxId \cup {None}
        /\ u \in Patcher => b \in Order
    BY <1>1, <1>4, <2>1, InputsTyped
  <2>6. HoldsAt(u, a, b, c, d, e, f, g)'
    BY <2>2, <2>3, <2>4, <2>5, WorldMoves
  <2> QED BY <2>1, <2>6 DEF Holds, HoldsAt, Turned
<1> QED BY <1>3, <1>6 DEF Refining

(* A patch reads and writes around the age of its order.                   *)
LEMMA PatchedAged ==
  ASSUME NEW d \in Store!OrderDoc, d.status # "absent", NEW body \in Patch
  PROVE  /\ Store!Patched([d EXCEPT !.aged = TRUE], body)
              = [Store!Patched(d, body) EXCEPT !.aged = TRUE]
         /\ [d EXCEPT !.aged = TRUE] \in Store!OrderDoc
<1> DEFINE Older(x) == [x EXCEPT !.aged = TRUE]
           s == Store!StatusSet(d, body.status)
           f == IF body.toggleFakeSuspicion THEN Store!FakeToggled(s) ELSE s
<1>1. Store!StatusSet(Older(d), body.status) = Older(s) /\ s \in Store!OrderDoc
  <2>1. CASE body.status = None
    BY <2>1 DEF Store!StatusSet
  <2>2. CASE body.status # None
    <3>1. body.status \in Store!OrderStatus
      BY <2>2, InputsAreDocuments
    <3> QED BY <2>2, <3>1 DEF Store!StatusSet, Store!OrderDoc
  <2> QED BY <2>1, <2>2
<1>2. Store!FakeToggled(Older(s)) = Older(Store!FakeToggled(s))
  <2> HIDE DEF s
  <2>1. CASE s.isFakeSuspected
    BY <1>1, <2>1 DEF Store!FakeToggled, Store!OrderDoc
  <2>2. CASE ~s.isFakeSuspected
    BY <1>1, <2>2 DEF Store!FakeToggled, Store!OrderDoc
  <2> QED BY <2>1, <2>2
<1>3. f \in Store!OrderDoc
  BY <1>1, FakeToggledType
<1>4. (IF body.toggleFakeSuspicion THEN Store!FakeToggled(Older(s)) ELSE Older(s)) = Older(f)
  BY <1>2
<1>5. Store!PaymentOverridden(Older(f), body.deliveryPaymentStatus)
        = Older(Store!PaymentOverridden(f, body.deliveryPaymentStatus))
  <2> HIDE DEF f
  <2> QED BY <1>3 DEF Store!PaymentOverridden, Store!OrderDoc
<1>6. Older(d) \in Store!OrderDoc
  BY DEF Store!OrderDoc
<1> QED BY <1>1, <1>4, <1>5, <1>6, Zenon DEF Store!Patched

OlderDb(v, o) == [v EXCEPT !.order[o].aged = TRUE]

LEMMA AgedDoc ==
  ASSUME NEW v \in DbDoc, NEW o \in Order, NEW u, u = OlderDb(v, o)
  PROVE  /\ u \in DbDoc
         /\ u.stock = v.stock /\ u.archived = v.archived /\ u.coupon = v.coupon
         /\ \A x \in Order : u.order[x] = IF x = o THEN [v.order[o] EXCEPT !.aged = TRUE]
                                          ELSE v.order[x]
         /\ \A x \in Order : u.order[x].bkashTrxId = v.order[x].bkashTrxId
         /\ \A x \in Order : /\ u.order[x].status = v.order[x].status
                             /\ u.order[x].deleted = v.order[x].deleted
<1>1. PICK d : d = [v.order[o] EXCEPT !.aged = TRUE]
  OBVIOUS
<1>2. /\ d \in Store!OrderDoc /\ d.status = v.order[o].status
      /\ d.bkashTrxId = v.order[o].bkashTrxId /\ d.deleted = v.order[o].deleted
  <2>1. v.order[o] \in Store!OrderDoc
    BY DEF DbDoc
  <2> QED BY <1>1, <2>1 DEF Store!OrderDoc
<1>3. u = [v EXCEPT !.order[o] = d]
  BY <1>1 DEF OlderDb
<1>4. u \in DbDoc /\ \A x \in Order : u.order[x] = IF x = o THEN d ELSE v.order[x]
  <2>1. /\ [v EXCEPT !.order[o] = d] \in DbDoc
        /\ \A x \in Order : [v EXCEPT !.order[o] = d].order[x] = IF x = o THEN d ELSE v.order[x]
    BY <1>2, OrderWritten
  <2> HIDE <1>1
  <2> QED BY <1>3, <2>1
<1>5. u.stock = v.stock /\ u.archived = v.archived /\ u.coupon = v.coupon
  BY <1>3 DEF DbDoc
<1> QED BY <1>1, <1>2, <1>4, <1>5

LEMMA AgedDb ==
  ASSUME db \in DbDoc, NEW o \in Order, Age(o)
  PROVE  /\ db' \in DbDoc /\ db'.stock = db.stock /\ db'.archived = db.archived
         /\ db'.coupon = db.coupon
         /\ \A x \in Order : db'.order[x] = IF x = o THEN [db.order[o] EXCEPT !.aged = TRUE]
                                            ELSE db.order[x]
         /\ \A x \in Order : db'.order[x].bkashTrxId = db.order[x].bkashTrxId
         /\ \A x \in Order : db'.order[x].status = db.order[x].status
<1>1. PICK n : n = db'
  OBVIOUS
<1>2. n = OlderDb(db, o)
  BY <1>1 DEF Age, OlderDb
<1>3. /\ n \in DbDoc /\ n.stock = db.stock /\ n.archived = db.archived
      /\ n.coupon = db.coupon
      /\ \A x \in Order : n.order[x] = IF x = o THEN [db.order[o] EXCEPT !.aged = TRUE]
                                       ELSE db.order[x]
      /\ \A x \in Order : n.order[x].bkashTrxId = db.order[x].bkashTrxId
      /\ \A x \in Order : /\ n.order[x].status = db.order[x].status
                          /\ n.order[x].deleted = db.order[x].deleted
  BY <1>2, AgedDoc
<1> QED BY <1>1, <1>3

(* A patch in progress, when the order it works on comes of age.           *)
LEMMA PatchAges ==
  ASSUME NEW t \in Patcher, NEW before \in Store!OrderDoc, NEW q, NEW i \in Order,
         NEW v \in DbDoc, NEW w, NEW mv, NEW td, PatchAt(t, before, q, i, v, w, mv, td),
         NEW after, after = [before EXCEPT !.aged = TRUE],
         NEW u, u.order[i] = [v.order[i] EXCEPT !.aged = TRUE],
         u.stock = v.stock, u.archived = v.archived,
         input' = input, db'.stock = db.stock, input[t] \in Patch
  PROVE  PatchAt(t, after, q, i, u, w, mv, td)'
<1>1. PICK d, e, action, flips :
        /\ d = Store!Patched(before, input[t]) /\ e = Store!Patched(after, input[t])
        /\ action = Store!StockActionForTransition(before.status, d.status)
        /\ flips \in BOOLEAN /\ (flips <=> Flips(action, before))
  BY Zenon
<1>2. /\ after.status = before.status /\ after.items = before.items
      /\ after.deleted = before.deleted /\ after.stockDeducted = before.stockDeducted
  BY DEF Store!OrderDoc
<1>3. v.order[i] \in Store!OrderDoc
  BY DEF DbDoc
<1>4. u.order[i].status = v.order[i].status /\ u.order[i].deleted = v.order[i].deleted
  BY <1>3 DEF Store!OrderDoc
<1>5. Flips(action, after) <=> flips
  BY <1>1, <1>2 DEF Flips
<1>6. ASSUME before.status # "absent"
      PROVE  /\ e.status = d.status
             /\ v.order[i] = (IF flips THEN [d EXCEPT !.stockDeducted = ~@] ELSE d)
                  => u.order[i] = (IF flips THEN [e EXCEPT !.stockDeducted = ~@] ELSE e)
  <2>1. e = [d EXCEPT !.aged = TRUE] /\ d \in Store!OrderDoc
    BY <1>1, <1>6, PatchedAged, PatchedIsOrder
  <2>2. e.status = d.status
    BY <2>1 DEF Store!OrderDoc
  <2>3. [e EXCEPT !.stockDeducted = ~@] = [[d EXCEPT !.stockDeducted = ~@] EXCEPT !.aged = TRUE]
    BY <2>1 DEF Store!OrderDoc
  <2>4. CASE flips
    BY <2>2, <2>3, <2>4
  <2>5. CASE ~flips
    BY <2>1, <2>2, <2>5
  <2> QED BY <2>4, <2>5
<1>7. ASSUME before.status # "absent"
      PROVE  action = Store!StockActionForTransition(after.status, e.status)
  BY <1>1, <1>2, <1>6, <1>7
<1>8. /\ q = "save" => w = {} /\ u.order[i].status # "absent" /\ ~u.order[i].deleted
      /\ q # "save" => mv = i
      /\ q # "save" /\ <<"order", i>> \notin w => w = {} /\ q = "commit"
      /\ \A o \in Order \ {i} : <<"order", o>> \notin w
      /\ \A c \in Coupon : <<"coupon", c>> \notin w
  BY <1>4 DEF PatchAt
<1>9. ASSUME q # "save", <<"order", i>> \in w
      PROVE  LET f == Flips(Store!StockActionForTransition(after.status, e.status), after)
                 a == Store!StockActionForTransition(after.status, e.status)
             IN  /\ after.status # "absent" /\ ~after.deleted
                 /\ u.order[i] = IF f THEN [e EXCEPT !.stockDeducted = ~@] ELSE e
                 /\ q # "commit" => q = a /\ f
                 /\ td \subseteq Lines(after.items)
                 /\ \A p \in Product :
                      /\ <<"product", p>> \in w <=> f /\ p \in Lines(after.items) \ td
                      /\ <<"product", p>> \in w =>
                           u.stock[p] + (IF a = "reserve" THEN after.items[p] ELSE 0)
                             = db'.stock[p] + (IF a = "release" THEN after.items[p] ELSE 0)
                      /\ <<"product", p>> \in w /\ a = "reserve" => ~u.archived[p]
  <2>1. /\ before.status # "absent" /\ ~before.deleted
        /\ v.order[i] = (IF flips THEN [d EXCEPT !.stockDeducted = ~@] ELSE d)
        /\ q # "commit" => q = action /\ flips
        /\ td \subseteq Lines(before.items)
        /\ \A p \in Product :
             /\ <<"product", p>> \in w <=> flips /\ p \in Lines(before.items) \ td
             /\ <<"product", p>> \in w =>
                  v.stock[p] + (IF action = "reserve" THEN before.items[p] ELSE 0)
                    = db.stock[p] + (IF action = "release" THEN before.items[p] ELSE 0)
             /\ <<"product", p>> \in w /\ action = "reserve" => ~v.archived[p]
    BY <1>1, <1>9 DEF PatchAt
  <2>2. PICK a, f : /\ a = Store!StockActionForTransition(after.status, e.status)
                    /\ f \in BOOLEAN /\ (f <=> Flips(a, after))
    BY Zenon
  <2>3. a = action /\ (f <=> flips)
    BY <1>5, <1>7, <2>1, <2>2, Zenon
  <2>4. u.order[i] = IF f THEN [e EXCEPT !.stockDeducted = ~@] ELSE e
    BY <1>6, <2>1, <2>3
  <2>5. /\ after.status # "absent" /\ ~after.deleted
        /\ q # "commit" => q = a /\ f
        /\ td \subseteq Lines(after.items)
    BY <1>2, <2>1, <2>3
  <2>6. \A p \in Product :
          /\ <<"product", p>> \in w <=> f /\ p \in Lines(after.items) \ td
          /\ <<"product", p>> \in w =>
               u.stock[p] + (IF a = "reserve" THEN after.items[p] ELSE 0)
                 = db'.stock[p] + (IF a = "release" THEN after.items[p] ELSE 0)
          /\ <<"product", p>> \in w /\ a = "reserve" => ~u.archived[p]
    BY <1>2, <2>1, <2>3
  <2> QED BY <2>2, <2>4, <2>5, <2>6
<1> QED BY <1>1, <1>8, <1>9 DEF PatchAt

LEMMA AgedAt ==
  ASSUME Orderly, NEW t \in Request, NEW o \in Order, Age(o),
         NEW q, q = pc[t], NEW i, i = id[t], NEW v \in DbDoc, v = view[t], v # None,
         NEW w, w = wrote[t], NEW m, m = missed[t], NEW mv, NEW td,
         HoldsAt(t, q, i, v, w, m, mv, td),
         NEW u, u = OlderDb(v, o)
  PROVE  HoldsAt(t, q, i, u, w, m, mv, td)'
<1>1. /\ db \in DbDoc /\ input' = input /\ db.order[o].status # "absent"
      /\ ~db.order[o].aged /\ db' = [db EXCEPT !.order[o].aged = TRUE]
  BY DEF Age, Orderly, Typed
<1>2. /\ db' \in DbDoc /\ db'.stock = db.stock /\ db'.archived = db.archived
      /\ db'.coupon = db.coupon
      /\ \A x \in Order : db'.order[x] = IF x = o THEN [db.order[o] EXCEPT !.aged = TRUE]
                                         ELSE db.order[x]
      /\ \A x \in Order : db'.order[x].bkashTrxId = db.order[x].bkashTrxId
  BY <1>1, AgedDb
<1>3. /\ u \in DbDoc /\ u.stock = v.stock /\ u.archived = v.archived
      /\ u.coupon = v.coupon
      /\ \A x \in Order : u.order[x] = IF x = o THEN [v.order[o] EXCEPT !.aged = TRUE]
                                       ELSE v.order[x]
      /\ \A x \in Order : u.order[x].bkashTrxId = v.order[x].bkashTrxId
  BY AgedDoc
<1>4. /\ AgreesAt(t, q, i, v, w, m)
      /\ t \in Checkout => input[t].trx \in TrxId \cup {None}
      /\ t \in Patcher => input[t] \in Patch /\ i \in Order
  BY InputsTyped DEF Orderly, Typed, Agrees
<1>5. u # None
  BY <1>3, NoneIsNoId DEF DbDoc
<1>6. PICK X : X = Turned(t, q, i, w)
  OBVIOUS
<1>7. X \in SUBSET Order /\ X' = Turned(t, q, i, w)'
  BY <1>6 DEF Turned
<1>8. SnapshotAt(u, w, m)'
  <2>1. SnapshotAt(v, w, m)
    BY DEF HoldsAt
  <2>2. \A p \in Product : <<"product", p>> \notin m =>
          /\ u.archived[p] = db'.archived[p]
          /\ <<"product", p>> \notin w => u.stock[p] = db'.stock[p]
    BY <1>2, <1>3, <2>1 DEF SnapshotAt
  <2>3. \A x \in Order : <<"order", x>> \notin w \cup m => u.order[x] = db'.order[x]
    <3>1. \A x \in Order : <<"order", x>> \notin w \cup m => v.order[x] = db.order[x]
      BY <2>1 DEF SnapshotAt
    <3>2. ASSUME NEW x \in Order, <<"order", x>> \notin w \cup m
          PROVE  u.order[x] = db'.order[x]
      <4>0. v.order[x] = db.order[x]
        BY <3>1, <3>2
      <4>1. CASE x = o
        <5>1. PICK y : y = v.order[o]
          OBVIOUS
        <5>2. u.order[o] = [y EXCEPT !.aged = TRUE]
          BY <1>3, <5>1, Zenon
        <5>3. db'.order[o] = [y EXCEPT !.aged = TRUE]
          <6>1. y = db.order[o]
            BY <4>0, <4>1, <5>1
          <6> HIDE <5>1
          <6> QED BY <1>2, <6>1, Zenon
        <5> QED BY <4>1, <5>2, <5>3
      <4>2. CASE x # o
        BY <1>2, <1>3, <4>0, <4>2, Zenon
      <4> QED BY <4>1, <4>2
    <3> QED BY <3>2
  <2>4. \A c \in Coupon : <<"coupon", c>> \notin w \cup m => u.coupon[c] = db'.coupon[c]
    BY <1>2, <1>3, <2>1 DEF SnapshotAt
  <2>5. \A x \in TrxId :
          /\ <<"trx", x>> \notin m
          /\ \E y \in Order : db'.order[y].bkashTrxId = x
          => \E y \in Order : u.order[y].bkashTrxId = x
    BY <1>2, <1>3, <2>1 DEF SnapshotAt
  <2> QED BY <2>1, <2>2, <2>3, <2>4, <2>5 DEF SnapshotAt
<1>9. ASSUME t \notin Patcher
      PROVE  /\ ExpiryAt(t, q, X, u, w, mv, td)'
             /\ t \in Checkout => CheckoutAt(t, q, i, X, u, w, td)'
  <2>1. ExpiryAt(t, q, X, v, w, mv, td)
    BY <1>6, <1>9 DEF HoldsAt
  <2>2. o \notin X
    BY <1>1, <2>1 DEF ExpiryAt
  <2>3. ExpiryAt(t, q, X, u, w, mv, td)
    <3>1. \A x \in X : u.order[x] = v.order[x]
      BY <1>3, <1>7, <2>2
    <3> QED BY <1>3, <2>1, <3>1 DEF ExpiryAt
  <2>4. \A x \in X : db'.order[x] = db.order[x]
    BY <1>2, <1>7, <2>2
  <2>5. ExpiryAt(t, q, X, u, w, mv, td)'
    BY <1>1, <1>2, <1>7, <2>3, <2>4, ExpiryMoves
  <2>6. ASSUME t \in Checkout PROVE CheckoutAt(t, q, i, X, u, w, td)'
    <3>1. CheckoutAt(t, q, i, X, v, w, td)
      BY <1>6, <2>6 DEF HoldsAt
    <3>2. q = "commit" => o # i
      BY <1>1, <1>4, <2>6 DEF AgreesAt
    <3>3. <<"order", o>> \notin w
      BY <1>6, <2>2, <3>2 DEF Turned
    <3>4. CheckoutAt(t, q, i, X, u, w, td)
      <4>1. q = "commit" => i \in Order
        BY <2>6 DEF Orderly, Fits, FitsAt
      <4>2. q = "commit" => u.order[i] = v.order[i]
        BY <1>3, <3>2, <4>1, Zenon
      <4>3. \A c \in Coupon : u.coupon[c] = v.coupon[c]
        BY <1>3, Zenon
      <4>4. \A p \in Lines(input[t].cart) : u.archived[p] = v.archived[p]
        BY <1>3, Zenon
      <4> HIDE <1>3
      <4> QED BY <3>1, <4>2, <4>3, <4>4 DEF CheckoutAt
    <3>5. PICK n : n = {<<"order", o>>}
      OBVIOUS
    <3>6. MovesWithin(n)
      BY <1>1, <1>2, <3>5 DEF MovesWithin
    <3> QED BY <1>4, <1>7, <2>4, <2>6, <3>3, <3>4, <3>5, <3>6, CheckoutMoves
  <2> QED BY <2>5, <2>6
<1>10. ASSUME t \in Patcher PROVE PatchAt(t, db.order[i], q, i, u, w, mv, td)'
  <2>1. PICK before, after : before = db.order[i] /\ after = db'.order[i]
    OBVIOUS
  <2>2. PatchAt(t, before, q, i, v, w, mv, td)
    BY <1>10, <2>1 DEF HoldsAt
  <2>3. before \in Store!OrderDoc /\ i \in Order /\ input[t] \in Patch
    BY <1>1, <1>4, <1>10, <2>1 DEF DbDoc
  <2>4. PatchAt(t, after, q, i, u, w, mv, td)'
    <3>1. CASE i = o
      <4>1. /\ after = [before EXCEPT !.aged = TRUE]
            /\ u.order[i] = [v.order[i] EXCEPT !.aged = TRUE]
        <5>1. db'.order[o] = [db.order[o] EXCEPT !.aged = TRUE]
          BY <1>2
        <5>2. u.order[o] = [v.order[o] EXCEPT !.aged = TRUE]
          BY <1>3
        <5> QED BY <2>1, <3>1, <5>1, <5>2
      <4>2. t \in Patcher /\ u.stock = v.stock /\ u.archived = v.archived
        BY <1>3, <1>10
      <4>3. input' = input /\ db'.stock = db.stock
        BY <1>1, <1>2
      <4> QED BY <2>2, <2>3, <4>1, <4>2, <4>3, PatchAges, ZenonT(40)
    <3>2. CASE i # o
      <4>1. after = before /\ u.order[i] = v.order[i]
        BY <1>2, <1>3, <2>1, <2>3, <3>2
      <4>2. PatchAt(t, before, q, i, u, w, mv, td)
        BY <1>3, <2>2, <4>1 DEF PatchAt
      <4>3. PatchAt(t, before, q, i, u, w, mv, td)'
        BY <1>1, <1>2, <4>2, PatchMoves
      <4> QED BY <4>1, <4>3 DEF PatchAt
    <3> QED BY <3>1, <3>2
  <2> QED BY <2>1, <2>4 DEF PatchAt
<1>11. /\ q \notin {"release", "reserve"} => td = {}
       /\ t \in Cron => CronAt(q, w, mv)
       /\ CronAt(q, w, mv)' = CronAt(q, w, mv)
  BY DEF HoldsAt, CronAt
<1> QED BY <1>5, <1>6, <1>7, <1>8, <1>9, <1>10, <1>11, RequestsApart DEF HoldsAt

LEMMA AgeHolds ==
  ASSUME Refining, Orderly', NEW o \in Order, Age(o)
  PROVE  Refining'
<1>1. Orderly /\ db \in DbDoc /\ Typed
  BY DEF Refining, Orderly, Typed
<1>2. Blank'
  BY <1>1, AgedDb DEF Refining, Blank
<1>3. ASSUME NEW t \in Request PROVE Holds(t)'
  <2>1. PICK q, i, v, w, m, mv, td :
          /\ q = pc[t] /\ i = id[t] /\ v = view[t] /\ w = wrote[t] /\ m = missed[t]
          /\ mv = moving[t] /\ td = todo[t]
    OBVIOUS
  <2>2. /\ pc'[t] = q /\ id'[t] = i /\ wrote'[t] = w /\ missed'[t] = m
        /\ moving'[t] = mv /\ todo'[t] = td
    BY <2>1 DEF Age
  <2>3. HoldsAt(t, q, i, v, w, m, mv, td)
    BY <2>1 DEF Refining, Holds
  <2>4. CASE v = None
    <3>1. view'[t] = None
      BY <2>1, <2>4 DEF Age, Open
    <3>2. q \notin {"release", "reserve"} /\ td = {}
      <4>1. Fits(t)
        BY <1>1 DEF Orderly
      <4> QED BY <2>1, <2>3, <2>4, <4>1 DEF Fits, FitsAt, Working, HoldsAt
    <3> QED BY <2>2, <3>1, <3>2 DEF Holds, HoldsAt
  <2>5. CASE v # None
    <3>1. v \in DbDoc
      BY <1>1, <2>1, <2>5 DEF Typed
    <3>2. PICK u : u = OlderDb(v, o)
      OBVIOUS
    <3>3. view'[t] = u
      BY <2>1, <2>5, <3>2 DEF Age, Open, OlderDb
    <3>4. HoldsAt(t, q, i, u, w, m, mv, td)'
      BY <1>1, <2>1, <2>3, <2>5, <3>1, <3>2, AgedAt
    <3> QED BY <2>2, <3>3, <3>4 DEF Holds, HoldsAt, Turned
  <2> QED BY <2>4, <2>5
<1> QED BY <1>2, <1>3 DEF Refining

-----------------------------------------------------------------------------
(* The invariant holds                                                     *)

LEMMA InitRefining == Init => Refining
<1> SUFFICES ASSUME Init PROVE Refining
  OBVIOUS
<1>1. Blank
  <2>1. \A o \in Order : db.order[o] = IF o \in Imported THEN Seed[o] ELSE Store!Absent
    BY DEF Init
  <2>2. Store!Absent.bkashTrxId = None
    BY DEF Store!Absent
  <2> QED BY <2>1, <2>2, SeedsAreOrders DEF Blank
<1>2. ASSUME NEW t \in Request PROVE Holds(t)
  <2>1. view[t] = None /\ todo[t] = {} /\ pc[t] \notin {"release", "reserve"}
    BY DEF Init
  <2> QED BY <2>1 DEF Holds, HoldsAt
<1> QED BY <1>1, <1>2, InitOrderly DEF Refining

LEMMA StepRefining == Refining /\ [Next]_vars => Refining'
<1> SUFFICES ASSUME Refining, [Next]_vars PROVE Refining'
  OBVIOUS
<1>0. Orderly /\ Orderly'
  BY StepOrderly DEF Refining
<1>1. ASSUME NEW t \in Request, Statement(t) PROVE Refining'
  <2>1. CASE \E o \in Order : DrawId(t, o) \/ ExpireOne(t, o)
    BY <1>0, <2>1, DrawIdHolds, ExpireOneHolds
  <2>2. CASE BeginCheckout(t) \/ BeginPatch(t) \/ BeginCron(t)
    BY <1>0, <2>2, BeginsHold
  <2>3. CASE \/ RefuseCheckout(t) \/ RefusePatch(t) \/ RefuseCoupon(t) \/ RefuseLine(t)
             \/ InsertDuplicate(t) \/ FinishCron(t) \/ RunAgain(t)
    BY <1>0, <2>3, EndsHold
  <2>4. CASE RedeemUse(t) \/ ReleaseLine(t) \/ ReserveLine(t)
    BY <1>0, <2>4, RedeemUseHolds, ReleaseLineHolds, ReserveLineHolds
  <2>5. CASE StartReserving(t) \/ InsertOrder(t) \/ SavePatch(t)
    BY <1>0, <2>5, StartReservingHolds, InsertOrderHolds, SavePatchHolds
  <2>6. CASE Commit(t) \/ Audit(t)
    BY <1>0, <2>6, CommitHolds, AuditHolds
  <2> QED BY <1>1, <2>1, <2>2, <2>3, <2>4, <2>5, <2>6 DEF Statement
<1>2. ASSUME NEW t \in Request, Crash(t) PROVE Refining'
  BY <1>0, <1>2, EndsHold
<1>3. ASSUME NEW o \in Ageing, Age(o) PROVE Refining'
  BY <1>0, <1>3, AgeHolds, EnvironmentTouchesDocuments
<1>4. ASSUME NEW p \in Archivable, ArchiveProduct(p) PROVE Refining'
  BY <1>0, <1>4, ArchiveProductHolds, EnvironmentTouchesDocuments
<1>5. CASE UNCHANGED vars
  <2>1. UNCHANGED <<db, input, pc, id, view, wrote, missed, moving, todo>>
    BY <1>5 DEF vars, txnVars
  <2>2. Blank'
    BY <2>1 DEF Refining, Blank
  <2>3. ASSUME NEW t \in Request PROVE Holds(t)'
    <3>1. PICK q, i, v, w, m, mv, td :
            /\ q = pc[t] /\ i = id[t] /\ v = view[t] /\ w = wrote[t] /\ m = missed[t]
            /\ mv = moving[t] /\ td = todo[t]
      OBVIOUS
    <3>2. HoldsAt(t, q, i, v, w, m, mv, td)
      BY <3>1 DEF Refining, Holds
    <3>3. /\ db \in DbDoc
          /\ t \in Checkout => input[t].trx \in TrxId \cup {None}
          /\ t \in Patcher => i \in Order \/ v = None
      BY <1>0, <3>1, InputsTyped DEF Orderly, Typed
    <3>4. HoldsAt(t, q, i, v, w, m, mv, td)'
      BY <2>1, <3>2, <3>3, StandsStill
    <3> QED BY <2>1, <3>1, <3>4 DEF Holds, HoldsAt, Turned
  <2> QED BY <1>0, <2>2, <2>3 DEF Refining
<1> QED BY <1>1, <1>2, <1>3, <1>4, <1>5 DEF Next

LEMMA SpecRefining == Spec => []Refining
<1> QED BY InitRefining, StepRefining, PTL DEF Spec

-----------------------------------------------------------------------------
(* The commits are the operations of OrderStore                            *)

(* Store has its own copy of FiniteSets.                                   *)
LEMMA SameCount ==
  ASSUME NEW S
  PROVE  Store!Cardinality(S) = Cardinality(S)
BY DEF Store!Cardinality, Cardinality

LEMMA RestockedAt ==
  ASSUME NEW X \in SUBSET Order
  PROVE  /\ Store!Restocked(X) = [p \in Product |-> db.stock[p] + Back(X, p)]
         /\ Store!Holding(X) = {o \in X : db.order[o].stockDeducted}
<1>1. Store!Holding(X) = {o \in X : db.order[o].stockDeducted}
  BY DEF Store!Holding
<1>2. \A p \in Product : Store!Units(Store!Holding(X), p)
                           = UnitsIn(db.order, {o \in X : db.order[o].stockDeducted}, p)
  BY <1>1, Zenon DEF Store!Units, UnitsIn
<1>3. Store!Restocked(X) = [p \in Product |-> db.stock[p] + Back(X, p)]
  <2>1. \A p \in Product : Store!Cardinality(Store!Units(Store!Holding(X), p)) = Back(X, p)
    BY <1>2, SameCount DEF Back
  <2> QED BY <2>1 DEF Store!Restocked
<1> QED BY <1>1, <1>3

(* MoveStock, given that the products it does not name keep their count.   *)
LEMMA MovesStock ==
  ASSUME db \in DbDoc, NEW T \in SUBSET Product, NEW count, db'.stock = count,
         count = [p \in Product |-> count[p]],
         \A p \in Product \ T : count[p] = db.stock[p]
  PROVE  Store!MoveStock(T, count)
<1>1. \A p \in Product : (db'.stock[p] > 0) =
        (IF p \in T THEN count[p] > 0 ELSE [x \in Product |-> db.stock[x] > 0][p])
  OBVIOUS
<1>2. [p \in Product |-> db'.stock[p] > 0] =
        [p \in Product |-> IF p \in T THEN count[p] > 0
                           ELSE [x \in Product |-> db.stock[x] > 0][p]]
  BY <1>1
<1> QED BY <1>2 DEF Store!MoveStock

LEMMA CheckoutCommits ==
  ASSUME Refining, NEW t \in Checkout, Commit(t)
  PROVE  Store!Next
<1>1. PICK v, w, i, m, mv : /\ v = view[t] /\ w = wrote[t] /\ i = id[t]
                            /\ m = missed[t] /\ mv = moving[t]
  OBVIOUS
<1>2. PICK cart, trx, c : /\ cart = input[t].cart /\ trx = input[t].trx
                          /\ c = input[t].coupon
  OBVIOUS
<1>3. t \in Request /\ t \notin Patcher /\ pc[t] = "commit" /\ pc[t] \in Working
  BY RequestsApart DEF Commit, Working, Request
<1>4. Orderly /\ Holds(t) /\ v # None
  BY <1>1, <1>3, WorkingHolds
<1>5. /\ db \in DbDoc /\ v \in DbDoc /\ AgreesAt(t, "commit", i, v, w, m)
      /\ input[t] \in CheckoutDoc /\ i \in Order
  BY <1>1, <1>3, <1>4, AtWork DEF Agrees
<1>6. /\ cart \in Cart /\ trx \in TrxId \cup {None} /\ c \in Coupon \cup {None}
      /\ cart \in [Product -> 0 .. MaxQuantity]
  BY <1>2, <1>5, InputsAreDocuments DEF CheckoutDoc
<1>7. PICK X : X = Turned(t, "commit", i, w)
  OBVIOUS
<1>8. /\ SnapshotAt(v, w, m) /\ ExpiryAt(t, "commit", X, v, w, mv, {})
      /\ CheckoutAt(t, "commit", i, X, v, w, {})
  BY <1>1, <1>3, <1>4, <1>7 DEF Holds, HoldsAt
<1>9. /\ db'.archived = db.archived
      /\ db'.stock = [p \in Product |-> IF <<"product", p>> \in w
                                        THEN v.stock[p] ELSE db.stock[p]]
      /\ db'.order = [o \in Order |-> IF <<"order", o>> \in w
                                      THEN v.order[o] ELSE db.order[o]]
      /\ db'.coupon = [d \in Coupon |-> IF <<"coupon", d>> \in w
                                        THEN v.coupon[d] ELSE db.coupon[d]]
  BY <1>1, <1>3, <1>4, PublishedAll
<1>10. X \in SUBSET Store!Blocking(cart) /\ X \in SUBSET Order
  <2>1. X \in SUBSET Order
    BY <1>7 DEF Turned
  <2> QED BY <1>2, <1>8, <2>1
          DEF ExpiryAt, CheckoutAt, Store!Blocking, Store!Expirable, Store!Lines, Lines
<1>11. ~Store!Exists(i) /\ <<"order", i>> \in w
  BY <1>5 DEF AgreesAt, Store!Exists
<1>12. Store!Lines(cart) # {} /\ Store!Lines(cart) = Lines(cart)
  BY <1>6, InputsAreDocuments DEF Store!Lines, Lines
<1>13. Store!TrxFree(trx)
  BY <1>2, <1>8 DEF CheckoutAt, Store!TrxFree
<1>14. Store!Redeem(c)
  <2>1. \A d \in Coupon : <<"coupon", d>> \in w <=> d = c
    BY <1>2, <1>8 DEF CheckoutAt
  <2>2. CASE c = None
    <3>1. \A d \in Coupon : <<"coupon", d>> \notin w
      BY <2>1, <2>2, NoneIsNoId
    <3>2. db'.coupon = db.coupon
      BY <1>5, <1>9, <3>1 DEF DbDoc
    <3> QED BY <2>2, <3>2 DEF Store!Redeem
  <2>3. CASE c # None
    <3>1. /\ c \in Coupon /\ HasUses(db.coupon, c)
          /\ v.coupon[c] = [db.coupon[c] EXCEPT !.timesUsed = @ + 1]
      BY <1>6, <1>8, <2>1, <2>3 DEF CheckoutAt
    <3>2. db'.coupon = [db.coupon EXCEPT ![c].timesUsed = @ + 1]
      <4>1. PICK d : d = [db.coupon[c] EXCEPT !.timesUsed = @ + 1]
        OBVIOUS
      <4>2. db'.coupon = [db.coupon EXCEPT ![c] = d]
        BY <1>5, <1>9, <2>1, <3>1, <4>1 DEF DbDoc
      <4> QED BY <4>1, <4>2
    <3> QED BY <2>3, <3>1, <3>2 DEF Store!Redeem, Store!Redeemable, HasUses
  <2> QED BY <2>2, <2>3
<1>15. \A p \in Product : Back(X, p) \in Nat
  BY <1>10, BackType
<1>16. PICK R : R = Store!Restocked(X) /\ R = [p \in Product |-> db.stock[p] + Back(X, p)]
  BY <1>10, RestockedAt
<1>17. ASSUME NEW p \in Product
       PROVE  IF <<"product", p>> \in w THEN v.stock[p] + cart[p] = R[p]
              ELSE Back(X, p) = 0 /\ cart[p] = 0
  <2>1. Due("commit", mv, {}, p) = 0 /\ Sold(t, "commit", {}, p) = cart[p]
    BY <1>2 DEF Due, Sold
  <2>2. IF <<"product", p>> \in w
        THEN v.stock[p] + Due("commit", mv, {}, p) + Sold(t, "commit", {}, p)
               = db.stock[p] + Back(X, p)
        ELSE /\ Back(X, p) = Due("commit", mv, {}, p)
             /\ Sold(t, "commit", {}, p) = 0
    BY <1>8 DEF ExpiryAt
  <2>3. R[p] = db.stock[p] + Back(X, p)
    BY <1>16
  <2>4. v.stock[p] \in Nat /\ cart[p] \in Nat
    BY <1>5, <1>6, BoundsArePositive DEF DbDoc
  <2> QED BY <2>1, <2>2, <2>3, <2>4
<1>18. Store!CanReserve(cart, R)
  <2>1. ASSUME NEW p \in Lines(cart) PROVE ~db.archived[p] /\ R[p] >= cart[p]
    <3>1. p \in Product /\ <<"product", p>> \in w /\ ~v.archived[p]
      BY <1>2, <1>8, <2>1 DEF CheckoutAt, Lines
    <3>2. v.archived[p] = db.archived[p]
      BY <1>8, <3>1 DEF SnapshotAt
    <3>3. v.stock[p] \in Nat /\ cart[p] \in Nat
      BY <1>5, <1>6, <3>1, BoundsArePositive DEF DbDoc
    <3>4. v.stock[p] + cart[p] = R[p]
      BY <1>17, <3>1
    <3> QED BY <3>1, <3>2, <3>3, <3>4
  <2> QED BY <1>12, <2>1 DEF Store!CanReserve
<1>19. PICK T : /\ T = Store!Lines(cart) \cup
                       UNION {Store!Lines(db.order[x].items) : x \in Store!Holding(X)}
  OBVIOUS
<1>20. PICK count : count = Store!Reserved(cart, R)
  OBVIOUS
<1>21. count = [p \in Product |-> R[p] - cart[p]]
  BY <1>20 DEF Store!Reserved
<1>22. db'.stock = count
  <2>1. \A p \in Product : (IF <<"product", p>> \in w THEN v.stock[p] ELSE db.stock[p])
                              = R[p] - cart[p]
    <3>1. ASSUME NEW p \in Product
          PROVE  (IF <<"product", p>> \in w THEN v.stock[p] ELSE db.stock[p])
                   = R[p] - cart[p]
      <4>1. v.stock[p] \in Nat /\ cart[p] \in Nat /\ db.stock[p] \in Nat
        BY <1>5, <1>6, BoundsArePositive DEF DbDoc
      <4>2. R[p] = db.stock[p] + Back(X, p)
        BY <1>16
      <4> QED BY <1>17, <4>1, <4>2
    <3> QED BY <3>1
  <2> QED BY <1>9, <1>21, <2>1
<1>23. Store!MoveStock(T, count)
  <2>1. T \in SUBSET Product
    BY <1>19 DEF Store!Lines
  <2>2. ASSUME NEW p \in Product \ T PROVE count[p] = db.stock[p]
    <3>1. cart[p] = 0
      BY <1>6, <1>19, <2>2, BoundsArePositive DEF Store!Lines
    <3>2. \A x \in X : db.order[x].stockDeducted => ~(db.order[x].items[p] > 0)
      BY <1>10, <1>19, <2>2, RestockedAt DEF Store!Lines
    <3>3. Back(X, p) = 0
      BY <1>5, <1>10, <3>2, BackOfNone
    <3>4. db.stock[p] \in Nat
      BY <1>5 DEF DbDoc
    <3> QED BY <1>16, <1>21, <3>1, <3>3, <3>4
  <2>3. count = [p \in Product |-> count[p]]
    BY <1>21
  <2> QED BY <1>5, <1>22, <2>1, <2>2, <2>3, MovesStock
<1>24. db'.order = [x \in Order |->
                      IF x = i THEN Store!NewOrder(cart, "FULL_COD", FALSE, trx, c)
                      ELSE IF x \in X THEN Store!Expired(db.order[x]) ELSE db.order[x]]
  <2>1. v.order[i] = Store!NewOrder(cart, "FULL_COD", FALSE, trx, c)
    BY <1>2, <1>8 DEF CheckoutAt
  <2>2. \A x \in X : v.order[x] = Store!Expired(db.order[x])
    BY <1>8 DEF ExpiryAt
  <2>3. \A x \in Order : x # i => (<<"order", x>> \in w <=> x \in X)
    BY <1>7 DEF Turned
  <2>4. PICK d : d = Store!NewOrder(cart, "FULL_COD", FALSE, trx, c)
    OBVIOUS
  <2>5. ASSUME NEW x \in Order
        PROVE  (IF <<"order", x>> \in w THEN v.order[x] ELSE db.order[x]) =
                 IF x = i THEN d
                 ELSE IF x \in X THEN Store!Expired(db.order[x]) ELSE db.order[x]
    BY <1>11, <2>1, <2>2, <2>3, <2>4
  <2> QED BY <1>9, <2>4, <2>5
<1>25. Store!PlaceOrder(i, X, cart, "FULL_COD", FALSE, trx, c)
  <2>1. Supply' = Supply
    BY DEF Supply, Imported
  <2>2. Imported' = Imported
    BY DEF Imported
  <2>3. Store!CanReserve(cart, Store!Restocked(X))
    BY <1>16, <1>18
  <2>4. Store!MoveStock(Store!Lines(cart) \cup
                          UNION {Store!Lines(db.order[x].items) : x \in Store!Holding(X)},
                        Store!Reserved(cart, Store!Restocked(X)))
    <3>1. R = Store!Restocked(X)
      BY <1>16
    <3>2. count = Store!Reserved(cart, Store!Restocked(X))
      BY <1>20, <3>1 DEF Store!Reserved
    <3> QED BY <1>19, <1>23, <3>2 DEF Store!MoveStock
  <2> QED BY <1>9, <1>11, <1>12, <1>13, <1>14, <1>24, <2>1, <2>2, <2>3, <2>4
          DEF Store!PlaceOrder
<1>26. Store!OrderStep(i)
  BY <1>6, <1>10, <1>25 DEF Store!OrderStep
<1> QED BY <1>5, <1>26 DEF Store!Next

LEMMA CronCommits ==
  ASSUME Refining, NEW t \in Cron, Commit(t)
  PROVE  Store!Next
<1>1. PICK v, w, i, m, o : /\ v = view[t] /\ w = wrote[t] /\ i = id[t]
                           /\ m = missed[t] /\ o = moving[t]
  OBVIOUS
<1>2. t \in Request /\ t \notin Patcher /\ t \notin Checkout
  BY RequestsApart DEF Request
<1>3. pc[t] = "commit" /\ pc[t] \in Working
  BY DEF Commit, Working
<1>4. Orderly /\ Holds(t) /\ v # None
  BY <1>1, <1>2, <1>3, WorkingHolds
<1>5. db \in DbDoc /\ v \in DbDoc
  BY <1>1, <1>2, <1>3, <1>4, AtWork
<1>6. PICK X : X = Turned(t, "commit", i, w)
  OBVIOUS
<1>7. ExpiryAt(t, "commit", X, v, w, o, {}) /\ CronAt("commit", w, o)
  BY <1>1, <1>2, <1>3, <1>4, <1>6 DEF Holds, HoldsAt
<1>8. /\ db'.archived = db.archived
      /\ db'.stock = [p \in Product |-> IF <<"product", p>> \in w
                                        THEN v.stock[p] ELSE db.stock[p]]
      /\ db'.order = [x \in Order |-> IF <<"order", x>> \in w
                                      THEN v.order[x] ELSE db.order[x]]
      /\ db'.coupon = [c \in Coupon |-> IF <<"coupon", c>> \in w
                                        THEN v.coupon[c] ELSE db.coupon[c]]
  BY <1>1, <1>2, <1>4, PublishedAll
<1>9. /\ o \in Order /\ X = {o} /\ \A x \in Order : <<"order", x>> \in w <=> x = o
      /\ \A c \in Coupon : <<"coupon", c>> \notin w
  BY <1>2, <1>6, <1>7 DEF CronAt, Turned
<1>10. Store!Expirable(o) /\ v.order[o] = Store!Expired(db.order[o])
  BY <1>7, <1>9 DEF ExpiryAt, Store!Expirable
<1>11. PICK R : R = Store!Restocked({o}) /\ R = [p \in Product |-> db.stock[p] + Back({o}, p)]
  BY <1>9, RestockedAt
<1>12. db'.stock = R
  <2>1. ASSUME NEW p \in Product
        PROVE  (IF <<"product", p>> \in w THEN v.stock[p] ELSE db.stock[p]) = R[p]
    <3>1. Due("commit", o, {}, p) = 0 /\ Sold(t, "commit", {}, p) = 0
      BY <1>2 DEF Due, Sold
    <3>2. IF <<"product", p>> \in w
          THEN v.stock[p] + Due("commit", o, {}, p) + Sold(t, "commit", {}, p)
                 = db.stock[p] + Back(X, p)
          ELSE Back(X, p) = Due("commit", o, {}, p)
      BY <1>7 DEF ExpiryAt
    <3>3. v.stock[p] \in Nat /\ db.stock[p] \in Nat
      BY <1>5 DEF DbDoc
    <3>4. R[p] = db.stock[p] + Back(X, p)
      BY <1>9, <1>11
    <3> QED BY <3>1, <3>2, <3>3, <3>4
  <2> QED BY <1>8, <1>11, <2>1
<1>13. PICK T : T = UNION {Store!Lines(db.order[x].items) : x \in Store!Holding({o})}
  OBVIOUS
<1>14. Store!MoveStock(T, R)
  <2>1. T \in SUBSET Product
    BY <1>13 DEF Store!Lines
  <2>2. ASSUME NEW p \in Product \ T PROVE R[p] = db.stock[p]
    <3>1. \A x \in {o} : db.order[x].stockDeducted => ~(db.order[x].items[p] > 0)
      BY <1>9, <1>13, <2>2, RestockedAt DEF Store!Lines
    <3>2. Back({o}, p) = 0
      BY <1>5, <1>9, <3>1, BackOfNone
    <3>3. db.stock[p] \in Nat
      BY <1>5 DEF DbDoc
    <3> QED BY <1>11, <3>2, <3>3
  <2>3. R = [p \in Product |-> R[p]]
    BY <1>11
  <2> QED BY <1>5, <1>12, <2>1, <2>2, <2>3, MovesStock
<1>15. db'.order = [db.order EXCEPT ![o] = Store!Expired(@)]
  BY <1>5, <1>8, <1>9, <1>10 DEF DbDoc
<1>16. db'.coupon = db.coupon
  BY <1>5, <1>8, <1>9 DEF DbDoc
<1>17. Store!ExpireOrder(o)
  <2>1. Supply' = Supply /\ Imported' = Imported
    BY DEF Supply, Imported
  <2>2. Store!MoveStock(UNION {Store!Lines(db.order[x].items) : x \in Store!Holding({o})},
                        Store!Restocked({o}))
    <3>1. R = Store!Restocked({o})
      BY <1>11
    <3> QED BY <1>13, <1>14, <3>1 DEF Store!MoveStock
  <2> QED BY <1>8, <1>10, <1>15, <1>16, <2>1, <2>2 DEF Store!ExpireOrder
<1> QED BY <1>9, <1>17 DEF Store!OrderStep, Store!Next

LEMMA PatchCommits ==
  ASSUME Refining, NEW t \in Patcher, Commit(t)
  PROVE  db' = db \/ Store!Next
<1>1. PICK v, w, o, m, mv : /\ v = view[t] /\ w = wrote[t] /\ o = id[t]
                            /\ m = missed[t] /\ mv = moving[t]
  OBVIOUS
<1>2. t \in Request /\ t \notin Checkout /\ pc[t] = "commit" /\ pc[t] \in Working
  BY RequestsApart DEF Request, Commit, Working
<1>3. Orderly /\ Holds(t) /\ v # None
  BY <1>1, <1>2, WorkingHolds
<1>4. db \in DbDoc /\ v \in DbDoc /\ input[t] \in Patch /\ o \in Order
  BY <1>1, <1>2, <1>3, AtWork
<1>5. PICK before, body : before = db.order[o] /\ body = input[t]
  OBVIOUS
<1>6. PatchAt(t, before, "commit", o, v, w, mv, {}) /\ SnapshotAt(v, w, m)
  BY <1>1, <1>2, <1>3, <1>5 DEF Holds, HoldsAt
<1>7. /\ db' \in DbDoc /\ db'.archived = db.archived
      /\ db'.stock = [p \in Product |-> IF <<"product", p>> \in w
                                        THEN v.stock[p] ELSE db.stock[p]]
      /\ db'.order = [x \in Order |-> IF <<"order", x>> \in w
                                      THEN v.order[x] ELSE db.order[x]]
      /\ db'.coupon = [c \in Coupon |-> IF <<"coupon", c>> \in w
                                        THEN v.coupon[c] ELSE db.coupon[c]]
  BY <1>1, <1>2, <1>3, PublishedAll
<1>8. CASE <<"order", o>> \notin w
  <2>1. w = {}
    BY <1>6, <1>8 DEF PatchAt
  <2>2. db'.stock = db.stock /\ db'.order = db.order /\ db'.coupon = db.coupon
    BY <1>4, <1>7, <2>1 DEF DbDoc
  <2>3. db' = db
    BY <1>4, <1>7, <2>2 DEF DbDoc
  <2> QED BY <2>3
<1>9. CASE <<"order", o>> \in w
  <2>1. PICK d, action, flips :
          /\ d = Store!Patched(before, body)
          /\ action = Store!StockActionForTransition(before.status, d.status)
          /\ flips \in BOOLEAN /\ (flips <=> Flips(action, before))
    BY Zenon
  <2>2. /\ before.status # "absent" /\ ~before.deleted
        /\ v.order[o] = (IF flips THEN [d EXCEPT !.stockDeducted = ~@] ELSE d)
        /\ \A p \in Product :
             /\ <<"product", p>> \in w <=> flips /\ p \in Lines(before.items)
             /\ <<"product", p>> \in w =>
                  v.stock[p] + (IF action = "reserve" THEN before.items[p] ELSE 0)
                    = db.stock[p] + (IF action = "release" THEN before.items[p] ELSE 0)
             /\ <<"product", p>> \in w /\ action = "reserve" => ~v.archived[p]
        /\ \A x \in Order \ {o} : <<"order", x>> \notin w
        /\ \A c \in Coupon : <<"coupon", c>> \notin w
    BY <1>5, <1>6, <1>9, <2>1 DEF PatchAt
  <2>3. before \in Store!OrderDoc /\ body \in Patch
    BY <1>4, <1>5 DEF DbDoc
  <2>4. /\ d \in Store!OrderDoc /\ d.items = before.items
        /\ d.stockDeducted = before.stockDeducted
    BY <2>1, <2>2, <2>3, PatchedDoc
  <2>5. Lines(d.items) \in SUBSET Product /\ \A p \in Product : d.items[p] \in Nat
    BY <2>4, LinesOfOrder
  <2>6. Store!Lines(d.items) = Lines(d.items)
    BY DEF Store!Lines, Lines
  <2>7. db'.order = [db.order EXCEPT ![o] = v.order[o]]
    BY <1>4, <1>7, <1>9, <2>2 DEF DbDoc
  <2>8. db'.coupon = db.coupon
    BY <1>4, <1>7, <2>2 DEF DbDoc
  <2>9. action \in {"release", "reserve", "none"}
    BY <2>1 DEF Store!StockActionForTransition
  <2>10. \A p \in Product : db.stock[p] \in Nat /\ v.stock[p] \in Nat
    BY <1>4 DEF DbDoc
  <2>11. ASSUME ~flips PROVE Store!PatchMovingNothing(o, d, action)
    <3>1. \/ action = "none"
          \/ action = "release" /\ ~d.stockDeducted
          \/ action = "reserve" /\ d.stockDeducted
      <4>1. action = "release" => ~d.stockDeducted
        BY <2>1, <2>4, <2>11, Zenon DEF Flips
      <4>2. action = "reserve" => d.stockDeducted
        BY <2>1, <2>4, <2>11, Zenon DEF Flips
      <4>3. action = "none" \/ action = "release" \/ action = "reserve"
        BY <2>9
      <4> QED BY <4>1, <4>2, <4>3, Zenon
    <3>2. db'.stock = db.stock
      BY <1>4, <1>7, <2>2, <2>11 DEF DbDoc
    <3>3. db'.order = [db.order EXCEPT ![o] = d]
      BY <2>2, <2>7, <2>11
    <3>4. Store!PatchMovingNothing(o, d, action)
      BY <3>1, <3>2, <3>3 DEF Store!PatchMovingNothing
    <3> QED BY <3>4
  <2>12. ASSUME flips, action = "release" PROVE Store!PatchReleasing(o, d, action)
    <3>1. d.stockDeducted
      BY <2>1, <2>4, <2>12 DEF Flips
    <3>2. db'.order = [db.order EXCEPT ![o] = [d EXCEPT !.stockDeducted = FALSE]]
      BY <2>2, <2>4, <2>7, <2>12, <3>1 DEF Store!OrderDoc
    <3>3. PICK count : count = Store!Released(d.items, db.stock)
      OBVIOUS
    <3>4. count = [p \in Product |-> db.stock[p] + d.items[p]]
      BY <3>3 DEF Store!Released
    <3>5. db'.stock = count
      <4>1. ASSUME NEW p \in Product
            PROVE  (IF <<"product", p>> \in w THEN v.stock[p] ELSE db.stock[p])
                     = db.stock[p] + d.items[p]
        BY <2>2, <2>4, <2>5, <2>10, <2>12, <4>1 DEF Lines
      <4> QED BY <1>7, <3>4, <4>1
    <3>6. \A p \in Product \ Lines(d.items) : count[p] = db.stock[p]
      BY <2>5, <2>10, <3>4 DEF Lines
    <3>7. Store!MoveStock(Lines(d.items), count)
      <4>1. count = [p \in Product |-> count[p]]
        BY <3>4
      <4> QED BY <1>4, <2>5, <3>5, <3>6, <4>1, MovesStock
    <3>8. Store!PatchReleasing(o, d, action)
      BY <2>6, <2>12, <3>1, <3>2, <3>3, <3>7 DEF Store!PatchReleasing, Store!MoveStock
    <3> QED BY <3>8
  <2>13. ASSUME flips, action = "reserve" PROVE Store!PatchReserving(o, d, action)
    <3>1. ~d.stockDeducted
      BY <2>1, <2>4, <2>13 DEF Flips
    <3>2. db'.order = [db.order EXCEPT ![o] = [d EXCEPT !.stockDeducted = TRUE]]
      BY <2>2, <2>4, <2>7, <2>13, <3>1 DEF Store!OrderDoc
    <3>3. PICK count : count = Store!Reserved(d.items, db.stock)
      OBVIOUS
    <3>4. count = [p \in Product |-> db.stock[p] - d.items[p]]
      BY <3>3 DEF Store!Reserved
    <3>5. db'.stock = count
      <4>1. ASSUME NEW p \in Product
            PROVE  (IF <<"product", p>> \in w THEN v.stock[p] ELSE db.stock[p])
                     = db.stock[p] - d.items[p]
        BY <2>2, <2>4, <2>5, <2>10, <2>13, <4>1 DEF Lines
      <4> QED BY <1>7, <3>4, <4>1
    <3>6. \A p \in Product \ Lines(d.items) : count[p] = db.stock[p]
      BY <2>5, <2>10, <3>4 DEF Lines
    <3>7. Store!MoveStock(Lines(d.items), count)
      <4>1. count = [p \in Product |-> count[p]]
        BY <3>4
      <4> QED BY <1>4, <2>5, <3>5, <3>6, <4>1, MovesStock
    <3>8. Store!CanReserve(d.items, db.stock)
      <4>1. ASSUME NEW p \in Lines(d.items)
            PROVE  ~db.archived[p] /\ db.stock[p] >= d.items[p]
        <5>1. p \in Product /\ <<"product", p>> \in w /\ ~v.archived[p]
          BY <2>2, <2>4, <2>5, <2>13, <4>1
        <5>2. v.archived[p] = db.archived[p]
          BY <1>6, <5>1 DEF SnapshotAt
        <5>3. v.stock[p] + d.items[p] = db.stock[p]
          BY <2>2, <2>4, <2>10, <2>13, <5>1
        <5> QED BY <2>5, <2>10, <5>1, <5>2, <5>3
      <4> QED BY <2>6, <4>1 DEF Store!CanReserve
    <3>9. Store!PatchReserving(o, d, action)
      BY <2>6, <2>13, <3>1, <3>2, <3>3, <3>7, <3>8
         DEF Store!PatchReserving, Store!MoveStock
    <3> QED BY <3>9
  <2>14. \/ Store!PatchMovingNothing(o, d, action)
         \/ Store!PatchReleasing(o, d, action)
         \/ Store!PatchReserving(o, d, action)
    BY <2>1, <2>9, <2>11, <2>12, <2>13 DEF Flips
  <2>15. Store!PatchOrder(o, body)
    <3>1. Supply' = Supply /\ Imported' = Imported
      BY DEF Supply, Imported
    <3>2. Store!Exists(o) /\ ~db.order[o].deleted
      BY <1>5, <2>2 DEF Store!Exists
    <3> QED BY <1>5, <1>7, <2>1, <2>8, <2>14, <3>1, <3>2 DEF Store!PatchOrder
  <2> QED BY <1>4, <1>5, <2>15 DEF Store!OrderStep, Store!Next
<1> QED BY <1>8, <1>9

LEMMA EnvironmentOperates ==
  ASSUME Refining
  PROVE  /\ \A o \in Ageing : Age(o) => Store!Next
         /\ \A p \in Archivable : ArchiveProduct(p) => Store!Next
<1>1. db \in DbDoc
  BY DEF Refining, Orderly, Typed
<1>2. Supply' = Supply /\ Imported' = Imported
  BY DEF Supply, Imported
<1>3. ASSUME NEW o \in Order, Age(o) PROVE Store!Age(o)
  <2>1. db.order[o].status # "absent" /\ ~db.order[o].aged
    BY <1>3 DEF Age
  <2>2. /\ db' \in DbDoc /\ db'.stock = db.stock /\ db'.archived = db.archived
        /\ db'.coupon = db.coupon
    BY <1>1, <1>3, AgedDb
  <2>3. db'.order = [db.order EXCEPT ![o].aged = TRUE]
    <3>1. PICK d : d = [db.order[o] EXCEPT !.aged = TRUE]
      OBVIOUS
    <3>2. \A x \in Order : db'.order[x] = IF x = o THEN d ELSE db.order[x]
      BY <1>1, <1>3, <3>1, AgedDb
    <3>3. db'.order = [db.order EXCEPT ![o] = d]
      BY <1>1, <2>2, <3>2 DEF DbDoc
    <3> QED BY <3>1, <3>3
  <2> QED BY <1>2, <2>1, <2>2, <2>3 DEF Store!Age, Store!Exists
<1>4. ASSUME NEW p \in Product, ArchiveProduct(p) PROVE Store!SoftDeleteProduct(p)
  <2>1. ~db.archived[p] /\ db' = [db EXCEPT !.archived[p] = TRUE]
    BY <1>4 DEF ArchiveProduct
  <2>2. /\ db'.stock = db.stock /\ db'.order = db.order /\ db'.coupon = db.coupon
        /\ db'.archived = [db.archived EXCEPT ![p] = TRUE]
    BY <1>1, <2>1 DEF DbDoc
  <2> QED BY <1>2, <2>1, <2>2 DEF Store!SoftDeleteProduct
<1>5. ASSUME NEW o \in Order, Store!Age(o) PROVE Store!Next
  BY <1>5 DEF Store!OrderStep, Store!Next
<1>6. ASSUME NEW p \in Product, Store!SoftDeleteProduct(p) PROVE Store!Next
  BY <1>6 DEF Store!ProductStep, Store!Next
<1> QED BY <1>3, <1>4, <1>5, <1>6, EnvironmentTouchesDocuments

LEMMA InitIsStoreInit == Init => Store!Init
<1> SUFFICES ASSUME Init PROVE Store!Init
  OBVIOUS
<1>1. /\ db.stock = [p \in Product |-> InitialStock]
      /\ db.archived = [p \in Product |-> FALSE]
      /\ db.order = [o \in Order |-> IF o \in Imported THEN Seed[o] ELSE Store!Absent]
      /\ db.coupon = [c \in Coupon |-> Store!NewCoupon(UsageLimit)]
  BY DEF Init
<1>2. db.stock \in [Product -> {InitialStock}]
  BY <1>1
<1>3. [p \in Product |-> db.archived[p]] = [p \in Product |-> FALSE]
  BY <1>1
<1>4. db.order \in [Order -> {Seed[o] : o \in Imported} \cup {Store!Absent}]
  BY <1>1
<1>5. \A o \in Order : Store!Exists(o) <=> o \in Imported
  <2>1. Store!Absent.status = "absent"
    BY DEF Store!Absent
  <2> QED BY <1>1, <2>1, SeedsAreOrders DEF Store!Exists
<1>6. db.coupon \in [Coupon -> {Store!NewCoupon(l) : l \in {UsageLimit}}]
  BY <1>1
<1>7. Supply = Store!Restocked(Order)
  <2>1. ASSUME NEW p \in Product
        PROVE  Cardinality({u \in Imported \X (1 .. MaxQuantity) :
                              /\ Seed[u[1]].stockDeducted
                              /\ u[2] <= Seed[u[1]].items[p]})
                 = Back(Order, p)
    <3>1. PICK A, H : /\ A = {u \in Imported \X (1 .. MaxQuantity) :
                                /\ Seed[u[1]].stockDeducted
                                /\ u[2] <= Seed[u[1]].items[p]}
                      /\ H = {o \in Order : db.order[o].stockDeducted}
      OBVIOUS
    <3>2. ~Store!Absent.stockDeducted
      BY DEF Store!Absent
    <3>3. \A o : o \in H <=> o \in Imported /\ Seed[o].stockDeducted
      <4>1. \A o \in Imported : o \in Order /\ db.order[o] = Seed[o]
        BY <1>1, SeedsAreOrders
      <4>2. \A o \in Order \ Imported : db.order[o] = Store!Absent
        BY <1>1
      <4> QED BY <3>1, <3>2, <4>1, <4>2, Zenon
    <3>4. \A o \in H : db.order[o] = Seed[o]
      BY <1>1, <3>1, <3>3
    <3>5. A = UnitsIn(db.order, H, p)
      <4>1. ASSUME NEW u \in A PROVE u \in UnitsIn(db.order, H, p)
        BY <3>1, <3>3, <3>4 DEF UnitsIn
      <4>2. ASSUME NEW u \in UnitsIn(db.order, H, p) PROVE u \in A
        BY <3>1, <3>3, <3>4 DEF UnitsIn
      <4> QED BY <4>1, <4>2
    <3>6. Back(Order, p) = Cardinality(UnitsIn(db.order, H, p))
      BY <3>1 DEF Back
    <3> QED BY <3>1, <3>5, <3>6
  <2>2. Store!Restocked(Order) = [p \in Product |-> InitialStock + Back(Order, p)]
    BY <1>1, RestockedAt
  <2> QED BY <2>1, <2>2 DEF Supply
<1>8. [a \in {} |-> None] = << >>
  OBVIOUS
<1> QED BY <1>1, <1>2, <1>4, <1>5, <1>6, <1>7, <1>8 DEF Store!Init

LEMMA StepsOperate ==
  Refining /\ [Next]_vars => [db' = db \/ Store!Next]_db
<1> SUFFICES ASSUME Refining, [Next]_vars PROVE db' = db \/ Store!Next
  OBVIOUS
<1>1. ASSUME NEW t \in Request, Commit(t) PROVE db' = db \/ Store!Next
  BY <1>1, CheckoutCommits, CronCommits, PatchCommits DEF Request
<1>2. ASSUME NEW t \in Request, Statement(t), ~Commit(t) PROVE db' = db
  <2>1. CASE \E o \in Order : DrawId(t, o) \/ ExpireOne(t, o)
    BY <2>1 DEF DrawId, ExpireOne, Write
  <2>2. CASE BeginCheckout(t) \/ BeginPatch(t) \/ BeginCron(t)
    BY <2>2 DEF BeginCheckout, BeginPatch, BeginCron
  <2>3. CASE \/ RefuseCheckout(t) \/ RefusePatch(t) \/ RefuseCoupon(t) \/ RefuseLine(t)
             \/ InsertDuplicate(t) \/ FinishCron(t) \/ RunAgain(t)
    BY <2>3 DEF RefuseCheckout, RefusePatch, RefuseCoupon, RefuseLine, InsertDuplicate,
                FinishCron, RunAgain, Abort
  <2>4. CASE RedeemUse(t) \/ ReleaseLine(t) \/ ReserveLine(t)
    BY <2>4 DEF RedeemUse, ReleaseLine, ReserveLine, Write
  <2>5. CASE StartReserving(t) \/ InsertOrder(t) \/ SavePatch(t) \/ Audit(t)
    BY <2>5 DEF StartReserving, InsertOrder, SavePatch, Audit, Write
  <2> QED BY <1>2, <2>1, <2>2, <2>3, <2>4, <2>5 DEF Statement
<1>3. ASSUME NEW t \in Request, Crash(t) PROVE db' = db
  BY <1>3 DEF Crash, Abort
<1>4. CASE UNCHANGED vars
  BY <1>4 DEF vars
<1> QED BY <1>1, <1>2, <1>3, <1>4, EnvironmentOperates DEF Next

(* Commits are operations: whatever requests run at once, conflict, are    *)
(* run again or crash, the committed orders, stock and coupons only ever   *)
(* go from one state to the next by one operation of OrderStore: a whole   *)
(* checkout with the orders it expires, a whole patch with its stock, one  *)
(* expired order of the cron ("ONE MongoDB transaction covers everything", *)
(* createOrder; setOrderStock "moves the stock exactly once").             *)
THEOREM TransactionsAreOperations == Spec => CommitsAreOperations
<1>1. Refining /\ Refining' /\ [Next]_vars => [db' = db \/ Store!Next]_db
  BY StepsOperate
<1> QED BY <1>1, InitIsStoreInit, SpecRefining, PTL DEF Spec, CommitsAreOperations

=============================================================================
