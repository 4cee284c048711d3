----------------------------- MODULE SeedImport -----------------------------
(***************************************************************************)
(* importSeed.ts beside the services of Catalog: the plan it makes of the  *)
(* exported files, and its execution, which uploads the images, writes     *)
(* their rows and then the documents one by one, with no transaction.  A   *)
(* run may be killed anywhere and run again.                               *)
(***************************************************************************)
EXTENDS Catalog, SequencesExt

CONSTANTS
  Export,          \* request -> the files of its import
  OrderId, TrxId   \* orders, and the bKash TrxIDs they carry

VARIABLE orders    \* id -> [trx], or None: the orders as the import sees them

vars == <<catalogVars, orders>>

OrderDoc == [trx : TrxId \cup {None}]

Row(ids) == [id : ids, name : Name, slug : Name \cup {None}, cat : Name \cup {None},
             image : Asset \cup {None}, count : Nat]
ReviewRow == [id : ReviewId, product : ProductId, approved : BOOLEAN]
OrderRow  == [id : OrderId, trx : TrxId \cup {None}, image : Asset \cup {None}]
Files == [categories : Seq(Row(CategoryId)), products : Seq(Row(ProductId)),
          reviews : Seq(ReviewRow), orders : Seq(OrderRow), banner : Asset]

-----------------------------------------------------------------------------
(* buildPlan *)

Stem(row) == IF row.slug # None THEN row.slug ELSE row.name

(* Mutant of SlugFor: a slug that an earlier row has is not numbered. *)
SlugForBase(rows, i) == Label(Stem(rows[i]), 1)

(* The slug of the row or of its name, numbered past the rows before it. *)
SlugFor(rows, i) ==
  Label(Stem(rows[i]), Cardinality({k \in 1..i : Stem(rows[k]) = Stem(rows[i])}))

(* categoryIdByName: the last row of that name *)
CategoryNamed(files, n) ==
  LET hits == {i \in DOMAIN files.categories : files.categories[i].name = n}
  IN  files.categories[CHOOSE i \in hits : \A k \in hits : k <= i].id

(* What makes buildPlan refuse the files before anything is written. *)
Problems(files) ==
  \/ \E i, k \in DOMAIN files.categories : i # k /\ files.categories[i].name = files.categories[k].name
  \/ \E i, k \in DOMAIN files.products : i # k /\ files.products[i].id = files.products[k].id
  \/ \E i, k \in DOMAIN files.orders : i # k /\
       \/ files.orders[i].id = files.orders[k].id
       \/ files.orders[i].trx = files.orders[k].trx /\ files.orders[i].trx # None
  \/ \E i \in DOMAIN files.products :
       \A k \in DOMAIN files.categories : files.categories[k].name # files.products[i].cat

(* One upload for the same bytes (ImageIndex), in the order of the files. *)
Images(files) ==
  LET shown == [i \in DOMAIN files.categories |-> files.categories[i].image]
               \o [i \in DOMAIN files.products |-> files.products[i].image]
               \o [i \in DOMAIN files.orders |-> files.orders[i].image]
               \o <<files.banner>>
  IN  ToSet(shown) \ {None}

(* The publicId of an imported image is made of its bytes: no browser       *)
(* uploads it.  The ids of new reviews are in no file.                      *)
ASSUME ExportConstants ==
  /\ \A r \in Request :
       /\ Export[r] \in Files
       /\ \A i \in DOMAIN Export[r].reviews : Export[r].reviews[i].id \notin NewReview
  /\ \A w \in Workload : w.db.orders \in [OrderId -> OrderDoc \cup {None}]
  /\ None \notin OrderId \cup TrxId \cup OrderDoc
  /\ \A w \in Workload : \A r, x \in Request :
       w.jobs[r].kind = "import" /\ w.jobs[x].kind \in {"upload", "reregister"}
         => w.jobs[x].id \notin Images(Export[r])

Tasks(kind, ids) == [i \in DOMAIN ids |-> [kind |-> kind, id |-> ids[i], row |-> i]]
Ids(rows)        == [i \in DOMAIN rows |-> rows[i].id]

(* executePlan: the missing images, then the documents, kind after kind *)
Todo(files, missing) ==
  Tasks("image", SetToSeq(missing))
  \o Tasks("category", Ids(files.categories)) \o Tasks("product", Ids(files.products))
  \o Tasks("review", Ids(files.reviews)) \o Tasks("order", Ids(files.orders))
  \o Tasks("settings", <<None>>)

Orders        == {o \in OrderId : orders[o] # None}
TrxFree(t, o) == t # None => \A x \in Orders \ {o} : orders[x].trx # t

(* No document of another id holds a planned name, slug or TrxID. *)
Unopposed(files) ==
  /\ \A i \in DOMAIN files.categories :
       LET c == files.categories[i].id
       IN  NameFree(Label(files.categories[i].name, 1), c)
           /\ CategorySlugFree(SlugFor(files.categories, i), c)
  /\ \A i \in DOMAIN files.products :
       ProductSlugFree(SlugFor(files.products, i), files.products[i].id)
  /\ \A i \in DOMAIN files.orders : TrxFree(files.orders[i].trx, files.orders[i].id)

-----------------------------------------------------------------------------
(* executePlan *)

Task(r)    == Head(req[r].todo)
Doing(r, kinds, at) ==
  req[r].job.kind = "import" /\ req[r].at = at /\ req[r].todo # <<>> /\ Task(r).kind \in kinds
Document   == {"category", "product", "review", "order", "settings"}
Onward(r)  == IF Len(req[r].todo) > 1 /\ req[r].todo[2].kind = "image" THEN "upload" ELSE "exists"
Plans(r, tasks, ks, how) ==
  req' = [req EXCEPT ![r] = [@ EXCEPT !.todo = tasks, !.held = ks, !.at = how]]

Proceed(r) ==
  Plans(r, Tail(req[r].todo),
        req[r].held \cup (IF Task(r).kind = "category" THEN {Task(r).id} ELSE {}), Onward(r))

(* The plan, then the rows of the images that are there already *)
StartImport(r) ==
  LET files == Export[r]
      missing == Images(files) \ media
  IN  /\ Jobs({"import"}, "start", r)
      /\ IF Problems(files) THEN End(r, "refused") /\ UNCHANGED calm
         ELSE /\ Plans(r, Todo(files, missing), Images(files), IF missing = {} THEN "exists" ELSE "upload")
              /\ IF Unopposed(files) THEN Starts(r) ELSE calm' = calm \ {r}
      /\ UNCHANGED <<docs, orders, raced, base, fresh>>

UploadImage(r) ==
  /\ Doing(r, {"image"}, "upload")
  /\ cloud' = cloud \cup {Task(r).id} /\ fresh' = fresh \cup {Task(r).id}
  /\ End(r, "row")
  /\ UNCHANGED <<category, product, review, orders, banner, media, raced, calm, base>>

(* publicId is unique: a row written meanwhile ends the run. *)
WriteRow(r) ==
  LET a == Task(r).id
  IN  /\ Doing(r, {"image"}, "row")
      /\ fresh' = fresh \ {a}
      /\ IF a \in media THEN End(r, "failed") /\ UNCHANGED <<media, calm>>
         ELSE media' = media \cup {a} /\ Proceed(r) /\ Disturbs(r)
      /\ UNCHANGED <<category, product, review, orders, banner, cloud, raced, base>>

Exists(t) ==
  CASE t.kind = "category" -> t.id \in Categories
    [] t.kind = "product"  -> t.id \in Products
    [] t.kind = "review"   -> t.id \in Reviews
    [] t.kind = "order"    -> t.id \in Orders
    [] OTHER               -> banner # None

(* writeNew: an existing _id is left alone unless force is set. *)
LookUp(r) ==
  /\ Doing(r, Document, "exists")
  /\ IF ~Exists(Task(r)) THEN End(r, "create")
     ELSE IF req[r].job.force THEN End(r, "delete") ELSE Proceed(r)
  /\ UNCHANGED <<docs, orders, history>>

DeleteDoc(r) ==
  LET t == Task(r)
      Without(f) == [f EXCEPT ![t.id] = None]
  IN  /\ Doing(r, Document, "delete")
      /\ category' = IF t.kind = "category" THEN Without(category) ELSE category
      /\ product'  = IF t.kind = "product" THEN Without(product) ELSE product
      /\ review'   = IF t.kind = "review" THEN Without(review) ELSE review
      /\ orders'   = IF t.kind = "order" THEN Without(orders) ELSE orders
      /\ banner'   = IF t.kind = "settings" THEN None ELSE banner
      /\ base' = IF t.kind = "review" /\ t.id \in Reviews /\ review[t.id].live /\ review[t.id].approved
                 THEN [base EXCEPT ![review[t.id].product] = IF @ >= 0 THEN @ + 1 ELSE @] ELSE base
      /\ raced' = IF t.kind = "category" THEN raced \cup {t.id} ELSE raced
      /\ Disturbs(r) /\ End(r, "create")
      /\ UNCHANGED <<media, cloud, fresh>>

(* Every create fails with E11000 on a taken id, name, slug or TrxID. *)
CreateCategoryDoc(r) ==
  LET i == Task(r).row
      d == Export[r].categories[i]
      name == Label(d.name, 1)
      slug == SlugFor(Export[r].categories, i)
  IN  /\ Doing(r, {"category"}, "create")
      /\ IF d.id \in Categories \/ ~(NameFree(name, d.id) /\ CategorySlugFree(slug, d.id))
         THEN End(r, "failed") /\ UNCHANGED <<category, raced, calm>>
         ELSE /\ category' = [category EXCEPT ![d.id] =
                   [name |-> name, slug |-> slug, order |-> 0, image |-> d.image]]
              /\ Names(None, d.image) /\ Disturbs(r) /\ Proceed(r)
      /\ UNCHANGED <<product, review, orders, banner, media, cloud, base, fresh>>

CreateProductDoc(r) ==
  LET i == Task(r).row
      d == Export[r].products[i]
      slug == SlugFor(Export[r].products, i)
      c == CategoryNamed(Export[r], d.cat)
  IN  /\ Doing(r, {"product"}, "create")
      /\ IF d.id \in Products \/ ~ProductSlugFree(slug, d.id)
         THEN End(r, "failed") /\ UNCHANGED <<product, raced, calm, base>>
         ELSE /\ product' = [product EXCEPT ![d.id] =
                   [cat |-> c, slug |-> slug, image |-> d.image, archived |-> FALSE,
                    count |-> d.count]]
              /\ base' = [base EXCEPT ![d.id] = d.count - Cardinality(CountedReviews(d.id))]
              /\ Names(c, d.image) /\ Disturbs(r) /\ Proceed(r)
      /\ UNCHANGED <<category, review, orders, banner, media, cloud, fresh>>

(* An imported review, of a guest of its own, is part of the baseline when  *)
(* the file has it approved: the product's row counts it already.           *)
CreateReviewDoc(r) ==
  LET v == Task(r).id
      row == Export[r].reviews[Task(r).row]
  IN  /\ Doing(r, {"review"}, "create")
      /\ IF v \in Reviews THEN End(r, "failed") /\ UNCHANGED <<review, base, calm>>
         ELSE /\ review' = [review EXCEPT ![v] =
                   [product |-> row.product, user |-> None, approved |-> row.approved, live |-> TRUE]]
              /\ base' = IF row.approved THEN [base EXCEPT ![row.product] = @ - 1] ELSE base
              /\ Disturbs(r) /\ Proceed(r)
      /\ UNCHANGED <<category, product, orders, banner, media, cloud, raced, fresh>>

(* An order of a customer may hold the TrxID that an exported one carries. *)
CreateOrderDoc(r) ==
  LET row == Export[r].orders[Task(r).row]
  IN  /\ Doing(r, {"order"}, "create")
      /\ IF row.id \in Orders \/ ~TrxFree(row.trx, row.id)
         THEN End(r, "failed") /\ UNCHANGED <<orders, calm>>
         ELSE /\ orders' = [orders EXCEPT ![row.id] = [trx |-> row.trx]]
              /\ Disturbs(r) /\ Proceed(r)
      /\ UNCHANGED <<category, product, review, banner, media, cloud, raced, base, fresh>>

CreateSettings(r) ==
  /\ Doing(r, {"settings"}, "create")
  /\ IF banner # None THEN End(r, "failed") /\ UNCHANGED <<banner, raced, calm>>
     ELSE /\ banner' = Export[r].banner
          /\ Names(None, banner') /\ Disturbs(r) /\ Proceed(r)
  /\ UNCHANGED <<category, product, review, orders, media, cloud, base, fresh>>

EndImport(r) ==
  /\ Jobs({"import"}, "exists", r) /\ req[r].todo = <<>>
  /\ Keeps(r, {}, "done")
  /\ UNCHANGED <<docs, orders, history>>

ImportStep(r) ==
  \/ StartImport(r) \/ UploadImage(r) \/ WriteRow(r) \/ LookUp(r) \/ DeleteDoc(r)
  \/ CreateCategoryDoc(r) \/ CreateProductDoc(r) \/ CreateSettings(r)
  \/ CreateReviewDoc(r) \/ CreateOrderDoc(r) \/ EndImport(r)

Init == \E w \in Workload : CatalogInit(w) /\ orders = w.db.orders
Next == \E r \in Request : (CatalogStep(r) /\ UNCHANGED orders) \/ ImportStep(r)
Spec == Init /\ [][Next]_vars

-----------------------------------------------------------------------------
TypeOK ==
  /\ CatalogTypeOK
  /\ orders \in [OrderId -> OrderDoc \cup {None}]
  /\ \A r \in Request : req[r].job.kind = "import" => req[r].held \subseteq Asset \cup CategoryId

(* "Re-running is safe" (importSeed.ts:7): a run that no other write met,   *)
(* and that found no foreign document in its way, never fails half-way, and *)
(* leaves every planned document in place, whatever an earlier run that was *)
(* killed had written or, under force, deleted.                             *)
ImportComplete ==
  \A r \in calm : req[r].job.kind = "import" =>
    /\ req[r].at # "failed"
    /\ req[r].at = "done" =>
         /\ ToSet(Ids(Export[r].categories)) \subseteq Categories
         /\ ToSet(Ids(Export[r].products)) \subseteq Products
         /\ ToSet(Ids(Export[r].reviews)) \subseteq Reviews
         /\ ToSet(Ids(Export[r].orders)) \subseteq Orders
         /\ banner # None

=============================================================================
