------------------------------ MODULE Catalog ------------------------------
(***************************************************************************)
(* Categories, products, reviews and the images they show: the services of *)
(* modules categories, products, reviews and media.  Requests check, then  *)
(* act, one statement of MongoDB or call of Cloudinary at a time; only a   *)
(* review and its effect on the product share a transaction.  Stock,       *)
(* prices and orders are in OrderStore.                                    *)
(***************************************************************************)
EXTENDS Integers, FiniteSets, Sequences

CONSTANTS
  Request, None,
  CategoryId, ProductId, ReviewId, Customer,
  NewReview, \* the ids that new reviews get
  Name,      \* names, and the slugs they generate
  Asset,     \* images: a publicId in Cloudinary
  Workload   \* what the requests ask for, and the database at the start

VARIABLES
  category,  \* id -> [name, slug, order, image], or None
  product,   \* id -> [cat, slug, image, archived, count], or None
  review,    \* id -> [product, user, approved, live], or None
  banner,    \* the settings document: the image it shows, or None
  media,     \* assets with a row in the Media collection
  cloud,     \* assets in Cloudinary
  req,       \* requests
  raced,     \* history: categories and assets removed under a write naming them
  calm,      \* history: requests since whose start no other wrote the catalogue
  base,      \* history: a product's reviewCount beyond the live reviews it counts
  fresh      \* history: assets uploaded whose row is still to be written

docs        == <<category, product, review, banner, media, cloud>>
history     == <<raced, calm, base, fresh>>
catalogVars == <<docs, req, history>>

(* A label is a name, the n-th slug made from it, or a parked row's own.  *)
Label(n, k) == [of |-> n, nth |-> k]
Parked(c)   == [of |-> c, nth |-> 0]

(* `blank` are the fields that the body sends as an empty string. *)
Job ==
  [kind : STRING, id : CategoryId \cup ProductId \cup ReviewId \cup Asset \cup {None},
   name : Name \cup {None}, slug : Name \cup {None}, cat : Name \cup {None},
   user : Customer \cup {None}, image : Asset \cup {None}, blank : SUBSET {"image", "slug"},
   count : Nat,
   list : Seq([id : CategoryId, name : Name, image : Asset \cup {None}]), force : BOOLEAN]

CategoryDoc == [name : [of : Name \cup CategoryId, nth : 0..1], slug : [of : Name \cup CategoryId, nth : Nat],
                order : Nat, image : Asset \cup {None}]
ProductDoc  == [cat : CategoryId, slug : [of : Name, nth : Nat], image : Asset \cup {None},
                archived : BOOLEAN, count : Nat]
ReviewDoc   == [product : ProductId, user : Customer \cup {None}, approved : BOOLEAN, live : BOOLEAN]

(* What the schemas of the routes make of a body, and ids of the right kind *)
WellFormed(j) ==
  /\ j.kind \in {"createCategory", "updateCategory"} => j.id \in CategoryId
  /\ j.kind = "deleteCategory" => j.id \in CategoryId
  /\ j.kind \in {"createProduct", "updateProduct"} => j.id \in ProductId /\ j.cat # None
  /\ j.kind \in {"createCategory", "createProduct", "updateProduct"} => j.name # None
  /\ j.kind \in {"archive", "unarchive", "review"} => j.id \in ProductId
  /\ j.kind = "moderate" => j.id \in ReviewId
  /\ j.kind \in {"upload", "reregister", "deleteMedia"} => j.id \in Asset
  /\ "image" \in j.blank => j.image = None
  /\ "slug" \in j.blank => j.slug = None

(* The database the requests find: every reference in it resolves. *)
Stored(db) ==
  /\ db.category \in [CategoryId -> CategoryDoc \cup {None}]
  /\ db.product \in [ProductId -> ProductDoc \cup {None}]
  /\ db.review \in [ReviewId -> ReviewDoc \cup {None}]
  /\ db.media \subseteq Asset
  /\ \A c \in CategoryId : db.category[c] # None => db.category[c].image \in db.media \cup {None}
  /\ \A p \in ProductId : db.product[p] # None =>
       /\ db.product[p].image \in db.media \cup {None}
       /\ db.category[db.product[p].cat] # None

(* Cloudinary makes up the publicId of an upload; only what was uploaded    *)
(* carries the signature that registers it again.                           *)
OwnUpload(w, r) ==
  /\ w.jobs[r].kind = "upload" =>
       /\ w.jobs[r].id \notin w.db.media
       /\ \A x \in Request \ {r} :
            w.jobs[x].kind \in {"upload", "reregister"} => w.jobs[x].id # w.jobs[r].id
  /\ w.jobs[r].kind = "reregister" => w.jobs[r].id \in w.db.media

ASSUME CatalogConstants ==
  /\ \A w \in Workload :
       /\ DOMAIN w.jobs = Request /\ Stored(w.db)
       /\ \A r \in Request : w.jobs[r] \in Job /\ WellFormed(w.jobs[r]) /\ OwnUpload(w, r)
  /\ NewReview \subseteq ReviewId /\ CategoryId \cap Asset = {}
  /\ IsFiniteSet(CategoryId) /\ IsFiniteSet(ProductId) /\ IsFiniteSet(ReviewId)
  /\ None \notin CategoryId \cup ProductId \cup ReviewId \cup Asset \cup Name \cup Customer
                 \cup CategoryDoc \cup ProductDoc \cup ReviewDoc

Categories == {c \in CategoryId : category[c] # None}
Products   == {p \in ProductId : product[p] # None}
Reviews    == {v \in ReviewId : review[v] # None}

Jobs(kinds, at, r) == req[r].job.kind \in kinds /\ req[r].at = at
End(r, how)        == req' = [req EXCEPT ![r].at = how]

(* What a request remembers on its way to the next statement *)
Loads(r, d, s)    == req' = [req EXCEPT ![r] = [@ EXCEPT !.was = d, !.slug = s, !.at = "resolve"]]
Finds(r, d, c)    == req' = [req EXCEPT ![r] = [@ EXCEPT !.was = d, !.cat = c, !.at = "resolve"]]
Slugs(r, s, how)  == req' = [req EXCEPT ![r] = [@ EXCEPT !.slug = s, !.at = how]]
Dooms(r, ks, how) == req' = [req EXCEPT ![r] = [@ EXCEPT !.doomed = ks, !.at = how]]
Keeps(r, ks, how) == req' = [req EXCEPT ![r] = [@ EXCEPT !.held = ks, !.at = how]]
Reaches(r, i)     == req' = [req EXCEPT ![r] = [@ EXCEPT !.order = i, !.at = "final"]]

(* A write by r disturbs everyone else; a read that starts r makes it calm. *)
Disturbs(r) == calm' = calm \cap {r}
Starts(r)   == calm' = calm \cup {r}

-----------------------------------------------------------------------------
(* The unique indexes, and the checks that come before them *)

NameFree(n, c) == \A d \in Categories \ {c} : category[d].name # n
CategorySlugFree(s, c) == \A d \in Categories \ {c} : category[d].slug # s
ProductSlugFree(s, p) == \A q \in Products \ {p} : product[q].slug # s

(* The slug a name generates, or the first free one with a number. *)
FirstFree(n, used) ==
  CHOOSE s \in {Label(n, k) : k \in 1..(Cardinality(used) + 1)} :
    /\ s \notin used
    /\ \A k \in 1..(s.nth - 1) : Label(n, k) \in used

(* Mutant of CountProducts: archived products are not counted. *)
CountProductsLive(c) ==
  Cardinality({p \in Products : product[p].cat = c /\ ~product[p].archived})

(* assertDeletable counts active and archived products. *)
CountProducts(c) == Cardinality({p \in Products : product[p].cat = c})

(* Mutant of UsedBy: the pictures of archived products are not in use. *)
UsedByLive(a) ==
  \/ \E p \in Products : product[p].image = a /\ ~product[p].archived
  \/ \E c \in Categories : category[c].image = a
  \/ banner = a

(* The usage checkers of products, categories and settings. *)
UsedBy(a) ==
  \/ \E p \in Products : product[p].image = a
  \/ \E c \in Categories : category[c].image = a
  \/ banner = a

(* Requests past their check that will remove a category or destroy an asset *)
Removing(c)   == \E x \in Request : req[x].at \in {"remove", "images", "purge"} /\ c \in req[x].doomed
Destroying(a) == \E x \in Request : req[x].at \in {"destroy", "unrow"} /\ req[x].job.id = a

(* Requests that looked one up and have not written it *)
Holds(x, k) == req[x].cat = k \/ req[x].img = k \/ k \in req[x].held

(* A document naming category c and asset a is written. *)
Names(c, a) ==
  raced' = raced \cup {k \in CategoryId \cap {c} : Removing(k)}
                 \cup {k \in Asset \cap {a} : Destroying(k) \/ k \notin cloud}

Written(r, how) ==
  req' = [req EXCEPT ![r] = [@ EXCEPT !.at = how, !.cat = None, !.img = None, !.was = None]]

(* save() sends a field only when it differs from the loaded document.      *)
Saved(new, was, stored) == IF new = was THEN stored ELSE new

(* The image of the draft: the one sent, none for a blank, else the loaded  *)
Shown(q) == IF q.job.image # None \/ "image" \in q.job.blank THEN q.img ELSE q.was.image

-----------------------------------------------------------------------------
(* createCategory, updateCategory *)

CheckCategory(r) ==
  LET j == req[r].job
      create == j.kind = "createCategory"
      current == category[j.id]
      slug == IF j.slug # None THEN Label(j.slug, 1)
              ELSE IF create THEN Label(j.name, 1) ELSE current.slug
      name == IF j.name # None THEN Label(j.name, 1) ELSE current.name
  IN  /\ Jobs({"createCategory", "updateCategory"}, "start", r)
      /\ create <=> j.id \notin Categories
      /\ NameFree(name, j.id) /\ CategorySlugFree(slug, j.id)
      /\ Loads(r, current, slug)
      /\ UNCHANGED <<docs, history>>

Resolved(r, a, how) ==
  req' = [req EXCEPT ![r] = [@ EXCEPT !.img = a, !.order = Cardinality(Categories), !.at = how]]

(* resolveImages: every image must have a row; createCategory has counted. *)
ResolveImage(r) ==
  LET j == req[r].job
  IN  /\ req[r].at = "resolve"
      /\ IF j.image = None \/ j.image \in media
         THEN Resolved(r, j.image, IF j.kind \in {"createProduct", "updateProduct"} THEN "slug" ELSE "write")
         ELSE End(r, "refused")
      /\ UNCHANGED <<docs, history>>

NewCategory(q) ==
  [name |-> Label(q.job.name, 1), slug |-> q.slug, order |-> q.order, image |-> q.img]

SavedCategory(d, q) ==
  [d EXCEPT !.name = IF q.job.name # None THEN Saved(Label(q.job.name, 1), q.was.name, @) ELSE @,
            !.slug = Saved(q.slug, q.was.slug, @), !.image = Saved(Shown(q), q.was.image, @)]

WriteCategory(r) ==
  LET q == req[r]
      c == q.job.id
      create == q.job.kind = "createCategory"
      d == IF create THEN NewCategory(q) ELSE SavedCategory(category[c], q)
  IN  /\ Jobs({"createCategory", "updateCategory"}, "write", r)
      /\ IF (create <=> c \notin Categories) /\ NameFree(d.name, c) /\ CategorySlugFree(d.slug, c)
         THEN /\ category' = [category EXCEPT ![c] = d]
              /\ Names(None, q.img)
              /\ Disturbs(r)
              /\ Written(r, "done")
         ELSE Written(r, "refused") /\ UNCHANGED <<category, raced, calm>>
      /\ UNCHANGED <<product, review, banner, media, cloud, base, fresh>>

-----------------------------------------------------------------------------
(* deleteCategory, replaceCategories *)

Deletable(cs) == \A c \in cs : CountProducts(c) = 0

CheckDelete(r) ==
  LET c == req[r].job.id
  IN  /\ Jobs({"deleteCategory"}, "start", r) /\ c \in Categories
      /\ IF Deletable({c})
         THEN Dooms(r, {c}, "remove")
         ELSE End(r, "refused")
      /\ UNCHANGED <<docs, history>>

Removed(r) ==
  /\ category' = [c \in CategoryId |-> IF c \in req[r].doomed THEN None ELSE category[c]]
  /\ raced' = raced \cup {c \in req[r].doomed : \E x \in Request : Holds(x, c)}
  /\ Disturbs(r)

RemoveCategory(r) ==
  /\ Jobs({"deleteCategory"}, "remove", r)
  /\ Removed(r) /\ End(r, "renumber")
  /\ UNCHANGED <<product, review, banner, media, cloud, base, fresh>>

(* The updates renumber sends at once; ties go to the older row. *)
Renumber(r) ==
  /\ Jobs({"deleteCategory"}, "renumber", r)
  /\ \E rank \in [Categories -> 0..(Cardinality(Categories) - 1)] :
       /\ \A c, d \in Categories :
            /\ rank[c] = rank[d] => c = d
            /\ category[c].order < category[d].order => rank[c] < rank[d]
       /\ category' = [c \in CategoryId |->
            IF c \in Categories THEN [category[c] EXCEPT !.order = rank[c]] ELSE None]
  /\ Disturbs(r) /\ End(r, "done")
  /\ UNCHANGED <<product, review, banner, media, cloud, raced, base, fresh>>

Listed(r) == {req[r].job.list[i].id : i \in DOMAIN req[r].job.list}

(* Everything is checked before anything is written. *)
CheckReplace(r) ==
  LET list == req[r].job.list
      gone == Categories \ Listed(r)
  IN  /\ Jobs({"replaceCategories"}, "start", r)
      /\ \A i, k \in DOMAIN list : list[i].id = list[k].id \/ list[i].name = list[k].name => i = k
      /\ Starts(r)
      /\ IF Deletable(gone)
         THEN Dooms(r, gone, "images")
         ELSE End(r, "refused")
      /\ UNCHANGED <<docs, raced, base, fresh>>

ResolveList(r) ==
  LET list == req[r].job.list
      used == {list[i].image : i \in DOMAIN list} \ {None}
  IN  /\ Jobs({"replaceCategories"}, "images", r)
      /\ IF used \subseteq media
         THEN Keeps(r, used, "purge")
         ELSE End(r, "refused")
      /\ UNCHANGED <<docs, history>>

Purge(r) ==
  /\ Jobs({"replaceCategories"}, "purge", r)
  /\ Removed(r) /\ End(r, "park")
  /\ UNCHANGED <<product, review, banner, media, cloud, base, fresh>>

(* Mutant of ParkedNames: a row that is already there keeps its names. *)
ParkedNamesIfNew(c) ==
  IF c \in Categories THEN category[c]
  ELSE [name |-> Parked(c), slug |-> Parked(c), order |-> 0, image |-> None]

(* Phase 1: every row under a throw-away name and slug, the unknown upserted *)
ParkedNames(c) ==
  IF c \in Categories THEN [category[c] EXCEPT !.name = Parked(c), !.slug = Parked(c)]
  ELSE [name |-> Parked(c), slug |-> Parked(c), order |-> 0, image |-> None]

Park(r) ==
  /\ Jobs({"replaceCategories"}, "park", r)
  /\ category' = [c \in CategoryId |-> IF c \in Listed(r) THEN ParkedNames(c) ELSE category[c]]
  /\ Reaches(r, 1)
  /\ Disturbs(r)
  /\ UNCHANGED <<product, review, banner, media, cloud, raced, base, fresh>>

(* Phase 2, an ordered bulk: one row after the other; E11000 ends it. *)
FinalRow(r) ==
  LET i == req[r].order
      row == req[r].job.list[i]
      label == Label(row.name, 1)
  IN  /\ Jobs({"replaceCategories"}, "final", r) /\ i \in DOMAIN req[r].job.list
      /\ IF row.id \in Categories /\ ~(NameFree(label, row.id) /\ CategorySlugFree(label, row.id))
         THEN End(r, "failed") /\ UNCHANGED <<category, raced, calm>>
         ELSE /\ category' = [category EXCEPT ![row.id] =
                   IF row.id \in Categories
                   THEN [name |-> label, slug |-> label, order |-> i - 1, image |-> row.image]
                   ELSE None]
              /\ Names(None, row.image)
              /\ Reaches(r, i + 1)
              /\ Disturbs(r)
      /\ UNCHANGED <<product, review, banner, media, cloud, base, fresh>>

EndReplace(r) ==
  /\ Jobs({"replaceCategories"}, "final", r) /\ req[r].order = Len(req[r].job.list) + 1
  /\ Keeps(r, {}, "done")
  /\ UNCHANGED <<docs, history>>

-----------------------------------------------------------------------------
(* createProduct, updateProduct, softDeleteProduct, restoreProduct *)

(* The id is free or the document is loaded; then categoryIdFor. *)
StartProduct(r) ==
  LET j == req[r].job
      named == {c \in Categories : category[c].name = Label(j.cat, 1)}
  IN  /\ Jobs({"createProduct", "updateProduct"}, "start", r)
      /\ j.kind = "createProduct" <=> j.id \notin Products
      /\ j.kind = "updateProduct" => ~product[j.id].archived
      /\ \E c \in named : Finds(r, product[j.id], c)
      /\ UNCHANGED <<docs, history>>

(* uniqueSlug: a slug that is given must be free, a generated one is made   *)
(* so.  An update looks for one only when it sends another than it loaded.  *)
ChooseSlug(r) ==
  LET j == req[r].job
      create == j.kind = "createProduct"
      keeps == /\ ~create /\ "slug" \notin j.blank
               /\ j.slug = None \/ Label(j.slug, 1) = req[r].was.slug
      taken == {product[p].slug : p \in {x \in Products : create \/ x # j.id}}
  IN  /\ Jobs({"createProduct", "updateProduct"}, "slug", r)
      /\ IF keeps THEN Slugs(r, req[r].was.slug, "write")
         ELSE IF j.slug # None /\ Label(j.slug, 1) \in taken THEN Written(r, "refused")
         ELSE Slugs(r, IF j.slug # None THEN Label(j.slug, 1) ELSE FirstFree(j.name, taken), "write")
      /\ UNCHANGED <<docs, history>>

LiveReviews(p)    == {v \in Reviews : review[v].product = p /\ review[v].live}
CountedReviews(p) == {v \in LiveReviews(p) : review[v].approved}

(* A new product counts what its form says, whatever reviews an earlier one *)
(* of its id left; an update writes what it changes.                        *)
Created(q)    == [cat |-> q.cat, slug |-> q.slug, image |-> q.img, archived |-> FALSE,
                  count |-> q.job.count]
Updated(d, q) == [d EXCEPT !.cat = Saved(q.cat, q.was.cat, @), !.slug = Saved(q.slug, q.was.slug, @),
                           !.image = Saved(Shown(q), q.was.image, @)]

(* The unique slug; and an update that changes the images is refused when   *)
(* another changed them since it was loaded (__v guards an array).          *)
WriteProduct(r) ==
  LET q == req[r]
      p == q.job.id
      create == q.job.kind = "createProduct"
      d == IF create THEN Created(q) ELSE Updated(product[p], q)
      current == create \/ Shown(q) = q.was.image \/ product[p].image = q.was.image
  IN  /\ Jobs({"createProduct", "updateProduct"}, "write", r)
      /\ IF (create <=> p \notin Products) /\ ProductSlugFree(d.slug, p) /\ current
         THEN /\ product' = [product EXCEPT ![p] = d]
              /\ base' = IF create THEN [base EXCEPT ![p] = q.job.count - Cardinality(CountedReviews(p))]
                         ELSE base
              /\ Names(q.cat, q.img)
              /\ Disturbs(r)
              /\ Written(r, "done")
         ELSE Written(r, "refused") /\ UNCHANGED <<product, raced, calm, base>>
      /\ UNCHANGED <<category, review, banner, media, cloud, fresh>>

Archive(r) ==
  LET p == req[r].job.id
  IN  /\ Jobs({"archive", "unarchive"}, "start", r) /\ p \in Products
      /\ product[p].archived = (req[r].job.kind = "unarchive")
      /\ product' = [product EXCEPT ![p].archived = ~@]
      /\ Disturbs(r) /\ End(r, "done")
      /\ UNCHANGED <<category, review, banner, media, cloud, raced, base, fresh>>

-----------------------------------------------------------------------------
(* Media.  The browser uploads to Cloudinary, then registers the asset.    *)

Upload(r) ==
  LET a == req[r].job.id
  IN  /\ Jobs({"upload"}, "start", r)
      /\ cloud' = cloud \cup {a} /\ fresh' = fresh \cup {a}
      /\ End(r, "register")
      /\ UNCHANGED <<category, product, review, banner, media, raced, calm, base>>

(* The upload response is signed for good: it can be sent again. *)
RegisterMedia(r) ==
  LET a == req[r].job.id
  IN  /\ Jobs({"upload"}, "register", r) \/ Jobs({"reregister"}, "start", r)
      /\ media' = media \cup {a} /\ fresh' = fresh \ {a}
      /\ End(r, "done")
      /\ UNCHANGED <<category, product, review, banner, cloud, raced, calm, base>>

(* deleteMedia: the row, which is doomed, then every usage checker. *)
CheckMedia(r) ==
  LET a == req[r].job.id
  IN  /\ Jobs({"deleteMedia"}, "start", r) /\ a \in media
      /\ IF UsedBy(a) THEN End(r, "refused") ELSE Dooms(r, {a}, "destroy")
      /\ UNCHANGED <<docs, history>>

(* Mutant of AfterDestroy: a failure removes the row too. *)
AfterDestroyAlways(answer) == "unrow"

(* "ok" and "not found" go on; an error keeps the row. *)
AfterDestroy(answer) == IF answer = "error" THEN "refused" ELSE "unrow"

(* The asset goes, or the call fails before it does, or the answer is lost. *)
Destroy(r, answer, gone) ==
  LET a == req[r].job.id
  IN  /\ Jobs({"deleteMedia"}, "destroy", r)
      /\ answer = "ok" => gone
      /\ cloud' = IF gone THEN cloud \ {a} ELSE cloud
      /\ raced' = IF gone /\ \E x \in Request : Holds(x, a) THEN raced \cup {a} ELSE raced
      /\ End(r, AfterDestroy(answer))
      /\ UNCHANGED <<category, product, review, banner, media, calm, base, fresh>>

Undoomed(r) ==
  req' = [x \in Request |->
    [req[x] EXCEPT !.at = IF x = r THEN "done" ELSE @, !.doomed = @ \ req[r].doomed]]

(* By _id: a row that was registered again meanwhile is not this one. *)
DeleteRow(r) ==
  /\ Jobs({"deleteMedia"}, "unrow", r)
  /\ media' = media \ req[r].doomed
  /\ Undoomed(r)
  /\ UNCHANGED <<category, product, review, banner, cloud, history>>

(* updateSettings with a banner: the URL is not looked up in Media. *)
SetBanner(r) ==
  /\ Jobs({"banner"}, "start", r)
  /\ banner' = req[r].job.image
  /\ Names(None, banner')
  /\ Disturbs(r) /\ End(r, "done")
  /\ UNCHANGED <<category, product, review, media, cloud, base, fresh>>

-----------------------------------------------------------------------------
(* createReview, softDeleteReview: one transaction each *)

StartReview(r) ==
  LET p == req[r].job.id
  IN  /\ Jobs({"review"}, "start", r)
      /\ p \in Products /\ ~product[p].archived
      /\ End(r, "insert")
      /\ UNCHANGED <<docs, history>>

(* The partial unique index: one live review of a product per customer. *)
InsertReview(r) ==
  LET p == req[r].job.id
      u == req[r].job.user
      v == CHOOSE x \in NewReview : x \notin Reviews
  IN  /\ Jobs({"review"}, "insert", r) /\ NewReview \ Reviews # {}
      /\ IF \E x \in LiveReviews(p) : review[x].user = u
         THEN End(r, "refused") /\ UNCHANGED <<product, review>>
         ELSE /\ review' = [review EXCEPT ![v] = [product |-> p, user |-> u, approved |-> TRUE, live |-> TRUE]]
              /\ product' = IF p \in Products THEN [product EXCEPT ![p].count = @ + 1] ELSE product
              /\ End(r, "done")
      /\ UNCHANGED <<category, banner, media, cloud, history>>

(* Mutant of Counts: the review is taken for an approved one. *)
CountsAny(v) == TRUE

(* A review that was never approved never entered the aggregate. *)
Counts(v) == review[v].approved

(* The filter of softDeleteReview *)
Moderatable(v) == v \in Reviews /\ review[v].live

(* Mutant of CountWithout: no floor at zero. *)
CountWithoutFloor(n) == n - 1

(* ratingRemovalPipeline: the last one leaves the baseline of a new product, *)
(* and so does one too many.                                                 *)
CountWithout(n) == IF n <= 1 THEN 0 ELSE n - 1

DeleteReview(r) ==
  LET v == req[r].job.id
      p == review[v].product
  IN  /\ Jobs({"moderate"}, "start", r) /\ Moderatable(v)
      /\ review' = [review EXCEPT ![v].live = FALSE]
      /\ product' = IF Counts(v) /\ p \in Products
                    THEN [product EXCEPT ![p].count = CountWithout(@)] ELSE product
      /\ End(r, "done")
      /\ UNCHANGED <<category, banner, media, cloud, history>>

(* The function is killed between two statements. *)
Crash(r) ==
  /\ req[r].at \notin {"start", "done", "refused", "failed", "killed"}
  /\ End(r, "killed")
  /\ UNCHANGED <<docs, history>>

-----------------------------------------------------------------------------
Begin(w) ==
  /\ category = w.db.category /\ product = w.db.product /\ review = w.db.review
  /\ banner = None /\ media = w.db.media /\ cloud = w.db.media
  /\ req = [r \in Request |->
       [job |-> w.jobs[r], at |-> "start", was |-> None, cat |-> None, img |-> None, slug |-> None,
        order |-> 0, doomed |-> {}, held |-> {}, todo |-> <<>>]]

CatalogInit(w) ==
  /\ Begin(w)
  /\ raced = {} /\ calm = Request /\ fresh = {}
  /\ base = [p \in ProductId |-> IF product[p] = None THEN 0
                                 ELSE product[p].count - Cardinality(CountedReviews(p))]

CategoryStep(r) ==
  \/ CheckCategory(r) \/ WriteCategory(r)
  \/ CheckDelete(r) \/ RemoveCategory(r) \/ Renumber(r)
  \/ CheckReplace(r) \/ ResolveList(r) \/ Purge(r) \/ Park(r) \/ FinalRow(r) \/ EndReplace(r)

ProductStep(r) ==
  \/ StartProduct(r) \/ ResolveImage(r) \/ ChooseSlug(r) \/ WriteProduct(r) \/ Archive(r)
  \/ StartReview(r) \/ DeleteReview(r) \/ InsertReview(r)

MediaStep(r) ==
  \/ Upload(r) \/ RegisterMedia(r) \/ CheckMedia(r) \/ DeleteRow(r) \/ SetBanner(r)
  \/ \E answer \in {"ok", "error"}, gone \in BOOLEAN : Destroy(r, answer, gone)

CatalogStep(r) == CategoryStep(r) \/ ProductStep(r) \/ MediaStep(r) \/ Crash(r)

-----------------------------------------------------------------------------
CatalogTypeOK ==
  /\ category \in [CategoryId -> CategoryDoc \cup {None}]
  /\ product \in [ProductId -> ProductDoc \cup {None}]
  /\ review \in [ReviewId -> ReviewDoc \cup {None}]
  /\ banner \in Asset \cup {None}
  /\ media \subseteq Asset /\ cloud \subseteq Asset /\ fresh \subseteq Asset
  /\ raced \subseteq CategoryId \cup Asset /\ calm \subseteq Request
  /\ base \in [ProductId -> Int]

(* "A category that still has products (active OR archived) cannot be       *)
(* deleted" (categories/category.service.ts:76): no product, archived or    *)
(* restored, is left without its category, unless a deletion overlapped a   *)
(* write that had looked the category up or came after the count.           *)
NoDanglingCategory ==
  \A p \in Products : product[p].cat \in Categories \cup raced

(* "A delete cannot leave dangling references" (media/media.service.ts:67): *)
(* every picture in use is in Cloudinary, unless the deletion overlapped a  *)
(* write naming it, or the picture was gone already when it was named.      *)
NoDanglingImage ==
  /\ \A p \in Products : product[p].image \in cloud \cup raced \cup {None}
  /\ \A c \in Categories : category[c].image \in cloud \cup raced \cup {None}
  /\ banner \in cloud \cup raced \cup {None}

(* "No orphaned asset without a record" (media/media.service.ts:73): an     *)
(* asset has a row unless its upload is still to be registered, or an       *)
(* import was about to use it while it was deleted.                         *)
AssetHasRow == cloud \subseteq media \cup fresh \cup raced

(* reviewCount is its baseline and the approved live reviews, through       *)
(* creations, refused duplicates, repeated moderation and the moderation of *)
(* reviews that were never approved (reviews/review.service.ts).            *)
CountMatchesReviews ==
  \A p \in Products : base[p] >= 0 =>
    product[p].count = base[p] + Cardinality(CountedReviews(p))

(* replaceCategories that met no other write of the catalogue always ends   *)
(* with exactly its list, in its order, even when names are swapped         *)
(* (categories/category.service.ts:115).                                    *)
ReplaceTakesEffect ==
  \A r \in calm : req[r].job.kind = "replaceCategories" =>
    /\ req[r].at # "failed"
    /\ req[r].at = "done" =>
         /\ Categories = Listed(r)
         /\ \A i \in DOMAIN req[r].job.list :
              LET row == category[req[r].job.list[i].id]
              IN  row.name = Label(req[r].job.list[i].name, 1) /\ row.order = i - 1

=============================================================================
