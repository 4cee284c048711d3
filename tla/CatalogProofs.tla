--------------------------- MODULE CatalogProofs ---------------------------
(***************************************************************************)
(* What Catalog and SeedImport keep true for every shop, every export and  *)
(* every number of requests.                                               *)
(***************************************************************************)
EXTENDS SeedImport, FiniteSetTheorems, WellFoundedInduction, TLAPS

(***************************************************************************)
(* What a request remembers, and what is true of it at each statement.     *)
(***************************************************************************)
Ids_     == CategoryId \cup ProductId \cup ReviewId \cup OrderId \cup Asset \cup {None}
SlugOf   == [of : Name \cup CategoryId, nth : Nat]
Kinds    == {"image", "category", "product", "review", "order", "settings"}
Stages   == {"start", "done", "refused", "failed", "killed", "resolve", "slug", "write", "remove",
             "renumber", "images", "purge", "park", "final", "register", "destroy", "unrow",
             "insert", "upload", "row", "exists", "delete", "create"}
TaskOf   == [kind : Kinds, id : Ids_, row : Nat]
Requests ==
  [job : Job, at : Stages, was : CategoryDoc \cup ProductDoc \cup {None}, cat : CategoryId \cup {None}, img : Asset \cup {None},
   slug : SlugOf \cup {None}, order : Nat, doomed : SUBSET (CategoryId \cup Asset),
   held : SUBSET (CategoryId \cup Asset), todo : Seq(TaskOf)]

CategoryWrite == {"createCategory", "updateCategory"}
ProductWrite  == {"createProduct", "updateProduct"}
Importing     == {"upload", "row", "exists", "delete", "create"}

(* A task is one row of the export. *)
RowTask(t, files) ==
  /\ t.kind = "image"    => t.id \in Images(files)
  /\ t.kind = "category" => t.row \in DOMAIN files.categories /\ t.id = files.categories[t.row].id
  /\ t.kind = "product"  => t.row \in DOMAIN files.products /\ t.id = files.products[t.row].id
  /\ t.kind = "review"   => t.row \in DOMAIN files.reviews /\ t.id = files.reviews[t.row].id
  /\ t.kind = "order"    => t.row \in DOMAIN files.orders /\ t.id = files.orders[t.row].id
  /\ t.kind = "settings" => t.id = None

(* Categories come before products, and no image is uploaded twice. *)
Orderly(todo) ==
  \A i, k \in DOMAIN todo : i < k =>
    /\ todo[k].kind = "category" => todo[i].kind # "product"
    /\ todo[k].kind = "image" /\ todo[i].kind = "image" => todo[k].id # todo[i].id

(* An import holds on to its images, and to the categories it is past. *)
Planned(q, files) ==
  /\ Orderly(q.todo)
  /\ Images(files) \subseteq q.held
  /\ \A i \in DOMAIN files.categories :
       \/ files.categories[i].id \in q.held
       \/ \E t \in ToSet(q.todo) : t.kind = "category" /\ t.id = files.categories[i].id

(* What a request's place in its service says of it *)
Placed(q, files) ==
  /\ WellFormed(q.job)
  /\ q.at \in {"resolve", "write"} => q.job.kind \in CategoryWrite \cup ProductWrite
  /\ q.at = "slug" => q.job.kind \in ProductWrite
  /\ q.at \in {"resolve", "write"} /\ q.job.kind = "updateCategory" => q.was \in CategoryDoc
  /\ q.at \in {"resolve", "slug", "write"} /\ q.job.kind = "updateProduct" => q.was \in ProductDoc
  /\ q.at \in {"resolve", "write"} /\ q.job.kind \in CategoryWrite => q.slug \in SlugOf
  /\ q.at \in {"resolve", "slug", "write"} /\ q.job.kind \in ProductWrite => q.cat \in CategoryId
  /\ q.at = "write" /\ q.job.kind \in ProductWrite => q.slug \in [of : Name, nth : Nat]
  /\ q.at \in {"remove", "renumber"} => q.job.kind = "deleteCategory"
  /\ q.at \in {"images", "purge", "park", "final"} => q.job.kind = "replaceCategories"
  /\ q.at = "final" => q.order >= 1
  /\ q.at \in {"destroy", "unrow"} => q.job.kind = "deleteMedia"
  /\ q.at \in Importing => q.job.kind = "import" /\ ~Problems(files)
  /\ q.job.kind = "import" => \A t \in ToSet(q.todo) : RowTask(t, files)
  /\ q.at \in Importing => Planned(q, files)

Asked == req \in [Request -> Requests] /\ \A r \in Request : Placed(req[r], Export[r])

Typed == CatalogTypeOK /\ Asked

(* Request r goes on, and its record says this afterwards. *)
Moves(r, at, cat, img, slug, order, doomed, held, todo) ==
  /\ req' \in [Request -> Requests]
  /\ \A x \in Request \ {r} : req'[x] = req[x]
  /\ req'[r].job = req[r].job /\ req'[r].at = at /\ req'[r].cat = cat /\ req'[r].img = img
  /\ req'[r].slug = slug /\ req'[r].order = order /\ req'[r].doomed = doomed
  /\ req'[r].held = held /\ req'[r].todo = todo
  /\ at \in {"slug", "write"} => req'[r].was = req[r].was

LEMMA EndMoves ==
  ASSUME Asked, NEW r \in Request, NEW how \in Stages, End(r, how)
  PROVE  Moves(r, how, req[r].cat, req[r].img, req[r].slug,
                  req[r].order, req[r].doomed, req[r].held, req[r].todo)
<1> DEFINE q == [req[r] EXCEPT !.at = how]
<1>1. req \in [Request -> Requests] /\ req[r] \in Requests BY DEF Asked
<1>2. q \in Requests BY <1>1 DEF Requests
<1>3. req' = [req EXCEPT ![r] = q] BY DEF End
<1>4. /\ q.job = req[r].job
      /\ q.at = how
      /\ q.was = req[r].was
      /\ q.cat = req[r].cat
      /\ q.img = req[r].img
      /\ q.slug = req[r].slug
      /\ q.order = req[r].order
      /\ q.doomed = req[r].doomed
      /\ q.held = req[r].held
      /\ q.todo = req[r].todo
  BY <1>1 DEF Requests
<1> HIDE DEF q
<1> QED BY <1>1, <1>2, <1>3, <1>4 DEF Moves

LEMMA LoadsMoves ==
  ASSUME Asked, NEW r \in Request, NEW d \in CategoryDoc \cup {None}, NEW s \in SlugOf, Loads(r, d, s)
  PROVE  /\ Moves(r, "resolve", req[r].cat, req[r].img, s,
                  req[r].order, req[r].doomed, req[r].held, req[r].todo)
         /\ req'[r].was = d
<1> DEFINE how == "resolve"
<1>0. how \in Stages /\ how \notin {"slug", "write"} BY DEF Stages
<1> HIDE DEF how
<1> DEFINE q == [req[r] EXCEPT !.was = d, !.slug = s, !.at = how]
<1>1. req \in [Request -> Requests] /\ req[r] \in Requests BY DEF Asked
<1>2. q \in Requests BY <1>0, <1>1 DEF Requests
<1>3. req' = [req EXCEPT ![r] = q] BY DEF Loads, how
<1>4. /\ q.job = req[r].job
      /\ q.at = how
      /\ q.was = d
      /\ q.cat = req[r].cat
      /\ q.img = req[r].img
      /\ q.slug = s
      /\ q.order = req[r].order
      /\ q.doomed = req[r].doomed
      /\ q.held = req[r].held
      /\ q.todo = req[r].todo
  BY <1>1 DEF Requests
<1> HIDE DEF q
<1> QED BY <1>0, <1>1, <1>2, <1>3, <1>4 DEF Moves, how

LEMMA SlugsMoves ==
  ASSUME Asked, NEW r \in Request, NEW how \in Stages, NEW s \in SlugOf, Slugs(r, s, how)
  PROVE  Moves(r, how, req[r].cat, req[r].img, s,
                  req[r].order, req[r].doomed, req[r].held, req[r].todo)
<1> DEFINE q == [req[r] EXCEPT !.slug = s, !.at = how]
<1>1. req \in [Request -> Requests] /\ req[r] \in Requests BY DEF Asked
<1>2. q \in Requests BY <1>1 DEF Requests
<1>3. req' = [req EXCEPT ![r] = q] BY DEF Slugs
<1>4. /\ q.job = req[r].job
      /\ q.at = how
      /\ q.was = req[r].was
      /\ q.cat = req[r].cat
      /\ q.img = req[r].img
      /\ q.slug = s
      /\ q.order = req[r].order
      /\ q.doomed = req[r].doomed
      /\ q.held = req[r].held
      /\ q.todo = req[r].todo
  BY <1>1 DEF Requests
<1> HIDE DEF q
<1> QED BY <1>1, <1>2, <1>3, <1>4 DEF Moves

LEMMA FindsMoves ==
  ASSUME Asked, NEW r \in Request, NEW d \in ProductDoc \cup {None}, NEW c \in CategoryId, Finds(r, d, c)
  PROVE  /\ Moves(r, "resolve", c, req[r].img, req[r].slug,
                  req[r].order, req[r].doomed, req[r].held, req[r].todo)
         /\ req'[r].was = d
<1> DEFINE how == "resolve"
<1>0. how \in Stages /\ how \notin {"slug", "write"} BY DEF Stages
<1> HIDE DEF how
<1> DEFINE q == [req[r] EXCEPT !.was = d, !.cat = c, !.at = how]
<1>1. req \in [Request -> Requests] /\ req[r] \in Requests BY DEF Asked
<1>2. q \in Requests BY <1>0, <1>1 DEF Requests
<1>3. req' = [req EXCEPT ![r] = q] BY DEF Finds, how
<1>4. /\ q.job = req[r].job
      /\ q.at = how
      /\ q.was = d
      /\ q.cat = c
      /\ q.img = req[r].img
      /\ q.slug = req[r].slug
      /\ q.order = req[r].order
      /\ q.doomed = req[r].doomed
      /\ q.held = req[r].held
      /\ q.todo = req[r].todo
  BY <1>1 DEF Requests
<1> HIDE DEF q
<1> QED BY <1>0, <1>1, <1>2, <1>3, <1>4 DEF Moves, how

LEMMA DoomsMoves ==
  ASSUME Asked, NEW r \in Request, NEW how \in Stages, NEW ks \in SUBSET (CategoryId \cup Asset), Dooms(r, ks, how)
  PROVE  Moves(r, how, req[r].cat, req[r].img, req[r].slug,
                  req[r].order, ks, req[r].held, req[r].todo)
<1> DEFINE q == [req[r] EXCEPT !.doomed = ks, !.at = how]
<1>1. req \in [Request -> Requests] /\ req[r] \in Requests BY DEF Asked
<1>2. q \in Requests BY <1>1 DEF Requests
<1>3. req' = [req EXCEPT ![r] = q] BY DEF Dooms
<1>4. /\ q.job = req[r].job
      /\ q.at = how
      /\ q.was = req[r].was
      /\ q.cat = req[r].cat
      /\ q.img = req[r].img
      /\ q.slug = req[r].slug
      /\ q.order = req[r].order
      /\ q.doomed = ks
      /\ q.held = req[r].held
      /\ q.todo = req[r].todo
  BY <1>1 DEF Requests
<1> HIDE DEF q
<1> QED BY <1>1, <1>2, <1>3, <1>4 DEF Moves

LEMMA KeepsMoves ==
  ASSUME Asked, NEW r \in Request, NEW how \in Stages, NEW ks \in SUBSET (CategoryId \cup Asset), Keeps(r, ks, how)
  PROVE  Moves(r, how, req[r].cat, req[r].img, req[r].slug,
                  req[r].order, req[r].doomed, ks, req[r].todo)
<1> DEFINE q == [req[r] EXCEPT !.held = ks, !.at = how]
<1>1. req \in [Request -> Requests] /\ req[r] \in Requests BY DEF Asked
<1>2. q \in Requests BY <1>1 DEF Requests
<1>3. req' = [req EXCEPT ![r] = q] BY DEF Keeps
<1>4. /\ q.job = req[r].job
      /\ q.at = how
      /\ q.was = req[r].was
      /\ q.cat = req[r].cat
      /\ q.img = req[r].img
      /\ q.slug = req[r].slug
      /\ q.order = req[r].order
      /\ q.doomed = req[r].doomed
      /\ q.held = ks
      /\ q.todo = req[r].todo
  BY <1>1 DEF Requests
<1> HIDE DEF q
<1> QED BY <1>1, <1>2, <1>3, <1>4 DEF Moves

LEMMA ReachesMoves ==
  ASSUME Asked, NEW r \in Request, NEW i \in Nat, Reaches(r, i)
  PROVE  Moves(r, "final", req[r].cat, req[r].img, req[r].slug,
                  i, req[r].doomed, req[r].held, req[r].todo)
<1> DEFINE how == "final"
<1>0. how \in Stages BY DEF Stages
<1> HIDE DEF how
<1> DEFINE q == [req[r] EXCEPT !.order = i, !.at = how]
<1>1. req \in [Request -> Requests] /\ req[r] \in Requests BY DEF Asked
<1>2. q \in Requests BY <1>0, <1>1 DEF Requests
<1>3. req' = [req EXCEPT ![r] = q] BY DEF Reaches, how
<1>4. /\ q.job = req[r].job
      /\ q.at = how
      /\ q.was = req[r].was
      /\ q.cat = req[r].cat
      /\ q.img = req[r].img
      /\ q.slug = req[r].slug
      /\ q.order = i
      /\ q.doomed = req[r].doomed
      /\ q.held = req[r].held
      /\ q.todo = req[r].todo
  BY <1>1 DEF Requests
<1> HIDE DEF q
<1> QED BY <1>1, <1>2, <1>3, <1>4 DEF Moves, how

LEMMA WrittenMoves ==
  ASSUME Asked, NEW r \in Request, NEW how \in Stages \ {"slug", "write"}, Written(r, how)
  PROVE  Moves(r, how, None, None, req[r].slug,
                  req[r].order, req[r].doomed, req[r].held, req[r].todo)
<1> DEFINE q == [req[r] EXCEPT !.at = how, !.cat = None, !.img = None, !.was = None]
<1>1. req \in [Request -> Requests] /\ req[r] \in Requests BY DEF Asked
<1>2. q \in Requests BY <1>1 DEF Requests
<1>3. req' = [req EXCEPT ![r] = q] BY DEF Written
<1>4. /\ q.job = req[r].job
      /\ q.at = how
      /\ q.cat = None
      /\ q.img = None
      /\ q.slug = req[r].slug
      /\ q.order = req[r].order
      /\ q.doomed = req[r].doomed
      /\ q.held = req[r].held
      /\ q.todo = req[r].todo
  BY <1>1 DEF Requests
<1> HIDE DEF q
<1> QED BY <1>1, <1>2, <1>3, <1>4 DEF Moves

LEMMA PlansMoves ==
  ASSUME Asked, NEW r \in Request, NEW how \in Stages, NEW ts \in Seq(TaskOf), NEW ks \in SUBSET (CategoryId \cup Asset), Plans(r, ts, ks, how)
  PROVE  Moves(r, how, req[r].cat, req[r].img, req[r].slug,
                  req[r].order, req[r].doomed, ks, ts)
<1> DEFINE q == [req[r] EXCEPT !.todo = ts, !.held = ks, !.at = how]
<1>1. req \in [Request -> Requests] /\ req[r] \in Requests BY DEF Asked
<1>2. q \in Requests BY <1>1 DEF Requests
<1>3. req' = [req EXCEPT ![r] = q] BY DEF Plans
<1>4. /\ q.job = req[r].job
      /\ q.at = how
      /\ q.was = req[r].was
      /\ q.cat = req[r].cat
      /\ q.img = req[r].img
      /\ q.slug = req[r].slug
      /\ q.order = req[r].order
      /\ q.doomed = req[r].doomed
      /\ q.held = ks
      /\ q.todo = ts
  BY <1>1 DEF Requests
<1> HIDE DEF q
<1> QED BY <1>1, <1>2, <1>3, <1>4 DEF Moves

LEMMA ResolvedMoves ==
  ASSUME Asked, NEW r \in Request, NEW how \in Stages, NEW a \in Asset \cup {None}, Cardinality(Categories) \in Nat, Resolved(r, a, how)
  PROVE  Moves(r, how, req[r].cat, a, req[r].slug,
                  Cardinality(Categories), req[r].doomed, req[r].held, req[r].todo)
<1> DEFINE q == [req[r] EXCEPT !.img = a, !.order = Cardinality(Categories), !.at = how]
<1>1. req \in [Request -> Requests] /\ req[r] \in Requests BY DEF Asked
<1>2. q \in Requests BY <1>1 DEF Requests
<1>3. req' = [req EXCEPT ![r] = q] BY DEF Resolved
<1>4. /\ q.job = req[r].job
      /\ q.at = how
      /\ q.was = req[r].was
      /\ q.cat = req[r].cat
      /\ q.img = a
      /\ q.slug = req[r].slug
      /\ q.order = Cardinality(Categories)
      /\ q.doomed = req[r].doomed
      /\ q.held = req[r].held
      /\ q.todo = req[r].todo
  BY <1>1 DEF Requests
<1> HIDE DEF q
<1> QED BY <1>1, <1>2, <1>3, <1>4 DEF Moves

-----------------------------------------------------------------------------
(***************************************************************************)
(* Types.  A step of r changes r's record and leaves the documents typed.  *)
(***************************************************************************)
LEMMA StageNames ==
  /\ "start" \in Stages /\ "done" \in Stages /\ "refused" \in Stages /\ "failed" \in Stages
  /\ "killed" \in Stages /\ "resolve" \in Stages /\ "slug" \in Stages /\ "write" \in Stages
  /\ "remove" \in Stages /\ "renumber" \in Stages /\ "images" \in Stages /\ "purge" \in Stages
  /\ "park" \in Stages /\ "final" \in Stages /\ "register" \in Stages /\ "destroy" \in Stages
  /\ "unrow" \in Stages /\ "insert" \in Stages /\ "upload" \in Stages /\ "row" \in Stages
  /\ "exists" \in Stages /\ "delete" \in Stages /\ "create" \in Stages
BY DEF Stages

LEMMA AskedAfter ==
  ASSUME Asked, NEW r \in Request, req' \in [Request -> Requests],
         \A x \in Request \ {r} : req'[x] = req[x], Placed(req'[r], Export[r])
  PROVE  Asked'
<1>1. Asked' <=> /\ req' \in [Request -> Requests]
                 /\ \A x \in Request : Placed(req'[x], Export[x])
  BY DEF Asked
<1>2. \A x \in Request : Placed(req[x], Export[x]) BY DEF Asked
<1> QED BY <1>1, <1>2

(* A step that only moves r on, to a statement that says nothing new *)
LEMMA EndTyped ==
  ASSUME Typed, NEW r \in Request, NEW how \in {"done", "refused", "failed", "killed", "renumber",
                                                "park", "insert", "register", "unrow"},
         End(r, how),
         how = "renumber" => req[r].job.kind = "deleteCategory",
         how = "park" => req[r].job.kind = "replaceCategories",
         how = "unrow" => req[r].job.kind = "deleteMedia"
  PROVE  Asked'
<1>1. Asked /\ req[r] \in Requests /\ Placed(req[r], Export[r]) BY DEF Typed, Asked
<1>2. how \in Stages BY StageNames
<1> DEFINE q == req[r]
<1>3. Moves(r, how, q.cat, q.img, q.slug, q.order, q.doomed, q.held, q.todo)
  BY <1>1, <1>2, EndMoves
<1>4. Placed(req'[r], Export[r])
  BY <1>1, <1>3 DEF Moves, Placed, Importing
<1> QED BY <1>1, <1>3, <1>4, AskedAfter DEF Moves

LEMMA CalmTyped ==
  ASSUME Typed, NEW r \in Request, Starts(r) \/ Disturbs(r) \/ UNCHANGED calm \/ calm' = calm \ {r}
  PROVE  calm' \subseteq Request
BY DEF Typed, CatalogTypeOK, Starts, Disturbs

LEMMA QuietTyped ==
  ASSUME Typed, UNCHANGED <<docs, raced, base, fresh>>, calm' \subseteq Request
  PROVE  CatalogTypeOK'
BY DEF Typed, CatalogTypeOK, docs

LEMMA Counting ==
  ASSUME NEW S, S \subseteq CategoryId \/ S \subseteq ProductId \/ S \subseteq ReviewId
  PROVE  IsFiniteSet(S) /\ Cardinality(S) \in Nat
BY FS_Subset, FS_CardinalityType, CatalogConstants

LEMMA CheckCategoryMoves ==
  ASSUME Typed, NEW r \in Request, CheckCategory(r)
  PROVE  LET q == req[r]
         IN  /\ UNCHANGED <<docs, history>> /\ q.job.kind \in CategoryWrite
             /\ \E s \in SlugOf :
                  Moves(r, "resolve", q.cat, q.img, s, q.order, q.doomed, q.held, q.todo)
             /\ q.job.kind = "updateCategory" => req'[r].was \in CategoryDoc
<1> DEFINE q == req[r]
<1> DEFINE j == q.job
<1> DEFINE d == category[j.id]
<1> DEFINE s == IF j.slug # None THEN Label(j.slug, 1)
                ELSE IF j.kind = "createCategory" THEN Label(j.name, 1) ELSE d.slug
<1>1. Asked /\ req[r] \in Requests /\ Placed(req[r], Export[r]) BY DEF Typed, Asked
<1>2. j \in Job /\ WellFormed(j) BY <1>1 DEF Requests, Placed
<1>3. /\ j.kind \in CategoryWrite
      /\ j.kind # "createCategory" => j.id \in Categories
      /\ Loads(r, d, s) /\ UNCHANGED <<docs, history>>
  BY DEF CheckCategory, Jobs, CategoryWrite
<1>4. /\ d \in CategoryDoc \cup {None}
      /\ j.kind = "updateCategory" => d \in CategoryDoc
  BY <1>2, <1>3 DEF WellFormed, CategoryWrite, Typed, CatalogTypeOK, Categories
<1>5. s \in SlugOf
  <2>1. CASE j.kind = "createCategory" \/ j.slug # None
    BY <1>2, <1>3, <2>1 DEF Job, WellFormed, SlugOf, Label, CategoryWrite
  <2>2. CASE ~(j.kind = "createCategory" \/ j.slug # None)
    <3>1. category[j.id] \in CategoryDoc BY <1>3, <2>2 DEF Typed, CatalogTypeOK, Categories
    <3> QED BY <2>2, <3>1 DEF CategoryDoc, SlugOf
  <2> QED BY <2>1, <2>2
<1> HIDE DEF s, d
<1>6. /\ Moves(r, "resolve", q.cat, q.img, s, q.order, q.doomed, q.held, q.todo)
      /\ req'[r].was = d
  BY <1>1, <1>3, <1>4, <1>5, LoadsMoves
<1> QED BY <1>3, <1>4, <1>5, <1>6

LEMMA CheckCategoryTyped ==
  ASSUME Typed, NEW r \in Request, CheckCategory(r)
  PROVE  Typed'
<1> DEFINE q == req[r]
<1>1. Asked /\ q \in Requests /\ Placed(q, Export[r]) BY DEF Typed, Asked
<1>2. /\ UNCHANGED <<docs, history>> /\ q.job.kind \in CategoryWrite
      /\ q.job.kind = "updateCategory" => req'[r].was \in CategoryDoc
  BY CheckCategoryMoves
<1>3. PICK s \in SlugOf : Moves(r, "resolve", q.cat, q.img, s, q.order, q.doomed, q.held, q.todo)
  BY CheckCategoryMoves
<1>4. Placed(req'[r], Export[r])
  BY <1>1, <1>2, <1>3 DEF Moves, Placed, Importing, CategoryWrite, ProductWrite
<1>5. CatalogTypeOK' BY <1>2, QuietTyped, CalmTyped DEF history
<1> QED BY <1>1, <1>3, <1>4, <1>5, AskedAfter DEF Moves, Typed

LEMMA ResolveImageTyped ==
  ASSUME Typed, NEW r \in Request, ResolveImage(r)
  PROVE  Typed'
<1> DEFINE q == req[r]
<1> DEFINE how == IF q.job.kind \in ProductWrite THEN "slug" ELSE "write"
<1>1. Asked /\ req[r] \in Requests /\ Placed(req[r], Export[r]) BY DEF Typed, Asked
<1>2. UNCHANGED <<docs, history>> /\ q.at = "resolve" BY DEF ResolveImage
<1>3. CatalogTypeOK' BY <1>2, QuietTyped, CalmTyped DEF history
<1>4. CASE End(r, "refused")
  BY <1>3, <1>4, EndTyped DEF Typed
<1>5. CASE Resolved(r, q.job.image, how)
  <2>1. Cardinality(Categories) \in Nat BY Counting DEF Categories
  <2>2. q.job.image \in Asset \cup {None} BY <1>1 DEF Requests, Job
  <2>3. how \in Stages BY StageNames
  <2>4. Moves(r, how, q.cat, q.job.image, q.slug, Cardinality(Categories), q.doomed, q.held, q.todo)
    BY <1>1, <1>5, <2>1, <2>2, <2>3, ResolvedMoves
  <2>5. Placed(req'[r], Export[r])
    BY <1>1, <1>2, <2>4 DEF Moves, Placed, Importing, CategoryWrite, ProductWrite
  <2> QED BY <1>1, <1>3, <2>4, <2>5, AskedAfter DEF Moves, Typed
<1> QED BY <1>4, <1>5 DEF ResolveImage, ProductWrite

(* The record of r after a step, for a step that does not touch todo *)
LEMMA MovedTyped ==
  ASSUME Typed, NEW r \in Request, NEW how, NEW cat, NEW img, NEW slug, NEW order, NEW doomed, NEW held,
         Moves(r, how, cat, img, slug, order, doomed, held, req[r].todo),
         how \in {"done", "refused", "images", "purge", "final", "remove", "destroy", "park", "renumber"},
         how \in {"remove", "renumber"} => req[r].job.kind = "deleteCategory",
         how \in {"images", "purge", "park", "final"} => req[r].job.kind = "replaceCategories",
         how = "destroy" => req[r].job.kind = "deleteMedia",
         how = "final" => order >= 1
  PROVE  Asked'
<1>1. Asked /\ req[r] \in Requests /\ Placed(req[r], Export[r]) BY DEF Typed, Asked
<1>2. Placed(req'[r], Export[r]) BY <1>1 DEF Moves, Placed, Importing
<1> QED BY <1>1, <1>2, AskedAfter DEF Moves

LEMMA EndedTyped ==
  ASSUME Typed, NEW r \in Request, NEW how \in {"done", "refused"}, Written(r, how)
  PROVE  Asked'
<1>1. Asked BY DEF Typed
<1>2. how \in Stages \ {"slug", "write"} BY StageNames
<1> QED BY <1>1, <1>2, WrittenMoves, MovedTyped

LEMMA NamesTyped ==
  ASSUME Typed, NEW c, NEW a, Names(c, a)
  PROVE  raced' \subseteq CategoryId \cup Asset
BY DEF Typed, CatalogTypeOK, Names

LEMMA SavedIs ==
  ASSUME NEW S, NEW new \in S, NEW was, NEW stored \in S
  PROVE  Saved(new, was, stored) \in {new, stored}
BY DEF Saved

LEMMA ShownIs ==
  ASSUME NEW q, q.img \in Asset \cup {None}, q.was.image \in Asset \cup {None}
  PROVE  /\ Shown(q) \in Asset \cup {None}
         /\ \A a : Saved(Shown(q), q.was.image, a) \in {q.img, a}
BY DEF Shown, Saved

LEMMA SavedCategoryIs ==
  ASSUME NEW d \in CategoryDoc, NEW q \in Requests, q.was \in CategoryDoc, q.slug \in SlugOf
  PROVE  /\ SavedCategory(d, q) \in CategoryDoc
         /\ SavedCategory(d, q).order = d.order
         /\ SavedCategory(d, q).image \in {q.img, d.image}
<1> DEFINE n == IF q.job.name # None THEN Saved(Label(q.job.name, 1), q.was.name, d.name) ELSE d.name
<1> DEFINE s == Saved(q.slug, q.was.slug, d.slug)
<1> DEFINE a == Saved(Shown(q), q.was.image, d.image)
<1> DEFINE e == [d EXCEPT !.name = n, !.slug = s, !.image = a]
<1>1. d.name \in [of : Name \cup CategoryId, nth : 0..1] /\ d.slug \in SlugOf /\ d.image \in Asset \cup {None}
      /\ q.was.image \in Asset \cup {None}
  BY DEF CategoryDoc, SlugOf
<1>2. q.job.name \in Name \cup {None} /\ q.img \in Asset \cup {None} BY DEF Requests, Job
<1>3. n \in [of : Name \cup CategoryId, nth : 0..1] BY <1>1, <1>2 DEF Saved, Label
<1>4. s \in SlugOf BY <1>1 DEF Saved
<1>5. a \in {q.img, d.image} BY <1>1, <1>2, ShownIs
<1>6. SavedCategory(d, q) = e BY DEF CategoryDoc, SavedCategory
<1> HIDE DEF n, s, a
<1>7. e \in CategoryDoc /\ e.order = d.order /\ e.image = a
  BY <1>1, <1>2, <1>3, <1>4, <1>5 DEF CategoryDoc, SlugOf
<1> QED BY <1>5, <1>6, <1>7

LEMMA NewCategoryIs ==
  ASSUME NEW q \in Requests, q.job.name \in Name, q.slug \in SlugOf
  PROVE  NewCategory(q) \in CategoryDoc /\ NewCategory(q).image = q.img
<1>1. Label(q.job.name, 1) \in [of : Name \cup CategoryId, nth : 0..1] BY DEF Label
<1>2. q.img \in Asset \cup {None} /\ q.order \in Nat BY DEF Requests
<1> QED BY <1>1, <1>2 DEF NewCategory, CategoryDoc, SlugOf

(* The two ways WriteCategory ends, with an opaque document *)
LEMMA WriteCategoryWrites ==
  ASSUME Typed, NEW r \in Request, WriteCategory(r)
  PROVE  LET q == req[r]
             c == q.job.id
         IN  /\ c \in CategoryId /\ q \in Requests /\ q.job.kind \in CategoryWrite /\ q.at = "write"
             /\ UNCHANGED <<product, review, banner, media, cloud, base, fresh>>
             /\ \/ Written(r, "refused") /\ UNCHANGED <<category, raced, calm>>
                \/ \E d \in CategoryDoc :
                     /\ category' = [category EXCEPT ![c] = d]
                     /\ NameFree(d.name, c) /\ CategorySlugFree(d.slug, c)
                     /\ d.image = q.img \/ (c \in Categories /\ d.image = category[c].image)
                     /\ Names(None, q.img) /\ Disturbs(r) /\ Written(r, "done")
<1> DEFINE q == req[r]
<1> DEFINE c == q.job.id
<1> DEFINE create == q.job.kind = "createCategory"
<1> DEFINE d == IF create THEN NewCategory(q) ELSE SavedCategory(category[c], q)
<1>1. q \in Requests /\ Placed(q, Export[r]) BY DEF Typed, Asked
<1>2. q.job.kind \in CategoryWrite /\ q.at = "write" BY DEF WriteCategory, Jobs, CategoryWrite
<1>3. UNCHANGED <<product, review, banner, media, cloud, base, fresh>> BY DEF WriteCategory
<1>4. c \in CategoryId /\ q.slug \in SlugOf
      /\ (create => q.job.name \in Name) /\ (~create => q.was \in CategoryDoc)
  BY <1>1, <1>2 DEF Requests, Job, Placed, WellFormed, CategoryWrite
<1>5. \/ Written(r, "refused") /\ UNCHANGED <<category, raced, calm>>
      \/ /\ (create <=> c \notin Categories) /\ NameFree(d.name, c) /\ CategorySlugFree(d.slug, c)
         /\ category' = [category EXCEPT ![c] = d]
         /\ Names(None, q.img) /\ Disturbs(r) /\ Written(r, "done")
  BY DEF WriteCategory
<1>6. CASE (create <=> c \notin Categories)
  <2>1. CASE create
    <3>1. d \in CategoryDoc /\ d.image = q.img BY <1>1, <1>4, <2>1, NewCategoryIs
    <3> HIDE DEF d
    <3> QED BY <1>1, <1>2, <1>3, <1>4, <1>5, <3>1
  <2>2. CASE ~create
    <3>1. category[c] \in CategoryDoc BY <1>4, <1>6, <2>2 DEF Typed, CatalogTypeOK, Categories
    <3>2. d \in CategoryDoc /\ d.image \in {q.img, category[c].image}
      BY <1>1, <1>4, <2>2, <3>1, SavedCategoryIs
    <3> HIDE DEF d
    <3> QED BY <1>1, <1>2, <1>3, <1>4, <1>5, <1>6, <2>2, <3>2
  <2> QED BY <2>1, <2>2
<1>7. CASE ~(create <=> c \notin Categories)
  BY <1>1, <1>2, <1>3, <1>4, <1>5, <1>7
<1> QED BY <1>6, <1>7

LEMMA WriteCategoryTyped ==
  ASSUME Typed, NEW r \in Request, WriteCategory(r)
  PROVE  Typed'
<1> DEFINE q == req[r]
<1> DEFINE c == q.job.id
<1>1. c \in CategoryId /\ UNCHANGED <<product, review, banner, media, cloud, base, fresh>>
  BY WriteCategoryWrites
<1>2. CASE Written(r, "refused") /\ UNCHANGED <<category, raced, calm>>
  <2>1. CatalogTypeOK' BY <1>1, <1>2, QuietTyped, CalmTyped DEF docs
  <2> QED BY <1>2, <2>1, EndedTyped DEF Typed
<1>3. ASSUME NEW d \in CategoryDoc, category' = [category EXCEPT ![c] = d],
             Names(None, q.img), Disturbs(r), Written(r, "done")
      PROVE  Typed'
  <2>1. category' \in [CategoryId -> CategoryDoc \cup {None}]
    BY <1>1, <1>3 DEF Typed, CatalogTypeOK
  <2>2. CatalogTypeOK'
    BY <1>1, <1>3, <2>1, NamesTyped, CalmTyped DEF Typed, CatalogTypeOK
  <2> QED BY <1>3, <2>2, EndedTyped DEF Typed
<1> QED BY <1>2, <1>3, WriteCategoryWrites

LEMMA CheckDeleteTyped ==
  ASSUME Typed, NEW r \in Request, CheckDelete(r)
  PROVE  Typed'
<1> DEFINE q == req[r]
<1> DEFINE c == q.job.id
<1>1. Asked /\ q \in Requests /\ Placed(q, Export[r]) BY DEF Typed, Asked
<1>2. UNCHANGED <<docs, history>> /\ q.job.kind = "deleteCategory" BY DEF CheckDelete, Jobs
<1>3. CatalogTypeOK' BY <1>2, QuietTyped, CalmTyped DEF history
<1>4. CASE End(r, "refused")
  BY <1>3, <1>4, EndTyped DEF Typed
<1>5. CASE Dooms(r, {c}, "remove")
  <2>1. {c} \in SUBSET (CategoryId \cup Asset) BY <1>1, <1>2 DEF Placed, WellFormed
  <2>2. Moves(r, "remove", q.cat, q.img, q.slug, q.order, {c}, q.held, q.todo)
    BY <1>1, <1>5, <2>1, StageNames, DoomsMoves
  <2>3. Asked' BY <1>2, <2>2, MovedTyped
  <2> QED BY <1>3, <2>3 DEF Typed
<1> QED BY <1>4, <1>5 DEF CheckDelete

LEMMA RemovedTyped ==
  ASSUME Typed, NEW r \in Request, Removed(r)
  PROVE  /\ category' \in [CategoryId -> CategoryDoc \cup {None}]
         /\ raced' \subseteq CategoryId \cup Asset
         /\ calm' \subseteq Request
<1>1. req[r] \in Requests BY DEF Typed, Asked
<1>2. req[r].doomed \subseteq CategoryId \cup Asset BY <1>1 DEF Requests
<1> QED BY <1>2, CalmTyped DEF Removed, Typed, CatalogTypeOK

LEMMA RemoveCategoryTyped ==
  ASSUME Typed, NEW r \in Request, RemoveCategory(r)
  PROVE  Typed'
<1>1. Removed(r) /\ End(r, "renumber") /\ req[r].job.kind = "deleteCategory"
      /\ UNCHANGED <<product, review, banner, media, cloud, base, fresh>>
  BY DEF RemoveCategory, Jobs
<1>2. CatalogTypeOK' BY <1>1, RemovedTyped DEF Typed, CatalogTypeOK
<1>3. Asked' BY <1>1, EndTyped
<1> QED BY <1>2, <1>3 DEF Typed

LEMMA RenumberTyped ==
  ASSUME Typed, NEW r \in Request, Renumber(r)
  PROVE  Typed'
<1>1. /\ Disturbs(r) /\ End(r, "done")
      /\ UNCHANGED <<product, review, banner, media, cloud, raced, base, fresh>>
  BY DEF Renumber
<1>2. PICK rank \in [Categories -> 0..(Cardinality(Categories) - 1)] :
        category' = [c \in CategoryId |->
            IF c \in Categories THEN [category[c] EXCEPT !.order = rank[c]] ELSE None]
  BY DEF Renumber
<1>3. Cardinality(Categories) \in Nat BY Counting DEF Categories
<1>4. ASSUME NEW c \in Categories
      PROVE  [category[c] EXCEPT !.order = rank[c]] \in CategoryDoc
  <2>1. category[c] \in CategoryDoc BY DEF Typed, CatalogTypeOK, Categories
  <2>2. rank[c] \in Nat BY <1>3
  <2> QED BY <2>1, <2>2 DEF CategoryDoc
<1>5. category' \in [CategoryId -> CategoryDoc \cup {None}] BY <1>2, <1>4
<1> HIDE <1>2
<1>6. CatalogTypeOK' BY <1>1, <1>5, CalmTyped DEF Typed, CatalogTypeOK
<1>7. Asked' BY <1>1, EndTyped
<1> QED BY <1>6, <1>7 DEF Typed

LEMMA CheckReplaceTyped ==
  ASSUME Typed, NEW r \in Request, CheckReplace(r)
  PROVE  Typed'
<1> DEFINE q == req[r]
<1> DEFINE gone == Categories \ Listed(r)
<1>1. Asked BY DEF Typed
<1>2. /\ UNCHANGED <<docs, raced, base, fresh>> /\ Starts(r)
      /\ q.job.kind = "replaceCategories"
  BY DEF CheckReplace, Jobs
<1>3. CatalogTypeOK' BY <1>2, QuietTyped, CalmTyped
<1>4. CASE End(r, "refused")
  BY <1>3, <1>4, EndTyped DEF Typed
<1>5. CASE Dooms(r, gone, "images")
  <2>1. gone \in SUBSET (CategoryId \cup Asset) BY DEF Categories
  <2>2. Moves(r, "images", q.cat, q.img, q.slug, q.order, gone, q.held, q.todo)
    BY <1>1, <1>5, <2>1, StageNames, DoomsMoves
  <2>3. Asked' BY <1>2, <2>2, MovedTyped
  <2> QED BY <1>3, <2>3 DEF Typed
<1> QED BY <1>4, <1>5 DEF CheckReplace

(* The rows of a list are rows of categories. *)
LEMMA ListTyped ==
  ASSUME Asked, NEW r \in Request, NEW i \in DOMAIN req[r].job.list
  PROVE  LET row == req[r].job.list[i]
         IN  /\ i \in Nat \ {0} /\ i <= Len(req[r].job.list)
             /\ row.id \in CategoryId /\ row.name \in Name /\ row.image \in Asset \cup {None}
<1> DEFINE list == req[r].job.list
<1> DEFINE E == [id : CategoryId, name : Name, image : Asset \cup {None}]
<1>1. req[r] \in Requests BY DEF Asked
<1>2. list \in Seq(E) BY <1>1 DEF Requests, Job
<1> HIDE DEF list, E
<1>3. i \in 1..Len(list) /\ Len(list) \in Nat /\ list[i] \in E BY <1>2 DEF list
<1> QED BY <1>3 DEF list, E

LEMMA ResolveListTyped ==
  ASSUME Typed, NEW r \in Request, ResolveList(r)
  PROVE  Typed'
<1> DEFINE q == req[r]
<1> DEFINE list == q.job.list
<1> DEFINE used == {list[i].image : i \in DOMAIN list} \ {None}
<1>1. Asked BY DEF Typed
<1>2. UNCHANGED <<docs, history>> /\ q.job.kind = "replaceCategories"
  BY DEF ResolveList, Jobs
<1>3. CatalogTypeOK' BY <1>2, QuietTyped, CalmTyped DEF history
<1>4. CASE End(r, "refused")
  BY <1>3, <1>4, EndTyped DEF Typed
<1>5. CASE Keeps(r, used, "purge")
  <2>1. used \in SUBSET (CategoryId \cup Asset) BY <1>1, ListTyped
  <2>2. Moves(r, "purge", q.cat, q.img, q.slug, q.order, q.doomed, used, q.todo)
    BY <1>1, <1>5, <2>1, StageNames, KeepsMoves
  <2> HIDE DEF used
  <2>3. Asked' BY <1>2, <2>2, MovedTyped
  <2> QED BY <1>3, <2>3 DEF Typed
<1> QED BY <1>4, <1>5 DEF ResolveList

LEMMA PurgeTyped ==
  ASSUME Typed, NEW r \in Request, Purge(r)
  PROVE  Typed'
<1>1. Removed(r) /\ End(r, "park") /\ req[r].job.kind = "replaceCategories"
      /\ UNCHANGED <<product, review, banner, media, cloud, base, fresh>>
  BY DEF Purge, Jobs
<1>2. CatalogTypeOK' BY <1>1, RemovedTyped DEF Typed, CatalogTypeOK
<1>3. Asked' BY <1>1, EndTyped
<1> QED BY <1>2, <1>3 DEF Typed

LEMMA ParkedDoc ==
  ASSUME Typed, NEW c \in CategoryId
  PROVE  /\ ParkedNames(c) \in CategoryDoc
         /\ ParkedNames(c).name = Parked(c) /\ ParkedNames(c).slug = Parked(c)
         /\ c \in Categories => ParkedNames(c).image = category[c].image
         /\ c \notin Categories => ParkedNames(c).image = None
<1>1. Parked(c) \in [of : Name \cup CategoryId, nth : 0..1]
      /\ Parked(c) \in [of : Name \cup CategoryId, nth : Nat]
  BY DEF Parked
<1>2. CASE c \in Categories
  <2>1. category[c] \in CategoryDoc BY <1>2 DEF Typed, CatalogTypeOK, Categories
  <2> DEFINE k == Parked(c)
  <2>2. k \in [of : Name \cup CategoryId, nth : 0..1] /\ k \in [of : Name \cup CategoryId, nth : Nat] BY <1>1
  <2> HIDE DEF k
  <2> DEFINE d == [category[c] EXCEPT !.name = k, !.slug = k]
  <2>3. d \in CategoryDoc /\ d.name = k /\ d.slug = k /\ d.image = category[c].image
    BY <2>1, <2>2 DEF CategoryDoc
  <2>4. ParkedNames(c) = d BY <1>2 DEF ParkedNames, k
  <2> QED BY <1>2, <2>3, <2>4 DEF k
<1>3. CASE c \notin Categories
  BY <1>1, <1>3 DEF ParkedNames, CategoryDoc
<1> QED BY <1>2, <1>3

LEMMA ParkTyped ==
  ASSUME Typed, NEW r \in Request, Park(r)
  PROVE  Typed'
<1> DEFINE q == req[r]
<1>1. /\ Disturbs(r) /\ Reaches(r, 1) /\ q.job.kind = "replaceCategories"
      /\ UNCHANGED <<product, review, banner, media, cloud, raced, base, fresh>>
      /\ category' = [c \in CategoryId |-> IF c \in Listed(r) THEN ParkedNames(c) ELSE category[c]]
  BY DEF Park, Jobs
<1>2. category' \in [CategoryId -> CategoryDoc \cup {None}]
  BY <1>1, ParkedDoc DEF Typed, CatalogTypeOK
<1>3. CatalogTypeOK' BY <1>1, <1>2, CalmTyped DEF Typed, CatalogTypeOK
<1>4. Moves(r, "final", q.cat, q.img, q.slug, 1, q.doomed, q.held, q.todo)
  BY <1>1, ReachesMoves DEF Typed
<1>5. Asked' BY <1>1, <1>4, MovedTyped
<1> QED BY <1>3, <1>5 DEF Typed

LEMMA FinalRowTyped ==
  ASSUME Typed, NEW r \in Request, FinalRow(r)
  PROVE  Typed'
<1> DEFINE q == req[r]
<1> DEFINE i == q.order
<1> DEFINE row == q.job.list[i]
<1> DEFINE label == Label(row.name, 1)
<1> DEFINE d == [name |-> label, slug |-> label, order |-> i - 1, image |-> row.image]
<1>1. Asked /\ q \in Requests BY DEF Typed, Asked
<1>2. /\ q.job.kind = "replaceCategories" /\ i \in DOMAIN q.job.list
      /\ UNCHANGED <<product, review, banner, media, cloud, base, fresh>>
  BY Zenon DEF FinalRow, Jobs
<1>3. /\ i \in Nat \ {0} /\ row.id \in CategoryId /\ row.name \in Name /\ row.image \in Asset \cup {None}
  BY <1>1, <1>2, ListTyped
<1>4. CASE End(r, "failed") /\ UNCHANGED <<category, raced, calm>>
  <2>1. CatalogTypeOK' BY <1>2, <1>4, QuietTyped, CalmTyped DEF docs
  <2> QED BY <1>4, <2>1, EndTyped DEF Typed
<1>5. CASE /\ category' = [category EXCEPT ![row.id] = IF row.id \in Categories THEN d ELSE None]
           /\ Names(None, row.image) /\ Reaches(r, i + 1) /\ Disturbs(r)
  <2>1. d \in CategoryDoc BY <1>3 DEF CategoryDoc, Label
  <2> HIDE DEF d
  <2>2. category' \in [CategoryId -> CategoryDoc \cup {None}]
    BY Zenon, <1>3, <1>5, <2>1 DEF Typed, CatalogTypeOK
  <2>3. CatalogTypeOK'
    <3>1. raced' \subseteq CategoryId \cup Asset BY Zenon, <1>5, NamesTyped
    <3>2. calm' \subseteq Request BY Zenon, <1>5, CalmTyped
    <3> QED BY <1>2, <2>2, <3>1, <3>2 DEF Typed, CatalogTypeOK
  <2>4. Moves(r, "final", q.cat, q.img, q.slug, i + 1, q.doomed, q.held, q.todo)
    <3> DEFINE n == i + 1
    <3>1. n \in Nat BY <1>3
    <3>2. Reaches(r, n) BY Zenon, <1>5
    <3> HIDE DEF n
    <3>3. Moves(r, "final", q.cat, q.img, q.slug, n, q.doomed, q.held, q.todo)
      BY <1>1, <3>1, <3>2, ReachesMoves
    <3> QED BY Zenon, <3>3 DEF n
  <2>5. i + 1 >= 1 BY <1>3
  <2>6. Asked' BY <1>2, <2>4, <2>5, MovedTyped
  <2> QED BY <2>3, <2>6 DEF Typed
<1> QED BY Zenon, <1>4, <1>5 DEF FinalRow

LEMMA EndReplaceTyped ==
  ASSUME Typed, NEW r \in Request, EndReplace(r)
  PROVE  Typed'
<1> DEFINE q == req[r]
<1>1. UNCHANGED <<docs, history>> /\ Keeps(r, {}, "done") BY DEF EndReplace
<1>2. CatalogTypeOK' BY <1>1, QuietTyped, CalmTyped DEF history
<1>3. Moves(r, "done", q.cat, q.img, q.slug, q.order, q.doomed, {}, q.todo)
  BY <1>1, StageNames, KeepsMoves DEF Typed
<1>4. Asked' BY <1>3, MovedTyped
<1> QED BY <1>2, <1>4 DEF Typed

-----------------------------------------------------------------------------
(* A set of naturals that is not empty has a least element. *)
Below == {ss \in Nat \X Nat : ss[1] < ss[2]}

LEMMA LeastNatural ==
  ASSUME NEW S \in SUBSET Nat, S # {}
  PROVE  \E n \in S : \A m \in S : n <= m
<1>1. IsWellFoundedOn(Below, Nat) BY NatLessThanWellFounded DEF OpToRel, Below
<1>2. \E n \in S : \A m \in S : ~(<<m, n>> \in Below) BY <1>1, WFMin, Zenon
<1>3. PICK n \in S : \A m \in S : ~(<<m, n>> \in Below) BY <1>2
<1>4. \A m \in S : ~(m < n) BY <1>3 DEF Below
<1> QED BY <1>4

(* There is a number that no used slug has, and so a first one. *)
LEMMA FirstFreeIs ==
  ASSUME NEW n \in Name, NEW used, IsFiniteSet(used)
  PROVE  FirstFree(n, used) \in [of : Name, nth : Nat] /\ FirstFree(n, used) \notin used
<1> DEFINE m == Cardinality(used) + 1
<1> DEFINE Free == {k \in 1..m : Label(n, k) \notin used}
<1>1. Cardinality(used) \in Nat BY FS_CardinalityType
<1>2. Free # {}
  <2>1. SUFFICES ASSUME Free = {} PROVE FALSE OBVIOUS
  <2> DEFINE f == [k \in 1..m |-> Label(n, k)]
  <2>2. f \in [1..m -> used] BY <2>1
  <2>3. IsFiniteSet(1..m) /\ Cardinality(1..m) = m
    <3> HIDE DEF Free, f
    <3>1. m \in Nat BY <1>1
    <3>2. \A n1, n2 \in Int : IsFiniteSet(n1..n2)
                            /\ Cardinality(n1..n2) = (IF n1 > n2 THEN 0 ELSE n2 - n1 + 1)
      BY FS_Interval
    <3> HIDE DEF m
    <3> QED BY <3>1, <3>2
  <2> HIDE DEF f
  <2>4. \E x, y \in 1..m : x # y /\ f[x] = f[y] BY <1>1, <2>2, <2>3, FS_PigeonHole
  <2>5. \A x, y \in 1..m : f[x] = f[y] => x = y BY DEF f, Label
  <2> QED BY <2>4, <2>5
<1>3. Free \in SUBSET Nat BY <1>1
<1> HIDE DEF Free
<1>4. PICK k \in Free : \A i \in Free : k <= i BY <1>2, <1>3, LeastNatural
<1> DEFINE All == {Label(n, i) : i \in 1..(Cardinality(used) + 1)}
<1> DEFINE Good(s) == s \notin used /\ \A i \in 1..(s.nth - 1) : Label(n, i) \in used
<1>5. k \in 1..m /\ Label(n, k) \notin used BY <1>4 DEF Free
<1>6. \A i \in 1..(k - 1) : Label(n, i) \in used
  <2>1. TAKE i \in 1..(k - 1)
  <2>2. i \in 1..m /\ i < k BY <1>1, <1>5
  <2>3. i \notin Free BY <1>1, <1>3, <1>4, <2>2
  <2> QED BY <2>2, <2>3 DEF Free
<1>7. Label(n, k) \in All /\ Good(Label(n, k)) BY <1>5, <1>6 DEF Label
<1>8. FirstFree(n, used) = CHOOSE s \in All : Good(s) BY DEF FirstFree
<1> HIDE DEF Good
<1>9. FirstFree(n, used) \in All /\ Good(FirstFree(n, used)) BY <1>7, <1>8
<1>10. FirstFree(n, used) \notin used BY <1>9 DEF Good
<1>11. All \subseteq [of : Name, nth : Nat] BY <1>1 DEF Label
<1> QED BY <1>9, <1>10, <1>11

LEMMA TakenFinite ==
  ASSUME NEW S \in SUBSET Products
  PROVE  IsFiniteSet({product[p].slug : p \in S})
<1> DEFINE taken == {product[p].slug : p \in S}
<1> DEFINE f == [p \in S |-> product[p].slug]
<1>1. IsFiniteSet(S) BY Counting DEF Products
<1>2. f \in Surjection(S, taken) BY DEF Surjection
<1> QED BY <1>1, <1>2, FS_Surjection

LEMMA StartProductMoves ==
  ASSUME Typed, NEW r \in Request, StartProduct(r)
  PROVE  LET q == req[r]
         IN  /\ UNCHANGED <<docs, history>> /\ q.job.kind \in ProductWrite
             /\ \E c \in Categories :
                  Moves(r, "resolve", c, q.img, q.slug, q.order, q.doomed, q.held, q.todo)
             /\ q.job.kind = "updateProduct" => req'[r].was \in ProductDoc
<1> DEFINE q == req[r]
<1> DEFINE d == product[q.job.id]
<1>1. /\ UNCHANGED <<docs, history>> /\ q.job.kind \in ProductWrite
      /\ q.job.kind = "createProduct" <=> q.job.id \notin Products
      /\ \E c \in Categories : Finds(r, d, c)
  BY DEF StartProduct, Jobs, ProductWrite
<1>2. PICK c \in Categories : Finds(r, d, c) BY <1>1
<1>3. Asked /\ q \in Requests /\ Placed(q, Export[r]) BY DEF Typed, Asked
<1>4. c \in CategoryId BY DEF Categories
<1>5. q.job.id \in ProductId BY <1>1, <1>3 DEF Placed, WellFormed, ProductWrite
<1>6. d \in ProductDoc \cup {None} /\ (q.job.kind = "updateProduct" => d \in ProductDoc)
  BY <1>1, <1>5 DEF Typed, CatalogTypeOK, Products
<1> HIDE DEF d
<1>7. /\ Moves(r, "resolve", c, q.img, q.slug, q.order, q.doomed, q.held, q.todo)
      /\ req'[r].was = d
  BY <1>2, <1>3, <1>4, <1>6, FindsMoves
<1> QED BY <1>1, <1>6, <1>7

LEMMA StartProductTyped ==
  ASSUME Typed, NEW r \in Request, StartProduct(r)
  PROVE  Typed'
<1> DEFINE q == req[r]
<1>1. Asked /\ q \in Requests /\ Placed(q, Export[r]) BY DEF Typed, Asked
<1>2. /\ UNCHANGED <<docs, history>> /\ q.job.kind \in ProductWrite
      /\ q.job.kind = "updateProduct" => req'[r].was \in ProductDoc
  BY StartProductMoves
<1>3. PICK c \in Categories :
        Moves(r, "resolve", c, q.img, q.slug, q.order, q.doomed, q.held, q.todo)
  BY StartProductMoves
<1>4. c \in CategoryId BY DEF Categories
<1>5. Placed(req'[r], Export[r])
  BY <1>1, <1>2, <1>3, <1>4 DEF Moves, Placed, Importing, CategoryWrite, ProductWrite
<1>6. CatalogTypeOK' BY <1>2, QuietTyped, CalmTyped DEF history
<1> QED BY <1>1, <1>3, <1>5, <1>6, AskedAfter DEF Moves, Typed

LEMMA ChooseSlugMoves ==
  ASSUME Typed, NEW r \in Request, ChooseSlug(r)
  PROVE  LET q == req[r]
         IN  /\ UNCHANGED <<docs, history>> /\ q.job.kind \in ProductWrite /\ q.at = "slug"
             /\ \/ Written(r, "refused")
                \/ \E s \in [of : Name, nth : Nat] :
                     Moves(r, "write", q.cat, q.img, s, q.order, q.doomed, q.held, q.todo)
<1> DEFINE q == req[r]
<1> DEFINE j == q.job
<1> DEFINE holders == {x \in Products : j.kind = "createProduct" \/ x # j.id}
<1> DEFINE taken == {product[p].slug : p \in holders}
<1> DEFINE new == IF j.slug # None THEN Label(j.slug, 1) ELSE FirstFree(j.name, taken)
<1>1. UNCHANGED <<docs, history>> /\ j.kind \in ProductWrite /\ q.at = "slug"
  BY DEF ChooseSlug, Jobs, ProductWrite
<1>2. Asked /\ q \in Requests /\ Placed(q, Export[r]) BY DEF Typed, Asked
<1>3. ASSUME NEW s \in [of : Name, nth : Nat], Slugs(r, s, "write")
      PROVE  Moves(r, "write", q.cat, q.img, s, q.order, q.doomed, q.held, q.todo)
  <2>1. s \in SlugOf BY DEF SlugOf
  <2> QED BY <1>2, <1>3, <2>1, StageNames, SlugsMoves
<1>4. new \in [of : Name, nth : Nat]
  <2>1. j.name \in Name /\ j.slug \in Name \cup {None}
    BY <1>1, <1>2 DEF Requests, Job, Placed, WellFormed, ProductWrite
  <2>2. IsFiniteSet(taken) BY TakenFinite
  <2> HIDE DEF taken
  <2> QED BY <2>1, <2>2, FirstFreeIs DEF Label
<1>5. j.kind = "updateProduct" => q.was.slug \in [of : Name, nth : Nat]
  BY <1>1, <1>2 DEF Placed, ProductDoc
<1>6. \/ j.kind # "createProduct" /\ Slugs(r, q.was.slug, "write")
      \/ Written(r, "refused")
      \/ Slugs(r, new, "write")
  BY DEF ChooseSlug
<1> HIDE DEF new
<1> QED BY <1>1, <1>3, <1>4, <1>5, <1>6 DEF ProductWrite

LEMMA ChooseSlugTyped ==
  ASSUME Typed, NEW r \in Request, ChooseSlug(r)
  PROVE  Typed'
<1> DEFINE q == req[r]
<1>1. UNCHANGED <<docs, history>> /\ q.job.kind \in ProductWrite /\ q.at = "slug"
  BY ChooseSlugMoves
<1>2. CatalogTypeOK' BY <1>1, QuietTyped, CalmTyped DEF history
<1>3. CASE Written(r, "refused")
  BY <1>2, <1>3, EndedTyped DEF Typed
<1>4. Asked /\ q \in Requests /\ Placed(q, Export[r]) BY DEF Typed, Asked
<1>5. ASSUME NEW s \in [of : Name, nth : Nat],
             Moves(r, "write", q.cat, q.img, s, q.order, q.doomed, q.held, q.todo)
      PROVE  Typed'
  <2>1. Placed(req'[r], Export[r])
    BY <1>1, <1>4, <1>5 DEF Moves, Placed, Importing, CategoryWrite, ProductWrite
  <2> QED BY <1>2, <1>4, <1>5, <2>1, AskedAfter DEF Moves, Typed
<1> QED BY <1>3, <1>5, ChooseSlugMoves

LEMMA UpdatedIs ==
  ASSUME NEW d \in ProductDoc, NEW q, q.cat \in CategoryId, q.img \in Asset \cup {None},
         q.slug \in [of : Name, nth : Nat], q.was \in ProductDoc
  PROVE  /\ Updated(d, q) \in ProductDoc
         /\ Updated(d, q).cat \in {q.cat, d.cat}
         /\ Updated(d, q).image \in {q.img, d.image}
         /\ Updated(d, q).count = d.count
<1> DEFINE c == Saved(q.cat, q.was.cat, d.cat)
<1> DEFINE s == Saved(q.slug, q.was.slug, d.slug)
<1> DEFINE a == Saved(Shown(q), q.was.image, d.image)
<1> DEFINE e == [d EXCEPT !.cat = c, !.slug = s, !.image = a]
<1>1. d.image \in Asset \cup {None} /\ q.was.image \in Asset \cup {None}
      /\ d.cat \in CategoryId /\ d.slug \in [of : Name, nth : Nat]
  BY DEF ProductDoc
<1>2. c \in {q.cat, d.cat} /\ c \in CategoryId BY <1>1 DEF Saved
<1>3. s \in [of : Name, nth : Nat] BY <1>1 DEF Saved
<1>4. a \in {q.img, d.image} /\ a \in Asset \cup {None} BY <1>1, ShownIs
<1>5. Updated(d, q) = e BY DEF ProductDoc, Updated
<1> HIDE DEF c, s, a
<1>6. e \in ProductDoc /\ e.cat = c /\ e.image = a /\ e.count = d.count
  BY <1>2, <1>3, <1>4 DEF ProductDoc
<1> QED BY <1>2, <1>4, <1>5, <1>6

(* The two ways WriteProduct ends, with opaque documents *)
LEMMA WriteProductDoes ==
  ASSUME Typed, NEW r \in Request, WriteProduct(r)
  PROVE  LET q == req[r]
             p == q.job.id
         IN  /\ p \in ProductId /\ q.cat \in CategoryId /\ q.img \in Asset \cup {None}
             /\ q.job.kind \in ProductWrite /\ q.at = "write"
             /\ UNCHANGED <<category, review, banner, media, cloud, fresh>>
             /\ \/ Written(r, "refused") /\ UNCHANGED <<product, raced, calm, base>>
                \/ /\ Names(q.cat, q.img) /\ Disturbs(r) /\ Written(r, "done")
                   /\ \E d \in ProductDoc :
                        /\ product' = [product EXCEPT ![p] = d]
                        /\ \/ /\ q.job.kind = "createProduct" /\ p \notin Products
                              /\ d.cat = q.cat /\ d.image = q.img /\ d.count = q.job.count
                              /\ q.job.count \in Nat
                              /\ base' = [base EXCEPT ![p] = q.job.count - Cardinality(CountedReviews(p))]
                           \/ /\ q.job.kind = "updateProduct" /\ p \in Products
                              /\ product[p] \in ProductDoc
                              /\ d.cat \in {q.cat, product[p].cat}
                              /\ d.image \in {q.img, product[p].image}
                              /\ d.count = product[p].count
                              /\ UNCHANGED base
<1> DEFINE q == req[r]
<1> DEFINE p == q.job.id
<1> DEFINE create == q.job.kind = "createProduct"
<1> DEFINE Ends == Names(q.cat, q.img) /\ Disturbs(r) /\ Written(r, "done")
<1>1. q \in Requests /\ Placed(q, Export[r]) BY DEF Typed, Asked
<1>2. q.job.kind \in ProductWrite /\ q.at = "write" BY DEF WriteProduct, Jobs, ProductWrite
<1>3. p \in ProductId /\ q.cat \in CategoryId /\ q.img \in Asset \cup {None}
      /\ q.slug \in [of : Name, nth : Nat] /\ q.job.count \in Nat
      /\ (~create => q.was \in ProductDoc)
  BY <1>1, <1>2 DEF Requests, Job, Placed, WellFormed, ProductWrite
<1>4. UNCHANGED <<category, review, banner, media, cloud, fresh>> BY DEF WriteProduct
<1>5. CASE Written(r, "refused") /\ UNCHANGED <<product, raced, calm, base>>
  BY <1>2, <1>3, <1>4, <1>5
<1>6. CASE create
  <2> DEFINE d == Created(q)
  <2>1. \/ Written(r, "refused") /\ UNCHANGED <<product, raced, calm, base>>
        \/ /\ p \notin Products
           /\ product' = [product EXCEPT ![p] = d]
           /\ base' = [base EXCEPT ![p] = q.job.count - Cardinality(CountedReviews(p))]
           /\ Ends
    BY <1>6 DEF WriteProduct
  <2>2. d \in ProductDoc /\ d.cat = q.cat /\ d.image = q.img /\ d.count = q.job.count
    BY <1>3 DEF Created, ProductDoc
  <2> HIDE DEF d
  <2> QED BY <1>2, <1>3, <1>4, <1>5, <1>6, <2>1, <2>2
<1>7. CASE ~create
  <2> DEFINE d == Updated(product[p], q)
  <2>1. \/ Written(r, "refused") /\ UNCHANGED <<product, raced, calm, base>>
        \/ /\ p \in Products
           /\ product' = [product EXCEPT ![p] = d]
           /\ UNCHANGED base
           /\ Ends
    BY <1>7 DEF WriteProduct
  <2>2. CASE p \in Products
    <3>1. product[p] \in ProductDoc BY <2>2 DEF Products, Typed, CatalogTypeOK
    <3>2. /\ d \in ProductDoc /\ d.cat \in {q.cat, product[p].cat}
          /\ d.image \in {q.img, product[p].image} /\ d.count = product[p].count
      BY <1>3, <1>7, <3>1, UpdatedIs
    <3>3. q.job.kind = "updateProduct" BY <1>2, <1>7 DEF ProductWrite
    <3> HIDE DEF d
    <3> QED BY <1>2, <1>3, <1>4, <1>5, <2>1, <2>2, <3>1, <3>2, <3>3
  <2> QED BY <1>5, <2>1, <2>2
<1> QED BY <1>6, <1>7

LEMMA WriteProductTyped ==
  ASSUME Typed, NEW r \in Request, WriteProduct(r)
  PROVE  Typed'
<1> DEFINE q == req[r]
<1> DEFINE p == q.job.id
<1>1. p \in ProductId /\ q.cat \in CategoryId /\ q.img \in Asset \cup {None}
      /\ UNCHANGED <<category, review, banner, media, cloud, fresh>>
  BY WriteProductDoes
<1>2. CASE Written(r, "refused") /\ UNCHANGED <<product, raced, calm, base>>
  <2>1. CatalogTypeOK' BY <1>1, <1>2, QuietTyped, CalmTyped DEF docs
  <2> QED BY <1>2, <2>1, EndedTyped DEF Typed
<1>3. CASE Names(q.cat, q.img) /\ Disturbs(r) /\ Written(r, "done")
  <2>1. Cardinality(CountedReviews(p)) \in Nat BY Counting DEF CountedReviews, LiveReviews, Reviews
  <2>2. base' \in [ProductId -> Int]
    BY <1>1, <1>3, <2>1, WriteProductDoes DEF Typed, CatalogTypeOK
  <2>3. product' \in [ProductId -> ProductDoc \cup {None}]
    BY <1>1, WriteProductDoes DEF Typed, CatalogTypeOK
  <2>4. CatalogTypeOK' BY <1>1, <1>3, <2>2, <2>3, NamesTyped, CalmTyped DEF Typed, CatalogTypeOK
  <2> QED BY <1>3, <2>4, EndedTyped DEF Typed
<1> QED BY <1>2, <1>3, WriteProductDoes

LEMMA ArchiveTyped ==
  ASSUME Typed, NEW r \in Request, Archive(r)
  PROVE  Typed'
<1> DEFINE p == req[r].job.id
<1>1. /\ Disturbs(r) /\ End(r, "done") /\ p \in Products
      /\ UNCHANGED <<category, review, banner, media, cloud, raced, base, fresh>>
      /\ product' = [product EXCEPT ![p].archived = ~@]
  BY DEF Archive
<1>2. p \in ProductId /\ product[p] \in ProductDoc BY <1>1 DEF Products, Typed, CatalogTypeOK
<1>3. [product[p] EXCEPT !.archived = ~@] \in ProductDoc BY <1>2 DEF ProductDoc
<1>4. product' \in [ProductId -> ProductDoc \cup {None}]
  BY <1>1, <1>2, <1>3 DEF Typed, CatalogTypeOK
<1>5. CatalogTypeOK' BY <1>1, <1>4, CalmTyped DEF Typed, CatalogTypeOK
<1>6. Asked' BY <1>1, EndTyped
<1> QED BY <1>5, <1>6 DEF Typed

LEMMA AssetJob ==
  ASSUME Typed, NEW r \in Request, req[r].job.kind \in {"upload", "reregister", "deleteMedia"}
  PROVE  req[r].job.id \in Asset
BY DEF Typed, Asked, Placed, WellFormed

LEMMA UploadTyped ==
  ASSUME Typed, NEW r \in Request, Upload(r)
  PROVE  Typed'
<1> DEFINE a == req[r].job.id
<1>1. /\ cloud' = cloud \cup {a} /\ fresh' = fresh \cup {a} /\ End(r, "register")
      /\ UNCHANGED <<category, product, review, banner, media, raced, calm, base>>
      /\ req[r].job.kind = "upload"
  BY DEF Upload, Jobs
<1>2. a \in Asset BY <1>1, AssetJob
<1>3. CatalogTypeOK' BY <1>1, <1>2 DEF Typed, CatalogTypeOK
<1>4. Asked' BY <1>1, EndTyped
<1> QED BY <1>3, <1>4 DEF Typed

LEMMA RegisterMediaTyped ==
  ASSUME Typed, NEW r \in Request, RegisterMedia(r)
  PROVE  Typed'
<1> DEFINE a == req[r].job.id
<1>1. /\ media' = media \cup {a} /\ fresh' = fresh \ {a} /\ End(r, "done")
      /\ UNCHANGED <<category, product, review, banner, cloud, raced, calm, base>>
      /\ req[r].job.kind \in {"upload", "reregister"}
  BY DEF RegisterMedia, Jobs
<1>2. a \in Asset BY <1>1, AssetJob
<1>3. CatalogTypeOK' BY <1>1, <1>2 DEF Typed, CatalogTypeOK
<1>4. Asked' BY <1>1, EndTyped
<1> QED BY <1>3, <1>4 DEF Typed

LEMMA CheckMediaTyped ==
  ASSUME Typed, NEW r \in Request, CheckMedia(r)
  PROVE  Typed'
<1> DEFINE q == req[r]
<1> DEFINE a == q.job.id
<1>1. UNCHANGED <<docs, history>> /\ q.job.kind = "deleteMedia" BY DEF CheckMedia, Jobs
<1>2. CatalogTypeOK' BY <1>1, QuietTyped, CalmTyped DEF history
<1>3. CASE End(r, "refused")
  BY <1>2, <1>3, EndTyped DEF Typed
<1>4. CASE Dooms(r, {a}, "destroy")
  <2>1. {a} \in SUBSET (CategoryId \cup Asset) BY <1>1, AssetJob
  <2>2. Moves(r, "destroy", q.cat, q.img, q.slug, q.order, {a}, q.held, q.todo)
    BY <1>4, <2>1, StageNames, DoomsMoves DEF Typed
  <2>3. Asked' BY <1>1, <2>2, MovedTyped
  <2> QED BY <1>2, <2>3 DEF Typed
<1> QED BY <1>3, <1>4 DEF CheckMedia

LEMMA DestroyTyped ==
  ASSUME Typed, NEW r \in Request, NEW answer, NEW gone \in BOOLEAN, Destroy(r, answer, gone)
  PROVE  Typed'
<1> DEFINE a == req[r].job.id
<1>1. /\ cloud' \subseteq cloud /\ raced' \subseteq raced \cup {a} /\ End(r, AfterDestroy(answer))
      /\ UNCHANGED <<category, product, review, banner, media, calm, base, fresh>>
      /\ req[r].job.kind = "deleteMedia"
  BY DEF Destroy, Jobs
<1>2. a \in Asset BY <1>1, AssetJob
<1>3. CatalogTypeOK' BY <1>1, <1>2 DEF Typed, CatalogTypeOK
<1>4. AfterDestroy(answer) \in {"refused", "unrow"} BY DEF AfterDestroy
<1>5. Asked' BY <1>1, <1>4, EndTyped
<1> QED BY <1>3, <1>5 DEF Typed

(* Undoomed leaves everything but the doomed sets, and r's statement. *)
LEMMA UndoomedMoves ==
  ASSUME Asked, NEW r \in Request, Undoomed(r)
  PROVE  /\ req' \in [Request -> Requests]
         /\ \A x \in Request :
              /\ req'[x].job = req[x].job
              /\ req'[x].was = req[x].was
              /\ req'[x].at = (IF x = r THEN "done" ELSE req[x].at)
              /\ req'[x].cat = req[x].cat
              /\ req'[x].img = req[x].img
              /\ req'[x].slug = req[x].slug
              /\ req'[x].order = req[x].order
              /\ req'[x].doomed = req[x].doomed \ req[r].doomed
              /\ req'[x].held = req[x].held
              /\ req'[x].todo = req[x].todo
<1> DEFINE gone == req[r].doomed
<1> HIDE DEF gone
<1>1. SUFFICES ASSUME NEW x \in Request
               PROVE  /\ req'[x] \in Requests
                      /\ req'[x].job = req[x].job
                      /\ req'[x].was = req[x].was
                      /\ req'[x].at = (IF x = r THEN "done" ELSE req[x].at)
                      /\ req'[x].cat = req[x].cat
                      /\ req'[x].img = req[x].img
                      /\ req'[x].slug = req[x].slug
                      /\ req'[x].order = req[x].order
                      /\ req'[x].doomed = req[x].doomed \ gone
                      /\ req'[x].held = req[x].held
                      /\ req'[x].todo = req[x].todo
  BY Zenon DEF Undoomed, gone
<1> DEFINE how == IF x = r THEN "done" ELSE req[x].at
<1> DEFINE ks == req[x].doomed \ gone
<1>2. req[x] \in Requests BY DEF Asked
<1>3. how \in Stages BY <1>2, StageNames DEF Requests
<1>4. ks \in SUBSET (CategoryId \cup Asset) BY <1>2 DEF Requests
<1>5. req'[x] = [req[x] EXCEPT !.at = how, !.doomed = ks]
  <2>1. req'[x] = [req[x] EXCEPT !.at = how, !.doomed = @ \ req[r].doomed] BY Zenon DEF Undoomed
  <2> QED BY <1>2, <2>1 DEF gone, Requests
<1> HIDE DEF how, ks
<1> DEFINE q == [req[x] EXCEPT !.at = how, !.doomed = ks]
<1>6. q \in Requests BY <1>2, <1>3, <1>4 DEF Requests
<1>7. /\ q.job = req[x].job /\ q.was = req[x].was /\ q.at = how /\ q.cat = req[x].cat /\ q.img = req[x].img
      /\ q.slug = req[x].slug /\ q.order = req[x].order /\ q.doomed = ks
      /\ q.held = req[x].held /\ q.todo = req[x].todo
  BY <1>2 DEF Requests
<1> HIDE DEF q
<1>8. req'[x] = q BY <1>5 DEF q
<1> QED BY <1>6, <1>7, <1>8 DEF how, ks

LEMMA DeleteRowTyped ==
  ASSUME Typed, NEW r \in Request, DeleteRow(r)
  PROVE  Typed'
<1>1. /\ media' \subseteq media /\ Undoomed(r)
      /\ UNCHANGED <<category, product, review, banner, cloud, raced, calm, base, fresh>>
  BY DEF DeleteRow, history
<1>2. CatalogTypeOK' BY <1>1 DEF Typed, CatalogTypeOK
<1>3. Asked BY DEF Typed
<1>4. ASSUME NEW x \in Request PROVE Placed(req'[x], Export[x])
  <2>1. Placed(req[x], Export[x]) BY <1>3 DEF Asked
  <2>2. /\ req'[x].job = req[x].job /\ req'[x].was = req[x].was /\ req'[x].at \in {"done", req[x].at}
        /\ req'[x].cat = req[x].cat /\ req'[x].slug = req[x].slug
        /\ req'[x].order = req[x].order /\ req'[x].todo = req[x].todo /\ req'[x].held = req[x].held
    BY <1>1, <1>3, UndoomedMoves
  <2> QED BY <2>1, <2>2 DEF Placed, Planned, Importing, CategoryWrite, ProductWrite
<1>5. Asked' BY <1>1, <1>3, <1>4, UndoomedMoves DEF Asked
<1> QED BY <1>2, <1>5 DEF Typed

LEMMA SetBannerTyped ==
  ASSUME Typed, NEW r \in Request, SetBanner(r)
  PROVE  Typed'
<1>1. /\ banner' = req[r].job.image /\ Names(None, banner') /\ Disturbs(r) /\ End(r, "done")
      /\ UNCHANGED <<category, product, review, media, cloud, base, fresh>>
  BY DEF SetBanner
<1>2. banner' \in Asset \cup {None} BY <1>1 DEF Typed, Asked, Requests, Job
<1>3. CatalogTypeOK' BY <1>1, <1>2, NamesTyped, CalmTyped DEF Typed, CatalogTypeOK
<1>4. Asked' BY <1>1, EndTyped
<1> QED BY <1>3, <1>4 DEF Typed

LEMMA StartReviewTyped ==
  ASSUME Typed, NEW r \in Request, StartReview(r)
  PROVE  Typed'
<1>1. UNCHANGED <<docs, history>> /\ End(r, "insert") BY DEF StartReview
<1>2. CatalogTypeOK' BY <1>1, QuietTyped, CalmTyped DEF history
<1>3. Asked' BY <1>1, EndTyped
<1> QED BY <1>2, <1>3 DEF Typed

LEMMA CountIsNat ==
  ASSUME Typed, NEW p \in Products
  PROVE  product[p].count \in Nat
<1>1. product[p] \in ProductDoc BY DEF Products, Typed, CatalogTypeOK
<1> QED BY <1>1 DEF ProductDoc

(* A product's count is put to n. *)
LEMMA Recounted ==
  ASSUME Typed, NEW p \in Products, NEW n \in Nat
  PROVE  /\ [product EXCEPT ![p].count = n] \in [ProductId -> ProductDoc \cup {None}]
         /\ p \in ProductId /\ product[p] \in ProductDoc /\ product[p].count \in Nat
         /\ \A o \in ProductId \ {p} : [product EXCEPT ![p].count = n][o] = product[o]
         /\ LET d == [product EXCEPT ![p].count = n][p]
            IN  /\ d # None /\ d.count = n /\ d.cat = product[p].cat
                /\ d.image = product[p].image /\ d.slug = product[p].slug
<1>1. p \in ProductId /\ product[p] \in ProductDoc /\ product \in [ProductId -> ProductDoc \cup {None}]
  BY DEF Products, Typed, CatalogTypeOK
<1>2. product[p].count \in Nat BY <1>1 DEF ProductDoc
<1> DEFINE d == [product[p] EXCEPT !.count = n]
<1>3. d \in ProductDoc /\ d.count = n /\ d.cat = product[p].cat /\ d.image = product[p].image
      /\ d.slug = product[p].slug
  BY <1>1 DEF ProductDoc
<1>4. [product EXCEPT ![p].count = n] = [product EXCEPT ![p] = d] BY <1>1
<1> HIDE DEF d
<1>5. d # None BY <1>3, CatalogConstants
<1> QED BY <1>1, <1>2, <1>3, <1>4, <1>5

LEMMA InsertReviewDoes ==
  ASSUME Typed, NEW r \in Request, InsertReview(r)
  PROVE  LET p == req[r].job.id
             u == req[r].job.user
         IN  /\ p \in ProductId /\ UNCHANGED <<category, banner, media, cloud, history>>
             /\ \/ End(r, "refused") /\ UNCHANGED <<product, review>>
                \/ \E v \in NewReview \ Reviews :
                     /\ review' = [review EXCEPT ![v] = [product |-> p, user |-> u, approved |-> TRUE, live |-> TRUE]]
                     /\ [product |-> p, user |-> u, approved |-> TRUE, live |-> TRUE] \in ReviewDoc
                     /\ IF p \in Products THEN product' = [product EXCEPT ![p].count = product[p].count + 1]
                                          ELSE UNCHANGED product
                     /\ End(r, "done")
<1> DEFINE p == req[r].job.id
<1> DEFINE u == req[r].job.user
<1> DEFINE v == CHOOSE x \in NewReview : x \notin Reviews
<1>1. req[r].job.kind = "review" /\ NewReview \ Reviews # {} BY DEF InsertReview, Jobs
<1>2. p \in ProductId /\ u \in Customer \cup {None}
  BY <1>1 DEF Typed, Asked, Requests, Job, Placed, WellFormed
<1>3. v \in NewReview \ Reviews BY <1>1
<1>4. UNCHANGED <<category, banner, media, cloud, history>> BY DEF InsertReview
<1>5. [product |-> p, user |-> u, approved |-> TRUE, live |-> TRUE] \in ReviewDoc BY <1>2 DEF ReviewDoc
<1>6. \/ End(r, "refused") /\ UNCHANGED <<product, review>>
      \/ /\ review' = [review EXCEPT ![v] = [product |-> p, user |-> u, approved |-> TRUE, live |-> TRUE]]
         /\ product' = IF p \in Products THEN [product EXCEPT ![p].count = @ + 1] ELSE product
         /\ End(r, "done")
  BY DEF InsertReview
<1>7. p \in Products => [product EXCEPT ![p].count = @ + 1] = [product EXCEPT ![p].count = product[p].count + 1]
  OBVIOUS
<1> QED BY <1>2, <1>3, <1>4, <1>5, <1>6, <1>7

LEMMA InsertReviewTyped ==
  ASSUME Typed, NEW r \in Request, InsertReview(r)
  PROVE  Typed'
<1> DEFINE p == req[r].job.id
<1> DEFINE u == req[r].job.user
<1>1. UNCHANGED <<category, banner, media, cloud, history>> BY InsertReviewDoes
<1>2. CASE End(r, "refused") /\ UNCHANGED <<product, review>>
  <2>1. CatalogTypeOK' BY <1>1, <1>2, QuietTyped, CalmTyped DEF docs, history
  <2> QED BY <1>2, <2>1, EndTyped DEF Typed
<1>3. CASE \E v \in NewReview \ Reviews :
             /\ review' = [review EXCEPT ![v] = [product |-> p, user |-> u, approved |-> TRUE, live |-> TRUE]]
             /\ [product |-> p, user |-> u, approved |-> TRUE, live |-> TRUE] \in ReviewDoc
             /\ IF p \in Products THEN product' = [product EXCEPT ![p].count = product[p].count + 1]
                                  ELSE UNCHANGED product
             /\ End(r, "done")
  <2>1. review' \in [ReviewId -> ReviewDoc \cup {None}]
    BY <1>3 DEF Typed, CatalogTypeOK
  <2>2. product' \in [ProductId -> ProductDoc \cup {None}]
    <3>1. CASE p \in Products
      <4> DEFINE n == product[p].count + 1
      <4>1. n \in Nat BY <3>1, CountIsNat
      <4>2. product' = [product EXCEPT ![p].count = n] BY <1>3, <3>1
      <4> HIDE DEF n
      <4> QED BY <3>1, <4>1, <4>2, Recounted
    <3>2. CASE p \notin Products BY <1>3, <3>2 DEF Typed, CatalogTypeOK
    <3> QED BY <3>1, <3>2
  <2>3. CatalogTypeOK' BY <1>1, <2>1, <2>2 DEF history, Typed, CatalogTypeOK
  <2> QED BY <1>3, <2>3, EndTyped DEF Typed
<1> QED BY <1>2, <1>3, InsertReviewDoes

LEMMA DeleteReviewDoes ==
  ASSUME Typed, NEW r \in Request, DeleteReview(r)
  PROVE  LET v == req[r].job.id
             p == review[v].product
         IN  /\ v \in Reviews /\ review[v].live /\ review[v] \in ReviewDoc /\ p \in ProductId
             /\ review' = [review EXCEPT ![v].live = FALSE]
             /\ IF review[v].approved /\ p \in Products
                THEN product' = [product EXCEPT ![p].count = CountWithout(product[p].count)]
                ELSE UNCHANGED product
             /\ End(r, "done")
             /\ UNCHANGED <<category, banner, media, cloud, history>>
<1> DEFINE v == req[r].job.id
<1> DEFINE p == review[v].product
<1>1. v \in Reviews /\ review[v].live BY Zenon DEF DeleteReview, Moderatable
<1>2. review[v] \in ReviewDoc BY <1>1 DEF Reviews, Typed, CatalogTypeOK
<1>3. p \in ProductId BY <1>2 DEF ReviewDoc
<1>4. /\ review' = [review EXCEPT ![v].live = FALSE] /\ End(r, "done")
      /\ UNCHANGED <<category, banner, media, cloud, history>>
      /\ product' = IF review[v].approved /\ p \in Products
                    THEN [product EXCEPT ![p].count = CountWithout(@)] ELSE product
  BY Zenon DEF DeleteReview, Counts
<1>5. p \in Products => [product EXCEPT ![p].count = CountWithout(@)] = [product EXCEPT ![p].count = CountWithout(product[p].count)]
  OBVIOUS
<1>6. IF review[v].approved /\ p \in Products
      THEN product' = [product EXCEPT ![p].count = CountWithout(product[p].count)]
      ELSE UNCHANGED product
  <2>1. CASE review[v].approved /\ p \in Products BY Zenon, <1>4, <1>5, <2>1
  <2>2. CASE ~(review[v].approved /\ p \in Products) BY Zenon, <1>4, <2>2
  <2> QED BY Zenon, <2>1, <2>2
<1> QED BY Zenon, <1>1, <1>2, <1>3, <1>4, <1>6

LEMMA DeleteReviewTyped ==
  ASSUME Typed, NEW r \in Request, DeleteReview(r)
  PROVE  Typed'
<1> DEFINE v == req[r].job.id
<1> DEFINE p == review[v].product
<1>1. /\ v \in Reviews /\ review[v] \in ReviewDoc /\ p \in ProductId
      /\ review' = [review EXCEPT ![v].live = FALSE]
      /\ IF review[v].approved /\ p \in Products
         THEN product' = [product EXCEPT ![p].count = CountWithout(product[p].count)]
         ELSE UNCHANGED product
      /\ End(r, "done") /\ UNCHANGED <<category, banner, media, cloud, history>>
  BY Zenon, DeleteReviewDoes
<1>2. [review[v] EXCEPT !.live = FALSE] \in ReviewDoc BY Zenon, <1>1 DEF ReviewDoc
<1>3. review' \in [ReviewId -> ReviewDoc \cup {None}]
  BY Zenon, <1>1, <1>2 DEF Typed, CatalogTypeOK
<1>4. product' \in [ProductId -> ProductDoc \cup {None}]
  <2>1. CASE review[v].approved /\ p \in Products
    <3> DEFINE n == CountWithout(product[p].count)
    <3>1. n \in Nat BY <2>1, CountIsNat DEF CountWithout
    <3>2. product' = [product EXCEPT ![p].count = n] BY Zenon, <1>1, <2>1
    <3> HIDE DEF n
    <3> QED BY Zenon, <2>1, <3>1, <3>2, Recounted
  <2>2. CASE ~(review[v].approved /\ p \in Products)
    <3>1. product' = product BY Zenon, <1>1, <2>2
    <3> QED BY Zenon, <3>1 DEF Typed, CatalogTypeOK
  <2> QED BY Zenon, <2>1, <2>2
<1>5. CatalogTypeOK' BY Zenon, <1>1, <1>3, <1>4 DEF history, Typed, CatalogTypeOK
<1>6. Asked' BY Zenon, <1>1, EndTyped
<1> QED BY <1>5, <1>6 DEF Typed

LEMMA CrashTyped ==
  ASSUME Typed, NEW r \in Request, Crash(r)
  PROVE  Typed'
<1>1. UNCHANGED <<docs, history>> /\ End(r, "killed") BY DEF Crash
<1>2. CatalogTypeOK' BY <1>1, QuietTyped, CalmTyped DEF history
<1>3. Asked' BY <1>1, EndTyped
<1> QED BY <1>2, <1>3 DEF Typed

-----------------------------------------------------------------------------
(* Sequences of tasks: joining two, and taking the first away *)

LEMMA JoinIs ==
  ASSUME NEW S, NEW s \in Seq(S), NEW t \in Seq(S)
  PROVE  /\ s \o t \in Seq(S)
         /\ ToSet(s \o t) = ToSet(s) \cup ToSet(t)
         /\ DOMAIN (s \o t) = 1..(Len(s) + Len(t)) /\ DOMAIN s = 1..Len(s) /\ DOMAIN t = 1..Len(t)
         /\ \A i \in DOMAIN s : (s \o t)[i] = s[i]
         /\ \A i \in DOMAIN (s \o t) \ DOMAIN s : i - Len(s) \in DOMAIN t /\ (s \o t)[i] = t[i - Len(s)]
<1>1. s \o t \in Seq(S) OBVIOUS
<1>2. DOMAIN (s \o t) = 1..(Len(s) + Len(t)) /\ DOMAIN s = 1..Len(s) /\ DOMAIN t = 1..Len(t)
      /\ Len(s) \in Nat /\ Len(t) \in Nat
  OBVIOUS
<1>3. \A i \in DOMAIN s : (s \o t)[i] = s[i] BY <1>2
<1>4. \A i \in DOMAIN (s \o t) \ DOMAIN s : i - Len(s) \in DOMAIN t /\ (s \o t)[i] = t[i - Len(s)]
  BY <1>2
<1>5. \A k \in DOMAIN t : Len(s) + k \in DOMAIN (s \o t) \ DOMAIN s /\ (Len(s) + k) - Len(s) = k
  BY <1>2
<1>6. ToSet(s \o t) = ToSet(s) \cup ToSet(t)
  <2>1. ASSUME NEW i \in DOMAIN (s \o t) PROVE (s \o t)[i] \in ToSet(s) \cup ToSet(t)
    BY <1>3, <1>4 DEF ToSet
  <2>2. ASSUME NEW i \in DOMAIN s PROVE s[i] \in ToSet(s \o t)
    <3>1. i \in DOMAIN (s \o t) BY <1>2
    <3> QED BY <1>3, <3>1 DEF ToSet
  <2>3. ASSUME NEW k \in DOMAIN t PROVE t[k] \in ToSet(s \o t)
    <3>1. (s \o t)[Len(s) + k] = t[k] BY <1>4, <1>5
    <3> QED BY <1>5, <3>1 DEF ToSet
  <2> QED BY <2>1, <2>2, <2>3 DEF ToSet
<1> QED BY <1>1, <1>2, <1>3, <1>4, <1>6

LEMMA TailIs ==
  ASSUME NEW S, NEW s \in Seq(S), s # <<>>
  PROVE  /\ Tail(s) \in Seq(S) /\ Head(s) \in S
         /\ ToSet(s) = {Head(s)} \cup ToSet(Tail(s))
         /\ Head(s) = s[1] /\ 1 \in DOMAIN s
         /\ DOMAIN s = 1..Len(s)
         /\ DOMAIN Tail(s) = 1..(Len(s) - 1) /\ \A i \in DOMAIN Tail(s) : i + 1 \in DOMAIN s /\ Tail(s)[i] = s[i + 1]
<1>1. Tail(s) \in Seq(S) /\ Head(s) \in S /\ Head(s) = s[1] OBVIOUS
<1>2. DOMAIN s = 1..Len(s) /\ DOMAIN Tail(s) = 1..(Len(s) - 1) /\ Len(s) \in Nat /\ Len(s) >= 1
  OBVIOUS
<1>3. \A i \in DOMAIN Tail(s) : i + 1 \in DOMAIN s /\ Tail(s)[i] = s[i + 1] BY <1>2
<1>4. \A k \in DOMAIN s : k = 1 \/ (k - 1 \in DOMAIN Tail(s) /\ (k - 1) + 1 = k) BY <1>2
<1>5. ToSet(s) = {Head(s)} \cup ToSet(Tail(s))
  <2>1. ASSUME NEW i \in DOMAIN Tail(s) PROVE Tail(s)[i] \in ToSet(s) BY <1>3 DEF ToSet
  <2>2. Head(s) \in ToSet(s) BY <1>1, <1>2 DEF ToSet
  <2>3. ASSUME NEW k \in DOMAIN s, k # 1 PROVE s[k] \in ToSet(Tail(s))
    <3>1. k - 1 \in DOMAIN Tail(s) /\ Tail(s)[k - 1] = s[k] BY <1>3, <1>4, <2>3
    <3> QED BY <3>1 DEF ToSet
  <2> QED BY <1>1, <2>1, <2>2, <2>3 DEF ToSet
<1> QED BY <1>1, <1>2, <1>3, <1>5

LEMMA TailOrderly ==
  ASSUME NEW s \in Seq(TaskOf), s # <<>>, Orderly(s)
  PROVE  Orderly(Tail(s))
<1>1. ASSUME NEW i \in DOMAIN Tail(s), NEW k \in DOMAIN Tail(s), i < k
      PROVE  /\ i + 1 \in DOMAIN s /\ k + 1 \in DOMAIN s /\ i + 1 < k + 1
             /\ Tail(s)[i] = s[i + 1] /\ Tail(s)[k] = s[k + 1]
  BY <1>1, TailIs
<1> QED BY <1>1 DEF Orderly

LEMMA JoinOrderly ==
  ASSUME NEW s \in Seq(TaskOf), NEW t \in Seq(TaskOf), Orderly(s), Orderly(t),
         \A x \in ToSet(t) : x.kind # "image",
         (\A x \in ToSet(t) : x.kind # "category") \/ (\A x \in ToSet(s) : x.kind # "product")
  PROVE  Orderly(s \o t)
<1> DEFINE u == s \o t
<1>1. DOMAIN u = 1..(Len(s) + Len(t)) /\ DOMAIN s = 1..Len(s) /\ DOMAIN t = 1..Len(t)
      /\ Len(s) \in Nat /\ Len(t) \in Nat
  BY JoinIs
<1>2. \A i \in DOMAIN s : u[i] = s[i] BY JoinIs
<1>3. \A i \in DOMAIN u \ DOMAIN s : i - Len(s) \in DOMAIN t /\ u[i] = t[i - Len(s)] BY JoinIs
<1> HIDE DEF u
<1>4. SUFFICES ASSUME NEW i \in DOMAIN u, NEW k \in DOMAIN u, i < k
               PROVE  /\ u[k].kind = "category" => u[i].kind # "product"
                      /\ u[k].kind = "image" /\ u[i].kind = "image" => u[k].id # u[i].id
  BY DEF Orderly, u
<1>5. CASE k \in DOMAIN s
  <2>1. i \in DOMAIN s BY <1>1, <1>4, <1>5
  <2> QED BY <1>2, <1>4, <1>5, <2>1 DEF Orderly
<1>6. CASE k \notin DOMAIN s /\ i \in DOMAIN s
  <2>1. u[k] \in ToSet(t) /\ u[i] \in ToSet(s) BY <1>2, <1>3, <1>6 DEF ToSet
  <2> QED BY <2>1
<1>7. CASE k \notin DOMAIN s /\ i \notin DOMAIN s
  <2>1. i - Len(s) \in DOMAIN t /\ k - Len(s) \in DOMAIN t /\ i - Len(s) < k - Len(s)
    BY <1>1, <1>3, <1>4, <1>7
  <2> QED BY <1>3, <1>7, <2>1 DEF Orderly
<1> QED BY <1>5, <1>6, <1>7

(* Tasks(kind, ids): one task for each, of that kind *)
LEMMA TasksAre ==
  ASSUME NEW kind \in Kinds, NEW ids \in Seq(Ids_)
  PROVE  /\ Tasks(kind, ids) \in Seq(TaskOf)
         /\ \A x \in ToSet(Tasks(kind, ids)) :
              x.kind = kind /\ x.row \in DOMAIN ids /\ x.id = ids[x.row]
         /\ \A i \in DOMAIN ids : [kind |-> kind, id |-> ids[i], row |-> i] \in ToSet(Tasks(kind, ids))
         /\ DOMAIN Tasks(kind, ids) = DOMAIN ids
         /\ \A i \in DOMAIN ids : Tasks(kind, ids)[i] = [kind |-> kind, id |-> ids[i], row |-> i]
<1> DEFINE ts == Tasks(kind, ids)
<1>1. DOMAIN ids = 1..Len(ids) /\ Len(ids) \in Nat /\ \A i \in DOMAIN ids : ids[i] \in Ids_ OBVIOUS
<1>2. ts = [i \in 1..Len(ids) |-> [kind |-> kind, id |-> ids[i], row |-> i]] BY <1>1 DEF Tasks
<1>3. \A i \in 1..Len(ids) : [kind |-> kind, id |-> ids[i], row |-> i] \in TaskOf
  BY <1>1 DEF TaskOf
<1>4. ts \in [1..Len(ids) -> TaskOf] BY <1>2, <1>3
<1>5. ts \in Seq(TaskOf) BY <1>1, <1>4
<1> QED BY <1>1, <1>2, <1>5 DEF ToSet

LEMMA FilesAre ==
  ASSUME NEW r \in Request
  PROVE  LET f == Export[r]
         IN  /\ f.categories \in Seq(Row(CategoryId)) /\ f.products \in Seq(Row(ProductId))
             /\ f.reviews \in Seq(ReviewRow) /\ f.orders \in Seq(OrderRow) /\ f.banner \in Asset
             /\ \A i \in DOMAIN f.categories : f.categories[i] \in Row(CategoryId)
             /\ \A i \in DOMAIN f.products : f.products[i] \in Row(ProductId)
             /\ \A i \in DOMAIN f.reviews : f.reviews[i] \in ReviewRow
             /\ \A i \in DOMAIN f.orders : f.orders[i] \in OrderRow
<1> DEFINE f == Export[r]
<1>1. f \in Files BY ExportConstants
<1>2. /\ f.categories \in Seq(Row(CategoryId)) /\ f.products \in Seq(Row(ProductId))
      /\ f.reviews \in Seq(ReviewRow) /\ f.orders \in Seq(OrderRow) /\ f.banner \in Asset
  BY <1>1 DEF Files
<1>3. \A S : \A s \in Seq(S) : \A i \in DOMAIN s : s[i] \in S OBVIOUS
<1> QED BY <1>2, <1>3

LEMMA IdsAre ==
  ASSUME NEW ids, NEW rows \in Seq(Row(ids))
  PROVE  /\ Ids(rows) \in Seq(ids) /\ DOMAIN Ids(rows) = DOMAIN rows
         /\ \A i \in DOMAIN rows : Ids(rows)[i] = rows[i].id
<1>1. DOMAIN rows = 1..Len(rows) /\ Len(rows) \in Nat /\ \A i \in DOMAIN rows : rows[i] \in Row(ids)
  OBVIOUS
<1>2. \A i \in DOMAIN rows : rows[i].id \in ids BY <1>1 DEF Row
<1>3. Ids(rows) \in [1..Len(rows) -> ids] BY <1>1, <1>2 DEF Ids
<1> QED BY <1>1, <1>3 DEF Ids

LEMMA ImagesAre ==
  ASSUME NEW r \in Request
  PROVE  /\ Images(Export[r]) \subseteq Asset /\ IsFiniteSet(Images(Export[r]))
         /\ \A i \in DOMAIN Export[r].categories : Export[r].categories[i].image \in Images(Export[r]) \cup {None}
         /\ \A i \in DOMAIN Export[r].products : Export[r].products[i].image \in Images(Export[r]) \cup {None}
         /\ Export[r].banner \in Images(Export[r])
<1> DEFINE f == Export[r]
<1> DEFINE A == Asset \cup {None}
<1> DEFINE ci == [i \in DOMAIN f.categories |-> f.categories[i].image]
<1> DEFINE pi == [i \in DOMAIN f.products |-> f.products[i].image]
<1> DEFINE oi == [i \in DOMAIN f.orders |-> f.orders[i].image]
<1> DEFINE bi == <<f.banner>>
<1>1. /\ DOMAIN f.categories = 1..Len(f.categories) /\ Len(f.categories) \in Nat
      /\ DOMAIN f.products = 1..Len(f.products) /\ Len(f.products) \in Nat
      /\ \A i \in DOMAIN f.categories : f.categories[i].image \in A
      /\ DOMAIN f.orders = 1..Len(f.orders) /\ Len(f.orders) \in Nat
      /\ \A i \in DOMAIN f.products : f.products[i].image \in A
      /\ \A i \in DOMAIN f.orders : f.orders[i].image \in A
      /\ f.banner \in A /\ f.banner \in Asset
  <2>1. \A i \in DOMAIN f.categories : f.categories[i].image \in A BY FilesAre DEF Row
  <2>2. \A i \in DOMAIN f.products : f.products[i].image \in A BY FilesAre DEF Row
  <2>5. \A i \in DOMAIN f.orders : f.orders[i].image \in A BY FilesAre DEF OrderRow
  <2>6. f.orders \in Seq(OrderRow) BY FilesAre
  <2>7. DOMAIN f.orders = 1..Len(f.orders) /\ Len(f.orders) \in Nat BY <2>6
  <2>3. f.categories \in Seq(Row(CategoryId)) /\ f.products \in Seq(Row(ProductId)) /\ f.banner \in Asset
    BY FilesAre
  <2>4. DOMAIN f.categories = 1..Len(f.categories) /\ Len(f.categories) \in Nat
        /\ DOMAIN f.products = 1..Len(f.products) /\ Len(f.products) \in Nat
    BY <2>3
  <2> QED BY <2>1, <2>2, <2>3, <2>4, <2>5, <2>7
<1>2. ci \in [1..Len(f.categories) -> A] /\ pi \in [1..Len(f.products) -> A]
      /\ oi \in [1..Len(f.orders) -> A]
  BY <1>1
<1>3. ci \in Seq(A) /\ pi \in Seq(A) /\ oi \in Seq(A) /\ bi \in Seq(A) BY <1>1, <1>2
<1>4. ToSet(ci) = {f.categories[i].image : i \in DOMAIN f.categories}
      /\ ToSet(pi) = {f.products[i].image : i \in DOMAIN f.products}
      /\ ToSet(oi) = {f.orders[i].image : i \in DOMAIN f.orders}
      /\ ToSet(bi) = {f.banner}
  <2>5. ToSet(oi) = {f.orders[i].image : i \in DOMAIN f.orders} BY DEF ToSet
  <2>1. DOMAIN bi = 1..1 /\ bi[1] = f.banner OBVIOUS
  <2>2. ToSet(bi) = {f.banner} BY <2>1 DEF ToSet
  <2>3. ToSet(ci) = {f.categories[i].image : i \in DOMAIN f.categories} BY DEF ToSet
  <2>4. ToSet(pi) = {f.products[i].image : i \in DOMAIN f.products} BY DEF ToSet
  <2> QED BY <2>2, <2>3, <2>4, <2>5
<1>5. Images(f) = ToSet(((ci \o pi) \o oi) \o bi) \ {None} BY DEF Images
<1> HIDE DEF ci, pi, oi, bi
<1> HIDE DEF A
<1> DEFINE cp == ci \o pi
<1>6. cp \in Seq(A) /\ ToSet(cp) = ToSet(ci) \cup ToSet(pi) BY <1>3, JoinIs
<1> DEFINE co == cp \o oi
<1> DEFINE s == co \o bi
<1>7. s = ((ci \o pi) \o oi) \o bi OBVIOUS
<1> HIDE DEF cp
<1>16. co \in Seq(A) /\ ToSet(co) = ToSet(ci) \cup ToSet(pi) \cup ToSet(oi)
  <2>1. co \in Seq(A) /\ ToSet(co) = ToSet(cp) \cup ToSet(oi) BY <1>3, <1>6, JoinIs
  <2> QED BY <1>6, <2>1
<1> HIDE DEF co
<1>8. s \in Seq(A) /\ ToSet(s) = ToSet(ci) \cup ToSet(pi) \cup ToSet(oi) \cup ToSet(bi)
      /\ Images(f) = ToSet(s) \ {None}
  <2>1. s \in Seq(A) /\ ToSet(s) = ToSet(co) \cup ToSet(bi) BY <1>3, <1>16, JoinIs
  <2>2. Images(f) = ToSet(s) \ {None} BY <1>5, <1>7
  <2> QED BY <1>16, <2>1, <2>2
<1> HIDE DEF s
<1> USE DEF A
<1>9. IsFiniteSet(ToSet(s))
  <2>1. DOMAIN s = 1..Len(s) /\ Len(s) \in Nat BY <1>8
  <2>2. IsFiniteSet(1..Len(s)) BY <2>1, FS_Interval
  <2>3. [i \in 1..Len(s) |-> s[i]] \in Surjection(1..Len(s), ToSet(s))
    BY <2>1 DEF Surjection, ToSet
  <2> QED BY <2>2, <2>3, FS_Surjection
<1>10. IsFiniteSet(Images(f)) BY <1>8, <1>9, FS_Subset
<1>11. ToSet(s) \subseteq A BY <1>1, <1>4, <1>8
<1>12. Images(f) \subseteq Asset BY <1>8, <1>11
<1>13. \A i \in DOMAIN f.categories : f.categories[i].image \in ToSet(s) BY <1>4, <1>8
<1>14. \A i \in DOMAIN f.products : f.products[i].image \in ToSet(s) BY <1>4, <1>8
<1>15. f.banner \in ToSet(s) /\ f.banner # None BY <1>1, <1>4, <1>8, CatalogConstants
<1> QED BY <1>8, <1>10, <1>12, <1>13, <1>14, <1>15

LEMMA SetToSeqIs ==
  ASSUME NEW S, IsFiniteSet(S)
  PROVE  /\ SetToSeq(S) \in Seq(S)
         /\ \A i, k \in DOMAIN SetToSeq(S) : SetToSeq(S)[i] = SetToSeq(S)[k] => i = k
<1> DEFINE n == Cardinality(S)
<1>1. n \in Nat /\ ExistsBijection(1..n, S) BY FS_CardinalityType
<1>2. \E f : f \in [1..n -> S] /\ IsInjective(f)
  BY <1>1 DEF ExistsBijection, Bijection, Injection
<1>3. SetToSeq(S) \in [1..n -> S] /\ IsInjective(SetToSeq(S)) BY <1>2 DEF SetToSeq
<1>4. DOMAIN SetToSeq(S) = 1..n BY <1>3
<1> HIDE DEF n
<1>5. SetToSeq(S) \in Seq(S) BY <1>1, <1>3
<1> QED BY <1>3, <1>5 DEF IsInjective

(* The plan: well-formed tasks, in order, one for every row of the files *)
LEMMA TodoIs ==
  ASSUME NEW r \in Request, NEW missing \in SUBSET Images(Export[r])
  PROVE  LET f == Export[r]
             todo == Todo(f, missing)
         IN  /\ todo \in Seq(TaskOf) /\ Orderly(todo)
             /\ \A t \in ToSet(todo) : RowTask(t, f) /\ (t.kind = "image" => t.id \in missing)
             /\ \A i \in DOMAIN f.categories :
                  \E t \in ToSet(todo) : t.kind = "category" /\ t.id = f.categories[i].id
             /\ \A i \in DOMAIN f.products :
                  \E t \in ToSet(todo) : t.kind = "product" /\ t.id = f.products[i].id
             /\ \A i \in DOMAIN f.reviews :
                  \E t \in ToSet(todo) : t.kind = "review" /\ t.id = f.reviews[i].id
             /\ \A i \in DOMAIN f.orders :
                  \E t \in ToSet(todo) : t.kind = "order" /\ t.id = f.orders[i].id
             /\ \E t \in ToSet(todo) : t.kind = "settings" /\ t.id = None
<1> DEFINE f == Export[r]
<1> DEFINE ri == Ids(f.reviews)
<1> DEFINE a == Tasks("image", SetToSeq(missing))
<1> DEFINE b == Tasks("category", Ids(f.categories))
<1> DEFINE c == Tasks("product", Ids(f.products))
<1> DEFINE d == Tasks("review", Ids(f.reviews))
<1> DEFINE oi == Ids(f.orders)
<1> DEFINE o == Tasks("order", Ids(f.orders))
<1> DEFINE e == Tasks("settings", <<None>>)
<1>1. SetToSeq(missing) \in Seq(missing) /\ missing \subseteq Asset
      /\ \A i, k \in DOMAIN SetToSeq(missing) : SetToSeq(missing)[i] = SetToSeq(missing)[k] => i = k
  BY ImagesAre, FS_Subset, SetToSeqIs
<1>2. SetToSeq(missing) \in Seq(Ids_) BY <1>1 DEF Ids_
<1>3. Ids(f.categories) \in Seq(Ids_) /\ DOMAIN Ids(f.categories) = DOMAIN f.categories
      /\ \A i \in DOMAIN f.categories : Ids(f.categories)[i] = f.categories[i].id
  <2>1. Ids(f.categories) \in Seq(CategoryId) BY FilesAre, IdsAre
  <2>2. Ids(f.categories) \in Seq(Ids_) BY <2>1 DEF Ids_
  <2> QED BY <2>2, FilesAre, IdsAre
<1>4. Ids(f.products) \in Seq(Ids_) /\ DOMAIN Ids(f.products) = DOMAIN f.products
      /\ \A i \in DOMAIN f.products : Ids(f.products)[i] = f.products[i].id
  <2>1. Ids(f.products) \in Seq(ProductId) BY FilesAre, IdsAre
  <2>2. Ids(f.products) \in Seq(Ids_) BY <2>1 DEF Ids_
  <2> QED BY <2>2, FilesAre, IdsAre
<1>5. ri \in Seq(Ids_) /\ DOMAIN ri = DOMAIN f.reviews /\ \A i \in DOMAIN f.reviews : ri[i] = f.reviews[i].id
  <2>1. f.reviews \in Seq(ReviewRow) BY FilesAre
  <2>2. DOMAIN f.reviews = 1..Len(f.reviews) /\ Len(f.reviews) \in Nat BY <2>1
  <2>3. \A i \in DOMAIN f.reviews : f.reviews[i].id \in Ids_ BY FilesAre DEF Ids_, ReviewRow
  <2>4. ri \in [1..Len(f.reviews) -> Ids_] BY <2>2, <2>3 DEF Ids
  <2> QED BY <2>2, <2>4 DEF Ids
<1>31. oi \in Seq(Ids_) /\ DOMAIN oi = DOMAIN f.orders /\ \A i \in DOMAIN f.orders : oi[i] = f.orders[i].id
  <2>1. f.orders \in Seq(OrderRow) BY FilesAre
  <2>2. DOMAIN f.orders = 1..Len(f.orders) /\ Len(f.orders) \in Nat BY <2>1
  <2>3. \A i \in DOMAIN f.orders : f.orders[i].id \in Ids_ BY FilesAre DEF Ids_, OrderRow
  <2>4. oi \in [1..Len(f.orders) -> Ids_] BY <2>2, <2>3 DEF Ids
  <2> QED BY <2>2, <2>4 DEF Ids
<1>6. <<None>> \in Seq(Ids_) BY DEF Ids_
<1>7. /\ a \in Seq(TaskOf) /\ DOMAIN a = DOMAIN SetToSeq(missing)
      /\ \A i \in DOMAIN a : a[i] = [kind |-> "image", id |-> SetToSeq(missing)[i], row |-> i]
      /\ \A t \in ToSet(a) : t.kind = "image" /\ t.row \in DOMAIN SetToSeq(missing) /\ t.id = SetToSeq(missing)[t.row]
  <2> DEFINE ids == SetToSeq(missing)
  <2>1. ids \in Seq(Ids_) BY <1>2
  <2> HIDE DEF ids
  <2>2. "image" \in Kinds BY DEF Kinds
  <2>3. a = Tasks("image", ids) BY DEF ids
  <2> HIDE DEF a
  <2> DEFINE k == "image"
  <2> HIDE DEF k
  <2>4. /\ Tasks(k, ids) \in Seq(TaskOf) /\ DOMAIN Tasks(k, ids) = DOMAIN ids
        /\ \A i \in DOMAIN ids : Tasks(k, ids)[i] = [kind |-> k, id |-> ids[i], row |-> i]
        /\ \A t \in ToSet(Tasks(k, ids)) : t.kind = k /\ t.row \in DOMAIN ids /\ t.id = ids[t.row]
    BY <2>1, <2>2, TasksAre DEF k
  <2>5. /\ a \in Seq(TaskOf) /\ DOMAIN a = DOMAIN ids
        /\ \A i \in DOMAIN ids : a[i] = [kind |-> k, id |-> ids[i], row |-> i]
        /\ \A t \in ToSet(a) : t.kind = k /\ t.row \in DOMAIN ids /\ t.id = ids[t.row]
    BY <2>3, <2>4 DEF k
  <2> QED BY <2>5 DEF ids, k
<1>8. /\ b \in Seq(TaskOf)
      /\ \A t \in ToSet(b) : t.kind = "category" /\ t.row \in DOMAIN f.categories /\ t.id = f.categories[t.row].id
      /\ \A i \in DOMAIN f.categories : [kind |-> "category", id |-> f.categories[i].id, row |-> i] \in ToSet(b)
  BY <1>3, TasksAre DEF Kinds
<1>9. /\ c \in Seq(TaskOf)
      /\ \A t \in ToSet(c) : t.kind = "product" /\ t.row \in DOMAIN f.products /\ t.id = f.products[t.row].id
      /\ \A i \in DOMAIN f.products : [kind |-> "product", id |-> f.products[i].id, row |-> i] \in ToSet(c)
  BY <1>4, TasksAre DEF Kinds
<1>10. /\ d \in Seq(TaskOf)
       /\ \A t \in ToSet(d) : t.kind = "review" /\ t.row \in DOMAIN f.reviews /\ t.id = f.reviews[t.row].id
       /\ \A i \in DOMAIN f.reviews : [kind |-> "review", id |-> f.reviews[i].id, row |-> i] \in ToSet(d)
  BY <1>5, TasksAre DEF Kinds
<1>32. /\ o \in Seq(TaskOf)
       /\ \A t \in ToSet(o) : t.kind = "order" /\ t.row \in DOMAIN f.orders /\ t.id = f.orders[t.row].id
       /\ \A i \in DOMAIN f.orders : [kind |-> "order", id |-> f.orders[i].id, row |-> i] \in ToSet(o)
  BY <1>31, TasksAre DEF Kinds
<1>11. /\ e \in Seq(TaskOf) /\ \A t \in ToSet(e) : t.kind = "settings" /\ t.id = None
       /\ [kind |-> "settings", id |-> None, row |-> 1] \in ToSet(e)
  <2> DEFINE nn == <<None>>
  <2>1. nn \in Seq(Ids_) /\ 1 \in DOMAIN nn /\ \A i \in DOMAIN nn : nn[i] = None BY <1>6
  <2>2. e = Tasks("settings", nn) OBVIOUS
  <2> HIDE DEF nn, e
  <2> QED BY <2>1, <2>2, TasksAre DEF Kinds
<1>12. \A t \in ToSet(a) : t.kind = "image" /\ t.id \in missing
  BY <1>1, <1>7
<1>13. Todo(f, missing) = ((((a \o b) \o c) \o d) \o o) \o e BY DEF Todo
<1>14. Orderly(a)
  BY <1>1, <1>7 DEF Orderly
<1>15. \A s \in Seq(TaskOf) : (\A i \in DOMAIN s : s[i] \in ToSet(s)) BY DEF ToSet
<1>16. Orderly(b) /\ Orderly(c) /\ Orderly(d) /\ Orderly(o) /\ Orderly(e)
  BY <1>8, <1>9, <1>10, <1>11, <1>15, <1>32 DEF Orderly
<1> HIDE DEF a, b, c, d, o, e
<1> DEFINE ab == a \o b
<1>17. ab \in Seq(TaskOf) /\ ToSet(ab) = ToSet(a) \cup ToSet(b) /\ Orderly(ab)
  <2>1. Orderly(ab) BY <1>7, <1>8, <1>12, <1>14, <1>16, JoinOrderly
  <2> QED BY <1>7, <1>8, <2>1, JoinIs
<1> DEFINE abc == ab \o c
<1> DEFINE abcd == abc \o d
<1> DEFINE abcdo == abcd \o o
<1> DEFINE u == abcdo \o e
<1>30. u = ((((a \o b) \o c) \o d) \o o) \o e OBVIOUS
<1> HIDE DEF ab
<1>18. abc \in Seq(TaskOf) /\ ToSet(abc) = ToSet(a) \cup ToSet(b) \cup ToSet(c) /\ Orderly(abc)
  <2>1. Orderly(abc) BY <1>8, <1>9, <1>12, <1>16, <1>17, JoinOrderly
  <2>2. abc \in Seq(TaskOf) /\ ToSet(abc) = ToSet(ab) \cup ToSet(c) BY <1>9, <1>17, JoinIs
  <2> QED BY <1>17, <2>1, <2>2
<1> HIDE DEF abc
<1>19. abcd \in Seq(TaskOf) /\ ToSet(abcd) = ToSet(a) \cup ToSet(b) \cup ToSet(c) \cup ToSet(d) /\ Orderly(abcd)
  <2>1. Orderly(abcd) BY <1>10, <1>16, <1>18, JoinOrderly
  <2>2. abcd \in Seq(TaskOf) /\ ToSet(abcd) = ToSet(abc) \cup ToSet(d) BY <1>10, <1>18, JoinIs
  <2> QED BY <1>18, <2>1, <2>2
<1> HIDE DEF abcd
<1>33. abcdo \in Seq(TaskOf)
       /\ ToSet(abcdo) = ToSet(a) \cup ToSet(b) \cup ToSet(c) \cup ToSet(d) \cup ToSet(o)
       /\ Orderly(abcdo)
  <2>1. Orderly(abcdo) BY <1>16, <1>19, <1>32, JoinOrderly
  <2>2. abcdo \in Seq(TaskOf) /\ ToSet(abcdo) = ToSet(abcd) \cup ToSet(o) BY <1>19, <1>32, JoinIs
  <2> QED BY <1>19, <2>1, <2>2
<1> HIDE DEF abcdo
<1>20. u \in Seq(TaskOf) /\ Orderly(u)
       /\ ToSet(u) = ToSet(a) \cup ToSet(b) \cup ToSet(c) \cup ToSet(d) \cup ToSet(o) \cup ToSet(e)
  <2>1. Orderly(u) BY <1>11, <1>16, <1>33, JoinOrderly
  <2>2. u \in Seq(TaskOf) /\ ToSet(u) = ToSet(abcdo) \cup ToSet(e) BY <1>11, <1>33, JoinIs
  <2> QED BY <1>33, <2>1, <2>2
<1> HIDE DEF u
<1>21. Todo(f, missing) = u BY <1>13, <1>30
<1>22. \A t \in ToSet(u) : RowTask(t, f) /\ (t.kind = "image" => t.id \in missing)
  BY <1>8, <1>9, <1>10, <1>11, <1>12, <1>20, <1>32 DEF RowTask
<1>23. \A i \in DOMAIN f.categories : \E t \in ToSet(u) : t.kind = "category" /\ t.id = f.categories[i].id
  <2> SUFFICES ASSUME NEW i \in DOMAIN f.categories
               PROVE  \E t \in ToSet(u) : t.kind = "category" /\ t.id = f.categories[i].id
    OBVIOUS
  <2> DEFINE t == [kind |-> "category", id |-> f.categories[i].id, row |-> i]
  <2>1. t \in ToSet(u) BY Zenon, <1>8, <1>20
  <2>2. t.kind = "category" /\ t.id = f.categories[i].id OBVIOUS
  <2> HIDE DEF t
  <2> QED BY Zenon, <2>1, <2>2
<1>24. \A i \in DOMAIN f.products : \E t \in ToSet(u) : t.kind = "product" /\ t.id = f.products[i].id
  <2> SUFFICES ASSUME NEW i \in DOMAIN f.products
               PROVE  \E t \in ToSet(u) : t.kind = "product" /\ t.id = f.products[i].id
    OBVIOUS
  <2> DEFINE t == [kind |-> "product", id |-> f.products[i].id, row |-> i]
  <2>1. t \in ToSet(u) BY Zenon, <1>9, <1>20
  <2>2. t.kind = "product" /\ t.id = f.products[i].id OBVIOUS
  <2> HIDE DEF t
  <2> QED BY Zenon, <2>1, <2>2
<1>25. \A i \in DOMAIN f.reviews : \E t \in ToSet(u) : t.kind = "review" /\ t.id = f.reviews[i].id
  <2> SUFFICES ASSUME NEW i \in DOMAIN f.reviews
               PROVE  \E t \in ToSet(u) : t.kind = "review" /\ t.id = f.reviews[i].id
    OBVIOUS
  <2> DEFINE t == [kind |-> "review", id |-> f.reviews[i].id, row |-> i]
  <2>1. t \in ToSet(u) BY Zenon, <1>10, <1>20
  <2>2. t.kind = "review" /\ t.id = f.reviews[i].id OBVIOUS
  <2> HIDE DEF t
  <2> QED BY Zenon, <2>1, <2>2
<1>34. \A i \in DOMAIN f.orders : \E t \in ToSet(u) : t.kind = "order" /\ t.id = f.orders[i].id
  <2> SUFFICES ASSUME NEW i \in DOMAIN f.orders
               PROVE  \E t \in ToSet(u) : t.kind = "order" /\ t.id = f.orders[i].id
    OBVIOUS
  <2> DEFINE t == [kind |-> "order", id |-> f.orders[i].id, row |-> i]
  <2>1. t \in ToSet(u) BY Zenon, <1>20, <1>32
  <2>2. t.kind = "order" /\ t.id = f.orders[i].id OBVIOUS
  <2> HIDE DEF t
  <2> QED BY Zenon, <2>1, <2>2
<1>35. \E t \in ToSet(u) : t.kind = "settings" /\ t.id = None
  <2> DEFINE t == [kind |-> "settings", id |-> None, row |-> 1]
  <2>1. t \in ToSet(u) BY Zenon, <1>11, <1>20
  <2>2. t.kind = "settings" /\ t.id = None OBVIOUS
  <2> HIDE DEF t
  <2> QED BY Zenon, <2>1, <2>2
<1> QED BY <1>20, <1>21, <1>22, <1>23, <1>24, <1>25, <1>34, <1>35

-----------------------------------------------------------------------------
(* The steps of an import keep the types. *)

LEMMA ImportEndTyped ==
  ASSUME Typed, NEW r \in Request, NEW how \in {"row", "create", "delete", "failed"},
         End(r, how), req[r].at \in Importing
  PROVE  Asked'
<1>1. Asked /\ req[r] \in Requests /\ Placed(req[r], Export[r]) BY DEF Typed, Asked
<1>2. how \in Stages BY StageNames
<1> DEFINE q == req[r]
<1>3. Moves(r, how, q.cat, q.img, q.slug, q.order, q.doomed, q.held, q.todo)
  BY <1>1, <1>2, EndMoves
<1>4. Placed(req'[r], Export[r])
  BY <1>1, <1>3 DEF Moves, Placed, Planned, Importing
<1> QED BY <1>1, <1>3, <1>4, AskedAfter DEF Moves

(* What an import at work knows of its task *)
LEMMA DoingIs ==
  ASSUME Asked, NEW r \in Request, NEW kinds, NEW at \in Importing, Doing(r, kinds, at)
  PROVE  LET q == req[r]
             f == Export[r]
             t == Task(r)
         IN  /\ q \in Requests /\ q.job.kind = "import" /\ q.at = at /\ q.at \in Importing /\ ~Problems(f)
             /\ q.todo \in Seq(TaskOf) /\ q.todo # <<>> /\ Planned(q, f)
             /\ t = Head(q.todo) /\ t \in TaskOf /\ t \in ToSet(q.todo) /\ t.kind \in kinds
             /\ RowTask(t, f)
             /\ t.kind = "image" => t.id \in Asset
             /\ t.kind = "category" => t.id \in CategoryId /\ f.categories[t.row] \in Row(CategoryId)
             /\ t.kind = "product" => t.id \in ProductId /\ f.products[t.row] \in Row(ProductId)
             /\ t.kind = "review" => t.id \in ReviewId /\ f.reviews[t.row] \in ReviewRow
             /\ t.kind = "order" => t.id \in OrderId /\ f.orders[t.row] \in OrderRow
<1> DEFINE q == req[r]
<1> DEFINE f == Export[r]
<1> DEFINE t == Task(r)
<1>1. q \in Requests /\ Placed(q, f) BY DEF Asked
<1>2. q.job.kind = "import" /\ q.at = at /\ q.todo # <<>> /\ t.kind \in kinds BY DEF Doing
<1>3. q.todo \in Seq(TaskOf) BY <1>1 DEF Requests
<1>4. ~Problems(f) /\ Planned(q, f) BY <1>1, <1>2 DEF Placed
<1>5. t = Head(q.todo) /\ t \in TaskOf /\ t \in ToSet(q.todo) BY <1>2, <1>3, TailIs DEF Task
<1>6. RowTask(t, f) BY <1>1, <1>2, <1>5 DEF Placed
<1>7. t.kind = "image" => t.id \in Asset BY <1>6, ImagesAre DEF RowTask
<1>8. t.kind = "category" => t.id \in CategoryId /\ f.categories[t.row] \in Row(CategoryId)
  BY <1>6, FilesAre DEF RowTask, Row
<1>9. t.kind = "product" => t.id \in ProductId /\ f.products[t.row] \in Row(ProductId)
  BY <1>6, FilesAre DEF RowTask, Row
<1>10. t.kind = "review" => t.id \in ReviewId /\ f.reviews[t.row] \in ReviewRow
  BY <1>6, FilesAre DEF RowTask, ReviewRow
<1>11. t.kind = "order" => t.id \in OrderId /\ f.orders[t.row] \in OrderRow
  BY <1>6, FilesAre DEF RowTask, OrderRow
<1> QED BY Zenon, <1>1, <1>2, <1>3, <1>4, <1>5, <1>6, <1>7, <1>8, <1>9, <1>10, <1>11

Taken(r) == IF Task(r).kind = "category" THEN {Task(r).id} ELSE {}

LEMMA ProceedMoves ==
  ASSUME Asked, NEW r \in Request, NEW kinds, NEW at \in Importing, Doing(r, kinds, at), Proceed(r)
  PROVE  LET q == req[r]
         IN  /\ Moves(r, Onward(r), q.cat, q.img, q.slug, q.order, q.doomed,
                      q.held \cup Taken(r), Tail(q.todo))
             /\ Onward(r) \in {"upload", "exists"}
             /\ Asked'
<1> DEFINE q == req[r]
<1> DEFINE f == Export[r]
<1> DEFINE t == Task(r)
<1> DEFINE ks == q.held \cup Taken(r)
<1> DEFINE ts == Tail(q.todo)
<1>1. /\ q \in Requests /\ q.job.kind = "import" /\ q.at \in Importing /\ ~Problems(f)
      /\ q.todo \in Seq(TaskOf) /\ q.todo # <<>> /\ Planned(q, f)
      /\ t = Head(q.todo) /\ RowTask(t, f)
      /\ t.kind = "category" => t.id \in CategoryId
  BY DoingIs
<1>2. /\ ts \in Seq(TaskOf) /\ ToSet(q.todo) = {t} \cup ToSet(ts) BY <1>1, TailIs
<1>3. ks \in SUBSET (CategoryId \cup Asset) BY <1>1 DEF Requests, Taken
<1>4. Onward(r) \in {"upload", "exists"} BY DEF Onward
<1>5. Onward(r) \in Stages BY <1>4, StageNames
<1>6. Plans(r, ts, ks, Onward(r)) BY DEF Proceed, Taken
<1>7. Orderly(ts) BY <1>1, TailOrderly DEF Planned
<1>8. Images(f) \subseteq ks BY <1>1 DEF Planned
<1>9. ASSUME NEW i \in DOMAIN f.categories
      PROVE  f.categories[i].id \in ks
             \/ \E x \in ToSet(ts) : x.kind = "category" /\ x.id = f.categories[i].id
  BY <1>1, <1>2 DEF Planned, Taken
<1>10. Placed(q, f) BY DEF Asked
<1> HIDE DEF ks, ts
<1>11. Moves(r, Onward(r), q.cat, q.img, q.slug, q.order, q.doomed, ks, ts)
  BY <1>2, <1>3, <1>5, <1>6, PlansMoves
<1>12. Planned(req'[r], f) BY <1>7, <1>8, <1>9, <1>11 DEF Moves, Planned
<1>13. \A x \in ToSet(req'[r].todo) : RowTask(x, f) BY <1>1, <1>2, <1>10, <1>11 DEF Moves, Placed
<1>14. Placed(req'[r], f)
  BY <1>1, <1>4, <1>10, <1>11, <1>12, <1>13 DEF Moves, Placed
<1>15. Asked' BY <1>11, <1>14, AskedAfter DEF Moves
<1> QED BY <1>4, <1>11, <1>15 DEF ks, ts

LEMMA StartImportMoves ==
  ASSUME Asked, NEW r \in Request, NEW missing \in SUBSET Images(Export[r]),
         NEW how \in {"exists", "upload"}, req[r].job.kind = "import",
         ~Problems(Export[r]), Plans(r, Todo(Export[r], missing), Images(Export[r]), how)
  PROVE  LET q == req[r]
         IN  /\ Moves(r, how, q.cat, q.img, q.slug, q.order, q.doomed, Images(Export[r]),
                      Todo(Export[r], missing))
             /\ Asked'
<1> DEFINE q == req[r]
<1> DEFINE f == Export[r]
<1> DEFINE todo == Todo(f, missing)
<1> DEFINE ks == Images(f)
<1>1. /\ todo \in Seq(TaskOf) /\ Orderly(todo) /\ \A t \in ToSet(todo) : RowTask(t, f)
      /\ \A i \in DOMAIN f.categories :
                  \E t \in ToSet(todo) : t.kind = "category" /\ t.id = f.categories[i].id
  BY TodoIs
<1>2. ks \in SUBSET (CategoryId \cup Asset) BY ImagesAre
<1>3. how \in Stages BY StageNames
<1>4. Placed(q, f) BY DEF Asked
<1>5. Plans(r, todo, ks, how) OBVIOUS
<1>6. Images(f) \subseteq ks OBVIOUS
<1> HIDE DEF todo, ks
<1>7. Moves(r, how, q.cat, q.img, q.slug, q.order, q.doomed, ks, todo)
  BY <1>1, <1>2, <1>3, <1>5, PlansMoves
<1>8. Planned(req'[r], f) BY <1>1, <1>6, <1>7 DEF Moves, Planned
<1>9. Placed(req'[r], f) BY <1>1, <1>4, <1>7, <1>8 DEF Moves, Placed
<1>10. Asked' BY <1>7, <1>9, AskedAfter DEF Moves
<1> QED BY <1>7, <1>10 DEF ks, todo

LEMMA StartImportTyped ==
  ASSUME Typed, NEW r \in Request, StartImport(r)
  PROVE  Typed'
<1> DEFINE f == Export[r]
<1> DEFINE missing == Images(f) \ media
<1> DEFINE how == IF missing = {} THEN "exists" ELSE "upload"
<1>1. UNCHANGED <<docs, raced, base, fresh>> /\ req[r].job.kind = "import" BY DEF StartImport, Jobs
<1>2. CASE End(r, "refused") /\ UNCHANGED calm
  <2>1. CatalogTypeOK' BY <1>1, <1>2, QuietTyped, CalmTyped
  <2> QED BY <1>2, <2>1, EndTyped DEF Typed
<1>3. CASE ~Problems(f) /\ Plans(r, Todo(f, missing), Images(f), how)
           /\ (Starts(r) \/ calm' = calm \ {r})
  <2>1. CatalogTypeOK' BY <1>1, <1>3, QuietTyped, CalmTyped
  <2>2. how \in {"exists", "upload"} /\ missing \in SUBSET Images(f) OBVIOUS
  <2> HIDE DEF how, missing
  <2>3. Asked' BY <1>1, <1>3, <2>2, StartImportMoves DEF Typed
  <2> QED BY <2>1, <2>3 DEF Typed
<1> QED BY <1>2, <1>3 DEF StartImport

LEMMA UploadImageTyped ==
  ASSUME Typed, NEW r \in Request, UploadImage(r)
  PROVE  Typed'
<1>1. /\ Doing(r, {"image"}, "upload") /\ End(r, "row")
      /\ cloud' = cloud \cup {Task(r).id} /\ fresh' = fresh \cup {Task(r).id}
      /\ UNCHANGED <<category, product, review, banner, media, raced, calm, base>>
  BY DEF UploadImage
<1>2. Task(r).id \in Asset /\ req[r].at \in Importing BY <1>1, DoingIs DEF Typed, Importing
<1>3. CatalogTypeOK' BY <1>1, <1>2 DEF Typed, CatalogTypeOK
<1>4. Asked' BY <1>1, <1>2, ImportEndTyped
<1> QED BY <1>3, <1>4 DEF Typed

LEMMA WriteRowTyped ==
  ASSUME Typed, NEW r \in Request, WriteRow(r)
  PROVE  Typed'
<1> DEFINE a == Task(r).id
<1>1. /\ Doing(r, {"image"}, "row") /\ fresh' = fresh \ {a}
      /\ \/ End(r, "failed") /\ UNCHANGED <<media, calm>>
         \/ media' = media \cup {a} /\ Proceed(r) /\ Disturbs(r)
      /\ UNCHANGED <<category, product, review, banner, cloud, raced, base>>
  BY DEF WriteRow
<1>2. a \in Asset /\ req[r].at \in Importing BY <1>1, DoingIs DEF Typed, Importing
<1>3. CatalogTypeOK' BY <1>1, <1>2, CalmTyped DEF Typed, CatalogTypeOK
<1>4. "row" \in Importing BY DEF Importing
<1>5. Asked' BY <1>1, <1>2, <1>4, ImportEndTyped, ProceedMoves DEF Typed
<1> QED BY <1>3, <1>5 DEF Typed

LEMMA LookUpTyped ==
  ASSUME Typed, NEW r \in Request, LookUp(r)
  PROVE  Typed'
<1>1. /\ Doing(r, Document, "exists") /\ UNCHANGED <<docs, history>>
      /\ End(r, "create") \/ End(r, "delete") \/ Proceed(r)
  BY DEF LookUp
<1>2. "exists" \in Importing BY DEF Importing
<1>3. req[r].at \in Importing BY <1>1, <1>2 DEF Doing
<1>4. CatalogTypeOK' BY <1>1, QuietTyped, CalmTyped DEF history
<1>5. Asked' BY <1>1, <1>2, <1>3, ImportEndTyped, ProceedMoves DEF Typed
<1> QED BY <1>4, <1>5 DEF Typed

(* What DeleteDoc removes, by the kind of its task *)
LEMMA DeleteDocDoes ==
  ASSUME Typed, NEW r \in Request, DeleteDoc(r)
  PROVE  LET t == Task(r)
         IN  /\ Doing(r, Document, "delete") /\ End(r, "create") /\ Disturbs(r)
             /\ UNCHANGED <<media, cloud, fresh>>
             /\ \/ /\ t.kind = "category" /\ t.id \in CategoryId
                   /\ category' = [category EXCEPT ![t.id] = None]
                   /\ raced' = raced \cup {t.id}
                   /\ UNCHANGED <<product, review, banner, base>>
                \/ /\ t.kind = "product" /\ t.id \in ProductId
                   /\ product' = [product EXCEPT ![t.id] = None]
                   /\ UNCHANGED <<category, review, banner, base, raced>>
                \/ /\ t.kind = "review" /\ t.id \in ReviewId
                   /\ review' = [review EXCEPT ![t.id] = None]
                   /\ base' = IF t.id \in Reviews /\ review[t.id].live /\ review[t.id].approved
                              THEN [base EXCEPT ![review[t.id].product] = IF @ >= 0 THEN @ + 1 ELSE @]
                              ELSE base
                   /\ UNCHANGED <<category, product, banner, raced>>
                \/ /\ t.kind = "settings" /\ banner' = None
                   /\ UNCHANGED <<category, product, review, base, raced>>
                \/ /\ t.kind = "order" /\ t.id \in OrderId
                   /\ orders' = [orders EXCEPT ![t.id] = None]
                   /\ UNCHANGED <<category, product, review, banner, base, raced>>
             /\ t.kind # "order" => UNCHANGED orders
<1> DEFINE t == Task(r)
<1>1. Doing(r, Document, "delete") BY DEF DeleteDoc
<1>2. t.kind \in Document /\ (t.kind = "category" => t.id \in CategoryId)
      /\ (t.kind = "product" => t.id \in ProductId) /\ (t.kind = "review" => t.id \in ReviewId)
      /\ (t.kind = "order" => t.id \in OrderId)
  BY <1>1, DoingIs DEF Typed, Importing
<1>3. CASE t.kind = "category" BY <1>1, <1>2, <1>3 DEF DeleteDoc
<1>4. CASE t.kind = "product" BY <1>1, <1>2, <1>4 DEF DeleteDoc
<1>5. CASE t.kind = "review" BY <1>1, <1>2, <1>5 DEF DeleteDoc
<1>6. CASE t.kind = "settings" BY <1>1, <1>2, <1>6 DEF DeleteDoc
<1>7. CASE t.kind = "order" BY <1>1, <1>2, <1>7 DEF DeleteDoc
<1> QED BY <1>2, <1>3, <1>4, <1>5, <1>6, <1>7 DEF Document

LEMMA DeleteDocTyped ==
  ASSUME Typed, NEW r \in Request, DeleteDoc(r)
  PROVE  Typed'
<1> DEFINE t == Task(r)
<1>1. Doing(r, Document, "delete") /\ End(r, "create") /\ Disturbs(r) /\ UNCHANGED <<media, cloud, fresh>>
  BY DeleteDocDoes
<1>2. req[r].at \in Importing BY <1>1 DEF Doing, Importing
<1>3. Asked' BY <1>1, <1>2, ImportEndTyped
<1>4. CASE t.kind = "category"
  <2>1. CatalogTypeOK' BY <1>1, <1>4, DeleteDocDoes, CalmTyped DEF Typed, CatalogTypeOK
  <2> QED BY <1>3, <2>1 DEF Typed
<1>5. CASE t.kind = "product"
  <2>1. CatalogTypeOK' BY <1>1, <1>5, DeleteDocDoes, CalmTyped DEF Typed, CatalogTypeOK
  <2> QED BY <1>3, <2>1 DEF Typed
<1>6. CASE t.kind = "review"
  <2>1. base' \in [ProductId -> Int]
    BY <1>1, <1>6, DeleteDocDoes DEF Typed, CatalogTypeOK
  <2>2. CatalogTypeOK' BY <1>1, <1>6, <2>1, DeleteDocDoes, CalmTyped DEF Typed, CatalogTypeOK
  <2> QED BY <1>3, <2>2 DEF Typed
<1>7. CASE t.kind = "settings"
  <2>1. CatalogTypeOK' BY <1>1, <1>7, DeleteDocDoes, CalmTyped DEF Typed, CatalogTypeOK
  <2> QED BY <1>3, <2>1 DEF Typed
<1>8. CASE t.kind = "order"
  <2>1. CatalogTypeOK' BY <1>1, <1>8, DeleteDocDoes, CalmTyped DEF Typed, CatalogTypeOK
  <2> QED BY <1>3, <2>1 DEF Typed
<1> QED BY <1>4, <1>5, <1>6, <1>7, <1>8, DeleteDocDoes

(* The slug of a planned row; two rows never get the same one. *)
Earlier(rows, i) == {k \in 1..i : Stem(rows[k]) = Stem(rows[i])}

LEMMA SlugForIs ==
  ASSUME NEW ids, NEW rows \in Seq(Row(ids)), NEW i \in DOMAIN rows
  PROVE  /\ SlugFor(rows, i) \in [of : Name, nth : Nat]
         /\ \A k \in DOMAIN rows : SlugFor(rows, i) = SlugFor(rows, k) => i = k
<1>1. DOMAIN rows = 1..Len(rows) /\ Len(rows) \in Nat /\ \A k \in DOMAIN rows : rows[k] \in Row(ids)
  OBVIOUS
<1>2. \A k \in DOMAIN rows : Stem(rows[k]) \in Name BY <1>1 DEF Stem, Row
<1>3. \A k \in DOMAIN rows : IsFiniteSet(Earlier(rows, k)) /\ Cardinality(Earlier(rows, k)) \in Nat
  <2>1. TAKE k \in DOMAIN rows
  <2>2. IsFiniteSet(1..k) BY <1>1, FS_Interval
  <2>3. IsFiniteSet(Earlier(rows, k)) BY <2>2, FS_Subset DEF Earlier
  <2> QED BY <2>3, FS_CardinalityType
<1>4. \A k \in DOMAIN rows : SlugFor(rows, k) = [of |-> Stem(rows[k]), nth |-> Cardinality(Earlier(rows, k))]
  BY DEF SlugFor, Label, Earlier
<1>5. ASSUME NEW a \in DOMAIN rows, NEW b \in DOMAIN rows, a < b, SlugFor(rows, a) = SlugFor(rows, b)
      PROVE  FALSE
  <2>1. Stem(rows[a]) = Stem(rows[b]) /\ Cardinality(Earlier(rows, a)) = Cardinality(Earlier(rows, b))
    BY <1>4, <1>5
  <2>2. b \notin Earlier(rows, a) /\ b \in Earlier(rows, b) /\ Earlier(rows, a) \subseteq Earlier(rows, b)
    BY <1>1, <1>5, <2>1 DEF Earlier
  <2>3. Earlier(rows, a) \in SUBSET Earlier(rows, b) /\ IsFiniteSet(Earlier(rows, b)) BY <1>3, <2>2
  <2>4. Earlier(rows, b) = Earlier(rows, a) BY <2>1, <2>3, FS_Subset
  <2> QED BY <2>2, <2>4
<1>6. \A k \in DOMAIN rows : SlugFor(rows, i) = SlugFor(rows, k) => i = k
  <2>1. TAKE k \in DOMAIN rows
  <2>2. i < k \/ k < i \/ i = k BY <1>1
  <2> QED BY <1>5, <2>2
<1> QED BY <1>2, <1>3, <1>4, <1>6

LEMMA CategoryNamedIs ==
  ASSUME NEW r \in Request, ~Problems(Export[r]), NEW i \in DOMAIN Export[r].products
  PROVE  LET f == Export[r]
         IN  \E k \in DOMAIN f.categories :
               f.categories[k].name = f.products[i].cat /\ CategoryNamed(f, f.products[i].cat) = f.categories[k].id
<1> DEFINE f == Export[r]
<1> DEFINE n == f.products[i].cat
<1> DEFINE hits == {k \in DOMAIN f.categories : f.categories[k].name = n}
<1>1. PICK k \in DOMAIN f.categories : f.categories[k].name = n BY DEF Problems
<1>2. \A x \in hits : x = k BY <1>1 DEF Problems
<1>3. f.categories \in Seq(Row(CategoryId)) BY FilesAre
<1>4. k \in Nat BY <1>3
<1>5. k \in hits /\ \A x \in hits : x <= k BY <1>1, <1>2, <1>4
<1>6. (CHOOSE x \in hits : \A y \in hits : y <= x) = k BY <1>2, <1>5
<1>7. CategoryNamed(f, n) = f.categories[CHOOSE x \in hits : \A y \in hits : y <= x].id BY DEF CategoryNamed
<1> QED BY Zenon, <1>1, <1>6, <1>7

PlannedCategory(r, i) ==
  LET d == Export[r].categories[i]
  IN  [name |-> Label(d.name, 1), slug |-> SlugFor(Export[r].categories, i), order |-> 0, image |-> d.image]

PlannedProduct(r, i) ==
  LET d == Export[r].products[i]
  IN  [cat |-> CategoryNamed(Export[r], d.cat), slug |-> SlugFor(Export[r].products, i),
       image |-> d.image, archived |-> FALSE, count |-> d.count]

LEMMA CreateCategoryDoes ==
  ASSUME Typed, NEW r \in Request, CreateCategoryDoc(r)
  PROVE  LET i == Task(r).row
             c == Task(r).id
             d == PlannedCategory(r, i)
         IN  /\ Doing(r, {"category"}, "create") /\ c \in CategoryId /\ d \in CategoryDoc
             /\ i \in DOMAIN Export[r].categories /\ c = Export[r].categories[i].id
             /\ d.name = Label(Export[r].categories[i].name, 1) /\ d.slug = SlugFor(Export[r].categories, i)
             /\ d.image \in Images(Export[r]) \cup {None}
             /\ UNCHANGED <<product, review, banner, media, cloud, base, fresh>>
             /\ \/ /\ End(r, "failed") /\ UNCHANGED <<category, raced, calm>>
                   /\ c \in Categories \/ ~NameFree(d.name, c) \/ ~CategorySlugFree(d.slug, c)
                \/ /\ category' = [category EXCEPT ![c] = d]
                   /\ c \notin Categories /\ NameFree(d.name, c) /\ CategorySlugFree(d.slug, c)
                   /\ Names(None, d.image) /\ Disturbs(r) /\ Proceed(r)
<1> DEFINE i == Task(r).row
<1> DEFINE e == Export[r].categories[i]
<1> DEFINE d == PlannedCategory(r, i)
<1>1. Doing(r, {"category"}, "create") BY DEF CreateCategoryDoc
<1>2. RowTask(Task(r), Export[r]) /\ Task(r).kind = "category" /\ Task(r).id \in CategoryId
  BY <1>1, DoingIs DEF Typed, Importing
<1>3. i \in DOMAIN Export[r].categories /\ Task(r).id = e.id BY <1>2 DEF RowTask
<1>4. e \in Row(CategoryId) /\ Export[r].categories \in Seq(Row(CategoryId)) BY <1>3, FilesAre
<1>5. SlugFor(Export[r].categories, i) \in [of : Name, nth : Nat] BY <1>3, <1>4, SlugForIs
<1>6. d \in CategoryDoc BY <1>4, <1>5 DEF PlannedCategory, CategoryDoc, Label, Row
<1>7. d.name = Label(e.name, 1) /\ d.slug = SlugFor(Export[r].categories, i) /\ d.image = e.image
      /\ d = [name |-> Label(e.name, 1), slug |-> SlugFor(Export[r].categories, i), order |-> 0, image |-> e.image]
  BY DEF PlannedCategory
<1>8. e.image \in Images(Export[r]) \cup {None} BY <1>3, ImagesAre
<1> HIDE DEF d
<1>9. UNCHANGED <<product, review, banner, media, cloud, base, fresh>> BY DEF CreateCategoryDoc
<1>10. \/ /\ End(r, "failed") /\ UNCHANGED <<category, raced, calm>>
          /\ e.id \in Categories \/ ~NameFree(d.name, e.id) \/ ~CategorySlugFree(d.slug, e.id)
       \/ /\ category' = [category EXCEPT ![e.id] = d]
          /\ e.id \notin Categories /\ NameFree(d.name, e.id) /\ CategorySlugFree(d.slug, e.id)
          /\ Names(None, e.image) /\ Disturbs(r) /\ Proceed(r)
  BY <1>7 DEF CreateCategoryDoc
<1> QED BY Zenon, <1>1, <1>2, <1>3, <1>6, <1>7, <1>8, <1>9, <1>10 DEF d

LEMMA CreateCategoryTyped ==
  ASSUME Typed, NEW r \in Request, CreateCategoryDoc(r)
  PROVE  Typed'
<1> DEFINE c == Task(r).id
<1> DEFINE d == PlannedCategory(r, Task(r).row)
<1>1. /\ Doing(r, {"category"}, "create") /\ c \in CategoryId /\ d \in CategoryDoc
      /\ UNCHANGED <<product, review, banner, media, cloud, base, fresh>>
      /\ \/ End(r, "failed") /\ UNCHANGED <<category, raced, calm>>
         \/ /\ category' = [category EXCEPT ![c] = d]
            /\ Names(None, d.image) /\ Disturbs(r) /\ Proceed(r)
  BY CreateCategoryDoes
<1> HIDE DEF d
<1>2. "create" \in Importing /\ req[r].at \in Importing BY <1>1 DEF Doing, Importing
<1>3. Asked' BY <1>1, <1>2, ImportEndTyped, ProceedMoves DEF Typed
<1>4. category' \in [CategoryId -> CategoryDoc \cup {None}] BY <1>1 DEF Typed, CatalogTypeOK
<1>5. raced' \subseteq CategoryId \cup Asset /\ calm' \subseteq Request
  BY <1>1, NamesTyped, CalmTyped DEF Typed, CatalogTypeOK
<1>6. CatalogTypeOK' BY <1>1, <1>4, <1>5 DEF Typed, CatalogTypeOK
<1> QED BY <1>3, <1>6 DEF Typed

LEMMA CreateProductDoes ==
  ASSUME Typed, NEW r \in Request, CreateProductDoc(r)
  PROVE  LET i == Task(r).row
             p == Task(r).id
             d == PlannedProduct(r, i)
         IN  /\ Doing(r, {"product"}, "create") /\ p \in ProductId /\ d \in ProductDoc
             /\ i \in DOMAIN Export[r].products /\ p = Export[r].products[i].id
             /\ d.slug = SlugFor(Export[r].products, i) /\ d.count \in Nat
             /\ \E k \in DOMAIN Export[r].categories : d.cat = Export[r].categories[k].id
             /\ d.image \in Images(Export[r]) \cup {None}
             /\ UNCHANGED <<category, review, banner, media, cloud, fresh>>
             /\ \/ /\ End(r, "failed") /\ UNCHANGED <<product, raced, calm, base>>
                   /\ p \in Products \/ ~ProductSlugFree(d.slug, p)
                \/ /\ product' = [product EXCEPT ![p] = d]
                   /\ p \notin Products /\ ProductSlugFree(d.slug, p)
                   /\ base' = [base EXCEPT ![p] = d.count - Cardinality(CountedReviews(p))]
                   /\ Names(d.cat, d.image) /\ Disturbs(r) /\ Proceed(r)
<1> DEFINE i == Task(r).row
<1> DEFINE e == Export[r].products[i]
<1> DEFINE d == PlannedProduct(r, i)
<1> DEFINE c == CategoryNamed(Export[r], e.cat)
<1>1. Doing(r, {"product"}, "create") BY DEF CreateProductDoc
<1>2. RowTask(Task(r), Export[r]) /\ Task(r).kind = "product" /\ Task(r).id \in ProductId
      /\ ~Problems(Export[r])
  BY <1>1, DoingIs DEF Typed, Importing
<1>3. i \in DOMAIN Export[r].products /\ Task(r).id = e.id BY <1>2 DEF RowTask
<1>4. e \in Row(ProductId) /\ Export[r].products \in Seq(Row(ProductId)) BY <1>3, FilesAre
<1>5. SlugFor(Export[r].products, i) \in [of : Name, nth : Nat] BY <1>3, <1>4, SlugForIs
<1>6. PICK k \in DOMAIN Export[r].categories : c = Export[r].categories[k].id
  BY <1>2, <1>3, CategoryNamedIs
<1>7. c \in CategoryId BY <1>6, FilesAre DEF Row
<1>8. d \in ProductDoc BY <1>4, <1>5, <1>7 DEF PlannedProduct, ProductDoc, Row
<1>9. d.cat = c /\ d.slug = SlugFor(Export[r].products, i) /\ d.image = e.image /\ d.count = e.count
      /\ d = [cat |-> c, slug |-> SlugFor(Export[r].products, i), image |-> e.image, archived |-> FALSE,
              count |-> e.count]
  BY DEF PlannedProduct
<1>10. e.image \in Images(Export[r]) \cup {None} /\ e.count \in Nat BY <1>3, <1>4, ImagesAre DEF Row
<1> HIDE DEF d, c
<1>11. UNCHANGED <<category, review, banner, media, cloud, fresh>> BY DEF CreateProductDoc
<1>12. \/ /\ End(r, "failed") /\ UNCHANGED <<product, raced, calm, base>>
          /\ e.id \in Products \/ ~ProductSlugFree(d.slug, e.id)
       \/ /\ product' = [product EXCEPT ![e.id] = d]
          /\ e.id \notin Products /\ ProductSlugFree(d.slug, e.id)
          /\ base' = [base EXCEPT ![e.id] = e.count - Cardinality(CountedReviews(e.id))]
          /\ Names(c, e.image) /\ Disturbs(r) /\ Proceed(r)
  BY Zenon, <1>9 DEF CreateProductDoc, c
<1>13. \E x \in DOMAIN Export[r].categories : d.cat = Export[r].categories[x].id BY <1>6, <1>9
<1> QED BY Zenon, <1>1, <1>2, <1>3, <1>8, <1>9, <1>10, <1>11, <1>12, <1>13 DEF d

LEMMA CreateProductTyped ==
  ASSUME Typed, NEW r \in Request, CreateProductDoc(r)
  PROVE  Typed'
<1> DEFINE p == Task(r).id
<1> DEFINE d == PlannedProduct(r, Task(r).row)
<1>1. /\ Doing(r, {"product"}, "create") /\ p \in ProductId /\ d \in ProductDoc /\ d.count \in Nat
      /\ UNCHANGED <<category, review, banner, media, cloud, fresh>>
      /\ \/ End(r, "failed") /\ UNCHANGED <<product, raced, calm, base>>
         \/ /\ product' = [product EXCEPT ![p] = d]
            /\ base' = [base EXCEPT ![p] = d.count - Cardinality(CountedReviews(p))]
            /\ Names(d.cat, d.image) /\ Disturbs(r) /\ Proceed(r)
  BY CreateProductDoes
<1> HIDE DEF d
<1>2. "create" \in Importing /\ req[r].at \in Importing BY <1>1 DEF Doing, Importing
<1>3. Asked' BY <1>1, <1>2, ImportEndTyped, ProceedMoves DEF Typed
<1>4. product' \in [ProductId -> ProductDoc \cup {None}] BY <1>1 DEF Typed, CatalogTypeOK
<1>5. raced' \subseteq CategoryId \cup Asset /\ calm' \subseteq Request
  BY <1>1, NamesTyped, CalmTyped DEF Typed, CatalogTypeOK
<1>6. Cardinality(CountedReviews(p)) \in Nat BY Counting DEF CountedReviews, LiveReviews, Reviews
<1>7. base' \in [ProductId -> Int] BY <1>1, <1>6 DEF Typed, CatalogTypeOK
<1>8. CatalogTypeOK' BY <1>1, <1>4, <1>5, <1>7 DEF Typed, CatalogTypeOK
<1> QED BY <1>3, <1>8 DEF Typed

PlannedReview(r, i) ==
  LET row == Export[r].reviews[i]
  IN  [product |-> row.product, user |-> None, approved |-> row.approved, live |-> TRUE]

LEMMA CreateReviewDoes ==
  ASSUME Typed, NEW r \in Request, CreateReviewDoc(r)
  PROVE  LET i == Task(r).row
             v == Task(r).id
             d == PlannedReview(r, i)
         IN  /\ Doing(r, {"review"}, "create") /\ v \in ReviewId /\ d.product \in ProductId
             /\ d \in ReviewDoc /\ d.live /\ d.approved \in BOOLEAN
             /\ i \in DOMAIN Export[r].reviews /\ v = Export[r].reviews[i].id
             /\ UNCHANGED <<category, product, orders, banner, media, cloud, raced, fresh>>
             /\ \/ v \in Reviews /\ End(r, "failed") /\ UNCHANGED <<review, base, calm>>
                \/ /\ v \notin Reviews /\ review' = [review EXCEPT ![v] = d]
                   /\ d.approved => base' = [base EXCEPT ![d.product] = @ - 1]
                   /\ ~d.approved => base' = base
                   /\ Disturbs(r) /\ Proceed(r)
<1> DEFINE i == Task(r).row
<1> DEFINE v == Task(r).id
<1> DEFINE row == Export[r].reviews[i]
<1> DEFINE d == PlannedReview(r, i)
<1>1. Doing(r, {"review"}, "create") BY DEF CreateReviewDoc
<1>2. RowTask(Task(r), Export[r]) /\ Task(r).kind = "review" /\ v \in ReviewId /\ row \in ReviewRow
  BY <1>1, DoingIs DEF Typed, Importing
<1>3. i \in DOMAIN Export[r].reviews /\ v = Export[r].reviews[i].id BY <1>2 DEF RowTask
<1>4. d \in ReviewDoc /\ d.product \in ProductId /\ d.live /\ d.approved \in BOOLEAN
      /\ d.product = row.product /\ d.approved = row.approved
      /\ d = [product |-> row.product, user |-> None, approved |-> row.approved, live |-> TRUE]
  BY <1>2 DEF PlannedReview, ReviewDoc, ReviewRow
<1> HIDE DEF d
<1>5. UNCHANGED <<category, product, orders, banner, media, cloud, raced, fresh>> BY DEF CreateReviewDoc
<1>6. \/ v \in Reviews /\ End(r, "failed") /\ UNCHANGED <<review, base, calm>>
      \/ /\ v \notin Reviews /\ review' = [review EXCEPT ![v] = d]
         /\ base' = IF row.approved THEN [base EXCEPT ![row.product] = @ - 1] ELSE base
         /\ Disturbs(r) /\ Proceed(r)
  BY Zenon, <1>4 DEF CreateReviewDoc
<1>7. \/ v \in Reviews /\ End(r, "failed") /\ UNCHANGED <<review, base, calm>>
      \/ /\ v \notin Reviews /\ review' = [review EXCEPT ![v] = d]
         /\ d.approved => base' = [base EXCEPT ![d.product] = @ - 1]
         /\ ~d.approved => base' = base
         /\ Disturbs(r) /\ Proceed(r)
  BY Zenon, <1>4, <1>6
<1> QED BY Zenon, <1>1, <1>2, <1>3, <1>4, <1>5, <1>7 DEF d

LEMMA CreateReviewTyped ==
  ASSUME Typed, NEW r \in Request, CreateReviewDoc(r)
  PROVE  Typed'
<1> DEFINE v == Task(r).id
<1> DEFINE d == PlannedReview(r, Task(r).row)
<1>1. /\ Doing(r, {"review"}, "create") /\ v \in ReviewId /\ d.product \in ProductId /\ d \in ReviewDoc
      /\ UNCHANGED <<category, product, banner, media, cloud, raced, fresh>>
      /\ \/ End(r, "failed") /\ UNCHANGED <<review, base, calm>>
         \/ /\ review' = [review EXCEPT ![v] = d]
            /\ base' = [base EXCEPT ![d.product] = @ - 1] \/ base' = base
            /\ Disturbs(r) /\ Proceed(r)
  BY Zenon, CreateReviewDoes
<1> HIDE DEF d
<1>2. "create" \in Importing /\ req[r].at \in Importing BY <1>1 DEF Doing, Importing
<1>3. Asked' BY <1>1, <1>2, ImportEndTyped, ProceedMoves DEF Typed
<1>4. review' \in [ReviewId -> ReviewDoc \cup {None}] BY <1>1 DEF Typed, CatalogTypeOK
<1>5. base' \in [ProductId -> Int] BY <1>1 DEF Typed, CatalogTypeOK
<1>6. calm' \subseteq Request BY <1>1, CalmTyped
<1>7. CatalogTypeOK' BY <1>1, <1>4, <1>5, <1>6 DEF Typed, CatalogTypeOK
<1> QED BY <1>3, <1>7 DEF Typed

PlannedOrder(r, i) == [trx |-> Export[r].orders[i].trx]

LEMMA CreateOrderDoes ==
  ASSUME Typed, NEW r \in Request, CreateOrderDoc(r)
  PROVE  LET i == Task(r).row
             o == Task(r).id
             d == PlannedOrder(r, i)
         IN  /\ Doing(r, {"order"}, "create") /\ o \in OrderId /\ d \in OrderDoc
             /\ i \in DOMAIN Export[r].orders /\ o = Export[r].orders[i].id
             /\ d.trx = Export[r].orders[i].trx
             /\ UNCHANGED <<category, product, review, banner, media, cloud, raced, base, fresh>>
             /\ \/ /\ End(r, "failed") /\ UNCHANGED <<orders, calm>>
                   /\ o \in Orders \/ ~TrxFree(d.trx, o)
                \/ /\ orders' = [orders EXCEPT ![o] = d]
                   /\ o \notin Orders /\ TrxFree(d.trx, o)
                   /\ Disturbs(r) /\ Proceed(r)
<1> DEFINE i == Task(r).row
<1> DEFINE o == Task(r).id
<1> DEFINE row == Export[r].orders[i]
<1> DEFINE d == PlannedOrder(r, i)
<1>1. Doing(r, {"order"}, "create") BY DEF CreateOrderDoc
<1>2. RowTask(Task(r), Export[r]) /\ Task(r).kind = "order" /\ o \in OrderId /\ row \in OrderRow
  BY <1>1, DoingIs DEF Typed, Importing
<1>3. i \in DOMAIN Export[r].orders /\ o = row.id BY <1>2 DEF RowTask
<1>4. d \in OrderDoc /\ d.trx = row.trx /\ d = [trx |-> row.trx]
  BY <1>2 DEF PlannedOrder, OrderDoc, OrderRow
<1> HIDE DEF d
<1>5. UNCHANGED <<category, product, review, banner, media, cloud, raced, base, fresh>> BY DEF CreateOrderDoc
<1>6. \/ /\ End(r, "failed") /\ UNCHANGED <<orders, calm>>
         /\ row.id \in Orders \/ ~TrxFree(row.trx, row.id)
      \/ /\ orders' = [orders EXCEPT ![row.id] = [trx |-> row.trx]]
         /\ row.id \notin Orders /\ TrxFree(row.trx, row.id)
         /\ Disturbs(r) /\ Proceed(r)
  BY Zenon DEF CreateOrderDoc
<1> QED BY Zenon, <1>1, <1>2, <1>3, <1>4, <1>5, <1>6 DEF d

LEMMA CreateOrderTyped ==
  ASSUME Typed, NEW r \in Request, CreateOrderDoc(r)
  PROVE  Typed'
<1>1. /\ Doing(r, {"order"}, "create")
      /\ UNCHANGED <<category, product, review, banner, media, cloud, raced, base, fresh>>
      /\ \/ End(r, "failed") /\ UNCHANGED calm
         \/ Disturbs(r) /\ Proceed(r)
  BY Zenon, CreateOrderDoes
<1>2. "create" \in Importing /\ req[r].at \in Importing BY <1>1 DEF Doing, Importing
<1>3. Asked' BY <1>1, <1>2, ImportEndTyped, ProceedMoves DEF Typed
<1>4. calm' \subseteq Request BY <1>1, CalmTyped
<1>5. CatalogTypeOK' BY <1>1, <1>4 DEF Typed, CatalogTypeOK
<1> QED BY <1>3, <1>5 DEF Typed

LEMMA CreateSettingsTyped ==
  ASSUME Typed, NEW r \in Request, CreateSettings(r)
  PROVE  Typed'
<1>1. /\ Doing(r, {"settings"}, "create")
      /\ UNCHANGED <<category, product, review, media, cloud, base, fresh>>
      /\ \/ End(r, "failed") /\ UNCHANGED <<banner, raced, calm>>
         \/ /\ banner' = Export[r].banner /\ Names(None, banner')
            /\ Disturbs(r) /\ Proceed(r)
  BY DEF CreateSettings
<1>2. "create" \in Importing /\ req[r].at \in Importing BY <1>1 DEF Doing, Importing
<1>3. Asked' BY <1>1, <1>2, ImportEndTyped, ProceedMoves DEF Typed
<1>4. banner' \in Asset \cup {None} BY <1>1, FilesAre DEF Typed, CatalogTypeOK
<1>5. raced' \subseteq CategoryId \cup Asset /\ calm' \subseteq Request
  BY <1>1, NamesTyped, CalmTyped DEF Typed, CatalogTypeOK
<1>6. CatalogTypeOK' BY <1>1, <1>4, <1>5 DEF Typed, CatalogTypeOK
<1> QED BY <1>3, <1>6 DEF Typed

LEMMA EndImportTyped ==
  ASSUME Typed, NEW r \in Request, EndImport(r)
  PROVE  Typed'
<1> DEFINE q == req[r]
<1>1. UNCHANGED <<docs, history>> /\ Keeps(r, {}, "done") BY DEF EndImport
<1>2. CatalogTypeOK' BY <1>1, QuietTyped, CalmTyped DEF history
<1>3. Moves(r, "done", q.cat, q.img, q.slug, q.order, q.doomed, {}, q.todo)
  BY <1>1, StageNames, KeepsMoves DEF Typed
<1>4. Asked' BY <1>3, MovedTyped
<1> QED BY <1>2, <1>4 DEF Typed

LEMMA InitTyped == Init => Typed
<1> SUFFICES ASSUME Init PROVE Typed
  OBVIOUS
<1>1. PICK w \in Workload : CatalogInit(w)
  BY DEF Init
<1>2. Stored(w.db) /\ \A r \in Request : w.jobs[r] \in Job /\ WellFormed(w.jobs[r])
  BY CatalogConstants
<1>3. /\ category \in [CategoryId -> CategoryDoc \cup {None}]
      /\ product \in [ProductId -> ProductDoc \cup {None}]
      /\ review \in [ReviewId -> ReviewDoc \cup {None}]
      /\ banner = None /\ media \subseteq Asset /\ cloud = media
  BY <1>1, <1>2 DEF CatalogInit, Begin, Stored
<1>4. base \in [ProductId -> Int]
  <2>1. SUFFICES ASSUME NEW p \in ProductId, product[p] # None
                 PROVE  product[p].count - Cardinality(CountedReviews(p)) \in Int
    BY <1>1 DEF CatalogInit
  <2>2. product[p].count \in Nat
    BY <1>3, <2>1 DEF ProductDoc
  <2>3. Cardinality(CountedReviews(p)) \in Nat
    BY Counting DEF CountedReviews, LiveReviews, Reviews
  <2> QED BY <2>2, <2>3
<1>5. CatalogTypeOK
  BY <1>1, <1>3, <1>4 DEF CatalogTypeOK, CatalogInit
<1>6. \A r \in Request : /\ req[r] \in Requests /\ req[r].job = w.jobs[r] /\ req[r].at = "start"
                         /\ req[r].todo = <<>>
  <2> TAKE r \in Request
  <2>1. w.jobs[r] \in Job /\ "start" \in Stages
    BY <1>2, StageNames
  <2>2. req[r] = [job |-> w.jobs[r], at |-> "start", was |-> None, cat |-> None, img |-> None, slug |-> None,
                  order |-> 0, doomed |-> {}, held |-> {}, todo |-> <<>>]
    BY <1>1 DEF CatalogInit, Begin
  <2> QED BY <2>1, <2>2 DEF Requests
<1>7. req \in [Request -> Requests]
  BY <1>1, <1>6 DEF CatalogInit, Begin
<1>8. \A r \in Request : Placed(req[r], Export[r])
  <2> TAKE r \in Request
  <2>1. ToSet(req[r].todo) = {}
    BY <1>6 DEF ToSet
  <2> QED BY <1>2, <1>6, <2>1 DEF Placed, Importing
<1> QED BY <1>5, <1>7, <1>8 DEF Typed, Asked

(* Every step of a request is one of these.                                *)
LEMMA CatalogSteps ==
  ASSUME Typed, NEW r \in Request, CatalogStep(r)
  PROVE  Typed'
<1>1. CASE CategoryStep(r)
  BY <1>1, CheckCategoryTyped, WriteCategoryTyped, CheckDeleteTyped, RemoveCategoryTyped, RenumberTyped,
     CheckReplaceTyped, ResolveListTyped, PurgeTyped, ParkTyped, FinalRowTyped, EndReplaceTyped
  DEF CategoryStep
<1>2. CASE ProductStep(r)
  BY <1>2, StartProductTyped, ResolveImageTyped, ChooseSlugTyped, WriteProductTyped, ArchiveTyped,
     StartReviewTyped, DeleteReviewTyped, InsertReviewTyped
  DEF ProductStep
<1>3. CASE MediaStep(r)
  <2>1. CASE \E answer \in {"ok", "error"}, gone \in BOOLEAN : Destroy(r, answer, gone)
    BY <2>1, DestroyTyped
  <2> QED BY <1>3, <2>1, UploadTyped, RegisterMediaTyped, CheckMediaTyped, DeleteRowTyped, SetBannerTyped
       DEF MediaStep
<1>4. CASE Crash(r)
  BY <1>4, CrashTyped
<1> QED BY <1>1, <1>2, <1>3, <1>4 DEF CatalogStep

LEMMA ImportSteps ==
  ASSUME Typed, NEW r \in Request, ImportStep(r)
  PROVE  Typed'
BY StartImportTyped, UploadImageTyped, WriteRowTyped, LookUpTyped, DeleteDocTyped, CreateCategoryTyped,
   CreateProductTyped, CreateSettingsTyped, CreateReviewTyped, CreateOrderTyped, EndImportTyped
DEF ImportStep

LEMMA NextTyped == Typed /\ [Next]_vars => Typed'
<1> SUFFICES ASSUME Typed, [Next]_vars PROVE Typed'
  OBVIOUS
<1>1. CASE UNCHANGED vars
  <2>1. req' = req /\ UNCHANGED <<docs, history>>
    BY <1>1 DEF vars, catalogVars
  <2>2. CatalogTypeOK'
    BY <2>1 DEF Typed, CatalogTypeOK, docs, history
  <2> QED BY <2>1, <2>2 DEF Typed, Asked
<1>2. CASE Next
  BY <1>2, CatalogSteps, ImportSteps DEF Next
<1> QED BY <1>1, <1>2

(* At every moment the documents and the requests have their types, every  *)
(* request is where its kind of job can be, and an import's tasks are rows *)
(* of its export, in the order of the plan.                                *)
THEOREM AlwaysTyped == Spec => []Typed
BY InitTyped, NextTyped, PTL DEF Spec

(* The orders an import sees are written by an import alone.               *)
OrdersTyped == orders \in [OrderId -> OrderDoc \cup {None}]

LEMMA InitOrders == Init => OrdersTyped
BY ExportConstants DEF Init, OrdersTyped

LEMMA OrderWrites ==
  ASSUME Typed, NEW r \in Request, ImportStep(r), orders' # orders
  PROVE  DeleteDoc(r) \/ CreateOrderDoc(r)
<1>1. CASE StartImport(r) BY <1>1 DEF StartImport
<1>2. CASE UploadImage(r) BY <1>2 DEF UploadImage
<1>3. CASE WriteRow(r) BY <1>3 DEF WriteRow
<1>4. CASE LookUp(r) BY <1>4 DEF LookUp
<1>5. CASE CreateCategoryDoc(r) BY <1>5 DEF CreateCategoryDoc
<1>6. CASE CreateProductDoc(r) BY <1>6 DEF CreateProductDoc
<1>7. CASE CreateSettings(r) BY <1>7 DEF CreateSettings
<1>8. CASE CreateReviewDoc(r) BY <1>8 DEF CreateReviewDoc
<1>9. CASE EndImport(r) BY <1>9 DEF EndImport
<1> QED BY <1>1, <1>2, <1>3, <1>4, <1>5, <1>6, <1>7, <1>8, <1>9 DEF ImportStep

LEMMA NextOrders == Typed /\ OrdersTyped /\ [Next]_vars => OrdersTyped'
<1> SUFFICES ASSUME Typed, OrdersTyped, [Next]_vars, orders' # orders PROVE OrdersTyped'
  BY DEF OrdersTyped
<1>1. PICK r \in Request : ImportStep(r)
  BY DEF vars, Next
<1>2. CASE DeleteDoc(r)
  <2>1. Task(r).id \in OrderId /\ orders' = [orders EXCEPT ![Task(r).id] = None]
    BY <1>2, DeleteDocDoes
  <2> QED BY <2>1 DEF OrdersTyped
<1>3. CASE CreateOrderDoc(r)
  <2>1. PICK o \in OrderId, d \in OrderDoc : orders' = [orders EXCEPT ![o] = d]
    BY Zenon, <1>3, CreateOrderDoes
  <2> QED BY <2>1 DEF OrdersTyped
<1> QED BY <1>1, <1>2, <1>3, OrderWrites

(* Documents and requests have their types in every state.                 *)
THEOREM TypesHold == Spec => []TypeOK
<1>1. Typed /\ OrdersTyped => TypeOK
  BY DEF Typed, Asked, Requests, TypeOK, OrdersTyped
<1>2. Spec => []OrdersTyped
  BY AlwaysTyped, InitOrders, NextOrders, PTL DEF Spec
<1> QED BY <1>1, <1>2, AlwaysTyped, PTL

-----------------------------------------------------------------------------
(***************************************************************************)
(* Who writes what.  One step of request r leaves a variable alone unless  *)
(* it is one of these.                                                     *)
(***************************************************************************)
Step(r) == CatalogStep(r) \/ ImportStep(r)

CategoryWriter(r) ==
  \/ WriteCategory(r) \/ RemoveCategory(r) \/ Renumber(r) \/ Purge(r) \/ Park(r) \/ FinalRow(r)
  \/ DeleteDoc(r) \/ CreateCategoryDoc(r)
ProductWriter(r) ==
  \/ WriteProduct(r) \/ Archive(r) \/ InsertReview(r) \/ DeleteReview(r)
  \/ DeleteDoc(r) \/ CreateProductDoc(r)
ReviewWriter(r) == InsertReview(r) \/ DeleteReview(r) \/ DeleteDoc(r) \/ CreateReviewDoc(r)
BannerWriter(r) == SetBanner(r) \/ DeleteDoc(r) \/ CreateSettings(r)
MediaWriter(r)  == RegisterMedia(r) \/ DeleteRow(r) \/ WriteRow(r)
Destroys(r)     == \E answer \in {"ok", "error"}, gone \in BOOLEAN : Destroy(r, answer, gone)
CloudWriter(r)  == Upload(r) \/ Destroys(r) \/ UploadImage(r)
BaseWriter(r)   == WriteProduct(r) \/ DeleteDoc(r) \/ CreateProductDoc(r) \/ CreateReviewDoc(r)
FreshWriter(r)  == Upload(r) \/ RegisterMedia(r) \/ UploadImage(r) \/ WriteRow(r)

Writes(r) ==
  /\ category' # category => CategoryWriter(r)
  /\ product' # product => ProductWriter(r)
  /\ review' # review => ReviewWriter(r)
  /\ banner' # banner => BannerWriter(r)
  /\ media' # media => MediaWriter(r)
  /\ cloud' # cloud => CloudWriter(r)
  /\ base' # base => BaseWriter(r)
  /\ fresh' # fresh => FreshWriter(r)
  /\ raced \subseteq raced'
  /\ calm' \subseteq calm \cup {r}

LEMMA Writers ==
  ASSUME NEW r \in Request, Step(r)
  PROVE  Writes(r)
<1> USE DEF docs, history
<1>1. CASE CategoryStep(r)
  <2>1. CASE CheckCategory(r) BY <2>1 DEF CheckCategory, Writes
  <2>2. CASE WriteCategory(r) BY <2>2 DEF WriteCategory, Writes, CategoryWriter, Names, Disturbs
  <2>3. CASE CheckDelete(r) BY <2>3 DEF CheckDelete, Writes
  <2>4. CASE RemoveCategory(r) BY <2>4 DEF RemoveCategory, Removed, Writes, CategoryWriter, Disturbs
  <2>5. CASE Renumber(r) BY <2>5 DEF Renumber, Writes, CategoryWriter, Disturbs
  <2>6. CASE CheckReplace(r) BY <2>6 DEF CheckReplace, Writes, Starts
  <2>7. CASE ResolveList(r) BY <2>7 DEF ResolveList, Writes
  <2>8. CASE Purge(r) BY <2>8 DEF Purge, Removed, Writes, CategoryWriter, Disturbs
  <2>9. CASE Park(r) BY <2>9 DEF Park, Writes, CategoryWriter, Disturbs
  <2>10. CASE FinalRow(r) BY Zenon, <2>10 DEF FinalRow, Writes, CategoryWriter, Names, Disturbs
  <2>11. CASE EndReplace(r) BY <2>11 DEF EndReplace, Writes
  <2> QED BY <1>1, <2>1, <2>2, <2>3, <2>4, <2>5, <2>6, <2>7, <2>8, <2>9, <2>10, <2>11 DEF CategoryStep
<1>2. CASE ProductStep(r)
  <2>1. CASE StartProduct(r) BY <2>1 DEF StartProduct, Writes
  <2>2. CASE ResolveImage(r) BY <2>2 DEF ResolveImage, Writes
  <2>3. CASE ChooseSlug(r) BY <2>3 DEF ChooseSlug, Writes
  <2>4. CASE WriteProduct(r) BY <2>4 DEF WriteProduct, Writes, ProductWriter, BaseWriter, Names, Disturbs
  <2>5. CASE Archive(r) BY <2>5 DEF Archive, Writes, ProductWriter, Disturbs
  <2>6. CASE StartReview(r) BY <2>6 DEF StartReview, Writes
  <2>7. CASE InsertReview(r) BY <2>7 DEF InsertReview, Writes, ProductWriter, ReviewWriter
  <2>8. CASE DeleteReview(r) BY Zenon, <2>8 DEF DeleteReview, Writes, ProductWriter, ReviewWriter
  <2> QED BY <1>2, <2>1, <2>2, <2>3, <2>4, <2>5, <2>6, <2>7, <2>8 DEF ProductStep
<1>3. CASE MediaStep(r)
  <2>1. CASE Upload(r) BY <2>1 DEF Upload, Writes, CloudWriter, FreshWriter
  <2>2. CASE RegisterMedia(r) BY <2>2 DEF RegisterMedia, Writes, MediaWriter, FreshWriter
  <2>3. CASE CheckMedia(r) BY <2>3 DEF CheckMedia, Writes
  <2>4. CASE DeleteRow(r) BY <2>4 DEF DeleteRow, Writes, MediaWriter
  <2>5. CASE SetBanner(r) BY <2>5 DEF SetBanner, Writes, BannerWriter, Names, Disturbs
  <2>6. CASE Destroys(r)
    <3>1. PICK answer \in {"ok", "error"}, gone \in BOOLEAN : Destroy(r, answer, gone)
      BY <2>6 DEF Destroys
    <3>2. /\ UNCHANGED <<category, product, review, banner, media, calm, base, fresh>>
          /\ raced' = raced \/ raced' = raced \cup {req[r].job.id}
      BY <3>1 DEF Destroy
    <3> QED BY <2>6, <3>2 DEF Writes, CloudWriter
  <2> QED BY <1>3, <2>1, <2>2, <2>3, <2>4, <2>5, <2>6 DEF MediaStep, Destroys
<1>4. CASE Crash(r)
  BY <1>4 DEF Crash, Writes
<1>5. CASE ImportStep(r)
  <2>1. CASE StartImport(r) BY <2>1 DEF StartImport, Writes, Starts
  <2>2. CASE UploadImage(r) BY <2>2 DEF UploadImage, Writes, CloudWriter, FreshWriter
  <2>3. CASE WriteRow(r) BY <2>3 DEF WriteRow, Writes, MediaWriter, FreshWriter, Disturbs
  <2>4. CASE LookUp(r) BY <2>4 DEF LookUp, Writes
  <2>5. CASE DeleteDoc(r)
    <3>1. /\ raced \subseteq raced' /\ calm' \subseteq calm /\ UNCHANGED <<media, cloud, fresh>>
      BY <2>5 DEF DeleteDoc, Disturbs
    <3> QED BY <2>5, <3>1 DEF Writes, CategoryWriter, ProductWriter, ReviewWriter, BannerWriter, BaseWriter
  <2>6. CASE CreateCategoryDoc(r)
    BY Zenon, <2>6 DEF CreateCategoryDoc, Writes, CategoryWriter, Names, Disturbs
  <2>7. CASE CreateProductDoc(r)
    BY Zenon, <2>7 DEF CreateProductDoc, Writes, ProductWriter, BaseWriter, Names, Disturbs
  <2>8. CASE CreateReviewDoc(r) BY <2>8 DEF CreateReviewDoc, Writes, ReviewWriter, BaseWriter, Disturbs
  <2>9. CASE CreateSettings(r) BY <2>9 DEF CreateSettings, Writes, BannerWriter, Names, Disturbs
  <2>10. CASE EndImport(r) BY <2>10 DEF EndImport, Writes
  <2>11. CASE CreateOrderDoc(r) BY <2>11 DEF CreateOrderDoc, Writes, Disturbs
  <2> QED BY <1>5, <2>1, <2>2, <2>3, <2>4, <2>5, <2>6, <2>7, <2>8, <2>9, <2>10, <2>11 DEF ImportStep
<1> QED BY <1>1, <1>2, <1>3, <1>4, <1>5 DEF Step, CatalogStep

(***************************************************************************)
(* Where a request goes.  One step of request r leaves the records of the  *)
(* other requests alone, but for a media row that is gone, and changes its *)
(* own like this.                                                          *)
(***************************************************************************)
Alike(x) ==
  /\ req'[x].at = req[x].at /\ req'[x].cat = req[x].cat /\ req'[x].img = req[x].img
  /\ req'[x].slug = req[x].slug /\ req'[x].order = req[x].order
  /\ req'[x].held = req[x].held /\ req'[x].todo = req[x].todo

Proceeds(r) ==
  /\ Proceed(r)
  /\ \/ WriteRow(r) \/ LookUp(r) \/ CreateCategoryDoc(r) \/ CreateProductDoc(r)
     \/ CreateReviewDoc(r) \/ CreateOrderDoc(r) \/ CreateSettings(r)

Fails(r) ==
  \/ FinalRow(r) \/ WriteRow(r) \/ CreateCategoryDoc(r) \/ CreateProductDoc(r)
  \/ CreateReviewDoc(r) \/ CreateOrderDoc(r) \/ CreateSettings(r)

Arrives(r, at) ==
  /\ at # "start"
  /\ at = "remove"   => CheckDelete(r)
  /\ at = "images"   => CheckReplace(r)
  /\ at = "purge"    => ResolveList(r)
  /\ at = "park"     => Purge(r)
  /\ at = "final"    => Park(r) \/ FinalRow(r)
  /\ at = "destroy"  => CheckMedia(r)
  /\ at = "unrow"    => Destroys(r)
  /\ at = "row"      => UploadImage(r)
  /\ at = "delete"   => LookUp(r)
  /\ at = "create"   => LookUp(r) \/ DeleteDoc(r)
  /\ at \in {"upload", "exists"} => StartImport(r) \/ Proceeds(r)
  /\ at = "failed"   => Fails(r)
  /\ at = "done" /\ req[r].job.kind = "replaceCategories" => EndReplace(r)
  /\ at = "done" /\ req[r].job.kind = "import" => EndImport(r)

Goes(r) ==
  /\ \A x \in Request : req'[x].job = req[x].job
  /\ \A x \in Request \ {r} :
       /\ Alike(x)
       /\ \/ req'[x].doomed = req[x].doomed
          \/ DeleteRow(r) /\ req'[x].doomed = req[x].doomed \ req[r].doomed
  /\ req'[r].cat = req[r].cat \/ req'[r].cat = None \/ StartProduct(r)
  /\ req'[r].img = req[r].img \/ req'[r].img = None \/ ResolveImage(r)
  /\ req'[r].order = req[r].order \/ ResolveImage(r) \/ Park(r) \/ FinalRow(r)
  /\ req'[r].doomed = req[r].doomed \/ CheckDelete(r) \/ CheckReplace(r) \/ CheckMedia(r) \/ DeleteRow(r)
  /\ req'[r].held = req[r].held \/ req'[r].held = {} \/ ResolveList(r) \/ StartImport(r) \/ Proceeds(r)
  /\ req'[r].todo = req[r].todo \/ StartImport(r) \/ Proceeds(r)
  /\ Arrives(r, req'[r].at)

(* What is left to show of a record that moves *)
LEMMA MovesGo ==
  ASSUME NEW r \in Request, NEW at, NEW cat, NEW img, NEW slug, NEW order, NEW doomed, NEW held, NEW todo,
         Moves(r, at, cat, img, slug, order, doomed, held, todo),
         cat = req[r].cat \/ cat = None \/ StartProduct(r),
         img = req[r].img \/ img = None \/ ResolveImage(r),
         order = req[r].order \/ ResolveImage(r) \/ Park(r) \/ FinalRow(r),
         doomed = req[r].doomed \/ CheckDelete(r) \/ CheckReplace(r) \/ CheckMedia(r) \/ DeleteRow(r),
         held = req[r].held \/ held = {} \/ ResolveList(r) \/ StartImport(r) \/ Proceeds(r),
         todo = req[r].todo \/ StartImport(r) \/ Proceeds(r),
         Arrives(r, at)
  PROVE  Goes(r)
BY DEF Moves, Goes, Alike

LEMMA EndGoes ==
  ASSUME Asked, NEW r \in Request, NEW how \in Stages, End(r, how), Arrives(r, how)
  PROVE  Goes(r)
<1>1. Moves(r, how, req[r].cat, req[r].img, req[r].slug,
            req[r].order, req[r].doomed, req[r].held, req[r].todo)
  BY EndMoves
<1> QED BY <1>1, MovesGo

LEMMA DoomsGoes ==
  ASSUME Asked, NEW r \in Request, NEW how \in Stages, NEW ks \in SUBSET (CategoryId \cup Asset),
         Dooms(r, ks, how), Arrives(r, how), CheckDelete(r) \/ CheckReplace(r) \/ CheckMedia(r)
  PROVE  Goes(r)
<1>1. Moves(r, how, req[r].cat, req[r].img, req[r].slug, req[r].order, ks, req[r].held, req[r].todo)
  BY DoomsMoves
<1> QED BY <1>1, MovesGo

LEMMA KeepsGoes ==
  ASSUME Asked, NEW r \in Request, NEW how \in Stages, NEW ks \in SUBSET (CategoryId \cup Asset),
         Keeps(r, ks, how), Arrives(r, how), ks = {} \/ ResolveList(r)
  PROVE  Goes(r)
<1>1. Moves(r, how, req[r].cat, req[r].img, req[r].slug, req[r].order, req[r].doomed, ks, req[r].todo)
  BY KeepsMoves
<1> QED BY <1>1, MovesGo

LEMMA WrittenGoes ==
  ASSUME Asked, NEW r \in Request, NEW how \in Stages \ {"slug", "write"},
         Written(r, how), Arrives(r, how)
  PROVE  Goes(r)
<1>1. Moves(r, how, None, None, req[r].slug, req[r].order, req[r].doomed, req[r].held, req[r].todo)
  BY WrittenMoves
<1> QED BY <1>1, MovesGo

LEMMA ReachesGoes ==
  ASSUME Asked, NEW r \in Request, NEW i \in Nat, Reaches(r, i), Park(r) \/ FinalRow(r)
  PROVE  Goes(r)
<1>1. Moves(r, "final", req[r].cat, req[r].img, req[r].slug, i, req[r].doomed, req[r].held, req[r].todo)
  BY ReachesMoves
<1>2. Arrives(r, "final")
  BY DEF Arrives
<1> QED BY <1>1, <1>2, MovesGo

LEMMA ProceedGoes ==
  ASSUME Asked, NEW r \in Request, NEW kinds, NEW at \in Importing, Doing(r, kinds, at), Proceeds(r)
  PROVE  Goes(r)
<1> DEFINE q == req[r]
<1>1. Moves(r, Onward(r), q.cat, q.img, q.slug, q.order, q.doomed, q.held \cup Taken(r), Tail(q.todo))
  BY ProceedMoves DEF Proceeds
<1>2. Onward(r) \in {"upload", "exists"}
  BY DEF Onward
<1>3. Arrives(r, Onward(r))
  BY <1>2 DEF Arrives
<1> QED BY <1>1, <1>3, MovesGo

LEMMA CategoryGoes ==
  ASSUME Typed, NEW r \in Request, CategoryStep(r)
  PROVE  Goes(r)
<1>0. Asked /\ req[r] \in Requests /\ Placed(req[r], Export[r])
  BY DEF Typed, Asked
<1>1. CASE CheckCategory(r)
  <2>1. Arrives(r, "resolve")
    BY DEF Arrives
  <2>2. PICK s \in SlugOf : Moves(r, "resolve", req[r].cat, req[r].img, s, req[r].order, req[r].doomed,
                                 req[r].held, req[r].todo)
    BY <1>1, CheckCategoryMoves
  <2> QED BY <2>1, <2>2, MovesGo
<1>2. CASE WriteCategory(r)
  <2>1. (Written(r, "done") \/ Written(r, "refused")) /\ req[r].job.kind \in CategoryWrite
    BY <1>2 DEF WriteCategory, Jobs, CategoryWrite
  <2>2. Arrives(r, "done") /\ Arrives(r, "refused")
    BY <2>1 DEF Arrives, CategoryWrite
  <2> QED BY <1>0, <2>1, <2>2, StageNames, WrittenGoes
<1>3. CASE CheckDelete(r)
  <2>1. Dooms(r, {req[r].job.id}, "remove") \/ End(r, "refused")
    BY <1>3 DEF CheckDelete
  <2>2. {req[r].job.id} \in SUBSET (CategoryId \cup Asset)
    BY <1>0, <1>3 DEF CheckDelete, Categories
  <2>3. Arrives(r, "remove") /\ Arrives(r, "refused")
    BY <1>3 DEF Arrives
  <2> QED BY <1>0, <1>3, <2>1, <2>2, <2>3, StageNames, DoomsGoes, EndGoes
<1>4. CASE RemoveCategory(r)
  <2>1. End(r, "renumber") /\ Arrives(r, "renumber")
    BY <1>4 DEF RemoveCategory, Arrives
  <2> QED BY <1>0, <2>1, StageNames, EndGoes
<1>5. CASE Renumber(r)
  <2>1. End(r, "done") /\ req[r].job.kind = "deleteCategory"
    BY <1>5 DEF Renumber, Jobs
  <2>2. Arrives(r, "done")
    BY <2>1 DEF Arrives
  <2> QED BY <1>0, <2>1, <2>2, StageNames, EndGoes
<1>6. CASE CheckReplace(r)
  <2> DEFINE gone == Categories \ Listed(r)
  <2>1. Dooms(r, gone, "images") \/ End(r, "refused")
    BY <1>6 DEF CheckReplace
  <2>2. gone \in SUBSET (CategoryId \cup Asset)
    BY DEF Categories
  <2>3. Arrives(r, "images") /\ Arrives(r, "refused")
    BY <1>6 DEF Arrives
  <2> HIDE DEF gone
  <2> QED BY <1>0, <1>6, <2>1, <2>2, <2>3, StageNames, DoomsGoes, EndGoes
<1>7. CASE ResolveList(r)
  <2> DEFINE list == req[r].job.list
             used == {list[i].image : i \in DOMAIN list} \ {None}
  <2>1. (Keeps(r, used, "purge") /\ used \subseteq media) \/ End(r, "refused")
    BY <1>7 DEF ResolveList
  <2>2. used \subseteq media => used \in SUBSET (CategoryId \cup Asset)
    BY DEF Typed, CatalogTypeOK
  <2>3. Arrives(r, "purge") /\ Arrives(r, "refused")
    BY <1>7 DEF Arrives
  <2> HIDE DEF used
  <2> QED BY <1>0, <1>7, <2>1, <2>2, <2>3, StageNames, KeepsGoes, EndGoes
<1>8. CASE Purge(r)
  <2>1. End(r, "park") /\ Arrives(r, "park")
    BY <1>8 DEF Purge, Arrives
  <2> QED BY <1>0, <2>1, StageNames, EndGoes
<1>9. CASE Park(r)
  BY <1>0, <1>9, ReachesGoes DEF Park
<1>10. CASE FinalRow(r)
  <2>1. req[r].order + 1 \in Nat
    BY <1>0 DEF Requests
  <2>2. End(r, "failed") \/ Reaches(r, req[r].order + 1)
    BY Zenon, <1>10 DEF FinalRow
  <2>3. Arrives(r, "failed")
    BY <1>10 DEF Arrives, Fails
  <2> QED BY <1>0, <1>10, <2>1, <2>2, <2>3, StageNames, ReachesGoes, EndGoes
<1>11. CASE EndReplace(r)
  <2>1. Keeps(r, {}, "done") /\ req[r].job.kind = "replaceCategories"
    BY <1>11 DEF EndReplace, Jobs
  <2>2. Arrives(r, "done")
    BY <1>11, <2>1 DEF Arrives
  <2> QED BY <1>0, <2>1, <2>2, StageNames, KeepsGoes
<1> QED BY <1>1, <1>2, <1>3, <1>4, <1>5, <1>6, <1>7, <1>8, <1>9, <1>10, <1>11 DEF CategoryStep

LEMMA ProductGoes ==
  ASSUME Typed, NEW r \in Request, ProductStep(r)
  PROVE  Goes(r)
<1>0. Asked /\ req[r] \in Requests /\ Placed(req[r], Export[r])
  BY DEF Typed, Asked
<1>1. CASE StartProduct(r)
  <2>1. PICK c \in Categories :
          Moves(r, "resolve", c, req[r].img, req[r].slug, req[r].order, req[r].doomed, req[r].held, req[r].todo)
    BY <1>1, StartProductMoves
  <2>2. Arrives(r, "resolve")
    BY DEF Arrives
  <2> QED BY <1>1, <2>1, <2>2, MovesGo
<1>2. CASE ResolveImage(r)
  <2> DEFINE a == req[r].job.image
             how == IF req[r].job.kind \in {"createProduct", "updateProduct"} THEN "slug" ELSE "write"
  <2>1. Resolved(r, a, how) \/ End(r, "refused")
    BY <1>2 DEF ResolveImage
  <2>2. a \in Asset \cup {None} /\ Cardinality(Categories) \in Nat
    BY <1>0, Counting DEF Requests, Job, Categories
  <2>3. how \in Stages /\ Arrives(r, how) /\ Arrives(r, "refused")
    BY StageNames DEF Arrives
  <2> HIDE DEF a, how
  <2>4. CASE Resolved(r, a, how)
    <3>1. Moves(r, how, req[r].cat, a, req[r].slug, Cardinality(Categories),
                req[r].doomed, req[r].held, req[r].todo)
      BY <1>0, <2>2, <2>3, <2>4, ResolvedMoves
    <3> QED BY <1>2, <2>3, <3>1, MovesGo
  <2> QED BY <1>0, <2>1, <2>3, <2>4, StageNames, EndGoes
<1>3. CASE ChooseSlug(r)
  <2>1. Arrives(r, "write") /\ Arrives(r, "refused")
    BY DEF Arrives
  <2>2. CASE Written(r, "refused")
    BY <1>0, <2>1, <2>2, StageNames, WrittenGoes
  <2>3. ASSUME NEW s, Moves(r, "write", req[r].cat, req[r].img, s, req[r].order, req[r].doomed,
                            req[r].held, req[r].todo)
        PROVE  Goes(r)
    BY <2>1, <2>3, MovesGo
  <2> QED BY <1>3, <2>2, <2>3, ChooseSlugMoves
<1>4. CASE WriteProduct(r)
  <2>1. (Written(r, "done") \/ Written(r, "refused")) /\ req[r].job.kind \in ProductWrite
    BY <1>4 DEF WriteProduct, Jobs, ProductWrite
  <2>2. Arrives(r, "done") /\ Arrives(r, "refused")
    BY <2>1 DEF Arrives, ProductWrite
  <2> QED BY <1>0, <2>1, <2>2, StageNames, WrittenGoes
<1>5. CASE Archive(r)
  <2>1. End(r, "done") /\ req[r].job.kind \in {"archive", "unarchive"}
    BY <1>5 DEF Archive, Jobs
  <2>2. Arrives(r, "done")
    BY <2>1 DEF Arrives
  <2> QED BY <1>0, <2>1, <2>2, StageNames, EndGoes
<1>6. CASE StartReview(r)
  <2>1. End(r, "insert") /\ Arrives(r, "insert")
    BY <1>6 DEF StartReview, Arrives
  <2> QED BY <1>0, <2>1, StageNames, EndGoes
<1>7. CASE InsertReview(r)
  <2>1. (End(r, "done") \/ End(r, "refused")) /\ req[r].job.kind = "review"
    BY <1>7 DEF InsertReview, Jobs
  <2>2. Arrives(r, "done") /\ Arrives(r, "refused")
    BY <2>1 DEF Arrives
  <2> QED BY <1>0, <2>1, <2>2, StageNames, EndGoes
<1>8. CASE DeleteReview(r)
  <2>1. End(r, "done") /\ req[r].job.kind = "moderate"
    BY Zenon, <1>8 DEF DeleteReview, Jobs
  <2>2. Arrives(r, "done")
    BY <2>1 DEF Arrives
  <2> QED BY <1>0, <2>1, <2>2, StageNames, EndGoes
<1> QED BY <1>1, <1>2, <1>3, <1>4, <1>5, <1>6, <1>7, <1>8 DEF ProductStep

LEMMA MediaGoes ==
  ASSUME Typed, NEW r \in Request, MediaStep(r)
  PROVE  Goes(r)
<1>0. Asked /\ req[r] \in Requests
  BY DEF Typed, Asked
<1>1. CASE Upload(r)
  <2>1. End(r, "register") /\ Arrives(r, "register")
    BY <1>1 DEF Upload, Arrives
  <2> QED BY <1>0, <2>1, StageNames, EndGoes
<1>2. CASE RegisterMedia(r)
  <2>1. End(r, "done") /\ req[r].job.kind \in {"upload", "reregister"}
    BY <1>2 DEF RegisterMedia, Jobs
  <2>2. Arrives(r, "done")
    BY <2>1 DEF Arrives
  <2> QED BY <1>0, <2>1, <2>2, StageNames, EndGoes
<1>3. CASE CheckMedia(r)
  <2>1. (Dooms(r, {req[r].job.id}, "destroy") \/ End(r, "refused")) /\ req[r].job.id \in media
    BY <1>3 DEF CheckMedia
  <2>2. {req[r].job.id} \in SUBSET (CategoryId \cup Asset)
    BY <2>1 DEF Typed, CatalogTypeOK
  <2>3. Arrives(r, "destroy") /\ Arrives(r, "refused")
    BY <1>3 DEF Arrives
  <2> QED BY <1>0, <1>3, <2>1, <2>2, <2>3, StageNames, DoomsGoes, EndGoes
<1>4. CASE DeleteRow(r)
  <2>1. Undoomed(r) /\ req[r].job.kind = "deleteMedia"
    BY <1>4 DEF DeleteRow, Jobs
  <2>2. Arrives(r, "done")
    BY <2>1 DEF Arrives
  <2> QED BY <1>0, <1>4, <2>1, <2>2, UndoomedMoves DEF Goes, Alike
<1>5. CASE SetBanner(r)
  <2>1. End(r, "done") /\ req[r].job.kind = "banner"
    BY <1>5 DEF SetBanner, Jobs
  <2>2. Arrives(r, "done")
    BY <2>1 DEF Arrives
  <2> QED BY <1>0, <2>1, <2>2, StageNames, EndGoes
<1>6. CASE Destroys(r)
  <2>1. End(r, "refused") \/ End(r, "unrow")
    BY <1>6 DEF Destroys, Destroy, AfterDestroy
  <2>2. Arrives(r, "refused") /\ Arrives(r, "unrow")
    BY <1>6 DEF Arrives
  <2> QED BY <1>0, <2>1, <2>2, StageNames, EndGoes
<1> QED BY <1>1, <1>2, <1>3, <1>4, <1>5, <1>6 DEF MediaStep, Destroys

LEMMA ImportGoes ==
  ASSUME Typed, NEW r \in Request, ImportStep(r)
  PROVE  Goes(r)
<1>0. Asked /\ req[r] \in Requests /\ Placed(req[r], Export[r])
  BY DEF Typed, Asked
<1>00. {"upload", "row", "exists", "delete", "create"} \subseteq Importing
  BY DEF Importing
<1>1. CASE StartImport(r)
  <2> DEFINE missing == Images(Export[r]) \ media
             how == IF missing = {} THEN "exists" ELSE "upload"
             todo == Todo(Export[r], missing)
  <2>1. /\ req[r].job.kind = "import"
        /\ \/ End(r, "refused")
           \/ ~Problems(Export[r]) /\ Plans(r, todo, Images(Export[r]), how)
    BY <1>1 DEF StartImport, Jobs
  <2>2. Arrives(r, how) /\ Arrives(r, "refused") /\ how \in {"exists", "upload"}
    BY <1>1 DEF Arrives
  <2>3. CASE ~Problems(Export[r]) /\ Plans(r, todo, Images(Export[r]), how)
    <3> HIDE DEF how, missing
    <3>0. missing \in SUBSET Images(Export[r])
      BY DEF missing
    <3>1. Moves(r, how, req[r].cat, req[r].img, req[r].slug, req[r].order, req[r].doomed,
                Images(Export[r]), todo)
      BY <1>0, <2>1, <2>2, <2>3, <3>0, StartImportMoves
    <3> QED BY <1>1, <2>2, <3>1, MovesGo
  <2> QED BY <1>0, <2>1, <2>2, <2>3, StageNames, EndGoes
<1>2. CASE UploadImage(r)
  <2>1. End(r, "row") /\ Arrives(r, "row")
    BY <1>2 DEF UploadImage, Arrives
  <2> QED BY <1>0, <2>1, StageNames, EndGoes
<1>3. CASE WriteRow(r)
  <2>1. Doing(r, {"image"}, "row") /\ (End(r, "failed") \/ Proceed(r))
    BY <1>3 DEF WriteRow
  <2>2. Arrives(r, "failed")
    BY <1>3 DEF Arrives, Fails
  <2> QED BY <1>0, <1>00, <1>3, <2>1, <2>2, StageNames, EndGoes, ProceedGoes DEF Proceeds
<1>4. CASE LookUp(r)
  <2>1. Doing(r, Document, "exists") /\ (End(r, "create") \/ End(r, "delete") \/ Proceed(r))
    BY <1>4 DEF LookUp
  <2>2. Arrives(r, "create") /\ Arrives(r, "delete")
    BY <1>4 DEF Arrives
  <2> QED BY <1>0, <1>00, <1>4, <2>1, <2>2, StageNames, EndGoes, ProceedGoes DEF Proceeds
<1>5. CASE DeleteDoc(r)
  <2>1. End(r, "create") /\ Arrives(r, "create")
    BY <1>5 DEF DeleteDoc, Arrives
  <2> QED BY <1>0, <2>1, StageNames, EndGoes
<1>6. CASE CreateCategoryDoc(r)
  <2>1. Doing(r, {"category"}, "create") /\ (End(r, "failed") \/ Proceed(r))
    BY <1>6 DEF CreateCategoryDoc
  <2>2. Arrives(r, "failed")
    BY <1>6 DEF Arrives, Fails
  <2> QED BY <1>0, <1>00, <1>6, <2>1, <2>2, StageNames, EndGoes, ProceedGoes DEF Proceeds
<1>7. CASE CreateProductDoc(r)
  <2>1. Doing(r, {"product"}, "create") /\ (End(r, "failed") \/ Proceed(r))
    BY <1>7 DEF CreateProductDoc
  <2>2. Arrives(r, "failed")
    BY <1>7 DEF Arrives, Fails
  <2> QED BY <1>0, <1>00, <1>7, <2>1, <2>2, StageNames, EndGoes, ProceedGoes DEF Proceeds
<1>8. CASE CreateReviewDoc(r)
  <2>1. Doing(r, {"review"}, "create") /\ (End(r, "failed") \/ Proceed(r))
    BY <1>8 DEF CreateReviewDoc
  <2>2. Arrives(r, "failed")
    BY <1>8 DEF Arrives, Fails
  <2> QED BY <1>0, <1>00, <1>8, <2>1, <2>2, StageNames, EndGoes, ProceedGoes DEF Proceeds
<1>9. CASE CreateSettings(r)
  <2>1. Doing(r, {"settings"}, "create") /\ (End(r, "failed") \/ Proceed(r))
    BY <1>9 DEF CreateSettings
  <2>2. Arrives(r, "failed")
    BY <1>9 DEF Arrives, Fails
  <2> QED BY <1>0, <1>00, <1>9, <2>1, <2>2, StageNames, EndGoes, ProceedGoes DEF Proceeds
<1>10. CASE EndImport(r)
  <2>1. Keeps(r, {}, "done") /\ req[r].job.kind = "import"
    BY <1>10 DEF EndImport, Jobs
  <2>2. Arrives(r, "done")
    BY <1>10, <2>1 DEF Arrives
  <2> QED BY <1>0, <2>1, <2>2, StageNames, KeepsGoes
<1>11. CASE CreateOrderDoc(r)
  <2>1. Doing(r, {"order"}, "create") /\ (End(r, "failed") \/ Proceed(r))
    BY <1>11 DEF CreateOrderDoc
  <2>2. Arrives(r, "failed")
    BY <1>11 DEF Arrives, Fails
  <2> QED BY <1>0, <1>00, <1>11, <2>1, <2>2, StageNames, EndGoes, ProceedGoes DEF Proceeds
<1> QED BY <1>1, <1>2, <1>3, <1>4, <1>5, <1>6, <1>7, <1>8, <1>9, <1>10, <1>11 DEF ImportStep

LEMMA Goers ==
  ASSUME Typed, NEW r \in Request, Step(r)
  PROVE  Goes(r)
<1>1. CASE Crash(r)
  <2>1. End(r, "killed") /\ Arrives(r, "killed")
    BY <1>1 DEF Crash, Arrives
  <2> QED BY <2>1, StageNames, EndGoes DEF Typed
<1> QED BY <1>1, CategoryGoes, ProductGoes, MediaGoes, ImportGoes DEF Step, CatalogStep

-----------------------------------------------------------------------------
(***************************************************************************)
(* What a write leaves of the references: the picture of a category, and   *)
(* the category and the picture of a product, are the ones it had or were  *)
(* named by the write.                                                     *)
(***************************************************************************)
SafeCategory(c) == c \in raced' \/ ~Removing(c)
SafeAsset(a)    == a \in raced' \/ (~Destroying(a) /\ a \in cloud)

LEMMA NamesSafe ==
  ASSUME NEW c, NEW a, Names(c, a)
  PROVE  /\ c \in CategoryId => SafeCategory(c)
         /\ a \in Asset => SafeAsset(a)
BY DEF Names, SafeCategory, SafeAsset

LEMMA CategoryIs ==
  ASSUME Typed, NEW c \in Categories
  PROVE  c \in CategoryId /\ category[c] \in CategoryDoc /\ category[c].image \in Asset \cup {None}
BY DEF Typed, CatalogTypeOK, Categories, CategoryDoc

LEMMA ProductIs ==
  ASSUME Typed, NEW p \in Products
  PROVE  /\ p \in ProductId /\ product[p] \in ProductDoc /\ product[p].cat \in CategoryId
         /\ product[p].image \in Asset \cup {None}
BY DEF Typed, CatalogTypeOK, Products, ProductDoc

(* The categories after a row was written *)
LEMMA CategoriesAfter ==
  ASSUME Typed, NEW c \in CategoryId, NEW d \in CategoryDoc, category' = [category EXCEPT ![c] = d]
  PROVE  /\ Categories' = Categories \cup {c}
         /\ category'[c] = d /\ \A k \in CategoryId \ {c} : category'[k] = category[k]
BY CatalogConstants DEF Typed, CatalogTypeOK, Categories

LEMMA FinalRowDoes ==
  ASSUME Typed, NEW r \in Request, FinalRow(r)
  PROVE  LET i == req[r].order
             row == req[r].job.list[i]
             label == Label(row.name, 1)
         IN  /\ i \in DOMAIN req[r].job.list /\ i \in Nat \ {0}
             /\ row.id \in CategoryId /\ row.name \in Name /\ row.image \in Asset \cup {None}
             /\ \/ /\ End(r, "failed") /\ UNCHANGED <<category, raced, calm>> /\ row.id \in Categories
                   /\ ~NameFree(label, row.id) \/ ~CategorySlugFree(label, row.id)
                \/ /\ Names(None, row.image) /\ Reaches(r, i + 1) /\ Disturbs(r)
                   /\ \/ row.id \notin Categories /\ UNCHANGED category
                      \/ /\ row.id \in Categories
                         /\ \E d \in CategoryDoc : /\ category' = [category EXCEPT ![row.id] = d]
                                                   /\ d.name = label /\ d.slug = label
                                                   /\ d.order = i - 1 /\ d.image = row.image
<1> DEFINE q == req[r]
           i == q.order
           row == q.job.list[i]
           label == Label(row.name, 1)
           d == [name |-> label, slug |-> label, order |-> i - 1, image |-> row.image]
<1>1. Asked /\ q \in Requests BY DEF Typed, Asked
<1>2. i \in DOMAIN q.job.list BY Zenon DEF FinalRow
<1>3. /\ i \in Nat \ {0} /\ row.id \in CategoryId /\ row.name \in Name /\ row.image \in Asset \cup {None}
  BY <1>1, <1>2, ListTyped
<1>4. CASE /\ category' = [category EXCEPT ![row.id] = IF row.id \in Categories THEN d ELSE None]
           /\ Names(None, row.image) /\ Reaches(r, i + 1) /\ Disturbs(r)
  <2>1. d \in CategoryDoc BY <1>3 DEF CategoryDoc, Label
  <2>2. d.name = label /\ d.slug = label /\ d.order = i - 1 /\ d.image = row.image
    OBVIOUS
  <2> HIDE DEF d
  <2>3. row.id \notin Categories => category' = category
    BY Zenon, <1>3, <1>4 DEF Categories, Typed, CatalogTypeOK
  <2> QED BY Zenon, <1>2, <1>3, <1>4, <2>1, <2>2, <2>3
<1>5. CASE /\ End(r, "failed") /\ UNCHANGED <<category, raced, calm>> /\ row.id \in Categories
           /\ ~NameFree(label, row.id) \/ ~CategorySlugFree(label, row.id)
  BY Zenon, <1>2, <1>3, <1>5
<1> QED BY Zenon, <1>4, <1>5 DEF FinalRow

LEMMA RenumberDoes ==
  ASSUME Typed, NEW r \in Request, Renumber(r)
  PROVE  /\ Categories' = Categories
         /\ \A c \in Categories : category'[c].image = category[c].image
         /\ raced' = raced
<1>1. PICK rank \in [Categories -> 0..(Cardinality(Categories) - 1)] :
        category' = [c \in CategoryId |->
            IF c \in Categories THEN [category[c] EXCEPT !.order = rank[c]] ELSE None]
  BY DEF Renumber
<1>2. Cardinality(Categories) \in Nat BY Counting DEF Categories
<1>3. ASSUME NEW c \in Categories
      PROVE  /\ [category[c] EXCEPT !.order = rank[c]] \in CategoryDoc
             /\ [category[c] EXCEPT !.order = rank[c]].image = category[c].image
  <2>1. category[c] \in CategoryDoc BY CategoryIs
  <2>2. rank[c] \in Nat BY <1>2
  <2> QED BY <2>1, <2>2 DEF CategoryDoc
<1>4. raced' = raced BY DEF Renumber
<1> QED BY <1>1, <1>3, <1>4, CatalogConstants DEF Categories

LEMMA ParkDoes ==
  ASSUME Typed, NEW r \in Request, Park(r)
  PROVE  /\ Categories' = Categories \cup Listed(r)
         /\ \A c \in Listed(r) : category'[c] = ParkedNames(c)
         /\ \A c \in CategoryId \ Listed(r) : category'[c] = category[c]
         /\ raced' = raced
<1>1. category' = [c \in CategoryId |-> IF c \in Listed(r) THEN ParkedNames(c) ELSE category[c]]
      /\ raced' = raced
  BY DEF Park
<1>2. Listed(r) \subseteq CategoryId
  BY ListTyped DEF Listed, Typed
<1>3. \A c \in Listed(r) : ParkedNames(c) # None
  BY <1>2, ParkedDoc, CatalogConstants
<1> QED BY <1>1, <1>2, <1>3 DEF Categories

LEMMA RemovedDoes ==
  ASSUME Typed, NEW r \in Request, Removed(r)
  PROVE  /\ Categories' = Categories \ req[r].doomed
         /\ \A c \in Categories' : category'[c] = category[c]
         /\ \A c \in CategoryId \cap req[r].doomed, x \in Request : Holds(x, c) => c \in raced'
         /\ raced \subseteq raced'
BY DEF Removed, Categories

(* What became of the categories *)
LEMMA CategoryDocs ==
  ASSUME Typed, NEW r \in Request, Step(r)
  PROVE  /\ \A c \in Categories \ Categories' :
              \/ c \in raced'
              \/ (RemoveCategory(r) \/ Purge(r)) /\ c \in req[r].doomed
         /\ \A c \in Categories' :
              \/ c \in Categories /\ category'[c].image = category[c].image
              \/ category'[c].image = None
              \/ category'[c].image \in Asset /\ SafeAsset(category'[c].image)
<1>1. CASE category' = category
  BY <1>1 DEF Categories
<1>2. CASE WriteCategory(r)
  <2> DEFINE c == req[r].job.id
  <2>1. CASE UNCHANGED category
    BY <2>1 DEF Categories
  <2>2. ASSUME NEW d \in CategoryDoc, category' = [category EXCEPT ![c] = d], Names(None, req[r].img),
               d.image = req[r].img \/ (c \in Categories /\ d.image = category[c].image)
        PROVE  /\ \A k \in Categories \ Categories' : k \in raced'
               /\ \A k \in Categories' :
                    \/ k \in Categories /\ category'[k].image = category[k].image
                    \/ category'[k].image = None
                    \/ category'[k].image \in Asset /\ SafeAsset(category'[k].image)
    <3>1. c \in CategoryId
      BY <1>2, WriteCategoryWrites
    <3>2. req[r].img \in Asset \cup {None}
      BY DEF Typed, Asked, Requests
    <3> HIDE DEF c
    <3>3. /\ Categories' = Categories \cup {c}
          /\ category'[c] = d /\ \A k \in CategoryId \ {c} : category'[k] = category[k]
      BY <2>2, <3>1, CategoriesAfter
    <3> QED BY <2>2, <3>2, <3>3, NamesSafe DEF Categories
  <2> QED BY <1>2, <2>1, <2>2, WriteCategoryWrites
<1>3. CASE FinalRow(r)
  <2> DEFINE row == req[r].job.list[req[r].order]
  <2>1. CASE UNCHANGED category
    BY <2>1 DEF Categories
  <2>2. CASE \E d \in CategoryDoc : category' = [category EXCEPT ![row.id] = d] /\ d.image = row.image
    <3>1. PICK d \in CategoryDoc : category' = [category EXCEPT ![row.id] = d] /\ d.image = row.image
      BY Zenon, <2>2
    <3>2. row.id \in CategoryId /\ row.image \in Asset \cup {None}
      BY <1>3, FinalRowDoes
    <3>3. Names(None, row.image) \/ UNCHANGED category
      BY <1>3, FinalRowDoes
    <3>4. /\ Categories' = Categories \cup {row.id}
          /\ category'[row.id] = d /\ \A k \in CategoryId \ {row.id} : category'[k] = category[k]
      BY Zenon, <3>1, <3>2, CategoriesAfter
    <3>5. CASE Names(None, row.image)
      <4>1. d.image = None \/ (d.image \in Asset /\ SafeAsset(d.image))
        BY Zenon, <3>1, <3>2, <3>5, NamesSafe
      <4>2. \A c \in Categories' : c = row.id \/ (c \in Categories /\ category'[c] = category[c])
        BY Zenon, <3>4 DEF Categories
      <4> QED BY Zenon, <3>4, <4>1, <4>2
    <3> QED BY Zenon, <2>1, <3>3, <3>5
  <2> QED BY <1>3, <2>1, <2>2, FinalRowDoes
<1>4. CASE Renumber(r)
  BY <1>4, RenumberDoes
<1>5. CASE Park(r)
  <2>1. Listed(r) \subseteq CategoryId
    BY ListTyped DEF Listed, Typed
  <2> QED BY <1>5, <2>1, ParkDoes, ParkedDoc DEF Categories
<1>6. CASE RemoveCategory(r)
  BY <1>6, RemovedDoes DEF RemoveCategory
<1>7. CASE Purge(r)
  BY <1>7, RemovedDoes DEF Purge
<1>8. CASE DeleteDoc(r)
  <2>1. CASE category' = [category EXCEPT ![Task(r).id] = None] /\ raced' = raced \cup {Task(r).id}
    BY <2>1 DEF Categories, Typed, CatalogTypeOK
  <2> QED BY <1>1, <1>8, <2>1, DeleteDocDoes
<1>9. CASE CreateCategoryDoc(r)
  <2> DEFINE c == Task(r).id
             d == PlannedCategory(r, Task(r).row)
  <2>1. CASE category' = [category EXCEPT ![c] = d] /\ Names(None, d.image)
    <3>1. c \in CategoryId /\ d \in CategoryDoc /\ d.image \in Images(Export[r]) \cup {None}
      BY <1>9, CreateCategoryDoes
    <3> HIDE DEF c, d
    <3>2. /\ Categories' = Categories \cup {c}
          /\ category'[c] = d /\ \A k \in CategoryId \ {c} : category'[k] = category[k]
      BY <2>1, <3>1, CategoriesAfter
    <3>3. d.image \in Asset \cup {None}
      BY <3>1, ImagesAre
    <3> QED BY <2>1, <3>2, <3>3, NamesSafe DEF Categories
  <2> QED BY <1>1, <1>9, <2>1, CreateCategoryDoes
<1> QED BY <1>1, <1>2, <1>3, <1>4, <1>5, <1>6, <1>7, <1>8, <1>9, Writers DEF Writes, CategoryWriter

(* The products after a row was written *)
LEMMA ProductsAfter ==
  ASSUME Typed, NEW p \in ProductId, NEW d \in ProductDoc, product' = [product EXCEPT ![p] = d]
  PROVE  /\ Products' = Products \cup {p}
         /\ product'[p] = d /\ \A k \in ProductId \ {p} : product'[k] = product[k]
BY CatalogConstants DEF Typed, CatalogTypeOK, Products

(* A new count leaves the products, their categories, pictures and slugs. *)
Recount(p, n) == product' = [product EXCEPT ![p].count = n]

LEMMA RecountKeeps ==
  ASSUME Typed, NEW p \in Products, NEW n \in Nat, Recount(p, n)
  PROVE  /\ Products' = Products
         /\ product'[p].count = n /\ \A o \in Products \ {p} : product'[o].count = product[o].count
         /\ \A o \in Products : /\ product'[o].cat = product[o].cat
                                /\ product'[o].image = product[o].image
                                /\ product'[o].slug = product[o].slug
<1>1. /\ p \in ProductId /\ product[p] \in ProductDoc
      /\ \A o \in ProductId \ {p} : product'[o] = product[o]
      /\ product'[p] # None /\ product'[p].count = n /\ product'[p].cat = product[p].cat
      /\ product'[p].image = product[p].image /\ product'[p].slug = product[p].slug
  BY Zenon, Recounted DEF Recount
<1>2. Products' = Products
  BY <1>1 DEF Products
<1> QED BY <1>1, <1>2 DEF Products

LEMMA ReviewRecounts ==
  ASSUME Typed, NEW r \in Request, InsertReview(r) \/ DeleteReview(r)
  PROVE  UNCHANGED product \/ \E p \in Products, n \in Nat : Recount(p, n)
<1>1. CASE InsertReview(r)
  <2> DEFINE p == req[r].job.id
  <2>1. CASE p \in Products /\ product' = [product EXCEPT ![p].count = product[p].count + 1]
    <3>1. product[p].count + 1 \in Nat
      BY <2>1, CountIsNat
    <3> QED BY <2>1, <3>1 DEF Recount
  <2> QED BY <1>1, <2>1, InsertReviewDoes
<1>2. CASE DeleteReview(r)
  <2> DEFINE p == review[req[r].job.id].product
  <2>1. CASE p \in Products /\ product' = [product EXCEPT ![p].count = CountWithout(product[p].count)]
    <3>1. product[p].count \in Nat
      BY Zenon, <2>1, CountIsNat
    <3>2. CountWithout(product[p].count) \in Nat
      BY <3>1 DEF CountWithout
    <3> QED BY Zenon, <2>1, <3>2 DEF Recount
  <2> QED BY Zenon, <1>2, <2>1, DeleteReviewDoes
<1> QED BY <1>1, <1>2

LEMMA ArchiveDoes ==
  ASSUME Typed, NEW r \in Request, Archive(r)
  PROVE  /\ Products' = Products
         /\ \A o \in Products : /\ product'[o].cat = product[o].cat
                                /\ product'[o].image = product[o].image
                                /\ product'[o].slug = product[o].slug
                                /\ product'[o].count = product[o].count
<1> DEFINE p == req[r].job.id
           d == [product[p] EXCEPT !.archived = ~@]
<1>1. p \in Products /\ product' = [product EXCEPT ![p] = d]
  BY DEF Archive
<1>2. p \in ProductId /\ product[p] \in ProductDoc
  BY <1>1, ProductIs
<1>3. d \in ProductDoc /\ d.cat = product[p].cat /\ d.image = product[p].image
      /\ d.slug = product[p].slug /\ d.count = product[p].count
  BY <1>2 DEF ProductDoc
<1> HIDE DEF d
<1> QED BY <1>1, <1>2, <1>3, ProductsAfter DEF Products

(* What became of the products *)
LEMMA ProductDocs ==
  ASSUME Typed, NEW r \in Request, Step(r)
  PROVE  \A p \in Products' :
           /\ \/ p \in Products /\ product'[p].cat = product[p].cat
              \/ /\ product'[p].cat \in CategoryId /\ SafeCategory(product'[p].cat)
                 /\ \/ product'[p].cat = req[r].cat
                    \/ /\ CreateProductDoc(r)
                       /\ \E k \in DOMAIN Export[r].categories : product'[p].cat = Export[r].categories[k].id
           /\ \/ p \in Products /\ product'[p].image = product[p].image
              \/ product'[p].image = None
              \/ product'[p].image \in Asset /\ SafeAsset(product'[p].image)
<1>1. CASE product' = product
  BY <1>1 DEF Products
<1>2. CASE WriteProduct(r)
  <2> DEFINE q == req[r]
  <2> DEFINE o == q.job.id
  <2>1. o \in ProductId /\ q.cat \in CategoryId /\ q.img \in Asset \cup {None}
    BY <1>2, WriteProductDoes
  <2>2. ASSUME NEW d \in ProductDoc, product' = [product EXCEPT ![o] = d], Names(q.cat, q.img),
               d.cat = q.cat \/ (o \in Products /\ d.cat = product[o].cat),
               d.image = q.img \/ (o \in Products /\ d.image = product[o].image),
               NEW p \in Products'
        PROVE  /\ \/ p \in Products /\ product'[p].cat = product[p].cat
                  \/ /\ product'[p].cat \in CategoryId /\ SafeCategory(product'[p].cat)
                     /\ product'[p].cat = q.cat
               /\ \/ p \in Products /\ product'[p].image = product[p].image
                  \/ product'[p].image = None
                  \/ product'[p].image \in Asset /\ SafeAsset(product'[p].image)
    <3>1. SafeCategory(q.cat) /\ (q.img \in Asset => SafeAsset(q.img))
      BY <2>1, <2>2, NamesSafe
    <3> HIDE DEF o
    <3>2. /\ Products' = Products \cup {o}
          /\ product'[o] = d /\ \A k \in ProductId \ {o} : product'[k] = product[k]
      BY <2>1, <2>2, ProductsAfter
    <3> QED BY <2>1, <2>2, <3>1, <3>2 DEF Products
  <2> QED BY <1>1, <1>2, <2>2, WriteProductDoes
<1>3. CASE Archive(r)
  BY <1>3, ArchiveDoes
<1>4. CASE InsertReview(r) \/ DeleteReview(r)
  BY <1>1, <1>4, ReviewRecounts, RecountKeeps
<1>5. CASE DeleteDoc(r)
  <2>1. CASE product' = [product EXCEPT ![Task(r).id] = None]
    BY <2>1 DEF Products, Typed, CatalogTypeOK
  <2> QED BY <1>1, <1>5, <2>1, DeleteDocDoes
<1>6. CASE CreateProductDoc(r)
  <2> DEFINE o == Task(r).id
             d == PlannedProduct(r, Task(r).row)
  <2>1. CASE product' = [product EXCEPT ![o] = d] /\ Names(d.cat, d.image)
    <3>1. o \in ProductId /\ d \in ProductDoc /\ d.image \in Images(Export[r]) \cup {None}
          /\ \E k \in DOMAIN Export[r].categories : d.cat = Export[r].categories[k].id
      BY <1>6, CreateProductDoes
    <3> HIDE DEF o, d
    <3>2. /\ Products' = Products \cup {o}
          /\ product'[o] = d /\ \A k \in ProductId \ {o} : product'[k] = product[k]
      BY <2>1, <3>1, ProductsAfter
    <3>3. d.image \in Asset \cup {None} /\ d.cat \in CategoryId
      BY <3>1, ImagesAre DEF ProductDoc
    <3> QED BY <1>6, <2>1, <3>1, <3>2, <3>3, NamesSafe DEF Products
  <2> QED BY <1>1, <1>6, <2>1, CreateProductDoes
<1> QED BY <1>1, <1>2, <1>3, <1>4, <1>5, <1>6, Writers DEF Writes, ProductWriter

-----------------------------------------------------------------------------
(***************************************************************************)
(* A product keeps its category.  What makes it inductive: a category that *)
(* a request looked up or is importing under is still there or was removed *)
(* under that request, and one that is about to be removed has no product  *)
(* that was not written during the removal.                                *)
(***************************************************************************)
Removal == {"remove", "images", "purge"}
Housed  == Categories \cup raced

CategorySafe(x) ==
  /\ req[x].cat # None => req[x].cat \in Housed
  /\ req[x].held \cap CategoryId \subseteq Housed
  /\ req[x].at \in Removal =>
       \A c \in req[x].doomed \cap CategoryId : c \in raced \/ \A p \in Products : product[p].cat # c

CategoryInv == NoDanglingCategory /\ \A x \in Request : CategorySafe(x)

LEMMA CategoryInit == Init => CategoryInv
<1> SUFFICES ASSUME Init PROVE CategoryInv
  OBVIOUS
<1>1. PICK w \in Workload : CatalogInit(w)
  BY DEF Init
<1>2. Stored(w.db)
  BY CatalogConstants
<1>3. NoDanglingCategory
  <2> SUFFICES ASSUME NEW p \in Products PROVE product[p].cat \in Categories
    BY DEF NoDanglingCategory
  <2>1. product[p].cat \in CategoryId /\ category[product[p].cat] # None
    BY <1>1, <1>2, ProductIs, InitTyped DEF CatalogInit, Begin, Stored, Products
  <2> QED BY <2>1 DEF Categories
<1>4. \A x \in Request : req[x].cat = None /\ req[x].held = {} /\ req[x].at = "start"
  BY <1>1 DEF CatalogInit, Begin
<1> QED BY <1>3, <1>4 DEF CategoryInv, CategorySafe, Removal

(* A request at the statement that removes a category *)
LEMMA IsRemoving ==
  ASSUME NEW x \in Request, NEW c, req[x].at \in Removal, c \in req[x].doomed
  PROVE  Removing(c)
BY DEF Removing, Removal

(* No category is lost to a product, or to a request that remembers it.    *)
LEMMA StillHoused ==
  ASSUME Typed, CategoryInv, NEW r \in Request, Step(r)
  PROVE  /\ \A x \in Request : req[x].cat # None => req[x].cat \in Housed'
         /\ \A x \in Request : req[x].held \cap CategoryId \subseteq Housed'
         /\ \A p \in Products : product[p].cat \in Housed'
<1>1. raced \subseteq raced'
  BY Writers DEF Writes
<1>2. ASSUME NEW c \in Housed, c \notin Housed'
      PROVE  (RemoveCategory(r) \/ Purge(r)) /\ c \in Categories \cap req[r].doomed
  BY <1>1, <1>2, CategoryDocs DEF Housed
<1>3. ASSUME NEW c \in Housed, c \notin Housed', NEW x \in Request PROVE ~Holds(x, c)
  <2>1. Removed(r) /\ c \in CategoryId \cap req[r].doomed
    BY <1>2, <1>3 DEF RemoveCategory, Purge, Categories
  <2> QED BY <1>3, <2>1, RemovedDoes DEF Housed
<1>4. ASSUME NEW c \in Housed, c \notin Housed', NEW p \in Products PROVE product[p].cat # c
  <2>1. /\ RemoveCategory(r) \/ Purge(r)
        /\ c \in CategoryId /\ c \in req[r].doomed
    BY <1>2, <1>4 DEF Categories
  <2>2. req[r].at \in Removal
    BY <2>1 DEF RemoveCategory, Purge, Jobs, Removal
  <2>3. c \notin raced
    BY <1>1, <1>4 DEF Housed
  <2> QED BY <2>1, <2>2, <2>3 DEF CategoryInv, CategorySafe
<1> QED BY <1>3, <1>4 DEF Holds, CategoryInv, CategorySafe, NoDanglingCategory, Housed

(* An import reaches its products with every category of its files in hand. *)
LEMMA ImportedCategory ==
  ASSUME Typed, NEW r \in Request, CreateProductDoc(r), NEW k \in DOMAIN Export[r].categories
  PROVE  Export[r].categories[k].id \in req[r].held \cap CategoryId
<1> DEFINE todo == req[r].todo
           c == Export[r].categories[k].id
<1>1. /\ todo \in Seq(TaskOf) /\ todo # <<>> /\ Planned(req[r], Export[r])
      /\ Head(todo).kind = "product"
  <2>1. Doing(r, {"product"}, "create") /\ "create" \in Importing
    BY DEF CreateProductDoc, Importing
  <2> QED BY <2>1, DoingIs DEF Typed
<1>2. /\ todo[1].kind = "product" /\ DOMAIN todo = 1..Len(todo) /\ 1 \in DOMAIN todo /\ Len(todo) \in Nat
  BY <1>1, TailIs
<1>3. \A i \in DOMAIN todo : todo[i].kind # "category"
  BY <1>1, <1>2 DEF Planned, Orderly
<1>4. \A t \in ToSet(todo) : t.kind # "category"
  BY <1>3 DEF ToSet
<1>5. c \in CategoryId
  BY FilesAre DEF Row
<1> QED BY <1>1, <1>4, <1>5 DEF Planned

(* What request r remembers next *)
LEMMA NextRemembered ==
  ASSUME Typed, CategoryInv, NEW r \in Request, Step(r)
  PROVE  /\ req'[r].cat # None => req'[r].cat \in Housed'
         /\ req'[r].held \cap CategoryId \subseteq Housed'
<1>1. Goes(r)
  BY Goers
<1>2. CASE StartProduct(r)
  <2>2. PICK c \in Categories :
          Moves(r, "resolve", c, req[r].img, req[r].slug, req[r].order, req[r].doomed, req[r].held, req[r].todo)
    BY <1>2, StartProductMoves
  <2>3. category' = category
    BY <1>2 DEF StartProduct, docs
  <2> QED BY <2>2, <2>3, StillHoused DEF Moves, Housed, Categories
<1>3. CASE ~StartProduct(r)
  <2>1. req'[r].cat # None => req'[r].cat \in Housed'
    BY <1>1, <1>3, StillHoused DEF Goes
  <2>2. CASE req'[r].held = req[r].held \/ req'[r].held = {}
    BY <2>1, <2>2, StillHoused
  <2>3. CASE ResolveList(r)
    <3>1. req'[r].held \subseteq Asset \/ req'[r].held = req[r].held
      <4> DEFINE list == req[r].job.list
                 used == {list[i].image : i \in DOMAIN list} \ {None}
      <4>1. (Keeps(r, used, "purge") /\ used \subseteq media) \/ End(r, "refused")
        BY <2>3 DEF ResolveList
      <4>2. used \subseteq media => used \in SUBSET (CategoryId \cup Asset) /\ used \subseteq Asset
        BY DEF Typed, CatalogTypeOK
      <4> HIDE DEF used
      <4>3. CASE Keeps(r, used, "purge") /\ used \subseteq media
        BY <4>2, <4>3, StageNames, KeepsMoves DEF Moves, Typed
      <4>4. CASE End(r, "refused")
        BY <4>4, StageNames, EndMoves DEF Moves, Typed
      <4> QED BY <4>1, <4>3, <4>4
    <3> QED BY <2>1, <2>2, <3>1, CatalogConstants
  <2>4. CASE StartImport(r)
    <3>1. req'[r].held \subseteq Asset \/ req'[r].held = req[r].held
      <4> DEFINE missing == Images(Export[r]) \ media
                 how == IF missing = {} THEN "exists" ELSE "upload"
                 todo == Todo(Export[r], missing)
      <4>1. /\ req[r].job.kind = "import"
            /\ \/ End(r, "refused")
               \/ ~Problems(Export[r]) /\ Plans(r, todo, Images(Export[r]), how)
        BY <2>4 DEF StartImport, Jobs
      <4>2. CASE ~Problems(Export[r]) /\ Plans(r, todo, Images(Export[r]), how)
        <5>1. missing \in SUBSET Images(Export[r]) /\ how \in {"exists", "upload"}
          OBVIOUS
        <5> HIDE DEF how, missing
        <5>2. Moves(r, how, req[r].cat, req[r].img, req[r].slug, req[r].order, req[r].doomed,
                    Images(Export[r]), todo)
          BY <4>1, <4>2, <5>1, StartImportMoves DEF Typed
        <5> QED BY <5>2, ImagesAre DEF Moves
      <4>3. CASE End(r, "refused")
        BY <4>3, StageNames, EndMoves DEF Moves, Typed
      <4> QED BY <4>1, <4>2, <4>3
    <3> QED BY <2>1, <2>2, <3>1, CatalogConstants
  <2>5. CASE Proceeds(r)
    <3>1. Doing(r, Kinds, req[r].at) /\ req[r].at \in Importing
      BY Zenon, <2>5 DEF Doing, Kinds, Document, Proceeds, WriteRow, LookUp, CreateCategoryDoc, CreateProductDoc, CreateReviewDoc,
                  CreateOrderDoc, CreateSettings, Importing
    <3>2. req'[r].held = req[r].held \cup Taken(r)
      BY <2>5, <3>1, ProceedMoves DEF Proceeds, Moves, Typed
    <3>3. ASSUME Task(r).kind = "category" PROVE Task(r).id \in Housed'
      <4>1. CASE LookUp(r)
        <5>1. Task(r).id \in Categories
          <6>1. End(r, "create") \/ End(r, "delete") \/ Exists(Task(r))
            BY <4>1 DEF LookUp
          <6>2. Onward(r) \in {"upload", "exists"}
            BY DEF Onward
          <6>3. req'[r].at \in {"upload", "exists"}
            BY <2>5, <3>1, <6>2, ProceedMoves DEF Proceeds, Moves, Typed
          <6>4. ~End(r, "create") /\ ~End(r, "delete")
            BY <6>3, StageNames, EndMoves DEF Moves, Typed
          <6> QED BY <3>3, <6>1, <6>4 DEF Exists
        <5>2. UNCHANGED category
          BY <4>1 DEF LookUp, docs
        <5> QED BY <5>1, <5>2 DEF Housed, Categories
      <4>2. CASE CreateCategoryDoc(r)
        <5> DEFINE c == Task(r).id
                   d == PlannedCategory(r, Task(r).row)
        <5>1. c \in CategoryId /\ d \in CategoryDoc
          BY <4>2, CreateCategoryDoes
        <5>2. CASE category' = [category EXCEPT ![c] = d]
          <6> HIDE DEF c, d
          <6>1. c \in Categories'
            BY <5>1, <5>2, CategoriesAfter
          <6> QED BY <6>1 DEF Housed, c
        <5>3. CASE c \in Categories /\ UNCHANGED category
          BY <5>3 DEF Housed, Categories
        <5>4. ~End(r, "failed")
          <6>1. req'[r].at \in {"upload", "exists"}
            BY <2>5, <3>1, ProceedMoves DEF Proceeds, Moves, Typed, Onward
          <6> QED BY <6>1, StageNames, EndMoves DEF Moves, Typed
        <5> QED BY <4>2, <5>2, <5>3, <5>4, CreateCategoryDoes
      <4> QED BY <2>5, <3>3, <4>1, <4>2
           DEF Proceeds, WriteRow, CreateProductDoc, CreateReviewDoc, CreateOrderDoc, CreateSettings, Doing
    <3> QED BY <2>1, <3>2, <3>3, StillHoused DEF Taken
  <2> QED BY <1>1, <2>1, <2>2, <2>3, <2>4, <2>5 DEF Goes
<1> QED BY <1>2, <1>3

LEMMA DeletableIs ==
  ASSUME NEW cs, Deletable(cs), NEW c \in cs, NEW p \in Products
  PROVE  product[p].cat # c
<1> DEFINE S == {q \in Products : product[q].cat = c}
<1>1. Cardinality(S) = 0
  BY DEF Deletable, CountProducts
<1>2. IsFiniteSet(S)
  BY Counting DEF Products
<1>3. S = {}
  BY <1>1, <1>2, FS_EmptySet
<1> QED BY <1>3

(* A request that is about to remove a category has checked it.            *)
LEMMA RemovalChecked ==
  ASSUME Typed, CategoryInv, NEW r \in Request, Step(r), req'[r].at \in Removal,
         NEW c \in req'[r].doomed \cap CategoryId
  PROVE  \/ UNCHANGED product /\ \A p \in Products : product[p].cat # c
         \/ req[r].at \in Removal /\ c \in req[r].doomed
<1>0. Goes(r)
  BY Goers
<1>1. CASE req'[r].at = "remove"
  <2> DEFINE ks == {req[r].job.id}
  <2>1. CheckDelete(r) /\ UNCHANGED product
    BY <1>0, <1>1 DEF Goes, Arrives, CheckDelete, docs
  <2>2. (Dooms(r, ks, "remove") /\ Deletable(ks)) \/ End(r, "refused")
    BY <2>1 DEF CheckDelete
  <2>3. ks \in SUBSET (CategoryId \cup Asset)
    BY <2>1 DEF CheckDelete, Categories
  <2> HIDE DEF ks
  <2>4. ~End(r, "refused")
    BY <1>1, StageNames, EndMoves DEF Moves, Typed
  <2>5. req'[r].doomed = ks
    BY <2>2, <2>3, <2>4, StageNames, DoomsMoves DEF Moves, Typed
  <2> QED BY <2>1, <2>2, <2>4, <2>5, DeletableIs
<1>2. CASE req'[r].at = "images"
  <2> DEFINE ks == Categories \ Listed(r)
  <2>1. CheckReplace(r) /\ UNCHANGED product
    BY Zenon, <1>0, <1>2 DEF Goes, Arrives, CheckReplace, docs
  <2>2. (Dooms(r, ks, "images") /\ Deletable(ks)) \/ End(r, "refused")
    BY <2>1 DEF CheckReplace
  <2>3. ks \in SUBSET (CategoryId \cup Asset)
    BY DEF Categories
  <2> HIDE DEF ks
  <2>4. ~End(r, "refused")
    BY <1>2, StageNames, EndMoves DEF Moves, Typed
  <2>5. req'[r].doomed = ks
    BY <2>2, <2>3, <2>4, StageNames, DoomsMoves DEF Moves, Typed
  <2> QED BY <2>1, <2>2, <2>4, <2>5, DeletableIs
<1>3. CASE req'[r].at = "purge"
  <2>1. ResolveList(r)
    BY <1>0, <1>3 DEF Goes, Arrives
  <2>2. req[r].at \in Removal
    BY <2>1 DEF ResolveList, Jobs, Removal
  <2>3. ~CheckDelete(r) /\ ~CheckReplace(r) /\ ~CheckMedia(r) /\ ~DeleteRow(r)
    BY <2>1 DEF ResolveList, Jobs, CheckDelete, CheckReplace, CheckMedia, DeleteRow
  <2> QED BY <1>0, <2>2, <2>3 DEF Goes
<1> QED BY <1>1, <1>2, <1>3 DEF Removal

LEMMA CategoryNext ==
  ASSUME Typed, CategoryInv, [Next]_vars
  PROVE  CategoryInv'
<1>1. CASE UNCHANGED vars
  BY <1>1 DEF vars, catalogVars, docs, history, CategoryInv, CategorySafe, NoDanglingCategory, Housed,
              Categories, Products
<1>2. ASSUME NEW r \in Request, Step(r) PROVE CategoryInv'
  <2>1. Goes(r) /\ raced \subseteq raced'
    BY <1>2, Goers, Writers DEF Writes
  <2>2. NoDanglingCategory'
    <3> SUFFICES ASSUME NEW p \in Products' PROVE product'[p].cat \in Housed'
      BY DEF NoDanglingCategory, Housed
    <3>1. CASE p \in Products /\ product'[p].cat = product[p].cat
      BY <1>2, <3>1, StillHoused
    <3>2. CASE product'[p].cat \in CategoryId /\ product'[p].cat = req[r].cat
      BY <1>2, <3>2, StillHoused, CatalogConstants
    <3>3. CASE CreateProductDoc(r) /\ \E k \in DOMAIN Export[r].categories :
                                        product'[p].cat = Export[r].categories[k].id
      BY <1>2, <3>3, StillHoused, ImportedCategory
    <3> QED BY <1>2, <3>1, <3>2, <3>3, ProductDocs
  <2>3. ASSUME NEW x \in Request, NEW c \in CategoryId, req[x].at \in Removal, c \in req[x].doomed,
               NEW p \in Products', product'[p].cat = c
        PROVE  c \in raced'
    <3>1. Removing(c)
      BY <2>3, IsRemoving
    <3>2. SafeCategory(c) => c \in raced'
      BY <3>1 DEF SafeCategory
    <3>3. c \in raced \/ \A o \in Products : product[o].cat # c
      BY <2>3 DEF CategoryInv, CategorySafe
    <3> QED BY <1>2, <2>1, <2>3, <3>2, <3>3, ProductDocs
  <2>4. ASSUME NEW x \in Request \ {r} PROVE CategorySafe(x)'
    <3>1. Alike(x) /\ req'[x].doomed \subseteq req[x].doomed
      BY <2>1, <2>4 DEF Goes
    <3>2. req'[x].at \in Removal =>
            \A c \in req'[x].doomed \cap CategoryId : c \in raced' \/ \A p \in Products' : product'[p].cat # c
      BY <2>3, <3>1 DEF Alike
    <3>3. /\ req'[x].cat # None => req'[x].cat \in Housed'
          /\ req'[x].held \cap CategoryId \subseteq Housed'
      BY <1>2, <3>1, StillHoused DEF Alike
    <3> QED BY <3>2, <3>3 DEF CategorySafe
  <2>5. CategorySafe(r)'
    <3>1. ASSUME req'[r].at \in Removal, NEW c \in req'[r].doomed \cap CategoryId
          PROVE  c \in raced' \/ \A p \in Products' : product'[p].cat # c
      <4>1. CASE UNCHANGED product /\ \A p \in Products : product[p].cat # c
        BY <4>1 DEF Products
      <4>2. CASE req[r].at \in Removal /\ c \in req[r].doomed
        BY <2>3, <4>2
      <4> QED BY <1>2, <3>1, <4>1, <4>2, RemovalChecked
    <3>2. /\ req'[r].cat # None => req'[r].cat \in Housed'
          /\ req'[r].held \cap CategoryId \subseteq Housed'
      BY <1>2, NextRemembered
    <3> QED BY <3>1, <3>2 DEF CategorySafe
  <2> QED BY <2>2, <2>4, <2>5 DEF CategoryInv
<1> QED BY <1>1, <1>2 DEF Next, Step

(* No product, archived or restored, is left without its category, unless  *)
(* the category was removed under a write that had looked it up, or that   *)
(* came after its products were counted: for deleteCategory,               *)
(* replaceCategories and forced imports at once.                           *)
THEOREM CategoriesAreKept == Spec => []NoDanglingCategory
<1>1. Init => CategoryInv
  BY CategoryInit
<1>2. Typed /\ CategoryInv /\ [Next]_vars => CategoryInv'
  BY CategoryNext
<1>3. CategoryInv => NoDanglingCategory
  BY DEF CategoryInv
<1> QED BY <1>1, <1>2, <1>3, AlwaysTyped, PTL DEF Spec

-----------------------------------------------------------------------------
(***************************************************************************)
(* A picture in use stays in Cloudinary.  What makes it inductive: an      *)
(* asset that is about to be destroyed is in no document that was not      *)
(* written during the deletion.                                            *)
(***************************************************************************)
DestroySafe(x) ==
  \A a \in Asset : req[x].at = "destroy" /\ req[x].job.id = a => a \in raced \/ ~UsedBy(a)

ImageInv == NoDanglingImage /\ \A x \in Request : DestroySafe(x)

LEMMA ImageInit == Init => ImageInv
<1> SUFFICES ASSUME Init PROVE ImageInv
  OBVIOUS
<1>1. PICK w \in Workload : CatalogInit(w)
  BY DEF Init
<1>2. Stored(w.db)
  BY CatalogConstants
<1>3. /\ \A c \in Categories : category[c].image \in cloud \cup {None}
      /\ \A p \in Products : product[p].image \in cloud \cup {None}
      /\ banner = None
  BY <1>1, <1>2 DEF CatalogInit, Begin, Stored, Categories, Products
<1>4. NoDanglingImage
  BY <1>3 DEF NoDanglingImage
<1>5. \A x \in Request : req[x].at = "start"
  BY <1>1 DEF CatalogInit, Begin
<1> QED BY <1>4, <1>5 DEF ImageInv, DestroySafe

(* What became of the banner *)
LEMMA BannerDocs ==
  ASSUME Typed, NEW r \in Request, Step(r)
  PROVE  \/ banner' = banner
         \/ banner' = None
         \/ banner' \in Asset /\ SafeAsset(banner')
<1>1. CASE SetBanner(r)
  <2>1. banner' \in Asset \cup {None}
    BY <1>1 DEF SetBanner, Typed, Asked, Requests, Job
  <2> QED BY <1>1, <2>1, NamesSafe DEF SetBanner
<1>2. CASE DeleteDoc(r)
  BY <1>2, DeleteDocDoes
<1>3. CASE CreateSettings(r)
  <2>1. \/ UNCHANGED banner
        \/ banner' = Export[r].banner /\ Names(None, banner')
    BY <1>3 DEF CreateSettings
  <2> QED BY <2>1, FilesAre, NamesSafe
<1> QED BY <1>1, <1>2, <1>3, Writers DEF Writes, BannerWriter

(* A picture that is in use afterwards was in use, or its write saw it.    *)
LEMMA UsedAfter ==
  ASSUME Typed, NEW r \in Request, Step(r), NEW a \in Asset, UsedBy(a)'
  PROVE  UsedBy(a) \/ SafeAsset(a)
<1>1. None \notin Asset
  BY CatalogConstants
<1>2. CASE \E p \in Products' : product'[p].image = a
  BY <1>1, <1>2, ProductDocs DEF UsedBy
<1>3. CASE \E c \in Categories' : category'[c].image = a
  BY <1>1, <1>3, CategoryDocs DEF UsedBy
<1>4. CASE banner' = a
  BY <1>1, <1>4, BannerDocs DEF UsedBy
<1>5. UsedBy(a)' <=> \/ \E p \in Products' : product'[p].image = a
                     \/ \E c \in Categories' : category'[c].image = a
                     \/ banner' = a
  BY DEF UsedBy
<1> QED BY <1>2, <1>3, <1>4, <1>5

LEMMA DestroyDoes ==
  ASSUME Typed, NEW r \in Request, Destroys(r)
  PROVE  /\ req[r].at = "destroy" /\ req[r].job.kind = "deleteMedia"
         /\ UNCHANGED <<category, product, review, banner, media, base, fresh>>
         /\ cloud' = cloud \/ cloud' = cloud \ {req[r].job.id}
         /\ cloud' # cloud => \A x \in Request : Holds(x, req[r].job.id) => req[r].job.id \in raced'
<1>1. PICK answer \in {"ok", "error"}, gone \in BOOLEAN : Destroy(r, answer, gone)
  BY DEF Destroys
<1>2. /\ Jobs({"deleteMedia"}, "destroy", r)
      /\ UNCHANGED <<category, product, review, banner, media, base, fresh>>
      /\ cloud' = IF gone THEN cloud \ {req[r].job.id} ELSE cloud
      /\ raced' = IF gone /\ \E x \in Request : Holds(x, req[r].job.id) THEN raced \cup {req[r].job.id} ELSE raced
  BY <1>1 DEF Destroy
<1> QED BY <1>2 DEF Jobs

(* The same, said of the pictures *)
PicturesIn == \A a \in Asset : UsedBy(a) => a \in cloud \cup raced

LEMMA DanglingIs == Typed => (NoDanglingImage <=> PicturesIn)
<1> SUFFICES ASSUME Typed PROVE NoDanglingImage <=> PicturesIn
  OBVIOUS
<1>1. ASSUME NoDanglingImage PROVE PicturesIn
  BY <1>1, CatalogConstants DEF NoDanglingImage, UsedBy, PicturesIn
<1>2. ASSUME PicturesIn PROVE NoDanglingImage
  <2>1. \A p \in Products : product[p].image \in Asset \cup {None}
    BY ProductIs
  <2>2. \A c \in Categories : category[c].image \in Asset \cup {None}
    BY CategoryIs
  <2>3. banner \in Asset \cup {None}
    BY DEF Typed, CatalogTypeOK
  <2> QED BY <1>2, <2>1, <2>2, <2>3 DEF NoDanglingImage, UsedBy, PicturesIn
<1> QED BY <1>1, <1>2

LEMMA DanglingIsNext == Typed' => (NoDanglingImage' <=> PicturesIn')
BY DanglingIs, PTL

LEMMA ImageNext ==
  ASSUME Typed, ImageInv, [Next]_vars
  PROVE  ImageInv'
<1>1. CASE UNCHANGED vars
  BY <1>1 DEF vars, catalogVars, docs, history, ImageInv, DestroySafe, NoDanglingImage, UsedBy,
              Categories, Products
<1>2. ASSUME NEW r \in Request, Step(r) PROVE ImageInv'
  <2>1. Goes(r) /\ Writes(r) /\ Typed' /\ [Next]_vars
    BY <1>2, Goers, Writers, NextTyped
  <2>2. ASSUME NEW a \in Asset, UsedBy(a)' PROVE a \in cloud' \cup raced'
    <3>1. CASE Destroys(r)
      <4>1. UsedBy(a)
        BY <2>2, <3>1, DestroyDoes DEF UsedBy, Products, Categories
      <4>2. a \in cloud \cup raced
        BY <4>1, DanglingIs DEF ImageInv, PicturesIn
      <4>3. a = req[r].job.id => a \in raced
        BY <3>1, <4>1, DestroyDoes DEF ImageInv, DestroySafe
      <4> QED BY <2>1, <3>1, <4>2, <4>3, DestroyDoes DEF Writes
    <3>2. CASE ~Destroys(r)
      <4>1. cloud \subseteq cloud'
        BY <2>1, <3>2 DEF Writes, CloudWriter, Upload, UploadImage
      <4>2. UsedBy(a) => a \in cloud \cup raced
        BY DanglingIs DEF ImageInv, PicturesIn
      <4>3. UsedBy(a) \/ SafeAsset(a)
        BY <1>2, <2>2, UsedAfter
      <4> QED BY <2>1, <4>1, <4>2, <4>3 DEF SafeAsset, Writes
    <3> QED BY <3>1, <3>2
  <2>3. NoDanglingImage'
    BY <2>1, <2>2, DanglingIsNext DEF PicturesIn
  <2>4. ASSUME NEW x \in Request, NEW a \in Asset, req'[x].at = "destroy", req'[x].job.id = a,
               a \notin raced'
        PROVE  ~UsedBy(a)'
    <3>1. req[x].job.id = a /\ raced \subseteq raced'
      BY <2>1, <2>4 DEF Goes, Writes
    <3>2. CASE x = r
      <4>1. CheckMedia(r)
        BY <2>1, <2>4, <3>2 DEF Goes, Arrives
      <4>2. UsedBy(a) => End(r, "refused")
        BY <3>1, <3>2, <4>1 DEF CheckMedia
      <4>3. ~End(r, "refused")
        BY <2>4, <3>2, StageNames, EndMoves DEF Moves, Typed
      <4>4. UNCHANGED <<category, product, banner>>
        BY <4>1 DEF CheckMedia, docs
      <4>5. UsedBy(a)' <=> UsedBy(a)
        BY <4>4 DEF UsedBy, Categories, Products
      <4> QED BY <4>2, <4>3, <4>5
    <3>3. CASE x # r
      <4>1. req[x].at = "destroy"
        BY <2>1, <2>4, <3>3 DEF Goes, Alike
      <4>2. Destroying(a)
        BY <3>1, <4>1 DEF Destroying
      <4>3. ~UsedBy(a)
        BY <2>4, <3>1, <4>1 DEF ImageInv, DestroySafe
      <4>4. ~SafeAsset(a)
        BY <2>4, <4>2 DEF SafeAsset
      <4> QED BY <1>2, <4>3, <4>4, UsedAfter
    <3> QED BY <3>2, <3>3
  <2> QED BY <2>3, <2>4 DEF ImageInv, DestroySafe
<1> QED BY <1>1, <1>2 DEF Next, Step

(* Every picture in use is in Cloudinary, unless its deletion overlapped a *)
(* write naming it or it was gone when it was named: no check, update or   *)
(* deletion that overlaps no other loses one.                              *)
THEOREM PicturesAreKept == Spec => []NoDanglingImage
<1>1. Init => ImageInv
  BY ImageInit
<1>2. Typed /\ ImageInv /\ [Next]_vars => ImageInv'
  BY ImageNext
<1>3. ImageInv => NoDanglingImage
  BY DEF ImageInv
<1> QED BY <1>1, <1>2, <1>3, AlwaysTyped, PTL DEF Spec

-----------------------------------------------------------------------------
(***************************************************************************)
(* Every asset has a row.  What makes it inductive: a row that is about to *)
(* be deleted is of an asset that is gone, whose publicId comes back only  *)
(* with an import that held on to it.                                      *)
(***************************************************************************)
Worked == \E w \in Workload : \A r \in Request : req[r].job = w.jobs[r]

(* x may still upload its own asset. *)
UploadIsNew(x) ==
  req[x].job.kind = "upload" /\ req[x].at = "start" => req[x].job.id \notin media

(* The rows that x has found to delete, when their assets are gone *)
RowsDoomed(x) ==
  /\ req[x].doomed \cap Asset \subseteq media
  /\ req[x].at \in {"destroy", "unrow"} => req[x].doomed \subseteq {req[x].job.id}
  /\ req[x].at = "unrow" => \A a \in req[x].doomed \cap Asset : a \notin cloud \/ a \in raced

(* x will upload an asset again. *)
WillUpload(x, a) ==
  req[x].at \in Importing /\ \E t \in ToSet(req[x].todo) : t.kind = "image" /\ t.id = a

UploadsRaced ==
  \A x, z \in Request : \A a \in Asset :
    WillUpload(x, a) /\ req[z].at = "unrow" /\ a \in req[z].doomed => a \in raced

RowInv ==
  /\ Worked /\ AssetHasRow /\ UploadsRaced
  /\ \A x \in Request : UploadIsNew(x) /\ RowsDoomed(x)

LEMMA RowInit == Init => RowInv
<1> SUFFICES ASSUME Init PROVE RowInv
  OBVIOUS
<1>1. PICK w \in Workload : CatalogInit(w)
  BY DEF Init
<1>2. \A x \in Request : OwnUpload(w, x)
  BY CatalogConstants
<1>3. \A x \in Request : req[x].job = w.jobs[x] /\ req[x].doomed = {} /\ req[x].at = "start"
  BY <1>1 DEF CatalogInit, Begin
<1>4. media = w.db.media /\ cloud = media
  BY <1>1 DEF CatalogInit, Begin
<1>5. \A x \in Request : UploadIsNew(x)
  BY <1>2, <1>3, <1>4 DEF OwnUpload, UploadIsNew
<1>6. \A x \in Request : RowsDoomed(x)
  BY <1>3 DEF RowsDoomed
<1> QED BY <1>3, <1>4, <1>5, <1>6 DEF RowInv, Worked, AssetHasRow, UploadsRaced

(* Whose publicId is whose *)
LEMMA OwnIds ==
  ASSUME Worked, NEW r \in Request, NEW x \in Request, req[x].job.kind = "upload"
  PROVE  /\ r # x /\ req[r].job.kind \in {"upload", "reregister"} => req[r].job.id # req[x].job.id
         /\ req[r].job.kind = "import" => req[x].job.id \notin Images(Export[r])
<1>1. PICK w \in Workload : \A y \in Request : req[y].job = w.jobs[y]
  BY DEF Worked
<1>2. OwnUpload(w, x)
  BY CatalogConstants
<1>3. w.jobs[r].kind = "import" => w.jobs[x].id \notin Images(Export[r])
  BY <1>1, ExportConstants
<1> QED BY <1>1, <1>2, <1>3 DEF OwnUpload

LEMMA ProceedsDoing ==
  ASSUME NEW r \in Request, Proceeds(r)
  PROVE  Doing(r, Kinds, req[r].at) /\ req[r].at \in Importing
<1>1. \/ Doing(r, {"image"}, "row") \/ Doing(r, Document, "exists") \/ Doing(r, {"category"}, "create")
      \/ Doing(r, {"product"}, "create") \/ Doing(r, {"review"}, "create") \/ Doing(r, {"order"}, "create")
      \/ Doing(r, {"settings"}, "create")
  <2>1. WriteRow(r) => Doing(r, {"image"}, "row") BY DEF WriteRow
  <2>2. LookUp(r) => Doing(r, Document, "exists") BY DEF LookUp
  <2>3. CreateCategoryDoc(r) => Doing(r, {"category"}, "create") BY DEF CreateCategoryDoc
  <2>4. CreateProductDoc(r) => Doing(r, {"product"}, "create") BY DEF CreateProductDoc
  <2>5. CreateReviewDoc(r) => Doing(r, {"review"}, "create") BY DEF CreateReviewDoc
  <2>6. CreateSettings(r) => Doing(r, {"settings"}, "create") BY DEF CreateSettings
  <2>7. CreateOrderDoc(r) => Doing(r, {"order"}, "create") BY DEF CreateOrderDoc
  <2> QED BY <2>1, <2>2, <2>3, <2>4, <2>5, <2>6, <2>7 DEF Proceeds
<1> QED BY <1>1 DEF Doing, Kinds, Document, Importing

(* An import that is under way was under way, with all that is to do now,  *)
(* or has just made its plan.                                              *)
LEMMA ImportGoesOn ==
  ASSUME Typed, NEW r \in Request, Step(r), req'[r].at \in Importing
  PROVE  \/ /\ StartImport(r) /\ ~Problems(Export[r])
            /\ req'[r].todo = Todo(Export[r], Images(Export[r]) \ media)
            /\ calm' = (IF Unopposed(Export[r]) THEN calm \cup {r} ELSE calm \ {r})
         \/ /\ req[r].at \in Importing /\ ToSet(req'[r].todo) \subseteq ToSet(req[r].todo)
            /\ req[r].job.kind = "import" /\ ~StartImport(r)
<1>0. Goes(r)
  BY Goers
<1>1. CASE StartImport(r)
  <2> DEFINE missing == Images(Export[r]) \ media
             how == IF missing = {} THEN "exists" ELSE "upload"
             todo == Todo(Export[r], missing)
  <2>1. /\ req[r].job.kind = "import"
        /\ \/ End(r, "refused")
           \/ /\ ~Problems(Export[r]) /\ Plans(r, todo, Images(Export[r]), how)
              /\ calm' = (IF Unopposed(Export[r]) THEN calm \cup {r} ELSE calm \ {r})
    BY <1>1 DEF StartImport, Jobs, Starts
  <2>2. ~End(r, "refused")
    <3>1. "refused" \notin Importing
      BY DEF Importing
    <3> QED BY <3>1, StageNames, EndMoves DEF Moves, Typed
  <2>3. missing \in SUBSET Images(Export[r]) /\ how \in {"exists", "upload"}
    OBVIOUS
  <2> DEFINE m == missing
  <2> HIDE DEF how, m
  <2>4. req'[r].todo = Todo(Export[r], m)
    <3>1. m \in SUBSET Images(Export[r]) /\ Plans(r, Todo(Export[r], m), Images(Export[r]), how)
      BY <2>1, <2>2, <2>3 DEF m
    <3> QED BY <2>1, <2>2, <2>3, <3>1, StartImportMoves DEF Moves, Typed
  <2> QED BY <1>1, <2>1, <2>2, <2>4 DEF m
<1>2. CASE Proceeds(r)
  <2>1. Doing(r, Kinds, req[r].at) /\ req[r].at \in Importing
    BY <1>2, ProceedsDoing
  <2>2. req'[r].todo = Tail(req[r].todo) /\ req[r].todo \in Seq(TaskOf) /\ req[r].todo # <<>>
    BY <1>2, <2>1, ProceedMoves, DoingIs DEF Moves, Proceeds, Typed
  <2>3. ~StartImport(r)
    BY <2>1 DEF StartImport, Jobs, Importing
  <2> QED BY <2>1, <2>2, <2>3, TailIs DEF Doing
<1>3. CASE ~StartImport(r) /\ ~Proceeds(r)
  <2>1. UploadImage(r) \/ LookUp(r) \/ DeleteDoc(r)
    BY <1>0, <1>3 DEF Goes, Arrives, Importing
  <2>2. req[r].at \in Importing /\ req[r].job.kind = "import"
    BY <2>1 DEF UploadImage, LookUp, DeleteDoc, Doing, Importing
  <2> QED BY <1>0, <1>3, <2>2 DEF Goes
<1> QED BY <1>1, <1>2, <1>3

(* The asset of a task to upload one *)
LEMMA WillUploadIs ==
  ASSUME Typed, NEW x \in Request, NEW a, WillUpload(x, a)
  PROVE  a \in Images(Export[x]) /\ a \in req[x].held /\ req[x].job.kind = "import"
<1>1. Placed(req[x], Export[x])
  BY DEF Typed, Asked
<1> QED BY <1>1 DEF WillUpload, Placed, RowTask, Planned

LEMMA HasRowNext ==
  ASSUME Typed, RowInv, NEW r \in Request, Step(r)
  PROVE  AssetHasRow'
<1>1. Writes(r)
  BY Writers
<1>2. cloud \subseteq media \cup fresh \cup raced /\ raced \subseteq raced'
  BY <1>1 DEF RowInv, AssetHasRow, Writes
<1>3. CASE Upload(r)
  BY <1>2, <1>3 DEF Upload, AssetHasRow
<1>4. CASE UploadImage(r)
  BY <1>2, <1>4 DEF UploadImage, AssetHasRow
<1>5. CASE RegisterMedia(r)
  BY <1>2, <1>5 DEF RegisterMedia, AssetHasRow
<1>6. CASE WriteRow(r)
  <2>1. /\ cloud' = cloud /\ fresh' = fresh \ {Task(r).id}
        /\ Task(r).id \in media' /\ media \subseteq media'
    BY <1>6 DEF WriteRow
  <2> QED BY <1>2, <2>1 DEF AssetHasRow
<1>7. CASE DeleteRow(r)
  <2>1. /\ cloud' = cloud /\ fresh' = fresh /\ media' = media \ req[r].doomed /\ req[r].at = "unrow"
    BY <1>7 DEF DeleteRow, history, Jobs
  <2>2. \A a \in req[r].doomed \cap Asset : a \notin cloud \/ a \in raced
    BY <2>1 DEF RowInv, RowsDoomed
  <2>3. cloud \subseteq Asset
    BY DEF Typed, CatalogTypeOK
  <2> QED BY <1>2, <2>1, <2>2, <2>3 DEF AssetHasRow
<1>8. CASE Destroys(r)
  BY <1>2, <1>8, DestroyDoes DEF AssetHasRow
<1>9. CASE UNCHANGED <<cloud, media, fresh>>
  BY <1>2, <1>9 DEF AssetHasRow
<1> QED BY <1>1, <1>3, <1>4, <1>5, <1>6, <1>7, <1>8, <1>9 DEF Writes, CloudWriter, MediaWriter, FreshWriter

LEMMA UploadNewNext ==
  ASSUME Typed, RowInv, NEW r \in Request, Step(r), NEW x \in Request
  PROVE  UploadIsNew(x)'
<1>1. Goes(r) /\ Writes(r)
  BY Goers, Writers
<1> SUFFICES ASSUME req[x].job.kind = "upload", req'[x].at = "start"
             PROVE  req[x].job.id \notin media'
  BY <1>1 DEF UploadIsNew, Goes
<1>2. x # r
  BY <1>1 DEF Goes, Arrives
<1>3. req[x].job.id \notin media
  BY <1>1, <1>2 DEF Goes, Alike, RowInv, UploadIsNew
<1>4. CASE RegisterMedia(r)
  <2>1. req[r].job.kind \in {"upload", "reregister"} /\ media' = media \cup {req[r].job.id}
    BY <1>4 DEF RegisterMedia, Jobs
  <2> QED BY <1>2, <1>3, <2>1, OwnIds DEF RowInv
<1>5. CASE WriteRow(r)
  <2>1. Doing(r, {"image"}, "row") /\ media' \subseteq media \cup {Task(r).id} /\ "row" \in Importing
    BY <1>5 DEF WriteRow, Importing
  <2>2. req[r].job.kind = "import" /\ Task(r).id \in Images(Export[r])
    BY <2>1, DoingIs DEF Typed, RowTask
  <2> QED BY <1>3, <2>1, <2>2, OwnIds DEF RowInv
<1>6. CASE DeleteRow(r)
  BY <1>3, <1>6 DEF DeleteRow
<1> QED BY <1>1, <1>3, <1>4, <1>5, <1>6 DEF Writes, MediaWriter

(* What is found to delete stays found, and goes with its row.             *)
LEMMA FoundNext ==
  ASSUME Typed, RowInv, NEW r \in Request, Step(r), NEW x \in Request
  PROVE  /\ req'[x].doomed \cap Asset \subseteq media'
         /\ req'[x].at \in {"destroy", "unrow"} => req'[x].doomed \subseteq {req[x].job.id}
<1>1. Goes(r) /\ Writes(r)
  BY Goers, Writers
<1>2. /\ req[x].doomed \cap Asset \subseteq media
      /\ req[x].at \in {"destroy", "unrow"} => req[x].doomed \subseteq {req[x].job.id}
  BY DEF RowInv, RowsDoomed
<1>3. CASE DeleteRow(r)
  <2>1. media' = media \ req[r].doomed /\ Undoomed(r)
    BY <1>3 DEF DeleteRow
  <2>2. req'[x].doomed = req[x].doomed \ req[r].doomed
    BY <2>1, UndoomedMoves DEF Typed
  <2>3. req'[x].at \in {"destroy", "unrow"} => req'[x].at = req[x].at
    BY <2>1, UndoomedMoves DEF Typed
  <2> QED BY <1>2, <2>1, <2>2, <2>3
<1>4. CASE ~DeleteRow(r)
  <2>1. media \subseteq media'
    BY <1>1, <1>4 DEF Writes, MediaWriter, RegisterMedia, WriteRow
  <2>2. CASE x # r
    BY <1>1, <1>2, <1>4, <2>1, <2>2 DEF Goes, Alike
  <2>3. CASE x = r /\ req'[r].doomed = req[r].doomed
    <3>1. ASSUME req'[r].at \in {"destroy", "unrow"} PROVE req'[r].doomed \subseteq {req[r].job.id}
      <4>1. CASE Destroys(r)
        BY <1>2, <2>3, <4>1, DestroyDoes
      <4>2. CASE CheckMedia(r)
        <5> DEFINE ks == {req[r].job.id}
        <5>1. Dooms(r, ks, "destroy") \/ End(r, "refused")
          BY <4>2 DEF CheckMedia
        <5>2. ~End(r, "refused")
          BY <3>1, StageNames, EndMoves DEF Moves, Typed
        <5>3. ks \in SUBSET (CategoryId \cup Asset)
          BY <4>2 DEF CheckMedia, Typed, CatalogTypeOK
        <5> HIDE DEF ks
        <5>4. req'[r].doomed = ks
          BY <5>1, <5>2, <5>3, StageNames, DoomsMoves DEF Moves, Typed
        <5> QED BY <5>4 DEF ks
      <4> QED BY <1>1, <3>1, <4>1, <4>2 DEF Goes, Arrives
    <3> QED BY <1>2, <2>1, <2>3, <3>1
  <2>4. CASE x = r /\ req'[r].doomed # req[r].doomed
    <3>1. CheckDelete(r) \/ CheckReplace(r) \/ CheckMedia(r)
      BY <1>1, <1>4, <2>4 DEF Goes
    <3> DEFINE ks == IF CheckReplace(r) THEN Categories \ Listed(r) ELSE {req[r].job.id}
               how == IF CheckReplace(r) THEN "images" ELSE IF CheckMedia(r) THEN "destroy" ELSE "remove"
    <3>2. Dooms(r, ks, how) \/ End(r, "refused")
      <4>1. CASE CheckDelete(r)
        BY <4>1 DEF CheckDelete, CheckReplace, CheckMedia, Jobs
      <4>2. CASE CheckReplace(r)
        BY <4>2 DEF CheckReplace
      <4>3. CASE CheckMedia(r)
        BY <4>3 DEF CheckMedia, CheckReplace, Jobs
      <4> QED BY <3>1, <4>1, <4>2, <4>3
    <3>3. ks \in SUBSET CategoryId \/ (CheckMedia(r) /\ ks \in SUBSET media)
      BY Zenon, <3>1 DEF CheckDelete, CheckReplace, CheckMedia, Categories
    <3>4. ks \in SUBSET (CategoryId \cup Asset)
      BY <3>3 DEF Typed, CatalogTypeOK
    <3>5. /\ how \in Stages
          /\ how \in {"destroy", "unrow"} => ks = {req[r].job.id}
      BY StageNames
    <3> HIDE DEF ks, how
    <3>6. req'[r].doomed = ks /\ req'[r].at = how
      <4>1. ~End(r, "refused")
        BY <2>4, StageNames, EndMoves DEF Moves, Typed
      <4> QED BY <3>2, <3>4, <3>5, <4>1, DoomsMoves DEF Moves, Typed
    <3>7. ks \cap Asset \subseteq media
      BY <3>3, CatalogConstants
    <3> QED BY <2>1, <2>4, <3>5, <3>6, <3>7
  <2> QED BY <2>2, <2>3, <2>4
<1> QED BY <1>3, <1>4

(* A request that goes on to delete the row has destroyed the asset.       *)
LEMMA DestroyedIs ==
  ASSUME Typed, RowInv, NEW r \in Request, Step(r), req'[r].at = "unrow"
  PROVE  /\ Destroys(r) /\ req'[r].doomed \subseteq {req[r].job.id}
         /\ req[r].job.id \notin cloud'
         /\ \A x \in Request : Holds(x, req[r].job.id) => req[r].job.id \in raced'
<1>1. Destroys(r)
  BY Goers DEF Goes, Arrives
<1>2. PICK answer \in {"ok", "error"}, gone \in BOOLEAN : Destroy(r, answer, gone)
  BY <1>1 DEF Destroys
<1>3. End(r, AfterDestroy(answer)) /\ (answer = "ok" => gone)
  BY <1>2 DEF Destroy
<1>4. ~End(r, "refused")
  BY StageNames, EndMoves DEF Moves, Typed
<1>5. gone = TRUE
  BY <1>3, <1>4 DEF AfterDestroy
<1>6. /\ cloud' = cloud \ {req[r].job.id}
      /\ \A x \in Request : Holds(x, req[r].job.id) => req[r].job.id \in raced'
  BY <1>2, <1>5 DEF Destroy
<1>7. req'[r].doomed \subseteq {req[r].job.id}
  BY FoundNext
<1> QED BY <1>1, <1>6, <1>7

LEMMA UploadsRacedNext ==
  ASSUME Typed, RowInv, NEW r \in Request, Step(r)
  PROVE  UploadsRaced'
<1>1. Goes(r) /\ Writes(r)
  BY Goers, Writers
<1> SUFFICES ASSUME NEW x \in Request, NEW z \in Request, NEW a \in Asset,
                    WillUpload(x, a)', req'[z].at = "unrow", a \in req'[z].doomed
             PROVE  a \in raced'
  BY DEF UploadsRaced
<1>2. CASE z = r
  <2>1. Destroys(r) /\ a = req[r].job.id
    BY <1>2, DestroyedIs
  <2>2. x # r
    <3>1. req'[x].at \in Importing /\ "unrow" \notin Importing
      BY DEF WillUpload, Importing
    <3> QED BY <1>2, <3>1
  <2>3. WillUpload(x, a)
    BY <1>1, <2>2 DEF WillUpload, Goes, Alike
  <2>4. Holds(x, a)
    BY <2>3, WillUploadIs DEF Holds
  <2> QED BY <1>2, <2>1, <2>4, DestroyedIs
<1>3. CASE z # r
  <2>1. req[z].at = "unrow" /\ a \in req[z].doomed /\ a \in media
    BY <1>1, <1>3 DEF Goes, Alike, RowInv, RowsDoomed
  <2>2. CASE x # r
    <3>1. WillUpload(x, a)
      BY <1>1, <2>2 DEF WillUpload, Goes, Alike
    <3> QED BY <1>1, <2>1, <3>1 DEF RowInv, UploadsRaced, Writes
  <2>3. CASE x = r
    <3>1. req'[r].at \in Importing
          /\ \E t \in ToSet(req'[r].todo) : t.kind = "image" /\ t.id = a
      BY <2>3 DEF WillUpload
    <3>2. CASE req'[r].todo = Todo(Export[r], Images(Export[r]) \ media)
      <4> DEFINE missing == Images(Export[r]) \ media
      <4>1. missing \in SUBSET Images(Export[r]) /\ a \notin missing
        BY <2>1
      <4> HIDE DEF missing
      <4>2. req'[r].todo = Todo(Export[r], missing)
        BY <3>2 DEF missing
      <4>3. \A t \in ToSet(Todo(Export[r], missing)) : t.kind = "image" => t.id \in missing
        BY <4>1, TodoIs
      <4> QED BY <3>1, <4>1, <4>2, <4>3
    <3>3. CASE req[r].at \in Importing /\ ToSet(req'[r].todo) \subseteq ToSet(req[r].todo)
      <4>1. WillUpload(r, a)
        BY <3>1, <3>3 DEF WillUpload
      <4> QED BY <1>1, <2>1, <4>1 DEF RowInv, UploadsRaced, Writes
    <3> QED BY <3>1, <3>2, <3>3, ImportGoesOn
  <2> QED BY <2>2, <2>3
<1> QED BY <1>2, <1>3

LEMMA GoneNext ==
  ASSUME Typed, RowInv, NEW r \in Request, Step(r), NEW z \in Request, req'[z].at = "unrow",
         NEW a \in req'[z].doomed \cap Asset
  PROVE  a \notin cloud' \/ a \in raced'
<1>1. Goes(r) /\ Writes(r)
  BY Goers, Writers
<1>2. CASE z = r
  BY <1>2, DestroyedIs
<1>3. CASE z # r
  <2>1. req[z].at = "unrow" /\ a \in req[z].doomed /\ a \in media /\ (a \notin cloud \/ a \in raced)
    BY <1>1, <1>3 DEF Goes, Alike, RowInv, RowsDoomed
  <2>2. CASE Upload(r)
    <3>1. /\ cloud' = cloud \cup {req[r].job.id}
          /\ req[r].job.kind = "upload" /\ req[r].at = "start"
      BY <2>2 DEF Upload, Jobs
    <3>2. req[r].job.id \notin media
      BY <3>1 DEF RowInv, UploadIsNew
    <3> QED BY <1>1, <2>1, <3>1, <3>2 DEF Writes
  <2>3. CASE UploadImage(r)
    <3>1. cloud' = cloud \cup {Task(r).id} /\ Doing(r, {"image"}, "upload") /\ "upload" \in Importing
      BY <2>3 DEF UploadImage, Importing
    <3>2. WillUpload(r, Task(r).id)
      BY <3>1, DoingIs DEF WillUpload, Typed
    <3> QED BY <1>1, <2>1, <3>1, <3>2 DEF RowInv, UploadsRaced, Writes
  <2>4. CASE Destroys(r)
    BY <1>1, <2>1, <2>4, DestroyDoes DEF Writes
  <2> QED BY <1>1, <2>1, <2>2, <2>3, <2>4 DEF Writes, CloudWriter
<1> QED BY <1>2, <1>3

LEMMA RowNext ==
  ASSUME Typed, RowInv, [Next]_vars
  PROVE  RowInv'
<1>1. CASE UNCHANGED vars
  BY <1>1 DEF vars, catalogVars, docs, history, RowInv, Worked, AssetHasRow, UploadsRaced, UploadIsNew,
              RowsDoomed, WillUpload
<1>2. ASSUME NEW r \in Request, Step(r) PROVE RowInv'
  <2>1. Goes(r)
    BY <1>2, Goers
  <2>2. Worked'
    BY <2>1 DEF RowInv, Worked, Goes
  <2>3. \A x \in Request : RowsDoomed(x)'
    BY <1>2, <2>1, FoundNext, GoneNext DEF RowsDoomed, Goes
  <2> QED BY <1>2, <2>2, <2>3, HasRowNext, UploadsRacedNext, UploadNewNext DEF RowInv
<1> QED BY <1>1, <1>2 DEF Next, Step

(* No asset is left in Cloudinary without a record: its upload is still to *)
(* be registered, or it was deleted under an import about to use it.       *)
THEOREM AssetsHaveRows == Spec => []AssetHasRow
<1>1. Init => RowInv
  BY RowInit
<1>2. Typed /\ RowInv /\ [Next]_vars => RowInv'
  BY RowNext
<1>3. RowInv => AssetHasRow
  BY DEF RowInv
<1> QED BY <1>1, <1>2, <1>3, AlwaysTyped, PTL DEF Spec

-----------------------------------------------------------------------------
(***************************************************************************)
(* A product counts its reviews: the count moves with the set of its live  *)
(* reviews, and so does the baseline when an import writes the reviews.    *)
(***************************************************************************)
Live(o) == Cardinality(CountedReviews(o))

LEMMA LiveIsNat ==
  ASSUME NEW o
  PROVE  IsFiniteSet(CountedReviews(o)) /\ Live(o) \in Nat
BY Counting DEF Live, CountedReviews, LiveReviews, Reviews

LEMMA ReviewIs ==
  ASSUME Typed, NEW v \in Reviews
  PROVE  v \in ReviewId /\ review[v] \in ReviewDoc /\ review[v].product \in ProductId /\ review[v].live \in BOOLEAN
BY DEF Typed, CatalogTypeOK, Reviews, ReviewDoc

(* One more live review, that counts when it is approved *)
LEMMA LiveAdded ==
  ASSUME Typed, NEW v \in ReviewId \ Reviews, NEW d \in ReviewDoc, d.live,
         review' = [review EXCEPT ![v] = d], NEW o
  PROVE  Live(o)' = Live(o) + IF o = d.product /\ d.approved THEN 1 ELSE 0
<1>1. d # None
  BY CatalogConstants
<1>2. review'[v] = d /\ \A k \in ReviewId \ {v} : review'[k] = review[k]
  BY DEF Typed, CatalogTypeOK
<1>3. CASE o = d.product /\ d.approved
  <2>1. CountedReviews(o)' = CountedReviews(o) \cup {v} /\ v \notin CountedReviews(o)
    BY <1>1, <1>2, <1>3 DEF CountedReviews, LiveReviews, Reviews
  <2>2. Cardinality(CountedReviews(o) \cup {v}) = Cardinality(CountedReviews(o)) + 1
    BY <2>1, LiveIsNat, FS_AddElement
  <2> QED BY <1>3, <2>1, <2>2 DEF Live
<1>4. CASE ~(o = d.product /\ d.approved)
  <2>1. CountedReviews(o)' = CountedReviews(o)
    BY <1>1, <1>2, <1>4 DEF CountedReviews, LiveReviews, Reviews
  <2>2. Live(o)' = Live(o) /\ Live(o) \in Nat
    BY <2>1, LiveIsNat DEF Live
  <2> QED BY <1>4, <2>2
<1> QED BY <1>3, <1>4

(* A live review that is moderated or deleted *)
LEMMA LiveRemoved ==
  ASSUME Typed, NEW v \in Reviews, review[v].live,
         \A k \in ReviewId \ {v} : review'[k] = review[k],
         review'[v] = None \/ ~review'[v].live, NEW o
  PROVE  Live(o)' = Live(o) - IF o = review[v].product /\ review[v].approved THEN 1 ELSE 0
<1>1. CASE o = review[v].product /\ review[v].approved
  <2>1. CountedReviews(o)' = CountedReviews(o) \ {v} /\ v \in CountedReviews(o)
    BY <1>1 DEF CountedReviews, LiveReviews, Reviews
  <2>2. Cardinality(CountedReviews(o) \ {v}) = Cardinality(CountedReviews(o)) - 1
    BY <2>1, LiveIsNat, FS_RemoveElement
  <2> QED BY <1>1, <2>1, <2>2 DEF Live
<1>2. CASE ~(o = review[v].product /\ review[v].approved)
  <2>1. CountedReviews(o)' = CountedReviews(o)
    BY <1>2 DEF CountedReviews, LiveReviews, Reviews
  <2>2. Live(o)' = Live(o) /\ Live(o) \in Nat
    BY <2>1, LiveIsNat DEF Live
  <2> QED BY <1>2, <2>2
<1> QED BY <1>1, <1>2

(* Counts, for a product o *)
Counted(o) == base[o] >= 0 => product[o].count = base[o] + Live(o)

LEMMA CountedIs == CountMatchesReviews <=> \A o \in Products : Counted(o)
BY DEF CountMatchesReviews, Counted, Live

LEMMA ReviewStepCounts ==
  ASSUME Typed, NEW r \in Request, InsertReview(r) \/ DeleteReview(r),
         NEW o \in Products', o \in Products => Counted(o)
  PROVE  Counted(o)'
<1>0. /\ base \in [ProductId -> Int]
      /\ UNCHANGED base
  BY Zenon DEF Typed, CatalogTypeOK, InsertReview, DeleteReview, history
<1>1. o \in Products
  BY ReviewRecounts, RecountKeeps DEF Products
<1>2. /\ base[o] \in Int /\ product[o].count \in Nat /\ Live(o) \in Nat
  BY <1>0, <1>1, CountIsNat, LiveIsNat DEF Products
<1>3. CASE UNCHANGED <<product, review>>
  <2>1. Live(o)' = Live(o)
    BY <1>3 DEF Live, CountedReviews, LiveReviews, Reviews
  <2> QED BY <1>0, <1>1, <1>3, <2>1 DEF Counted
<1>4. CASE InsertReview(r) /\ ~UNCHANGED <<product, review>>
  <2> DEFINE p == req[r].job.id
             d == [product |-> p, user |-> req[r].job.user, approved |-> TRUE, live |-> TRUE]
  <2>1. PICK v \in NewReview \ Reviews :
          /\ review' = [review EXCEPT ![v] = d] /\ d \in ReviewDoc
          /\ IF p \in Products THEN product' = [product EXCEPT ![p].count = product[p].count + 1]
                               ELSE UNCHANGED product
    BY <1>4, InsertReviewDoes
  <2>2. v \in ReviewId \ Reviews /\ d.live /\ d.approved /\ d.product = p
    BY <2>1, CatalogConstants
  <2> HIDE DEF d
  <2>3. Live(o)' = Live(o) + IF o = p THEN 1 ELSE 0
    BY <2>1, <2>2, LiveAdded
  <2>4. product'[o].count = product[o].count + IF o = p THEN 1 ELSE 0
    <3>1. CASE p \in Products
      <4> DEFINE n == product[p].count + 1
      <4>1. n \in Nat
        BY <3>1, CountIsNat
      <4>2. Recount(p, n)
        BY <2>1, <3>1 DEF Recount
      <4>3. product'[p].count = n /\ \A q \in Products \ {p} : product'[q].count = product[q].count
        <5> HIDE DEF n
        <5> QED BY <3>1, <4>1, <4>2, RecountKeeps
      <4> QED BY <1>1, <1>2, <4>3
    <3> QED BY <1>1, <1>2, <2>1, <3>1
  <2> QED BY <1>0, <1>1, <1>2, <2>3, <2>4 DEF Counted
<1>5. CASE DeleteReview(r)
  <2> DEFINE v == req[r].job.id
             p == review[v].product
  <2>1. /\ v \in Reviews /\ review[v].live /\ review[v] \in ReviewDoc
        /\ review' = [review EXCEPT ![v].live = FALSE]
        /\ IF review[v].approved /\ p \in Products
           THEN product' = [product EXCEPT ![p].count = CountWithout(product[p].count)]
           ELSE UNCHANGED product
    BY Zenon, <1>5, DeleteReviewDoes
  <2> DEFINE own == o = p /\ review[v].approved
  <2>2. /\ \A k \in ReviewId \ {v} : review'[k] = review[k]
        /\ ~review'[v].live
    BY Zenon, <2>1 DEF Typed, CatalogTypeOK, Reviews, ReviewDoc
  <2>3. Live(o)' = Live(o) - IF own THEN 1 ELSE 0
    BY Zenon, <2>1, <2>2, LiveRemoved
  <2>4. own => Live(o) >= 1
    <3> SUFFICES ASSUME own PROVE Live(o) # 0
      BY <1>2
    <3>1. v \in CountedReviews(o)
      BY Zenon, <2>1 DEF CountedReviews, LiveReviews
    <3> QED BY <3>1, LiveIsNat, FS_EmptySet DEF Live
  <2>5. product'[o].count = IF own THEN CountWithout(product[o].count) ELSE product[o].count
    <3>1. CASE review[v].approved /\ p \in Products
      <4> DEFINE n == CountWithout(product[p].count)
      <4>1. product[p].count \in Nat
        BY <3>1, CountIsNat
      <4>2. n \in Nat
        BY <4>1 DEF CountWithout
      <4>3. Recount(p, n)
        BY Zenon, <2>1, <3>1 DEF Recount
      <4>4. product'[p].count = n /\ \A q \in Products \ {p} : product'[q].count = product[q].count
        <5> HIDE DEF n
        <5> QED BY <3>1, <4>2, <4>3, RecountKeeps
      <4> QED BY <1>1, <3>1, <4>4
    <3>2. CASE ~(review[v].approved /\ p \in Products)
      <4>1. product' = product
        BY Zenon, <2>1, <3>2
      <4>2. ~own
        BY Zenon, <1>1, <3>2
      <4> QED BY <4>1, <4>2
    <3> QED BY Zenon, <3>1, <3>2
  <2> HIDE DEF own
  <2>6. ASSUME own, base[o] >= 0, product[o].count = base[o] + Live(o)
        PROVE  product'[o].count = base[o] + Live(o)'
    <3>1. product[o].count >= 1
      BY <1>2, <2>4, <2>6
    <3> DEFINE n == product[o].count
    <3>2. n \in Nat /\ CountWithout(n) = n - 1
      BY <1>2, <2>6, <3>1 DEF CountWithout
    <3>3. product'[o].count = CountWithout(n)
      BY Zenon, <2>5, <2>6
    <3>4. Live(o)' = Live(o) - 1
      BY <2>3, <2>6
    <3>5. n = base[o] + Live(o)
      BY <2>6
    <3>6. base[o] \in Int /\ Live(o) \in Nat
      BY <1>2
    <3>7. n - 1 = base[o] + (Live(o) - 1)
      BY <3>2, <3>5, <3>6
    <3> HIDE DEF n
    <3> QED BY Zenon, <2>6, <3>2, <3>3, <3>4, <3>7
  <2> QED BY <1>0, <1>1, <1>2, <2>3, <2>5, <2>6 DEF Counted
<1> QED BY <1>3, <1>4, <1>5

LEMMA WriteProductCounts ==
  ASSUME Typed, NEW r \in Request, WriteProduct(r), NEW o \in Products', o \in Products => Counted(o)
  PROVE  Counted(o)'
<1> DEFINE q == req[r]
           p == q.job.id
<1>0. base \in [ProductId -> Int] /\ p \in ProductId
  BY WriteProductDoes DEF Typed, CatalogTypeOK
<1>1. Live(o)' = Live(o) /\ Live(o) \in Nat /\ o \in ProductId
  BY WriteProductDoes, LiveIsNat DEF Live, CountedReviews, LiveReviews, Reviews, Products
<1>2. CASE UNCHANGED <<product, base>>
  BY <1>1, <1>2 DEF Counted, Products
<1>3. ASSUME NEW d \in ProductDoc, product' = [product EXCEPT ![p] = d],
             d.count \in Nat, base' = [base EXCEPT ![p] = d.count - Cardinality(CountedReviews(p))]
      PROVE  Counted(o)'
  <2> HIDE DEF p
  <2>1. /\ Products' = Products \cup {p}
        /\ product'[p] = d /\ \A k \in ProductId \ {p} : product'[k] = product[k]
    BY <1>0, <1>3, ProductsAfter
  <2>2. CASE o = p
    <3>1. base'[o] = d.count - Live(o) /\ product'[o].count = d.count
      BY <1>0, <1>3, <2>1, <2>2 DEF Live
    <3> QED BY <1>1, <1>3, <3>1 DEF Counted
  <2>3. CASE o # p
    <3>1. o \in Products /\ product'[o] = product[o] /\ base'[o] = base[o]
      BY <1>0, <1>1, <1>3, <2>1, <2>3 DEF Products
    <3> QED BY <1>1, <3>1 DEF Counted
  <2> QED BY <2>2, <2>3
<1>4. ASSUME NEW d \in ProductDoc, product' = [product EXCEPT ![p] = d], p \in Products,
             d.count = product[p].count, UNCHANGED base
      PROVE  Counted(o)'
  <2> HIDE DEF p
  <2>1. /\ Products' = Products \cup {p}
        /\ product'[p] = d /\ \A k \in ProductId \ {p} : product'[k] = product[k]
    BY <1>0, <1>4, ProductsAfter
  <2>2. o \in Products /\ product'[o].count = product[o].count
    BY <1>1, <1>4, <2>1
  <2> QED BY <1>1, <1>4, <2>2 DEF Counted
<1> QED BY <1>2, <1>3, <1>4, WriteProductDoes

LEMMA DeleteDocCounts ==
  ASSUME Typed, NEW r \in Request, DeleteDoc(r), NEW o \in Products', o \in Products => Counted(o)
  PROVE  Counted(o)'
<1> DEFINE t == Task(r)
<1>0. base \in [ProductId -> Int] /\ product \in [ProductId -> ProductDoc \cup {None}]
      /\ review \in [ReviewId -> ReviewDoc \cup {None}]
  BY DEF Typed, CatalogTypeOK
<1>1. o \in ProductId /\ o \in Products /\ product'[o] = product[o]
  <2>1. \/ product' = product
        \/ product' = [product EXCEPT ![t.id] = None]
    BY DeleteDocDoes
  <2> QED BY <1>0, <2>1 DEF Products
<1>2. base[o] \in Int /\ product[o].count \in Nat /\ Live(o) \in Nat
  BY <1>0, <1>1, CountIsNat, LiveIsNat
<1>3. CASE UNCHANGED <<review, base>>
  <2>1. Live(o)' = Live(o)
    BY <1>3 DEF Live, CountedReviews, LiveReviews, Reviews
  <2> QED BY <1>1, <1>3, <2>1 DEF Counted
<1>4. CASE /\ t.id \in ReviewId
           /\ review' = [review EXCEPT ![t.id] = None]
           /\ base' = IF t.id \in Reviews /\ review[t.id].live /\ review[t.id].approved
                      THEN [base EXCEPT ![review[t.id].product] = IF @ >= 0 THEN @ + 1 ELSE @]
                      ELSE base
  <2> DEFINE v == t.id
  <2>1. review'[v] = None /\ \A k \in ReviewId \ {v} : review'[k] = review[k]
    BY <1>0, <1>4
  <2>2. CASE v \in Reviews /\ review[v].live /\ review[v].approved
    <3> DEFINE p == review[v].product
    <3>1. Live(o)' = Live(o) - IF o = p THEN 1 ELSE 0
      BY <2>1, <2>2, LiveRemoved
    <3>2. base'[o] = IF o = p /\ base[o] >= 0 THEN base[o] + 1 ELSE base[o]
      BY <1>0, <1>1, <1>4, <2>2
    <3> QED BY <1>1, <1>2, <3>1, <3>2 DEF Counted
  <2>3. CASE ~(v \in Reviews /\ review[v].live /\ review[v].approved)
    <3>1. CountedReviews(o)' = CountedReviews(o)
      BY <2>1, <2>3 DEF CountedReviews, LiveReviews, Reviews
    <3>2. Live(o)' = Live(o) /\ base' = base
      BY <1>4, <2>3, <3>1 DEF Live
    <3> QED BY <1>1, <3>2 DEF Counted
  <2> QED BY <2>2, <2>3
<1> QED BY <1>3, <1>4, DeleteDocDoes

LEMMA CreateProductCounts ==
  ASSUME Typed, NEW r \in Request, CreateProductDoc(r), NEW o \in Products', o \in Products => Counted(o)
  PROVE  Counted(o)'
<1> DEFINE p == Task(r).id
           d == PlannedProduct(r, Task(r).row)
<1>0. base \in [ProductId -> Int] /\ p \in ProductId /\ d \in ProductDoc /\ d.count \in Nat
  BY CreateProductDoes DEF Typed, CatalogTypeOK
<1>1. Live(o)' = Live(o) /\ Live(o) \in Nat /\ o \in ProductId
  BY CreateProductDoes, LiveIsNat DEF Live, CountedReviews, LiveReviews, Reviews, Products
<1>2. CASE UNCHANGED <<product, base>>
  BY <1>1, <1>2 DEF Counted, Products
<1>3. CASE /\ product' = [product EXCEPT ![p] = d]
           /\ base' = [base EXCEPT ![p] = d.count - Cardinality(CountedReviews(p))]
  <2> HIDE DEF p, d
  <2>1. /\ Products' = Products \cup {p}
        /\ product'[p] = d /\ \A k \in ProductId \ {p} : product'[k] = product[k]
    BY <1>0, <1>3, ProductsAfter
  <2>2. CASE o = p
    <3>1. base'[o] = d.count - Live(o) /\ product'[o].count = d.count
      BY <1>0, <1>3, <2>1, <2>2 DEF Live
    <3> QED BY <1>0, <1>1, <3>1 DEF Counted
  <2>3. CASE o # p
    <3>1. o \in Products /\ product'[o] = product[o] /\ base'[o] = base[o]
      BY <1>0, <1>1, <1>3, <2>1, <2>3 DEF Products
    <3> QED BY <1>1, <3>1 DEF Counted
  <2> QED BY <2>2, <2>3
<1> QED BY <1>2, <1>3, CreateProductDoes

LEMMA CreateReviewCounts ==
  ASSUME Typed, NEW r \in Request, CreateReviewDoc(r), NEW o \in Products', o \in Products => Counted(o)
  PROVE  Counted(o)'
<1> DEFINE v == Task(r).id
           d == PlannedReview(r, Task(r).row)
<1>0. base \in [ProductId -> Int] /\ v \in ReviewId /\ d \in ReviewDoc /\ d.live
      /\ d.product \in ProductId /\ product' = product
  BY CreateReviewDoes DEF Typed, CatalogTypeOK
<1>1. o \in Products /\ o \in ProductId
  BY <1>0 DEF Products
<1>2. base[o] \in Int /\ product[o].count \in Nat /\ Live(o) \in Nat
  BY <1>0, <1>1, CountIsNat, LiveIsNat
<1>3. CASE UNCHANGED <<review, base>>
  <2>1. Live(o)' = Live(o)
    BY <1>3 DEF Live, CountedReviews, LiveReviews, Reviews
  <2> QED BY <1>0, <1>1, <1>3, <2>1 DEF Counted
<1>4. CASE /\ v \notin Reviews /\ review' = [review EXCEPT ![v] = d]
           /\ d.approved => base' = [base EXCEPT ![d.product] = @ - 1]
           /\ ~d.approved => base' = base
  <2> HIDE DEF v, d
  <2>1. Live(o)' = Live(o) + IF o = d.product /\ d.approved THEN 1 ELSE 0
    BY <1>0, <1>4, LiveAdded
  <2>2. base'[o] = IF o = d.product /\ d.approved THEN base[o] - 1 ELSE base[o]
    BY <1>0, <1>1, <1>4
  <2> QED BY <1>0, <1>1, <1>2, <2>1, <2>2 DEF Counted
<1> QED BY <1>3, <1>4, CreateReviewDoes

LEMMA CountInit == Init => CountMatchesReviews
<1> SUFFICES ASSUME Init, NEW p \in Products PROVE Counted(p)
  BY CountedIs
<1>1. base[p] = product[p].count - Live(p)
  <2>1. PICK w \in Workload : CatalogInit(w)
    BY DEF Init
  <2> QED BY <2>1 DEF CatalogInit, Live, Products
<1>2. product[p].count \in Nat /\ Live(p) \in Nat
  BY InitTyped, CountIsNat, LiveIsNat
<1> QED BY <1>1, <1>2 DEF Counted

LEMMA CountNext ==
  ASSUME Typed, CountMatchesReviews, [Next]_vars
  PROVE  CountMatchesReviews'
<1>1. CASE UNCHANGED vars
  BY <1>1 DEF vars, catalogVars, docs, history, CountMatchesReviews, CountedReviews, LiveReviews, Products, Reviews
<1>2. ASSUME NEW r \in Request, Step(r), NEW o \in Products' PROVE Counted(o)'
  <2>0. o \in Products => Counted(o)
    BY CountedIs
  <2>1. Writes(r)
    BY <1>2, Writers
  <2>2. CASE WriteProduct(r) \/ DeleteDoc(r) \/ CreateProductDoc(r) \/ CreateReviewDoc(r)
              \/ InsertReview(r) \/ DeleteReview(r)
    BY <1>2, <2>0, <2>2, WriteProductCounts, DeleteDocCounts, CreateProductCounts, CreateReviewCounts,
       ReviewStepCounts
  <2>3. CASE UNCHANGED <<review, base>> /\ (Archive(r) \/ UNCHANGED product)
    <3>1. Live(o)' = Live(o)
      BY <2>3 DEF Live, CountedReviews, LiveReviews, Reviews
    <3>2. o \in Products /\ product'[o].count = product[o].count
      BY <1>2, <2>3, ArchiveDoes DEF Products
    <3> QED BY <2>0, <2>3, <3>1, <3>2 DEF Counted
  <2> QED BY <2>1, <2>2, <2>3 DEF Writes, ProductWriter, ReviewWriter, BaseWriter
<1>3. (\A o \in Products : Counted(o))' => CountMatchesReviews'
  BY CountedIs, PTL
<1> QED BY <1>1, <1>2, <1>3 DEF Next, Step

(* reviewCount is its baseline and the approved live reviews in every state, *)
(* through creations that bring a count of their own, refused duplicates,   *)
(* moderation of approved and unapproved reviews, and imports, for a        *)
(* product whose baseline is not below zero.                                *)
THEOREM CountsAreKept == Spec => []CountMatchesReviews
<1>1. Init => CountMatchesReviews
  BY CountInit
<1>2. Typed /\ CountMatchesReviews /\ [Next]_vars => CountMatchesReviews'
  BY CountNext
<1> QED BY <1>1, <1>2, AlwaysTyped, PTL DEF Spec

-----------------------------------------------------------------------------
(***************************************************************************)
(* What a calm request may rely on: no other request wrote the catalogue.  *)
(***************************************************************************)
Disturbed(r) ==
  /\ category' # category => calm' \subseteq {r}
  /\ banner' # banner => calm' \subseteq {r}
  /\ product' # product => calm' \subseteq {r} \/ InsertReview(r) \/ DeleteReview(r)
  /\ review' # review => calm' \subseteq {r} \/ InsertReview(r) \/ DeleteReview(r)
  /\ media' # media => calm' \subseteq {r} \/ RegisterMedia(r) \/ DeleteRow(r)
  /\ r \in calm' => r \in calm \/ CheckReplace(r) \/ StartImport(r)

LEMMA Disturbing ==
  ASSUME NEW r \in Request, Step(r)
  PROVE  Disturbed(r)
<1> USE DEF docs, history
<1>1. CASE CategoryStep(r)
  <2>1. CASE CheckCategory(r) BY <2>1 DEF CheckCategory, Disturbed
  <2>2. CASE WriteCategory(r) BY <2>2 DEF WriteCategory, Disturbed, Disturbs
  <2>3. CASE CheckDelete(r) BY <2>3 DEF CheckDelete, Disturbed
  <2>4. CASE RemoveCategory(r) BY <2>4 DEF RemoveCategory, Removed, Disturbed, Disturbs
  <2>5. CASE Renumber(r)
    <3>1. calm' = calm \cap {r} /\ UNCHANGED <<product, review, banner, media>>
      BY <2>5 DEF Renumber, Disturbs
    <3> QED BY <3>1 DEF Disturbed
  <2>6. CASE CheckReplace(r)
    <3>1. UNCHANGED docs
      BY <2>6 DEF CheckReplace
    <3> QED BY <2>6, <3>1 DEF Disturbed
  <2>7. CASE ResolveList(r) BY <2>7 DEF ResolveList, Disturbed
  <2>8. CASE Purge(r) BY <2>8 DEF Purge, Removed, Disturbed, Disturbs
  <2>9. CASE Park(r) BY <2>9 DEF Park, Disturbed, Disturbs
  <2>10. CASE FinalRow(r) BY Zenon, <2>10 DEF FinalRow, Disturbed, Disturbs
  <2>11. CASE EndReplace(r) BY <2>11 DEF EndReplace, Disturbed
  <2> QED BY <1>1, <2>1, <2>2, <2>3, <2>4, <2>5, <2>6, <2>7, <2>8, <2>9, <2>10, <2>11 DEF CategoryStep
<1>2. CASE ProductStep(r)
  <2>1. CASE StartProduct(r) BY <2>1 DEF StartProduct, Disturbed
  <2>2. CASE ResolveImage(r) BY <2>2 DEF ResolveImage, Disturbed
  <2>3. CASE ChooseSlug(r) BY <2>3 DEF ChooseSlug, Disturbed
  <2>4. CASE WriteProduct(r) BY <2>4 DEF WriteProduct, Disturbed, Disturbs
  <2>5. CASE Archive(r) BY <2>5 DEF Archive, Disturbed, Disturbs
  <2>6. CASE StartReview(r) BY <2>6 DEF StartReview, Disturbed
  <2>7. CASE InsertReview(r)
    <3>1. UNCHANGED <<category, banner, media, calm>>
      BY <2>7 DEF InsertReview
    <3> QED BY <2>7, <3>1 DEF Disturbed
  <2>8. CASE DeleteReview(r)
    <3>1. UNCHANGED <<category, banner, media, calm>>
      BY Zenon, <2>8 DEF DeleteReview
    <3> QED BY <2>8, <3>1 DEF Disturbed
  <2> QED BY <1>2, <2>1, <2>2, <2>3, <2>4, <2>5, <2>6, <2>7, <2>8 DEF ProductStep
<1>3. CASE MediaStep(r)
  <2>1. CASE Upload(r) BY <2>1 DEF Upload, Disturbed
  <2>2. CASE RegisterMedia(r)
    <3>1. UNCHANGED <<category, product, review, banner, calm>>
      BY <2>2 DEF RegisterMedia
    <3> QED BY <2>2, <3>1 DEF Disturbed
  <2>3. CASE CheckMedia(r) BY <2>3 DEF CheckMedia, Disturbed
  <2>4. CASE DeleteRow(r)
    <3>1. UNCHANGED <<category, product, review, banner, calm>>
      BY <2>4 DEF DeleteRow
    <3> QED BY <2>4, <3>1 DEF Disturbed
  <2>5. CASE SetBanner(r) BY <2>5 DEF SetBanner, Disturbed, Disturbs
  <2>6. CASE Destroys(r) BY <2>6 DEF Destroys, Destroy, Disturbed
  <2> QED BY <1>3, <2>1, <2>2, <2>3, <2>4, <2>5, <2>6 DEF MediaStep, Destroys
<1>4. CASE Crash(r) BY <1>4 DEF Crash, Disturbed
<1>5. CASE ImportStep(r)
  <2>1. CASE StartImport(r)
    <3>1. UNCHANGED docs
      BY <2>1 DEF StartImport
    <3> QED BY <2>1, <3>1 DEF Disturbed
  <2>2. CASE UploadImage(r) BY <2>2 DEF UploadImage, Disturbed
  <2>3. CASE WriteRow(r) BY <2>3 DEF WriteRow, Disturbed, Disturbs
  <2>4. CASE LookUp(r) BY <2>4 DEF LookUp, Disturbed
  <2>5. CASE DeleteDoc(r)
    <3>1. calm' = calm \cap {r}
      BY <2>5 DEF DeleteDoc, Disturbs
    <3>2. UNCHANGED media
      BY <2>5 DEF DeleteDoc
    <3> QED BY <3>1, <3>2 DEF Disturbed
  <2>6. CASE CreateCategoryDoc(r) BY <2>6 DEF CreateCategoryDoc, Disturbed, Disturbs
  <2>7. CASE CreateProductDoc(r) BY <2>7 DEF CreateProductDoc, Disturbed, Disturbs
  <2>8. CASE CreateReviewDoc(r) BY <2>8 DEF CreateReviewDoc, Disturbed, Disturbs
  <2>9. CASE CreateSettings(r) BY <2>9 DEF CreateSettings, Disturbed, Disturbs
  <2>10. CASE EndImport(r) BY <2>10 DEF EndImport, Disturbed
  <2>11. CASE CreateOrderDoc(r) BY <2>11 DEF CreateOrderDoc, Disturbed, Disturbs
  <2> QED BY <1>5, <2>1, <2>2, <2>3, <2>4, <2>5, <2>6, <2>7, <2>8, <2>9, <2>10, <2>11 DEF ImportStep
<1> QED BY <1>1, <1>2, <1>3, <1>4, <1>5 DEF Step, CatalogStep

(* A request that is still calm after another's step finds the catalogue   *)
(* as it was, but for reviews of customers and pictures of browsers.       *)
LEMMA StaysCalm ==
  ASSUME NEW r \in Request, Step(r), NEW x \in calm', x # r
  PROVE  /\ x \in calm /\ category' = category /\ banner' = banner
         /\ product' = product \/ InsertReview(r) \/ DeleteReview(r)
         /\ review' = review \/ InsertReview(r) \/ DeleteReview(r)
         /\ media' = media \/ RegisterMedia(r) \/ DeleteRow(r)
<1>1. ~(calm' \subseteq {r})
  OBVIOUS
<1>2. calm' \subseteq calm \cup {r}
  BY Writers DEF Writes
<1> QED BY <1>1, <1>2, Disturbing DEF Disturbed

(* An order is written by an import alone, which disturbs everyone else.    *)
OwnOrders(r) == orders' # orders => DeleteDoc(r) \/ CreateOrderDoc(r)

LEMMA OrdersStayCalm ==
  ASSUME NEW r \in Request, OwnOrders(r), NEW x \in calm', x # r
  PROVE  orders' = orders
<1>1. DeleteDoc(r) => calm' \subseteq {r}
  <2> SUFFICES ASSUME DeleteDoc(r) PROVE calm' \subseteq {r}
    OBVIOUS
  <2>1. calm' = calm \cap {r}
    BY DEF DeleteDoc, Disturbs
  <2> QED BY <2>1
<1>2. CreateOrderDoc(r) => orders' = orders \/ calm' \subseteq {r}
  BY DEF CreateOrderDoc, Disturbs
<1> QED BY <1>1, <1>2 DEF OwnOrders

-----------------------------------------------------------------------------
(***************************************************************************)
(* replaceCategories ends with its list.  What makes it inductive is the   *)
(* state at each of its statements: the rows to purge, then only rows of   *)
(* the list, then final rows before parked ones.                           *)
(***************************************************************************)
Distinct(list) ==
  \A i, k \in DOMAIN list : list[i].id = list[k].id \/ list[i].name = list[k].name => i = k

FinalDoc(d, row, k) ==
  d.name = Label(row.name, 1) /\ d.slug = Label(row.name, 1) /\ d.order = k - 1

ParkedDocIs(d, row) == d.name = Parked(row.id) /\ d.slug = Parked(row.id)

ReplaceRight(x) ==
  LET list == req[x].job.list
  IN  /\ req[x].at \in {"images", "purge", "park", "final"} => Distinct(list)
      /\ req[x].at \in {"images", "purge"} => req[x].doomed \cap CategoryId = Categories \ Listed(x)
      /\ req[x].at = "park" => Categories \subseteq Listed(x)
      /\ req[x].at = "final" =>
           /\ Categories = Listed(x)
           /\ \A k \in DOMAIN list : IF k < req[x].order THEN FinalDoc(category[list[k].id], list[k], k) ELSE ParkedDocIs(category[list[k].id], list[k])
      /\ req[x].at = "done" => Categories = Listed(x) /\ \A k \in DOMAIN list : FinalDoc(category[list[k].id], list[k], k)
      /\ req[x].at # "failed"

ReplaceInv == \A x \in calm : req[x].job.kind = "replaceCategories" => ReplaceRight(x)

LEMMA ReplaceInit == Init => ReplaceInv
<1> SUFFICES ASSUME Init PROVE ReplaceInv
  OBVIOUS
<1>1. calm = Request /\ \A x \in Request : req[x].at = "start"
  BY DEF Init, CatalogInit, Begin
<1> QED BY <1>1 DEF ReplaceInv, ReplaceRight

LEMMA ReplaceIs == ReplaceInv => ReplaceTakesEffect
BY Zenon DEF ReplaceInv, ReplaceRight, ReplaceTakesEffect, FinalDoc

LEMMA ListIs ==
  ASSUME Typed, NEW r \in Request
  PROVE  LET list == req[r].job.list
         IN  /\ DOMAIN list = 1..Len(list) /\ Len(list) \in Nat
             /\ \A k \in DOMAIN list : list[k].id \in CategoryId /\ list[k].name \in Name /\ list[k].id \in Listed(r)
             /\ Listed(r) \subseteq CategoryId
             /\ \A c \in Listed(r) : \E k \in DOMAIN list : c = list[k].id
<1>1. req[r].job \in Job
  BY DEF Typed, Asked, Requests
<1>2. req[r].job.list \in Seq([id : CategoryId, name : Name, image : Asset \cup {None}])
  BY <1>1 DEF Job
<1>3. \A k \in DOMAIN req[r].job.list : req[r].job.list[k].id \in CategoryId /\ req[r].job.list[k].name \in Name
  BY ListTyped DEF Typed
<1> QED BY <1>2, <1>3 DEF Listed

(* The final name of a row is free: the others of the list are parked, or  *)
(* final under a name of their own.                                        *)
LEMMA FinalFree ==
  ASSUME Typed, NEW r \in Request, req[r].at = "final", ReplaceRight(r),
         req[r].order \in DOMAIN req[r].job.list
  PROVE  LET row == req[r].job.list[req[r].order]
         IN  /\ row.id \in Categories
             /\ NameFree(Label(row.name, 1), row.id) /\ CategorySlugFree(Label(row.name, 1), row.id)
<1> DEFINE list == req[r].job.list
           i == req[r].order
           row == list[i]
<1>1. /\ Categories = Listed(r) /\ Distinct(list) /\ i \in DOMAIN list
      /\ \A k \in DOMAIN list : IF k < i THEN FinalDoc(category[list[k].id], list[k], k) ELSE ParkedDocIs(category[list[k].id], list[k])
  BY DEF ReplaceRight
<1>2. row.id \in Categories
  BY <1>1, ListIs
<1>3. ASSUME NEW d \in Categories \ {row.id}
      PROVE  category[d].name # Label(row.name, 1) /\ category[d].slug # Label(row.name, 1)
  <2>1. PICK k \in DOMAIN list : d = list[k].id
    BY <1>1, ListIs
  <2>2. k # i
    BY <1>3, <2>1
  <2>3. list[k].name # list[i].name
    BY <1>1, <2>2 DEF Distinct
  <2>4. CASE FinalDoc(category[list[k].id], list[k], k)
    <3>1. Label(list[k].name, 1) # Label(row.name, 1)
      BY <2>3 DEF Label
    <3> QED BY Zenon, <2>1, <2>4, <3>1 DEF FinalDoc
  <2>5. CASE ParkedDocIs(category[list[k].id], list[k])
    <3>1. Label(row.name, 1).nth = 1 /\ Parked(list[k].id).nth = 0
      BY DEF Label, Parked
    <3> QED BY <2>1, <2>5, <3>1 DEF ParkedDocIs
  <2> QED BY <1>1, <2>4, <2>5
<1> QED BY <1>2, <1>3 DEF NameFree, CategorySlugFree

LEMMA ReplaceOthers ==
  ASSUME Typed, RowInv, ReplaceInv, NEW r \in Request, Step(r), NEW x \in calm', x # r, x \in Request,
         req'[x].job.kind = "replaceCategories"
  PROVE  ReplaceRight(x)'
<1>1. Goes(r) /\ x \in calm /\ category' = category
  BY Goers, StaysCalm
<1>2. req'[x].job = req[x].job /\ Alike(x)
  BY <1>1 DEF Goes
<1>3. ReplaceRight(x)
  BY <1>1, <1>2 DEF ReplaceInv
<1>4. req'[x].doomed \cap CategoryId = req[x].doomed \cap CategoryId
  <2>1. CASE req'[x].doomed = req[x].doomed
    BY <2>1
  <2>2. CASE DeleteRow(r) /\ req'[x].doomed = req[x].doomed \ req[r].doomed
    <3>1. req[r].at = "unrow" /\ req[r].job.kind = "deleteMedia"
      BY <2>2 DEF DeleteRow, Jobs
    <3>2. req[r].doomed \subseteq Asset
      BY <3>1, AssetJob DEF RowInv, RowsDoomed
    <3> QED BY <2>2, <3>2, CatalogConstants
  <2> QED BY <1>1, <2>1, <2>2 DEF Goes
<1>5. /\ req'[x].at = req[x].at /\ req'[x].order = req[x].order
      /\ Listed(x)' = Listed(x) /\ Categories' = Categories
  BY <1>1, <1>2 DEF Alike, Listed, Categories
<1> DEFINE list == req[x].job.list
<1>6. req'[x].job.list = list
  BY <1>2
<1>7. /\ req'[x].at \in {"images", "purge", "park", "final"} => Distinct(list)
      /\ req'[x].at \in {"images", "purge"} => req'[x].doomed \cap CategoryId = Categories \ Listed(x)
      /\ req'[x].at = "park" => Categories \subseteq Listed(x)
      /\ req'[x].at # "failed"
  BY <1>3, <1>4, <1>5 DEF ReplaceRight
<1>8. /\ req'[x].at = "final" =>
           /\ Categories = Listed(x)
           /\ \A k \in DOMAIN list :
                IF k < req'[x].order THEN FinalDoc(category'[list[k].id], list[k], k)
                ELSE ParkedDocIs(category'[list[k].id], list[k])
      /\ req'[x].at = "done" =>
           /\ Categories = Listed(x)
           /\ \A k \in DOMAIN list : FinalDoc(category'[list[k].id], list[k], k)
  BY <1>1, <1>3, <1>5 DEF ReplaceRight
<1> HIDE DEF list
<1> QED BY <1>5, <1>6, <1>7, <1>8 DEF ReplaceRight

LEMMA ReplaceOwn ==
  ASSUME Typed, ReplaceInv, NEW r \in Request, Step(r), r \in calm',
         req'[r].job.kind = "replaceCategories"
  PROVE  ReplaceRight(r)'
<1> DEFINE list == req[r].job.list
<1>1. /\ Goes(r) /\ Disturbed(r) /\ req'[r].job = req[r].job
      /\ Arrives(r, req'[r].at) /\ req[r].job.kind = "replaceCategories"
  BY Goers, Disturbing DEF Goes
<1>2. Listed(r)' = Listed(r)
  BY <1>1 DEF Listed
<1>3. ~CheckReplace(r) => ReplaceRight(r)
  BY <1>1 DEF Disturbed, StartImport, Jobs, ReplaceInv
<1>4. req'[r].at = "images" =>
        Distinct(list) /\ req'[r].doomed \cap CategoryId = Categories' \ Listed(r)
  <2> SUFFICES ASSUME req'[r].at = "images"
               PROVE  Distinct(list) /\ req'[r].doomed \cap CategoryId = Categories' \ Listed(r)
    OBVIOUS
  <2> DEFINE ks == Categories \ Listed(r)
  <2>1. CheckReplace(r)
    BY <1>1 DEF Arrives
  <2>2. /\ Distinct(list) /\ category' = category
        /\ Dooms(r, ks, "images") \/ End(r, "refused")
    BY <2>1 DEF CheckReplace, docs, Distinct
  <2>3. ks \in SUBSET (CategoryId \cup Asset) /\ ks \subseteq CategoryId
    BY DEF Categories
  <2>4. Categories' = Categories
    BY <2>2 DEF Categories
  <2> HIDE DEF ks
  <2>5. ~End(r, "refused")
    BY StageNames, EndMoves DEF Moves, Typed
  <2>6. req'[r].doomed = ks
    BY <2>2, <2>3, <2>5, StageNames, DoomsMoves DEF Moves, Typed
  <2> QED BY <2>2, <2>3, <2>4, <2>6 DEF ks
<1>5. req'[r].at = "purge" =>
        Distinct(list) /\ req'[r].doomed \cap CategoryId = Categories' \ Listed(r)
  <2> SUFFICES ASSUME req'[r].at = "purge"
               PROVE  Distinct(list) /\ req'[r].doomed \cap CategoryId = Categories' \ Listed(r)
    OBVIOUS
  <2>1. ResolveList(r)
    BY <1>1 DEF Arrives
  <2>2. req[r].at = "images" /\ category' = category
    BY <2>1 DEF ResolveList, Jobs, docs
  <2>3. ~CheckDelete(r) /\ ~CheckReplace(r) /\ ~CheckMedia(r) /\ ~DeleteRow(r)
    BY <2>2 DEF Jobs, CheckDelete, CheckReplace, CheckMedia, DeleteRow
  <2>4. req'[r].doomed = req[r].doomed
    BY <1>1, <2>3 DEF Goes
  <2> QED BY <1>3, <2>2, <2>3, <2>4 DEF ReplaceRight, Categories
<1>6. req'[r].at = "park" => Distinct(list) /\ Categories' \subseteq Listed(r)
  <2> SUFFICES ASSUME req'[r].at = "park" PROVE Distinct(list) /\ Categories' \subseteq Listed(r)
    OBVIOUS
  <2>1. Purge(r)
    BY <1>1 DEF Arrives
  <2>2. Removed(r) /\ req[r].at = "purge" /\ ~CheckReplace(r)
    BY <2>1 DEF Purge, Jobs, CheckReplace
  <2>3. Categories' = Categories \ req[r].doomed
    BY <2>2, RemovedDoes
  <2> QED BY <1>3, <2>2, <2>3 DEF ReplaceRight, Categories
<1>7. req'[r].at = "final" =>
        /\ Distinct(list) /\ Categories' = Listed(r)
        /\ \A k \in DOMAIN list :
             IF k < req'[r].order THEN FinalDoc(category'[list[k].id], list[k], k) ELSE ParkedDocIs(category'[list[k].id], list[k])
  <2> SUFFICES ASSUME req'[r].at = "final"
               PROVE  /\ Distinct(list) /\ Categories' = Listed(r)
                      /\ \A k \in DOMAIN list :
                           IF k < req'[r].order THEN FinalDoc(category'[list[k].id], list[k], k) ELSE ParkedDocIs(category'[list[k].id], list[k])
    OBVIOUS
  <2>1. CASE Park(r)
    <3>1. req[r].at = "park" /\ Reaches(r, 1) /\ ~CheckReplace(r)
      BY <2>1 DEF Park, Jobs, CheckReplace
    <3>2. req'[r].order = 1
      BY <3>1, ReachesMoves DEF Moves, Typed
    <3>3. Categories' = Listed(r)
      BY <1>3, <2>1, <3>1, ParkDoes DEF ReplaceRight
    <3>4. ASSUME NEW k \in DOMAIN list PROVE ~(k < 1) /\ ParkedDocIs(category'[list[k].id], list[k])
      <4>1. list[k].id \in Listed(r) /\ list[k].id \in CategoryId /\ ~(k < 1)
        BY ListIs
      <4>2. category'[list[k].id] = ParkedNames(list[k].id)
        BY <2>1, <4>1, ParkDoes
      <4>3. ParkedNames(list[k].id).name = Parked(list[k].id) /\ ParkedNames(list[k].id).slug = Parked(list[k].id)
        BY <4>1, ParkedDoc
      <4> QED BY <1>1, <4>1, <4>2, <4>3 DEF ParkedDocIs
    <3> QED BY <1>3, <3>1, <3>2, <3>3, <3>4 DEF ReplaceRight
  <2>2. CASE FinalRow(r)
    <3> DEFINE i == req[r].order
               row == list[i]
    <3>1. req[r].at = "final" /\ ~CheckReplace(r) /\ i \in DOMAIN list
      BY Zenon, <2>2 DEF FinalRow, Jobs, CheckReplace
    <3>2. ReplaceRight(r)
      BY <1>3, <3>1
    <3>3. /\ Distinct(list) /\ Categories = Listed(r)
          /\ \A k \in DOMAIN list : IF k < i THEN FinalDoc(category[list[k].id], list[k], k) ELSE ParkedDocIs(category[list[k].id], list[k])
      BY <3>1, <3>2 DEF ReplaceRight
    <3>4. row.id \in Categories /\ row.id \in CategoryId
      BY <3>1, <3>2, FinalFree DEF Categories
    <3>5. ~End(r, "failed")
      BY StageNames, EndMoves DEF Moves, Typed
    <3>6. /\ Reaches(r, i + 1) /\ i \in Nat
          /\ \E d \in CategoryDoc : /\ category' = [category EXCEPT ![row.id] = d]
                                    /\ d.name = Label(row.name, 1) /\ d.slug = Label(row.name, 1)
                                    /\ d.order = i - 1
      BY <2>2, <3>4, <3>5, FinalRowDoes
    <3>7. PICK d \in CategoryDoc : /\ category' = [category EXCEPT ![row.id] = d]
                                   /\ d.name = Label(row.name, 1) /\ d.slug = Label(row.name, 1)
                                   /\ d.order = i - 1
      BY Zenon, <3>6
    <3>8. /\ Categories' = Categories \cup {row.id}
          /\ category'[row.id] = d /\ \A c \in CategoryId \ {row.id} : category'[c] = category[c]
      BY Zenon, <3>4, <3>7, CategoriesAfter
    <3>9. req'[r].order = i + 1
      BY <3>6, ReachesMoves DEF Moves, Typed
    <3>10. FinalDoc(category'[list[i].id], list[i], i)
      BY Zenon, <1>1, <3>7, <3>8 DEF FinalDoc
    <3>11. ASSUME NEW k \in DOMAIN list, k # i
           PROVE  IF k < i THEN FinalDoc(category'[list[k].id], list[k], k) ELSE ParkedDocIs(category'[list[k].id], list[k])
      <4>1. list[k].id # row.id /\ list[k].id \in CategoryId
        BY <3>1, <3>3, <3>11, ListIs DEF Distinct
      <4>2. category'[list[k].id] = category[list[k].id]
        BY <3>8, <4>1
      <4> QED BY Zenon, <1>1, <3>3, <3>11, <4>2 DEF FinalDoc, ParkedDocIs
    <3>12. ASSUME NEW k \in DOMAIN list
           PROVE  IF k < i + 1 THEN FinalDoc(category'[list[k].id], list[k], k) ELSE ParkedDocIs(category'[list[k].id], list[k])
      <4>0. DOMAIN list = 1..Len(list) /\ Len(list) \in Nat
        BY Zenon, ListIs
      <4>1. k \in Nat /\ i \in Nat
        BY <3>6, <4>0
      <4>2. CASE k = i
        <5>1. k < i + 1
          BY <4>1, <4>2
        <5>2. FinalDoc(category'[list[k].id], list[k], k)
          BY Zenon, <3>10, <4>2
        <5> QED BY <5>1, <5>2
      <4>3. CASE k < i
        BY <3>11, <4>1, <4>3
      <4>4. CASE k > i
        <5>1. k # i /\ ~(k < i) /\ ~(k < i + 1)
          BY <4>1, <4>4
        <5> QED BY <3>11, <5>1
      <4> QED BY <4>1, <4>2, <4>3, <4>4
    <3> QED BY <3>3, <3>4, <3>8, <3>9, <3>12
  <2> QED BY <1>1, <2>1, <2>2 DEF Arrives
<1>8. req'[r].at = "done" => Categories' = Listed(r) /\ \A k \in DOMAIN list : FinalDoc(category'[list[k].id], list[k], k)
  <2> SUFFICES ASSUME req'[r].at = "done"
               PROVE  Categories' = Listed(r) /\ \A k \in DOMAIN list : FinalDoc(category'[list[k].id], list[k], k)
    OBVIOUS
  <2>1. EndReplace(r)
    BY <1>1 DEF Arrives
  <2>2. /\ req[r].at = "final" /\ req[r].order = Len(list) + 1 /\ category' = category
        /\ ~CheckReplace(r)
    BY <2>1 DEF EndReplace, Jobs, docs, CheckReplace
  <2>3. \A k \in DOMAIN list : FinalDoc(category[list[k].id], list[k], k)
    BY <1>3, <2>2, ListIs DEF ReplaceRight
  <2>4. ASSUME NEW k \in DOMAIN list PROVE FinalDoc(category'[list[k].id], list[k], k)
    BY <1>1, <2>2, <2>3 DEF FinalDoc
  <2> QED BY <1>3, <2>2, <2>4 DEF ReplaceRight, Categories
<1>9. req'[r].at # "failed"
  <2> SUFFICES ASSUME req'[r].at = "failed" PROVE FALSE
    OBVIOUS
  <2>1. FinalRow(r)
    BY <1>1 DEF Arrives, Fails, WriteRow, CreateCategoryDoc, CreateProductDoc, CreateReviewDoc,
                CreateOrderDoc, CreateSettings, Doing
  <2>2. req[r].at = "final" /\ ~CheckReplace(r) /\ req[r].order \in DOMAIN list
    BY Zenon, <2>1 DEF FinalRow, Jobs, CheckReplace
  <2>3. End(r, "failed")
    <3>1. ~Reaches(r, req[r].order + 1)
      <4>1. req[r].order + 1 \in Nat
        BY DEF Typed, Asked, Requests
      <4> QED BY <4>1, ReachesMoves DEF Moves, Typed
    <3> QED BY <2>1, <3>1, FinalRowDoes
  <2>4. LET row == list[req[r].order]
        IN  NameFree(Label(row.name, 1), row.id) /\ CategorySlugFree(Label(row.name, 1), row.id)
    BY <1>3, <2>2, FinalFree
  <2>5. ~Reaches(r, req[r].order + 1)
    <3>1. req[r].order + 1 \in Nat
      BY DEF Typed, Asked, Requests
    <3> QED BY <3>1, ReachesMoves DEF Moves, Typed
  <2> QED BY Zenon, <2>1, <2>4, <2>5, FinalRowDoes
<1>10. req'[r].at \in {"images", "purge", "park", "final"} => Distinct(list)
  BY <1>4, <1>5, <1>6, <1>7
<1> HIDE DEF list
<1>11. req'[r].job.list = list
  BY <1>1 DEF list
<1> QED BY <1>2, <1>4, <1>5, <1>6, <1>7, <1>8, <1>9, <1>10, <1>11 DEF ReplaceRight

LEMMA ReplaceNext ==
  ASSUME Typed, RowInv, ReplaceInv, [Next]_vars
  PROVE  ReplaceInv'
<1>1. CASE UNCHANGED vars
  <2>1. req' = req /\ category' = category /\ calm' = calm
    BY <1>1 DEF vars, catalogVars, docs, history
  <2>2. Categories' = Categories /\ \A x \in calm : Listed(x)' = Listed(x)
    BY <2>1 DEF Categories, Listed
  <2> QED BY <2>1, <2>2 DEF ReplaceInv, ReplaceRight
<1>2. ASSUME NEW r \in Request, Step(r) PROVE ReplaceInv'
  <2>1. ASSUME NEW x \in calm', req'[x].job.kind = "replaceCategories" PROVE ReplaceRight(x)'
    <3>1. x \in Request
      BY <1>2, NextTyped DEF Next, Step, Typed, CatalogTypeOK
    <3> QED BY <1>2, <2>1, <3>1, ReplaceOthers, ReplaceOwn
  <2> QED BY <2>1 DEF ReplaceInv
<1> QED BY <1>1, <1>2 DEF Next, Step

(* A replaceCategories that met no other write of the catalogue never      *)
(* fails half-way and ends with exactly its list, in its order, whatever   *)
(* names its rows swap.                                                    *)
THEOREM ReplacementsTakeEffect == Spec => []ReplaceTakesEffect
<1>1. Init => RowInv /\ ReplaceInv
  BY RowInit, ReplaceInit
<1>2. Typed /\ RowInv /\ ReplaceInv /\ [Next]_vars => RowInv' /\ ReplaceInv'
  BY RowNext, ReplaceNext
<1> QED BY <1>1, <1>2, ReplaceIs, AlwaysTyped, PTL DEF Spec

-----------------------------------------------------------------------------
(***************************************************************************)
(* An import leaves everything it planned.  What makes it inductive: what  *)
(* is not in place is still to do, nothing foreign stands in the way of    *)
(* the rest, and the document to create is not there.                      *)
(***************************************************************************)
(* The document `id' of that kind is in the files. *)
Promised(files, kind, id) ==
  \/ kind = "category" /\ \E i \in DOMAIN files.categories : id = files.categories[i].id
  \/ kind = "product" /\ \E i \in DOMAIN files.products : id = files.products[i].id
  \/ kind = "review" /\ \E i \in DOMAIN files.reviews : id = files.reviews[i].id
  \/ kind = "order" /\ \E i \in DOMAIN files.orders : id = files.orders[i].id
  \/ kind = "settings" /\ id = None

InPlace(kind, id) ==
  /\ kind = "category" => id \in Categories
  /\ kind = "product" => id \in Products
  /\ kind = "review" => id \in Reviews
  /\ kind = "order" => id \in Orders
  /\ kind = "settings" => banner # None

Left(x, kind, id) == \E t \in ToSet(req[x].todo) : t.kind = kind /\ t.id = id

KeepsPromise(x) ==
  \A kind \in Document, id \in Ids_ : Promised(Export[x], kind, id) => InPlace(kind, id) \/ Left(x, kind, id)

(* No image still to upload has a row. *)
Pending(x) == \A t \in ToSet(req[x].todo) : t.kind = "image" => t.id \notin media

ImportRight(x) ==
  /\ req[x].at \in Importing => Unopposed(Export[x]) /\ Pending(x) /\ KeepsPromise(x)
  /\ req[x].at = "create" => req[x].todo # <<>> /\ ~Exists(Task(x))
  /\ req[x].at = "done" => KeepsPromise(x) /\ req[x].todo = <<>>
  /\ req[x].at # "failed"

ImportInv == \A x \in calm : req[x].job.kind = "import" => ImportRight(x)

LEMMA ImportInit == Init => ImportInv
<1> SUFFICES ASSUME Init PROVE ImportInv
  OBVIOUS
<1>1. calm = Request /\ \A x \in Request : req[x].at = "start"
  BY DEF Init, CatalogInit, Begin
<1> QED BY <1>1 DEF ImportInv, ImportRight, Importing

LEMMA NothingLeft ==
  ASSUME NEW x \in Request, req[x].todo = <<>>, KeepsPromise(x), NEW kind \in Document, NEW id \in Ids_,
         Promised(Export[x], kind, id)
  PROVE  InPlace(kind, id)
<1>1. ToSet(req[x].todo) = {}
  BY DEF ToSet
<1> QED BY <1>1 DEF KeepsPromise, Left

LEMMA ImportIs == Typed /\ ImportInv => ImportComplete
<1> SUFFICES ASSUME Typed, ImportInv, NEW x \in calm, req[x].job.kind = "import"
             PROVE  /\ req[x].at # "failed"
                    /\ req[x].at = "done" =>
                         /\ ToSet(Ids(Export[x].categories)) \subseteq Categories
                         /\ ToSet(Ids(Export[x].products)) \subseteq Products
                         /\ ToSet(Ids(Export[x].reviews)) \subseteq Reviews
                         /\ ToSet(Ids(Export[x].orders)) \subseteq Orders
                         /\ banner # None
  BY DEF ImportComplete
<1>1. x \in Request /\ ImportRight(x)
  BY DEF Typed, CatalogTypeOK, ImportInv
<1>2. ASSUME req[x].at = "done", NEW kind \in Document, NEW id \in Ids_, Promised(Export[x], kind, id)
      PROVE  InPlace(kind, id)
  BY <1>1, <1>2, NothingLeft DEF ImportRight
<1>3. ASSUME req[x].at = "done" PROVE ToSet(Ids(Export[x].categories)) \subseteq Categories
  <2> SUFFICES ASSUME NEW i \in DOMAIN Export[x].categories PROVE Export[x].categories[i].id \in Categories
    BY DEF ToSet, Ids
  <2>1. Export[x].categories[i].id \in Ids_
    BY <1>1, FilesAre DEF Row, Ids_
  <2> QED BY <1>2, <1>3, <2>1 DEF Document, Promised, InPlace
<1>4. ASSUME req[x].at = "done" PROVE ToSet(Ids(Export[x].products)) \subseteq Products
  <2> SUFFICES ASSUME NEW i \in DOMAIN Export[x].products PROVE Export[x].products[i].id \in Products
    BY DEF ToSet, Ids
  <2>1. Export[x].products[i].id \in Ids_
    BY <1>1, FilesAre DEF Row, Ids_
  <2> QED BY <1>2, <1>4, <2>1 DEF Document, Promised, InPlace
<1>5. ASSUME req[x].at = "done" PROVE ToSet(Ids(Export[x].reviews)) \subseteq Reviews
  <2> SUFFICES ASSUME NEW i \in DOMAIN Export[x].reviews PROVE Export[x].reviews[i].id \in Reviews
    BY DEF ToSet, Ids
  <2>1. Export[x].reviews[i].id \in Ids_
    BY <1>1, FilesAre DEF ReviewRow, Ids_
  <2> QED BY <1>2, <1>5, <2>1 DEF Document, Promised, InPlace
<1>6. ASSUME req[x].at = "done" PROVE ToSet(Ids(Export[x].orders)) \subseteq Orders
  <2> SUFFICES ASSUME NEW i \in DOMAIN Export[x].orders PROVE Export[x].orders[i].id \in Orders
    BY DEF ToSet, Ids
  <2>1. Export[x].orders[i].id \in Ids_
    BY <1>1, FilesAre DEF OrderRow, Ids_
  <2> QED BY <1>2, <1>6, <2>1 DEF Document, Promised, InPlace
<1>7. ASSUME req[x].at = "done" PROVE banner # None
  <2>1. None \in Ids_
    BY DEF Ids_
  <2> QED BY <1>2, <1>7, <2>1 DEF Document, Promised, InPlace
<1> QED BY <1>1, <1>3, <1>4, <1>5, <1>6, <1>7 DEF ImportRight

(* The names and TrxIDs of r's files stay free when only its own rows are written. *)
LEMMA UnopposedAfter ==
  ASSUME NEW r \in Request, Unopposed(Export[r]), ~Problems(Export[r]),
         \A c \in Categories' :
           \/ c \in Categories /\ category'[c].name = category[c].name /\ category'[c].slug = category[c].slug
           \/ \E i \in DOMAIN Export[r].categories :
                /\ c = Export[r].categories[i].id
                /\ category'[c].name = Label(Export[r].categories[i].name, 1)
                /\ category'[c].slug = SlugFor(Export[r].categories, i),
         \A p \in Products' :
           \/ p \in Products /\ product'[p].slug = product[p].slug
           \/ \E i \in DOMAIN Export[r].products :
                p = Export[r].products[i].id /\ product'[p].slug = SlugFor(Export[r].products, i),
         \A o \in Orders' :
           \/ o \in Orders /\ orders'[o].trx = orders[o].trx
           \/ \E i \in DOMAIN Export[r].orders :
                o = Export[r].orders[i].id /\ orders'[o].trx = Export[r].orders[i].trx
  PROVE  Unopposed(Export[r])'
<1> DEFINE f == Export[r]
<1>1. ASSUME NEW k \in DOMAIN f.categories, NEW d \in Categories', d # f.categories[k].id
      PROVE  category'[d].name # Label(f.categories[k].name, 1) /\ category'[d].slug # SlugFor(f.categories, k)
  <2>1. CASE d \in Categories /\ category'[d].name = category[d].name /\ category'[d].slug = category[d].slug
    BY <1>1, <2>1 DEF Unopposed, NameFree, CategorySlugFree
  <2>2. ASSUME NEW i \in DOMAIN f.categories, d = f.categories[i].id,
               category'[d].name = Label(f.categories[i].name, 1),
               category'[d].slug = SlugFor(f.categories, i)
        PROVE  category'[d].name # Label(f.categories[k].name, 1) /\ category'[d].slug # SlugFor(f.categories, k)
    <3>1. i # k
      BY <1>1, <2>2
    <3>2. f.categories[i].name # f.categories[k].name
      BY <3>1 DEF Problems
    <3>3. SlugFor(f.categories, i) # SlugFor(f.categories, k)
      BY <3>1, FilesAre, SlugForIs
    <3> QED BY <2>2, <3>2, <3>3 DEF Label
  <2> QED BY <2>1, <2>2
<1>2. ASSUME NEW k \in DOMAIN f.products, NEW q \in Products', q # f.products[k].id
      PROVE  product'[q].slug # SlugFor(f.products, k)
  <2>1. CASE q \in Products /\ product'[q].slug = product[q].slug
    BY <1>2, <2>1 DEF Unopposed, ProductSlugFree
  <2>2. ASSUME NEW i \in DOMAIN f.products, q = f.products[i].id, product'[q].slug = SlugFor(f.products, i)
        PROVE  product'[q].slug # SlugFor(f.products, k)
    <3>1. i # k
      BY <1>2, <2>2
    <3> QED BY <2>2, <3>1, FilesAre, SlugForIs
  <2> QED BY <2>1, <2>2
<1>3. ASSUME NEW k \in DOMAIN f.orders, f.orders[k].trx # None, NEW o \in Orders', o # f.orders[k].id
      PROVE  orders'[o].trx # f.orders[k].trx
  <2>1. CASE o \in Orders /\ orders'[o].trx = orders[o].trx
    BY <1>3, <2>1 DEF Unopposed, TrxFree
  <2>2. ASSUME NEW i \in DOMAIN f.orders, o = f.orders[i].id, orders'[o].trx = f.orders[i].trx
        PROVE  orders'[o].trx # f.orders[k].trx
    <3>1. i # k
      BY <1>3, <2>2
    <3> QED BY <1>3, <2>2, <3>1 DEF Problems
  <2> QED BY <2>1, <2>2
<1> QED BY <1>1, <1>2, <1>3 DEF Unopposed, NameFree, CategorySlugFree, ProductSlugFree, TrxFree

(* The images of an export are no browser's. *)
LEMMA ImportedIds ==
  ASSUME Worked, NEW r \in Request, NEW x \in Request, req[r].job.kind \in {"upload", "reregister"},
         req[x].job.kind = "import"
  PROVE  req[r].job.id \notin Images(Export[x])
BY ExportConstants DEF Worked
(* What an import writes *)
LEMMA ImportWrites ==
  ASSUME NEW r \in Request, Step(r), req[r].job.kind = "import"
  PROVE  /\ category' # category => DeleteDoc(r) \/ CreateCategoryDoc(r)
         /\ product' # product => DeleteDoc(r) \/ CreateProductDoc(r)
         /\ review' # review => DeleteDoc(r) \/ CreateReviewDoc(r)
         /\ banner' # banner => DeleteDoc(r) \/ CreateSettings(r)
         /\ media' # media => WriteRow(r)
<1>1. Writes(r)
  BY Writers
<1>2. /\ ~WriteCategory(r) /\ ~RemoveCategory(r) /\ ~Renumber(r) /\ ~Purge(r) /\ ~Park(r) /\ ~FinalRow(r)
  BY DEF WriteCategory, RemoveCategory, Renumber, Purge, Park, FinalRow, Jobs
<1>3. /\ ~WriteProduct(r) /\ ~Archive(r) /\ ~InsertReview(r) /\ ~DeleteReview(r)
      /\ ~SetBanner(r) /\ ~RegisterMedia(r) /\ ~DeleteRow(r)
  BY DEF WriteProduct, Archive, InsertReview, DeleteReview, SetBanner, RegisterMedia, DeleteRow, Jobs
<1> QED BY <1>1, <1>2, <1>3
     DEF Writes, CategoryWriter, ProductWriter, ReviewWriter, BannerWriter, MediaWriter

Only(kind, t) == IF t.kind = kind THEN {t.id} ELSE {}

LEMMA DeletedIs ==
  ASSUME Typed, OrdersTyped, NEW r \in Request, DeleteDoc(r)
  PROVE  LET t == Task(r)
         IN  /\ Categories' = Categories \ Only("category", t)
             /\ \A c \in Categories' : category'[c] = category[c]
             /\ Products' = Products \ Only("product", t)
             /\ \A p \in Products' : product'[p] = product[p]
             /\ Reviews' = Reviews \ Only("review", t)
             /\ Orders' = Orders \ Only("order", t)
             /\ \A o \in Orders' : orders'[o] = orders[o]
             /\ t.kind = "settings" => banner' = None
             /\ t.kind # "settings" => banner' = banner
<1> DEFINE t == Task(r)
<1>1. /\ category \in [CategoryId -> CategoryDoc \cup {None}]
      /\ product \in [ProductId -> ProductDoc \cup {None}]
      /\ review \in [ReviewId -> ReviewDoc \cup {None}]
      /\ orders \in [OrderId -> OrderDoc \cup {None}]
  BY DEF Typed, CatalogTypeOK, OrdersTyped
<1>2. CASE t.kind = "category"
  <2>1. t.id \in CategoryId /\ category' = [category EXCEPT ![t.id] = None] /\ UNCHANGED <<product, review, orders, banner>>
    BY <1>2, DeleteDocDoes
  <2> QED BY <1>1, <1>2, <2>1 DEF Only, Categories, Products, Reviews, Orders
<1>3. CASE t.kind = "product"
  <2>1. t.id \in ProductId /\ product' = [product EXCEPT ![t.id] = None] /\ UNCHANGED <<category, review, orders, banner>>
    BY <1>3, DeleteDocDoes
  <2> QED BY <1>1, <1>3, <2>1 DEF Only, Categories, Products, Reviews, Orders
<1>4. CASE t.kind = "review"
  <2>1. t.id \in ReviewId /\ review' = [review EXCEPT ![t.id] = None] /\ UNCHANGED <<category, product, orders, banner>>
    BY <1>4, DeleteDocDoes
  <2> QED BY <1>1, <1>4, <2>1 DEF Only, Categories, Products, Reviews, Orders
<1>5. CASE t.kind = "settings"
  <2>1. banner' = None /\ UNCHANGED <<category, product, review, orders>>
    BY <1>5, DeleteDocDoes
  <2> QED BY <1>1, <1>5, <2>1 DEF Only, Categories, Products, Reviews, Orders
<1>6. CASE t.kind = "order"
  <2>1. /\ t.id \in OrderId /\ orders' = [orders EXCEPT ![t.id] = None]
        /\ UNCHANGED <<category, product, review, banner>>
    BY <1>6, DeleteDocDoes
  <2> QED BY <1>1, <1>6, <2>1 DEF Only, Categories, Products, Reviews, Orders
<1> QED BY <1>2, <1>3, <1>4, <1>5, <1>6, DeleteDocDoes

(* A document that was created, and what was there before *)
LEMMA CreatedIs ==
  ASSUME Typed, OrdersTyped, NEW r \in Request,
         CreateCategoryDoc(r) \/ CreateProductDoc(r) \/ CreateReviewDoc(r) \/ CreateOrderDoc(r)
  PROVE  LET t == Task(r)
         IN  /\ Categories \subseteq Categories' /\ Products \subseteq Products' /\ Reviews \subseteq Reviews'
             /\ CreateOrderDoc(r) => Orders \subseteq Orders'
             /\ \/ End(r, "failed")
                \/ t.kind = "category" /\ t.id \in Categories'
                \/ t.kind = "product" /\ t.id \in Products'
                \/ t.kind = "review" /\ t.id \in Reviews'
                \/ t.kind = "order" /\ t.id \in Orders'
<1> DEFINE t == Task(r)
<1>0. CreateOrderDoc(r) => t.kind = "order"
  BY DEF CreateOrderDoc, Doing
<1>1. CASE CreateCategoryDoc(r)
  <2> DEFINE d == PlannedCategory(r, t.row)
  <2>1. /\ Doing(r, {"category"}, "create") /\ t.id \in CategoryId /\ d \in CategoryDoc
        /\ UNCHANGED <<product, review>>
        /\ \/ End(r, "failed") /\ UNCHANGED category
           \/ category' = [category EXCEPT ![t.id] = d]
    BY <1>1, CreateCategoryDoes
  <2> HIDE DEF d
  <2>2. t.kind = "category" /\ Products' = Products /\ Reviews' = Reviews
    BY <2>1 DEF Doing, Products, Reviews
  <2>3. CASE UNCHANGED category /\ End(r, "failed")
    BY <1>0, <2>2, <2>3 DEF Categories
  <2>4. CASE category' = [category EXCEPT ![t.id] = d]
    <3>1. Categories' = Categories \cup {t.id}
      BY <2>1, <2>4, CategoriesAfter
    <3> QED BY <1>0, <2>2, <3>1
  <2> QED BY <2>1, <2>3, <2>4
<1>2. CASE CreateProductDoc(r)
  <2> DEFINE d == PlannedProduct(r, t.row)
  <2>1. /\ Doing(r, {"product"}, "create") /\ t.id \in ProductId /\ d \in ProductDoc
        /\ UNCHANGED <<category, review>>
        /\ \/ End(r, "failed") /\ UNCHANGED product
           \/ product' = [product EXCEPT ![t.id] = d]
    BY <1>2, CreateProductDoes
  <2> HIDE DEF d
  <2>2. t.kind = "product" /\ Categories' = Categories /\ Reviews' = Reviews
    BY <2>1 DEF Doing, Categories, Reviews
  <2>3. CASE UNCHANGED product /\ End(r, "failed")
    BY <1>0, <2>2, <2>3 DEF Products
  <2>4. CASE product' = [product EXCEPT ![t.id] = d]
    <3>1. Products' = Products \cup {t.id}
      BY <2>1, <2>4, ProductsAfter
    <3> QED BY <1>0, <2>2, <3>1
  <2> QED BY <2>1, <2>3, <2>4
<1>3. CASE CreateReviewDoc(r)
  <2> DEFINE d == PlannedReview(r, t.row)
  <2>1. /\ Doing(r, {"review"}, "create") /\ t.id \in ReviewId /\ d \in ReviewDoc
        /\ UNCHANGED <<category, product>>
        /\ \/ End(r, "failed") /\ UNCHANGED review
           \/ review' = [review EXCEPT ![t.id] = d]
    BY Zenon, <1>3, CreateReviewDoes
  <2> HIDE DEF d
  <2>2. t.kind = "review" /\ Categories' = Categories /\ Products' = Products
    BY <2>1 DEF Doing, Categories, Products
  <2>3. CASE UNCHANGED review /\ End(r, "failed")
    BY <1>0, <2>2, <2>3 DEF Reviews
  <2>4. CASE review' = [review EXCEPT ![t.id] = d]
    <3>1. t.id \in Reviews' /\ Reviews \subseteq Reviews'
      BY <2>1, <2>4, CatalogConstants DEF Reviews, Typed, CatalogTypeOK
    <3> QED BY <1>0, <2>2, <3>1
  <2> QED BY <2>1, <2>3, <2>4
<1>4. CASE CreateOrderDoc(r)
  <2> DEFINE d == PlannedOrder(r, t.row)
  <2>1. /\ Doing(r, {"order"}, "create") /\ t.id \in OrderId /\ d \in OrderDoc
        /\ UNCHANGED <<category, product, review>>
        /\ \/ End(r, "failed") /\ UNCHANGED orders
           \/ orders' = [orders EXCEPT ![t.id] = d]
    BY Zenon, <1>4, CreateOrderDoes
  <2> HIDE DEF d
  <2>2. t.kind = "order" /\ Categories' = Categories /\ Products' = Products /\ Reviews' = Reviews
    BY <2>1 DEF Doing, Categories, Products, Reviews
  <2>3. CASE UNCHANGED orders /\ End(r, "failed")
    BY <2>2, <2>3 DEF Orders
  <2>4. CASE orders' = [orders EXCEPT ![t.id] = d]
    <3>1. t.id \in Orders' /\ Orders \subseteq Orders'
      BY <2>1, <2>4, ExportConstants DEF Orders, OrdersTyped
    <3> QED BY <1>0, <2>2, <3>1
  <2> QED BY <2>1, <2>3, <2>4
<1> QED BY <1>1, <1>2, <1>3, <1>4

(* The names of an import stay free while it writes its own documents. *)
LEMMA OwnUnopposed ==
  ASSUME Typed, OrdersTyped, NEW r \in Request, Step(r), OwnOrders(r), req[r].job.kind = "import", req[r].at \in Importing,
         Unopposed(Export[r])
  PROVE  Unopposed(Export[r])'
<1> DEFINE f == Export[r]
<1>1. ~Problems(f)
  BY DEF Typed, Asked, Placed
<1>2. \A c \in Categories' :
        \/ c \in Categories /\ category'[c].name = category[c].name /\ category'[c].slug = category[c].slug
        \/ \E i \in DOMAIN f.categories :
             /\ c = f.categories[i].id
             /\ category'[c].name = Label(f.categories[i].name, 1)
             /\ category'[c].slug = SlugFor(f.categories, i)
  <2>1. CASE category' = category
    BY <2>1 DEF Categories
  <2>2. CASE DeleteDoc(r)
    BY <2>2, DeletedIs
  <2>3. CASE CreateCategoryDoc(r) /\ category' # category
    <3> DEFINE i == Task(r).row
               c == Task(r).id
               d == PlannedCategory(r, i)
    <3>1. /\ c \in CategoryId /\ d \in CategoryDoc /\ i \in DOMAIN f.categories /\ c = f.categories[i].id
          /\ d.name = Label(f.categories[i].name, 1) /\ d.slug = SlugFor(f.categories, i)
          /\ category' = [category EXCEPT ![c] = d]
      BY <2>3, CreateCategoryDoes
    <3> HIDE DEF d
    <3>2. /\ Categories' = Categories \cup {c}
          /\ category'[c] = d /\ \A k \in CategoryId \ {c} : category'[k] = category[k]
      BY Zenon, <3>1, CategoriesAfter
    <3> QED BY Zenon, <3>1, <3>2 DEF Categories
  <2> QED BY <2>1, <2>2, <2>3, ImportWrites
<1>3. \A p \in Products' :
        \/ p \in Products /\ product'[p].slug = product[p].slug
        \/ \E i \in DOMAIN f.products :
             p = f.products[i].id /\ product'[p].slug = SlugFor(f.products, i)
  <2>1. CASE product' = product
    BY <2>1 DEF Products
  <2>2. CASE DeleteDoc(r)
    BY <2>2, DeletedIs
  <2>3. CASE CreateProductDoc(r) /\ product' # product
    <3> DEFINE i == Task(r).row
               p == Task(r).id
               d == PlannedProduct(r, i)
    <3>1. /\ p \in ProductId /\ d \in ProductDoc /\ i \in DOMAIN f.products /\ p = f.products[i].id
          /\ d.slug = SlugFor(f.products, i)
          /\ product' = [product EXCEPT ![p] = d]
      BY <2>3, CreateProductDoes
    <3> HIDE DEF d
    <3>2. /\ Products' = Products \cup {p}
          /\ product'[p] = d /\ \A k \in ProductId \ {p} : product'[k] = product[k]
      BY <3>1, ProductsAfter
    <3> QED BY <3>1, <3>2 DEF Products
  <2> QED BY <2>1, <2>2, <2>3, ImportWrites
<1>4. \A o \in Orders' :
        \/ o \in Orders /\ orders'[o].trx = orders[o].trx
        \/ \E i \in DOMAIN f.orders : o = f.orders[i].id /\ orders'[o].trx = f.orders[i].trx
  <2>1. CASE orders' = orders
    BY <2>1 DEF Orders
  <2>2. CASE DeleteDoc(r)
    BY <2>2, DeletedIs
  <2>3. CASE CreateOrderDoc(r) /\ orders' # orders
    <3> DEFINE i == Task(r).row
               o == Task(r).id
               d == PlannedOrder(r, i)
    <3>1. /\ o \in OrderId /\ d \in OrderDoc /\ i \in DOMAIN f.orders /\ o = f.orders[i].id
          /\ d.trx = f.orders[i].trx
          /\ orders' = [orders EXCEPT ![o] = d]
      BY Zenon, <2>3, CreateOrderDoes
    <3> HIDE DEF d
    <3>2. orders'[o] = d /\ \A k \in OrderId \ {o} : orders'[k] = orders[k]
      BY <3>1 DEF OrdersTyped
    <3> QED BY <3>1, <3>2 DEF Orders
  <2> QED BY <2>1, <2>2, <2>3 DEF OwnOrders
<1> QED BY <1>1, <1>2, <1>3, <1>4, UnopposedAfter

(* A task goes when it is done. *)
LEMMA TodoGoesOn ==
  ASSUME Typed, NEW r \in Request, Step(r), req[r].job.kind = "import", ~StartImport(r)
  PROVE  \/ req'[r].todo = req[r].todo /\ ~Proceeds(r)
         \/ /\ Proceeds(r) /\ req[r].at \in Importing
            /\ req[r].todo \in Seq(TaskOf) /\ req[r].todo # <<>>
            /\ req'[r].todo = Tail(req[r].todo) /\ req'[r].at \in {"upload", "exists"}
            /\ ToSet(req[r].todo) = {Task(r)} \cup ToSet(req'[r].todo)
<1>1. CASE Proceeds(r)
  <2>1. Doing(r, Kinds, req[r].at) /\ req[r].at \in Importing
    BY <1>1, ProceedsDoing
  <2>2. /\ req'[r].todo = Tail(req[r].todo) /\ req[r].todo \in Seq(TaskOf) /\ req[r].todo # <<>>
        /\ req'[r].at \in {"upload", "exists"}
    BY <1>1, <2>1, ProceedMoves, DoingIs DEF Moves, Proceeds, Typed
  <2> QED BY <1>1, <2>1, <2>2, TailIs DEF Task
<1>2. CASE ~Proceeds(r)
  BY <1>2, Goers DEF Goes
<1> QED BY <1>1, <1>2

LEMMA EndsAt ==
  ASSUME Typed, NEW r \in Request, NEW how \in Stages, End(r, how)
  PROVE  req'[r].at = how
BY EndMoves DEF Moves, Typed

LEMMA OwnPending ==
  ASSUME Typed, NEW r \in Request, Step(r), req[r].job.kind = "import", req[r].at \in Importing,
         ~StartImport(r), Pending(r)
  PROVE  Pending(r)'
<1>1. ToSet(req'[r].todo) \subseteq ToSet(req[r].todo)
  BY TodoGoesOn
<1>2. CASE media' = media
  BY <1>1, <1>2 DEF Pending
<1>3. CASE media' # media
  <2> DEFINE todo == req[r].todo
  <2>1. WriteRow(r)
    BY <1>3, ImportWrites
  <2>2. media' = media \cup {Task(r).id} /\ Proceed(r) /\ Task(r).kind = "image" /\ Proceeds(r)
    BY <1>3, <2>1 DEF WriteRow, Doing, Proceeds
  <2>3. /\ todo \in Seq(TaskOf) /\ todo # <<>> /\ req'[r].todo = Tail(todo)
    BY <2>2, TodoGoesOn
  <2>4. Orderly(todo)
    BY DEF Typed, Asked, Placed, Planned
  <2>5. /\ todo[1] = Task(r) /\ 1 \in DOMAIN todo /\ DOMAIN Tail(todo) = 1..(Len(todo) - 1)
        /\ \A i \in DOMAIN Tail(todo) : i + 1 \in DOMAIN todo /\ Tail(todo)[i] = todo[i + 1]
    BY <2>3, TailIs DEF Task
  <2>6. ASSUME NEW i \in DOMAIN Tail(todo), Tail(todo)[i].kind = "image"
        PROVE  Tail(todo)[i].id \notin media'
    <3>1. i + 1 \in DOMAIN todo /\ Tail(todo)[i] = todo[i + 1] /\ 1 < i + 1
      BY <2>5
    <3>2. todo[i + 1].id # todo[1].id
      BY <2>2, <2>4, <2>5, <2>6, <3>1 DEF Orderly
    <3>3. todo[i + 1].id \notin media
      BY <2>6, <3>1 DEF Pending, ToSet
    <3> QED BY <2>2, <2>5, <3>1, <3>2, <3>3
  <2> QED BY <2>3, <2>6 DEF Pending, ToSet
<1> QED BY <1>2, <1>3

LEMMA OwnKeeps ==
  ASSUME Typed, OrdersTyped, NEW r \in Request, Step(r), OwnOrders(r), req[r].job.kind = "import", req[r].at \in Importing,
         ~StartImport(r), KeepsPromise(r)
  PROVE  KeepsPromise(r)'
<1> DEFINE t == Task(r)
<1> SUFFICES ASSUME NEW kind \in Document, NEW id \in Ids_, Promised(Export[r], kind, id)
             PROVE  InPlace(kind, id)' \/ Left(r, kind, id)'
  BY DEF KeepsPromise
<1>1. InPlace(kind, id) \/ Left(r, kind, id)
  BY DEF KeepsPromise
<1>2. CASE DeleteDoc(r)
  <2>1. Doing(r, Document, "delete") /\ t \in ToSet(req[r].todo) /\ RowTask(t, Export[r])
    BY <1>2, DoingIs DEF DeleteDoc, Typed, Importing
  <2>2. req'[r].todo = req[r].todo
    <3>1. ~Proceeds(r)
      BY <2>1 DEF Doing, Proceeds, WriteRow, LookUp, CreateCategoryDoc, CreateProductDoc,
                  CreateReviewDoc, CreateOrderDoc, CreateSettings
    <3> QED BY <3>1, TodoGoesOn
  <2>3. CASE Left(r, kind, id)
    BY <2>2, <2>3 DEF Left
  <2>4. CASE InPlace(kind, id) /\ t.kind = kind /\ t.id = id
    BY <2>1, <2>2, <2>4 DEF Left
  <2>5. CASE InPlace(kind, id) /\ ~(t.kind = kind /\ t.id = id)
    <3>1. t.kind = "settings" => t.id = None
      BY <2>1 DEF RowTask
    <3>2. kind = "settings" => id = None
      BY DEF Promised
    <3>3. kind = "settings" => banner' # None
      BY <1>2, <2>5, <3>1, <3>2, DeletedIs DEF InPlace
    <3>4. /\ kind = "category" => id \in Categories'
          /\ kind = "product" => id \in Products'
          /\ kind = "review" => id \in Reviews'
          /\ kind = "order" => id \in Orders'
      BY <1>2, <2>5, DeletedIs DEF InPlace, Only
    <3> QED BY <3>3, <3>4 DEF InPlace
  <2> QED BY <1>1, <2>3, <2>4, <2>5
<1>3. CASE ~DeleteDoc(r)
  <2>0. CreateSettings(r) => banner' = banner \/ banner' # None
    <3>1. Export[r].banner # None
      BY FilesAre, CatalogConstants
    <3> QED BY <3>1 DEF CreateSettings
  <2>1. /\ Categories \subseteq Categories' /\ Products \subseteq Products' /\ Reviews \subseteq Reviews'
        /\ Orders \subseteq Orders' /\ (banner # None => banner' # None)
    <3>1. category' = category => Categories' = Categories
      BY DEF Categories
    <3>2. product' = product => Products' = Products
      BY DEF Products
    <3>3. review' = review => Reviews' = Reviews
      BY DEF Reviews
    <3>4. orders' = orders => Orders' = Orders
      BY DEF Orders
    <3>5. Orders \subseteq Orders'
      BY <1>3, <3>4, CreatedIs DEF OwnOrders
    <3> QED BY <1>3, <2>0, <3>1, <3>2, <3>3, <3>5, ImportWrites, CreatedIs
  <2>2. CASE InPlace(kind, id)
    BY <2>1, <2>2 DEF InPlace
  <2>3. CASE Left(r, kind, id) /\ req'[r].todo = req[r].todo
    BY <2>3 DEF Left
  <2>4. CASE Left(r, kind, id) /\ req'[r].todo # req[r].todo
    <3>1. /\ Proceeds(r) /\ req'[r].at \in {"upload", "exists"}
          /\ ToSet(req[r].todo) = {t} \cup ToSet(req'[r].todo)
      BY <2>4, TodoGoesOn
    <3>2. CASE \E x \in ToSet(req'[r].todo) : x.kind = kind /\ x.id = id
      BY <3>2 DEF Left
    <3>3. CASE t.kind = kind /\ t.id = id
      <4>1. ~End(r, "failed") /\ ~End(r, "create") /\ ~End(r, "delete")
        BY <3>1, StageNames, EndsAt
      <4>2. CASE LookUp(r)
        <5>1. Exists(t)
          BY <4>1, <4>2 DEF LookUp
        <5>2. InPlace(kind, id)
          BY <3>3, <5>1 DEF Exists, InPlace, Document
        <5> QED BY <2>1, <5>2 DEF InPlace
      <4>3. CASE CreateCategoryDoc(r) \/ CreateProductDoc(r) \/ CreateReviewDoc(r) \/ CreateOrderDoc(r)
        <5>1. \/ kind = "category" /\ id \in Categories'
              \/ kind = "product" /\ id \in Products'
              \/ kind = "review" /\ id \in Reviews'
              \/ kind = "order" /\ id \in Orders'
          BY <3>3, <4>1, <4>3, CreatedIs
        <5> QED BY <5>1 DEF InPlace
      <4>4. CASE CreateSettings(r)
        <5>1. Task(r).kind = "settings" /\ banner' = Export[r].banner
          BY <4>1, <4>4 DEF CreateSettings, Doing
        <5>2. banner' # None
          BY <5>1, FilesAre, CatalogConstants
        <5> QED BY <3>3, <5>1, <5>2 DEF InPlace
      <4>5. ~WriteRow(r)
        BY <3>3 DEF WriteRow, Doing, Document
      <4> QED BY <3>1, <4>2, <4>3, <4>4, <4>5 DEF Proceeds
    <3> QED BY <2>4, <3>1, <3>2, <3>3 DEF Left
  <2> QED BY <1>1, <2>2, <2>3, <2>4
<1> QED BY <1>2, <1>3
(* What is to be created is not there. *)
LEMMA OwnCreate ==
  ASSUME Typed, OrdersTyped, NEW r \in Request, Step(r), req[r].job.kind = "import", req'[r].at = "create"
  PROVE  req'[r].todo # <<>> /\ ~Exists(Task(r))'
<1> DEFINE t == Task(r)
<1>1. LookUp(r) \/ DeleteDoc(r)
  BY Goers DEF Goes, Arrives
<1>2. ~Proceeds(r) /\ ~StartImport(r)
  <2>1. req[r].at \in {"exists", "delete"}
    BY <1>1 DEF LookUp, DeleteDoc, Doing
  <2>2. ~StartImport(r)
    BY <2>1 DEF StartImport, Jobs
  <2> QED BY <2>2, TodoGoesOn
<1>3. req'[r].todo = req[r].todo
  BY <1>2, TodoGoesOn
<1>4. CASE LookUp(r)
  <2>1. ~End(r, "delete") /\ ~Proceed(r)
    BY <1>2, <1>4, StageNames, EndsAt DEF Proceeds
  <2>2. ~Exists(t) /\ UNCHANGED docs
    BY <1>4, <2>1 DEF LookUp
  <2>3. Categories' = Categories /\ Products' = Products /\ Reviews' = Reviews /\ banner' = banner
        /\ Orders' = Orders
    BY <1>4, <2>2 DEF LookUp, docs, Categories, Products, Reviews, Orders
  <2>4. Task(r)' = t
    BY <1>3 DEF Task
  <2> HIDE DEF t
  <2>5. ~Exists(Task(r))'
    BY <2>2, <2>3, <2>4 DEF Exists
  <2>6. req[r].todo # <<>>
    BY <1>4 DEF LookUp, Doing
  <2> QED BY <1>3, <2>5, <2>6
<1>5. CASE DeleteDoc(r)
  <2>1. t.kind \in Document
    BY <1>5 DEF DeleteDoc, Doing
  <2>2. /\ Categories' = Categories \ Only("category", t)
        /\ Products' = Products \ Only("product", t)
        /\ Reviews' = Reviews \ Only("review", t)
        /\ Orders' = Orders \ Only("order", t)
        /\ t.kind = "settings" => banner' = None
    BY <1>5, DeletedIs
  <2>3. /\ t.kind = "category" => t.id \notin Categories'
        /\ t.kind = "product" => t.id \notin Products'
        /\ t.kind = "review" => t.id \notin Reviews'
        /\ t.kind = "order" => t.id \notin Orders'
    BY <2>2 DEF Only
  <2>4. Task(r)' = t
    BY <1>3 DEF Task
  <2> HIDE DEF t
  <2>0. req'[r].todo # <<>>
    BY <1>3, <1>5 DEF DeleteDoc, Doing
  <2>5. CASE t.kind = "category" BY <2>0, <2>3, <2>4, <2>5 DEF Exists
  <2>6. CASE t.kind = "product" BY <2>0, <2>3, <2>4, <2>6 DEF Exists
  <2>7. CASE t.kind = "review" BY <2>0, <2>3, <2>4, <2>7 DEF Exists
  <2>8. CASE t.kind = "settings" BY <2>0, <2>2, <2>4, <2>8 DEF Exists
  <2>9. CASE t.kind = "order" BY <2>0, <2>3, <2>4, <2>9 DEF Exists
  <2> QED BY <2>1, <2>5, <2>6, <2>7, <2>8, <2>9 DEF Document
<1> QED BY <1>1, <1>4, <1>5

(* No create of an import that nobody disturbed is refused. *)
LEMMA OwnFails ==
  ASSUME Typed, NEW r \in Request, Step(r), req[r].job.kind = "import", ImportRight(r),
         req'[r].at = "failed"
  PROVE  FALSE
<1> DEFINE t == Task(r)
           f == Export[r]
<1>1. Fails(r) /\ ~FinalRow(r)
  <2>1. Arrives(r, req'[r].at)
    BY Goers DEF Goes
  <2>2. Fails(r)
    BY <2>1 DEF Arrives
  <2> QED BY <2>2 DEF FinalRow, Jobs
<1>2. ~Proceed(r)
  <2>1. ASSUME Proceed(r) PROVE Proceeds(r)
    BY <1>1, <2>1 DEF Fails, Proceeds
  <2>2. ASSUME Proceeds(r) PROVE FALSE
    <3>1. ~StartImport(r)
      BY <2>2, ProceedsDoing DEF StartImport, Jobs, Importing
    <3> QED BY <2>2, <3>1, TodoGoesOn
  <2> QED BY <2>1, <2>2
<1>3. CASE WriteRow(r)
  <2>1. Doing(r, {"image"}, "row") /\ t.id \in media
    BY <1>2, <1>3 DEF WriteRow
  <2>2. t \in ToSet(req[r].todo) /\ t.kind = "image" /\ req[r].at \in Importing
    BY <2>1, DoingIs DEF Typed, Importing
  <2> QED BY <2>1, <2>2 DEF ImportRight, Pending
<1>4. ASSUME NEW kind \in Document, Doing(r, {kind}, "create")
      PROVE  /\ t.kind = kind /\ Unopposed(f)
             /\ kind = "category" => t.id \notin Categories
             /\ kind = "product" => t.id \notin Products
             /\ kind = "review" => t.id \notin Reviews
             /\ kind = "order" => t.id \notin Orders
             /\ kind = "settings" => banner = None
  <2>1. t.kind = kind /\ req[r].at = "create" /\ req[r].at \in Importing
    BY <1>4 DEF Doing, Importing
  <2>2. ~Exists(t) /\ Unopposed(f)
    BY <2>1 DEF ImportRight
  <2> HIDE DEF t, f
  <2>3. /\ kind = "category" => t.id \notin Categories
        /\ kind = "product" => t.id \notin Products
        /\ kind = "review" => t.id \notin Reviews
        /\ kind = "order" => t.id \notin Orders
        /\ kind = "settings" => banner = None
    BY <2>1, <2>2 DEF Exists, Document
  <2> QED BY <2>1, <2>2, <2>3
<1>5. CASE CreateCategoryDoc(r)
  <2> DEFINE i == t.row
             d == PlannedCategory(r, i)
  <2>1. /\ Doing(r, {"category"}, "create")
        /\ i \in DOMAIN f.categories /\ t.id = f.categories[i].id
        /\ d.name = Label(f.categories[i].name, 1) /\ d.slug = SlugFor(f.categories, i)
        /\ t.id \in Categories \/ ~NameFree(d.name, t.id) \/ ~CategorySlugFree(d.slug, t.id)
    BY <1>2, <1>5, CreateCategoryDoes
  <2> HIDE DEF d
  <2>2. t.id \notin Categories /\ Unopposed(f)
    BY <1>4, <2>1 DEF Document
  <2> QED BY <2>1, <2>2 DEF Unopposed
<1>6. CASE CreateProductDoc(r)
  <2> DEFINE i == t.row
             d == PlannedProduct(r, i)
  <2>1. /\ Doing(r, {"product"}, "create")
        /\ i \in DOMAIN f.products /\ t.id = f.products[i].id /\ d.slug = SlugFor(f.products, i)
        /\ t.id \in Products \/ ~ProductSlugFree(d.slug, t.id)
    BY <1>2, <1>6, CreateProductDoes
  <2> HIDE DEF d
  <2>2. t.id \notin Products /\ Unopposed(f)
    BY <1>4, <2>1 DEF Document
  <2> QED BY <2>1, <2>2 DEF Unopposed
<1>7. CASE CreateReviewDoc(r)
  <2>1. Doing(r, {"review"}, "create") /\ t.id \in Reviews
    BY Zenon, <1>2, <1>7, CreateReviewDoes
  <2> QED BY <1>4, <2>1 DEF Document
<1>8. CASE CreateSettings(r)
  <2>1. Doing(r, {"settings"}, "create") /\ banner # None
    BY <1>2, <1>8 DEF CreateSettings
  <2> QED BY <1>4, <2>1 DEF Document
<1>9. CASE CreateOrderDoc(r)
  <2> DEFINE i == t.row
             d == PlannedOrder(r, i)
  <2>1. /\ Doing(r, {"order"}, "create")
        /\ i \in DOMAIN f.orders /\ t.id = f.orders[i].id /\ d.trx = f.orders[i].trx
        /\ t.id \in Orders \/ ~TrxFree(d.trx, t.id)
    BY Zenon, <1>2, <1>9, CreateOrderDoes
  <2> HIDE DEF d
  <2>2. t.id \notin Orders /\ Unopposed(f)
    BY <1>4, <2>1 DEF Document
  <2> QED BY <2>1, <2>2 DEF Unopposed
<1> QED BY <1>1, <1>3, <1>5, <1>6, <1>7, <1>8, <1>9 DEF Fails

(* The plan that is made: every row is to do. *)
LEMMA StartKeeps ==
  ASSUME Typed, NEW r \in Request, StartImport(r), req'[r].at \in Importing,
         req'[r].todo = Todo(Export[r], Images(Export[r]) \ media)
  PROVE  Pending(r)' /\ KeepsPromise(r)'
<1> DEFINE f == Export[r]
           missing == Images(f) \ media
           todo == Todo(f, missing)
<1>1. missing \in SUBSET Images(f) /\ media' = media
  BY DEF StartImport, docs
<1>2. /\ \A t \in ToSet(todo) : t.kind = "image" => t.id \in missing
      /\ \A i \in DOMAIN f.categories : \E t \in ToSet(todo) : t.kind = "category" /\ t.id = f.categories[i].id
      /\ \A i \in DOMAIN f.products : \E t \in ToSet(todo) : t.kind = "product" /\ t.id = f.products[i].id
      /\ \A i \in DOMAIN f.reviews : \E t \in ToSet(todo) : t.kind = "review" /\ t.id = f.reviews[i].id
      /\ \A i \in DOMAIN f.orders : \E t \in ToSet(todo) : t.kind = "order" /\ t.id = f.orders[i].id
      /\ \E t \in ToSet(todo) : t.kind = "settings" /\ t.id = None
  <2> HIDE DEF missing
  <2>1. \A t \in ToSet(todo) : t.kind = "image" => t.id \in missing
    BY Zenon, <1>1, TodoIs
  <2>2. \A i \in DOMAIN f.categories : \E t \in ToSet(todo) : t.kind = "category" /\ t.id = f.categories[i].id
    BY Zenon, <1>1, TodoIs
  <2>3. \A i \in DOMAIN f.products : \E t \in ToSet(todo) : t.kind = "product" /\ t.id = f.products[i].id
    BY Zenon, <1>1, TodoIs
  <2>4. \A i \in DOMAIN f.reviews : \E t \in ToSet(todo) : t.kind = "review" /\ t.id = f.reviews[i].id
    BY Zenon, <1>1, TodoIs
  <2>5. \A i \in DOMAIN f.orders : \E t \in ToSet(todo) : t.kind = "order" /\ t.id = f.orders[i].id
    BY Zenon, <1>1, TodoIs
  <2>6. \E t \in ToSet(todo) : t.kind = "settings" /\ t.id = None
    BY SMTT(30), <1>1, TodoIs
  <2> QED BY <2>1, <2>2, <2>3, <2>4, <2>5, <2>6
<1>3. Pending(r)'
  BY <1>1, <1>2 DEF Pending
<1> HIDE DEF missing
<1>4. req'[r].todo = todo
  BY DEF missing
<1> HIDE DEF todo
<1>5. KeepsPromise(r)'
  BY <1>2, <1>4 DEF KeepsPromise, Promised, Left
<1> QED BY <1>3, <1>5

LEMMA ImportOwn ==
  ASSUME Typed, OrdersTyped, ImportInv, NEW r \in Request, Step(r), OwnOrders(r), r \in calm', req'[r].job.kind = "import"
  PROVE  ImportRight(r)'
<1>1. Arrives(r, req'[r].at) /\ req[r].job.kind = "import" /\ Disturbed(r)
  BY Goers, Disturbing DEF Goes
<1>2. ~StartImport(r) => ImportRight(r)
  BY <1>1 DEF Disturbed, CheckReplace, Jobs, ImportInv
<1>3. req'[r].at \in Importing => Unopposed(Export[r])' /\ Pending(r)' /\ KeepsPromise(r)'
  <2> SUFFICES ASSUME req'[r].at \in Importing
               PROVE  Unopposed(Export[r])' /\ Pending(r)' /\ KeepsPromise(r)'
    OBVIOUS
  <2>1. CASE StartImport(r)
    <3>1. /\ req'[r].todo = Todo(Export[r], Images(Export[r]) \ media)
          /\ Unopposed(Export[r])
      BY <2>1, ImportGoesOn
    <3>2. category' = category /\ product' = product /\ orders' = orders
      BY <2>1 DEF StartImport, docs
    <3>3. Unopposed(Export[r])'
      BY <3>1, <3>2 DEF Unopposed, NameFree, CategorySlugFree, ProductSlugFree, TrxFree,
                        Categories, Products, Orders
    <3> QED BY <2>1, <3>1, <3>3, StartKeeps
  <2>2. CASE ~StartImport(r)
    <3>1. req[r].at \in Importing /\ ImportRight(r)
      BY <1>2, <2>2, ImportGoesOn
    <3>2. Unopposed(Export[r]) /\ Pending(r) /\ KeepsPromise(r)
      BY <3>1 DEF ImportRight
    <3> QED BY <1>1, <2>2, <3>1, <3>2, OwnUnopposed, OwnPending, OwnKeeps
  <2> QED BY <2>1, <2>2
<1>4. req'[r].at = "create" => req'[r].todo # <<>> /\ ~Exists(Task(r))'
  BY <1>1, OwnCreate
<1>5. req'[r].at = "done" => KeepsPromise(r)' /\ req'[r].todo = <<>>
  <2> SUFFICES ASSUME req'[r].at = "done" PROVE KeepsPromise(r)' /\ req'[r].todo = <<>>
    OBVIOUS
  <2>1. EndImport(r)
    BY <1>1 DEF Arrives
  <2>2. /\ req[r].at = "exists" /\ req[r].todo = <<>> /\ UNCHANGED docs
        /\ req[r].at \in Importing /\ ~StartImport(r)
    BY <2>1 DEF EndImport, Jobs, Importing, StartImport
  <2>3. KeepsPromise(r)'
    BY <1>1, <1>2, <2>2, OwnKeeps DEF ImportRight
  <2>4. ~Proceeds(r)
    <3>1. req'[r].at \notin {"upload", "exists"}
      OBVIOUS
    <3> QED BY <1>1, <2>2, <3>1, TodoGoesOn
  <2> QED BY <1>1, <2>2, <2>3, <2>4, TodoGoesOn
<1>6. req'[r].at # "failed"
  <2>1. ASSUME req'[r].at = "failed", StartImport(r) PROVE FALSE
    <3>1. Fails(r) /\ req[r].at = "start"
      BY <1>1, <2>1 DEF Arrives, StartImport, Jobs
    <3> QED BY <3>1 DEF Fails, FinalRow, Jobs, WriteRow, CreateCategoryDoc, CreateProductDoc,
                        CreateReviewDoc, CreateOrderDoc, CreateSettings, Doing
  <2> QED BY <1>1, <1>2, <2>1, OwnFails
<1> QED BY <1>3, <1>4, <1>5, <1>6 DEF ImportRight

LEMMA ImportOthers ==
  ASSUME Typed, RowInv, ImportInv, NEW r \in Request, Step(r), OwnOrders(r), NEW x \in calm', x # r, x \in Request,
         req'[x].job.kind = "import"
  PROVE  ImportRight(x)'
<1> DEFINE f == Export[x]
<1>1. /\ Goes(r) /\ x \in calm /\ category' = category /\ banner' = banner
      /\ product' = product \/ InsertReview(r) \/ DeleteReview(r)
      /\ review' = review \/ InsertReview(r) \/ DeleteReview(r)
      /\ media' = media \/ RegisterMedia(r) \/ DeleteRow(r)
  BY Goers, StaysCalm
<1>2. req[x].job.kind = "import" /\ Alike(x)
  BY <1>1 DEF Goes
<1>3. ImportRight(x) /\ req'[x].at = req[x].at /\ req'[x].todo = req[x].todo
  BY <1>1, <1>2 DEF ImportInv, Alike
<1>4. Placed(req[x], f)
  BY DEF Typed, Asked
<1>5. Categories' = Categories
  BY <1>1 DEF Categories
<1>6. Products' = Products /\ \A p \in Products : product'[p].slug = product[p].slug
  <2>1. CASE product' = product
    BY <2>1 DEF Products
  <2>2. CASE \E p \in Products, n \in Nat : Recount(p, n)
    BY <2>2, RecountKeeps
  <2> QED BY <1>1, <2>1, <2>2, ReviewRecounts
<1>7. Reviews \subseteq Reviews' /\ Reviews' \subseteq Reviews \cup NewReview
  <2>1. CASE review' = review
    BY <2>1 DEF Reviews
  <2>2. review \in [ReviewId -> ReviewDoc \cup {None}] /\ None \notin ReviewDoc
    BY CatalogConstants DEF Typed, CatalogTypeOK
  <2>3. CASE InsertReview(r)
    <3>1. CASE \E v \in NewReview, d \in ReviewDoc : review' = [review EXCEPT ![v] = d]
      BY <2>2, <3>1, CatalogConstants DEF Reviews
    <3> QED BY <2>1, <2>3, <3>1, InsertReviewDoes
  <2>4. CASE DeleteReview(r)
    <3> DEFINE v == req[r].job.id
               d == [review[v] EXCEPT !.live = FALSE]
    <3>1. v \in Reviews /\ review[v] \in ReviewDoc /\ review' = [review EXCEPT ![v] = d]
      BY Zenon, <2>4, DeleteReviewDoes
    <3>2. d \in ReviewDoc
      BY <3>1 DEF ReviewDoc
    <3> HIDE DEF d
    <3> QED BY <2>2, <3>1, <3>2 DEF Reviews
  <2> QED BY <1>1, <2>1, <2>3, <2>4
<1>12. orders' = orders /\ Orders' = Orders
  <2>1. orders' = orders
    BY OrdersStayCalm
  <2> QED BY <2>1 DEF Orders
<1>8. req[x].at \in Importing => Unopposed(f)'
  <2> SUFFICES ASSUME req[x].at \in Importing PROVE Unopposed(f)'
    OBVIOUS
  <2>1. Unopposed(f) /\ ~Problems(f)
    BY <1>3, <1>4 DEF ImportRight, Placed
  <2> QED BY <1>1, <1>5, <1>6, <1>12, <2>1, UnopposedAfter
<1>9. req[x].at \in Importing => Pending(x)'
  <2> SUFFICES ASSUME req[x].at \in Importing, NEW t \in ToSet(req[x].todo), t.kind = "image"
               PROVE  t.id \notin media'
    BY <1>3 DEF Pending
  <2>1. t.id \notin media /\ t.id \in Images(f)
    BY <1>2, <1>3, <1>4 DEF ImportRight, Pending, Placed, RowTask
  <2>2. CASE RegisterMedia(r)
    <3>1. req[r].job.kind \in {"upload", "reregister"} /\ media' = media \cup {req[r].job.id}
      BY <2>2 DEF RegisterMedia, Jobs
    <3> QED BY <1>2, <2>1, <3>1, ImportedIds DEF RowInv
  <2>3. CASE DeleteRow(r)
    BY <2>1, <2>3 DEF DeleteRow
  <2> QED BY <1>1, <2>1, <2>2, <2>3
<1>10. KeepsPromise(x) => KeepsPromise(x)'
  BY <1>1, <1>3, <1>5, <1>6, <1>7, <1>12 DEF KeepsPromise, InPlace, Left
<1>11. req[x].at = "create" => ~Exists(Task(x))'
  <2> SUFFICES ASSUME req[x].at = "create" PROVE ~Exists(Task(x))'
    OBVIOUS
  <2> DEFINE t == Task(x)
  <2>1. req[x].todo # <<>> /\ ~Exists(t) /\ req[x].todo \in Seq(TaskOf)
    BY <1>3 DEF ImportRight, Typed, Asked, Requests
  <2>2. t \in ToSet(req[x].todo)
    BY <2>1, TailIs DEF Task
  <2>3. RowTask(t, f)
    BY <1>2, <1>4, <2>2 DEF Placed
  <2>4. t.kind = "review" => t.id \notin NewReview
    BY <2>3, ExportConstants DEF RowTask
  <2>5. Task(x)' = t
    BY <1>3 DEF Task
  <2> HIDE DEF t
  <2> QED BY <1>1, <1>5, <1>6, <1>7, <1>12, <2>1, <2>4, <2>5 DEF Exists
<1> QED BY <1>3, <1>8, <1>9, <1>10, <1>11 DEF ImportRight

LEMMA ImportNext ==
  ASSUME Typed, OrdersTyped, RowInv, ImportInv, [Next]_vars
  PROVE  ImportInv'
<1>1. CASE UNCHANGED vars
  <2>1. UNCHANGED <<category, product, review, orders, banner, media, req, calm>>
    BY <1>1 DEF vars, catalogVars, docs, history
  <2>2. Categories' = Categories /\ Products' = Products /\ Reviews' = Reviews /\ Orders' = Orders
    BY <2>1 DEF Categories, Products, Reviews, Orders
  <2>3. ASSUME NEW x \in calm PROVE ImportRight(x) => ImportRight(x)'
    <3>1. /\ Unopposed(Export[x])' = Unopposed(Export[x])
          /\ Task(x)' = Task(x)
      BY <2>1, <2>2 DEF Unopposed, NameFree, CategorySlugFree, ProductSlugFree, TrxFree, Task
    <3>2. Pending(x) => Pending(x)'
      BY <2>1 DEF Pending
    <3>3. KeepsPromise(x) => KeepsPromise(x)'
      BY <2>1, <2>2 DEF KeepsPromise, InPlace, Left
    <3>4. Exists(Task(x))' = Exists(Task(x))
      BY <2>1, <2>2, <3>1 DEF Exists
    <3> QED BY <2>1, <3>1, <3>2, <3>3, <3>4 DEF ImportRight
  <2> QED BY <2>1, <2>3 DEF ImportInv
<1>2. ASSUME NEW r \in Request, Step(r), OwnOrders(r) PROVE ImportInv'
  <2>1. ASSUME NEW x \in calm', req'[x].job.kind = "import" PROVE ImportRight(x)'
    <3>1. x \in Request
      BY <1>2, NextTyped DEF Next, Step, Typed, CatalogTypeOK
    <3> QED BY <1>2, <2>1, <3>1, ImportOthers, ImportOwn
  <2> QED BY <2>1 DEF ImportInv
<1>3. ASSUME NEW r \in Request, (CatalogStep(r) /\ UNCHANGED orders) \/ ImportStep(r)
      PROVE  Step(r) /\ OwnOrders(r)
  BY <1>3, OrderWrites DEF Step, OwnOrders
<1> QED BY <1>1, <1>2, <1>3 DEF Next

(* An import that no other write met, and in whose way no foreign document *)
(* stood, never fails half-way and ends with every planned document in     *)
(* place, whatever a killed run left behind: re-running is safe.           *)
THEOREM ImportsComplete == Spec => []ImportComplete
<1>1. Init => RowInv /\ ImportInv
  BY RowInit, ImportInit
<1>2. Typed /\ OrdersTyped /\ RowInv /\ ImportInv /\ [Next]_vars => RowInv' /\ ImportInv'
  BY RowNext, ImportNext
<1> QED BY <1>1, <1>2, ImportIs, AlwaysTyped, InitOrders, NextOrders, PTL DEF Spec
=============================================================================
