----------------------------- MODULE MCCatalog -----------------------------
(***************************************************************************)
(* SeedImport on a small shop, and on an empty database for the imports.   *)
(* Each workload brings together requests that meet on the same documents. *)
(***************************************************************************)
EXTENDS SeedImport, TLC

CONSTANTS r1, r2, r3, c1, c2, c3, p1, p2, p3, v1, v2, v3, v4, u1, n1, n2, n3, a1, a2, a3, o1, o2, t1

MCRequest == {r1, r2, r3}

Idle == [kind |-> "none", id |-> None, name |-> None, slug |-> None, cat |-> None,
         user |-> None, image |-> None, blank |-> {}, count |-> 0, list |-> <<>>, force |-> FALSE]
On(kind, id)          == [Idle EXCEPT !.kind = kind, !.id = id]
Cat(kind, c, n, a)    == [On(kind, c) EXCEPT !.name = n, !.image = a]
Prod(kind, p, n, c, a) == [On(kind, p) EXCEPT !.name = n, !.cat = c, !.image = a]
Cleared(j)            == [j EXCEPT !.blank = {"image"}]
Reslugged(j)          == [j EXCEPT !.blank = {"slug"}]
Slugged(j, n)         == [j EXCEPT !.slug = n]
Replace(list)         == [Idle EXCEPT !.kind = "replaceCategories", !.list = list]
Entry(c, n, a)        == [id |-> c, name |-> n, image |-> a]
Review(p)             == [On("review", p) EXCEPT !.user = u1]
Import(force)         == [Idle EXCEPT !.kind = "import", !.force = force]
Banner(a)             == [Idle EXCEPT !.kind = "banner", !.image = a]

CatDoc(n, i, a) == [name |-> Label(n, 1), slug |-> Label(n, 1), order |-> i, image |-> a]
ProdDoc(c, n, a, archived) ==
  [cat |-> c, slug |-> Label(n, 1), image |-> a, archived |-> archived, count |-> 1]

Shop ==
  [category |-> (c1 :> CatDoc(n1, 0, None)) @@ (c2 :> CatDoc(n2, 1, None)) @@ (c3 :> None),
   product  |-> (p1 :> ProdDoc(c1, n1, a1, TRUE)) @@ (p2 :> ProdDoc(c1, n2, None, FALSE)) @@ (p3 :> None),
   review   |-> (v1 :> [product |-> p2, user |-> None, approved |-> TRUE, live |-> TRUE])
                @@ (v2 :> None) @@ (v3 :> None) @@ (v4 :> None),
   orders   |-> (o1 :> None) @@ (o2 :> None),
   media    |-> {a1, a2}]

Bare == [Shop EXCEPT !.product = [p \in {p1, p2, p3} |-> IF p = p1 THEN Shop.product[p1] ELSE None]]

Empty ==
  [category |-> [c \in {c1, c2, c3} |-> None], product |-> [p \in {p1, p2, p3} |-> None],
   review |-> [v \in {v1, v2, v3, v4} |-> None], orders |-> [o \in {o1, o2} |-> None], media |-> {}]

With(db, a, b, c) ==
  [db |-> db, jobs |-> [r \in MCRequest |-> CASE r = r1 -> a [] r = r2 -> b [] OTHER -> c]]

Swapped == Replace(<<Entry(c2, n1, None), Entry(c1, n2, a2)>>)

Pictured   == [Shop EXCEPT !.product[p2].image = a2, !.category[c2].image = a2]
Unapproved == [Shop EXCEPT !.review[v1].approved = FALSE]

(* A product with a review and a count of 0 is what an import leaves whose    *)
(* file gives the product no reviewCount.                                     *)
MCWorkload ==
  {With(Bare, On("deleteCategory", c), Prod("createProduct", p3, n1, n, a2), On("unarchive", p1)) :
     c \in {c1, c2}, n \in {n1, n2}}
  \cup {With(Shop, Swapped, b, c) :
          b \in {Idle, Replace(<<Entry(c1, n1, None)>>), On("deleteCategory", c2)},
          c \in {Cat("createCategory", c3, n3, None), Cat("createCategory", c3, n2, a1),
                 Cat("updateCategory", c2, n3, a2), Cat("updateCategory", c2, None, a2),
                 Prod("updateProduct", p2, n2, n2, None)}}
  \cup {With(Shop, On("deleteMedia", a2), b, c) :
          b \in {Swapped, Prod("updateProduct", p2, n2, n1, a2), Banner(a2)},
          c \in {On("reregister", a2), On("deleteMedia", a2)}}
  \cup {With(Shop, On("deleteMedia", a1), On("archive", p2), On("upload", a3))}
  \cup {With(Shop, On("upload", a3), On("deleteMedia", a3), Cat("createCategory", c3, n3, a3))}
  \cup {With(Shop, Review(p2), Review(p2), On("moderate", v1))}
  \cup {With([Shop EXCEPT !.product[p2].count = k], Review(p2), On("moderate", v1), On("moderate", v1)) :
          k \in {0, 1}}
  \cup {With(Pictured, On("deleteMedia", a2), b, Cleared(Cat("updateCategory", c2, n2, None))) :
          b \in {Cleared(Prod("updateProduct", p2, n2, n1, None)), Prod("updateProduct", p2, n2, n1, a1)}}
  \cup {With(Pictured, On("deleteMedia", a2), Cleared(Prod("updateProduct", p2, n2, n1, None)), c) :
          c \in {Prod("updateProduct", p2, n2, n2, a2), Prod("updateProduct", p2, n2, n1, a1)}}
  \cup {With(Unapproved, Review(p2), On("moderate", v1), On("moderate", v2))}
  \cup {With(Shop, [Prod("createProduct", p3, n3, n1, None) EXCEPT !.count = k], Review(p3),
             On("moderate", v2)) : k \in {0, 2}}
  \cup {With(Shop, a, b, Slugged(Prod("createProduct", p3, n3, n2, None), n1)) :
          a \in {Prod("createProduct", p3, n1, n1, None), Slugged(Prod("updateProduct", p2, n2, n1, None), n3)},
          b \in {Reslugged(Prod("updateProduct", p2, n1, n1, None)), Prod("createProduct", p3, n3, n1, None),
                 Slugged(Prod("updateProduct", p2, n2, n1, None), n2)}}
  \cup {With([Empty EXCEPT !.orders[o2] = [trx |-> t1]], Import(FALSE), Idle, Idle)}
  \cup {With(Empty, Import(f), Import(g), c) :
          f \in BOOLEAN, g \in BOOLEAN,
          c \in {Import(FALSE), Cat("createCategory", c3, n2, None), On("deleteCategory", c2),
                 On("deleteMedia", a2), On("moderate", v1)}}

SeedRow(id, n, s, c, a, k) ==
  [id |-> id, name |-> n, slug |-> s, cat |-> c, image |-> a, count |-> k]

Seed ==
  [categories |-> <<SeedRow(c1, n1, None, None, a1, 0), SeedRow(c2, n2, n1, None, None, 0)>>,
   products   |-> <<SeedRow(p1, n1, None, n1, a1, 1), SeedRow(p2, n1, None, n2, a2, 1)>>,
   reviews    |-> <<[id |-> v1, product |-> p2, approved |-> TRUE],
                    [id |-> v3, product |-> p2, approved |-> FALSE]>>,
   orders     |-> <<[id |-> o1, trx |-> t1, image |-> a2]>>, banner |-> a2]

(* The third request's files name a category twice. *)
Twice == [Seed EXCEPT !.categories[2].name = n1]

MCExport == [r \in MCRequest |-> IF r = r3 THEN Twice ELSE Seed]

=============================================================================
