# Al Barakah store backend: TLA+ models, checks and proofs

The program is an Express application on Vercel Functions with one MongoDB
replica set (`src/src`). Every request runs in a function instance that may be
killed at any statement; requests share nothing but the database and an optional
Redis cache. What is hard is therefore in the database: which documents a
request reads, what happens between its awaits, which of its writes share a
transaction, and what a re-run, a conflict or a crash leaves behind.

Paths below are relative to `src/src/modules/` unless they start with `src/`.

## 1. Inventory

| component | state | operations | hard behaviour | correct when | modelled |
|---|---|---|---|---|---|
| **orders** `orders/order.service.ts` | `orders`: status, items, `stockDeducted`, payment status, fake flag, `bkashTrxId` (unique), `courier`, `deletedAt` | `createOrder`, `patchOrder`, `verifyOrderPayment`, `softDeleteOrder`, `dispatchOrder`, `expireStaleOrders` (cron, admin list, hook of a checkout) | one transaction over orders, products and coupons; re-runs; expiry inside another request's transaction; audit rows outside it; a courier call between two reads | stock, coupon uses and orders agree; a checkout makes one order or none; a payment shows as paid only when verified | `OrderStore`, `OrderTxn`, `Dispatch` |
| **stock** `orders/stock.service.ts`, `src/src/utils/transaction.ts` | `products.stockCount`, `inStock` | `reserveStock`, `releaseStock`, `setOrderStock`, `withTransaction` | guarded updates, lock order, write conflicts | never oversold, released exactly once | `OrderStore`, `OrderTxn`, `Cache` (its invalidations) |
| **coupons** `coupons/coupon.service.ts` | `coupons`: limit, `timesUsed`, active, expiry, deleted | redeem, create, update, delete, restore | last use taken by two orders; limit edited meanwhile | a use is consumed only with its order | `OrderStore`, `OrderTxn`, `Pricing` (the discount); the code text is not |
| **products** `products/product.service.ts` | `products` | create, update (load ... save), archive, restore, search | a save that overlaps an order | archived products are not sold; `inStock` derived; category and images exist | `OrderStore` (stock fields), `Catalog` (references), `Cache` |
| **pricing and domain rules** `src/src/domain` | none (pure) | `priceOrder`, `evaluateCoupon`, `deriveZone`, `salesMetrics` | rounding, free-delivery boundary, payment policy | `advance + due = total` | `Pricing`, checked through `Dispatch` |
| **reviews, rating** `reviews`, `src/src/domain/rating.ts` | `reviews`, `products.rating`, `reviewCount` | add, moderate | rounded running average and its inverse | aggregate = the reviews that count | `Catalog` (the count; the average is not) |
| **sessions** `users/token.service.ts` | `refreshTokens` in families, `tokenVersion` | issue, rotate, revoke family, revoke all, logout | two refreshes of one token; revocation during a refresh | one live token a family; nothing survives a revocation | `Sessions` |
| **customer accounts** `auth/auth.service.ts` | `users` | register, login, Google, PIN change, profile, addresses | duplicate Google sign-in; PIN change during a refresh | one account an identity; other sessions end | `Sessions`, `SignIn` (login, PIN); registration, Google and profile are not |
| **admin accounts** `admin-auth/adminAuth.service.ts` | `otps`, `users` | login, resend, verify code, grant, set password, revoke | two codes issued at once, parallel guesses, rollback of a grant | a code opens one session, within its attempts | `SignIn`, `Sessions` |
| **lockout, rate limits** `security` | `lockouts`, `rateLimits` | record, clear, count a window | several writes for one failure; window boundary | no more than the threshold between locks | `SignIn` |
| **cache** `src/src/cache` | Redis keys and an index set | get-or-set, invalidate | fill after invalidation; invalidation before commit | stale data is bounded by the TTL | `Cache` |
| **settings** `settings`, `src/src/utils/secretBox.ts` | one document with a version | read, update at a version, re-encrypt | two writers; rotation against an update; restore | no update is lost; secrets stay readable | `Settings` |
| **media, categories, wishlist** | `media`, `categories`, `wishlists` | upload, delete if unused; CRUD, replace all; toggle | check, then act; bulk write in phases | no dangling reference | `Catalog` (not the wishlist) |
| **backup** `adminOps/backup.service.ts` | none of its own | dump, restore in one transaction | dump without a snapshot; restore over open forms | a restore is all or nothing | `Settings` (its settings part) |
| **audit log** `audit` | `auditLogs`, append only | record | written outside every transaction | says what happened | rows of orders, `OrderTxn` |
| **courier, notifications** | none | HTTP and SMTP calls | a lost answer | a parcel is known to its order | `Dispatch`; notifications are not |
| **cron** | none | expire orders, cleanup | runs beside everything | it ends | `OrderTxn` (expiry), `Sessions` and `SignIn` (cleanup) |
| **seed import** `seedImport/importSeed.ts` | every collection, once | plan, execute, again | killed between two documents; beside a live admin | running it again completes it | `SeedImport`; what its orders do to stock, `OrderStore` |
| **configuration, OpenAPI, middleware** | none that changes | | | | the key ring (`Settings`), `authenticate` (`Sessions`) |

Interactions. `createOrder` calls pricing, coupons and stock in one session; stock
calls back into orders through the expiry hook `beforeReserve`; `patchOrder` calls
stock in its session and, after the commit, `dispatchOrder`; stock, products,
categories and settings invalidate the cache; reviews write `products` in their
own transaction; a backup restore overwrites every collection; middleware reads
`users` on each request to compare `tokenVersion`.

`PROJECT.json` lists the hazards, each at its line, with the properties that
watch it, or the reason why none does.

## 2. Modules

### OrderStore: what the services promise

One action per transaction (or single-document update) on products, orders and
coupons; module variables are the collections.

| state | document field |
|---|---|
| `stockCount`, `inStock`, `archived` | `ProductDoc.stockCount`, `inStock`, `deletedAt # null` |
| `draft[a]` | the document `updateProduct` of admin request `a` has loaded and not saved; one slot per concurrent edit |
| `order[o]` | `OrderDoc`; status `"absent"` is an id no document has; `aged` is `createdAt < cutoff` |
| `coupon[c]` | `CouponDoc`; `active` joins `isActive` and the expiry date |
| `supply`, `verified` | history: units the shop was given (initial stock and admin edits), orders verified by an admin |

| action | code |
|---|---|
| `PlaceOrder` | `createOrder` with `priceOrder`, `redeemCoupon`, the expiry hook and `reserveStock`: one transaction |
| `ExpireOrder` | one transaction of `expireStaleOrders` without a session (cron, admin list) |
| `PatchOrder` | `patchOrder` with `stockActionForTransition` and `setOrderStock` |
| `VerifyOrderPayment`, `SoftDeleteOrder` | the functions of that name |
| `CommitDispatch` | the transaction that ends `dispatchOrder`; it finds the order by id only, so a deleted one too |
| `LoadProduct`, `SaveProduct` | the two halves of `updateProduct`: `save()` writes only what differs from the loaded document |
| `SoftDeleteProduct`, `RestoreProduct`, `UpdateCoupon`, `SoftDeleteCoupon`, `RestoreCoupon` | the admin services |
| `Age`, `CouponExpires` | time passes |

`PlaceOrder` expires *some* set `X` of the stale orders in its way. The code
expires every one its snapshot shows, but an order may become stale, or a stale
order's product be asked for, between the snapshot and the commit; module
`OrderTxn` shows which `X` occur.

A duplicate product on several lines is one line, as `merge` makes it. Prices,
customers and notes are left out; a refusal that depends only on them (minimum
spend, required advance) is a step not taken. Quantities in the unmerged lines
are therefore not a separate concern.

### OrderTxn: the same requests, statement by statement

`createOrder`, `patchOrder` and the cron run concurrently, each statement one
step. `view[t]` is the snapshot of the open transaction with its own writes,
`wrote[t]` the documents it holds, `missed[t]` what others committed since. A
write to a document another open transaction holds, or that is in `missed`, is a
`WriteConflict` (`Conflicts`); `RunAgain` is the driver's answer: the callback
starts over, or gives up. `Crash` kills a request anywhere; the server aborts its
transaction. Audit rows are written where the code writes them, in the hook
before the commit and at the end after it. These rules of MongoDB are the only
external part, modelled as `withTransaction` relies on them.

`Age` changes every snapshot because staleness is a comparison with a clock, not
a write. The code computes the cutoff once for a call; letting an order become
stale during the call adds behaviours and removes none.

`CommitsAreOperations` is the refinement: under `Store == INSTANCE OrderStore WITH
stockCount <- db.stock, order <- db.order, ...` every change of the committed
documents is a step of `OrderStore`. It is stated as `Store!Init /\ [][db' = db \/
Store!Next]_db`, which is `Store!Spec` for a mapping whose variables are functions
of `db` and constants; `OrderRefinementProofs` proves it for any number of requests. In it nothing edits a product's count, so `inStock` is the
derived value and `draft` is empty; checkouts pay on delivery.

### Pricing and Dispatch: from the bill to the parcel

`Pricing` holds the pure functions: `ComputeSubtotal`, `Discount`, `DeriveZone`,
`NetTotal`, `DeliveryFee`, `Split` and their composition `PriceOrder`. Amounts are
integers of poisha; unit prices carry one more digit and percentages give two
more, so that `Round2` rounds where `round2` does.

`Dispatch` EXTENDS `OrderStore`, and adds to its documents

| state | code |
|---|---|
| `bill[o]` | the amounts of an order: `subtotal`, `deliveryFee`, `total`, `advance`, `amountToCollectOnDelivery` |
| `consignment[o]` | `courier` of an order: who recorded it, and what id |
| `parcel[r]` | what the courier holds of request `r`: posted, perhaps booked |
| `req[r]` | an admin request: where it is, its order, `stockEffect` and `changed` (which live outside the transaction callback), what it read, whether it dispatches on its own |

`Checkout` is `PlaceOrder` with its bill. A patch is `RerunPatch` (an attempt of the
callback that aborts and leaves `stockEffect` set), `CommitPatch` (the store's
`PatchOrder`) or `FailPatch`, then `AutoDispatch` or `SkipAutoDispatch`. A dispatch is
`LoadForDispatch`, for Pathao `AskToken`, then `PostOrder`, and `Answer`, `GiveUp`,
`NotSent` or `RefuseToken`, then `RecordDispatch` (the store's `CommitDispatch`) or
`FailRecord`. The courier's own step is `Book`, possible at any time after the
post. An `Answer` is a consignment, a refusal, a body nobody can read, or an error
status (`"error"`), which says nothing of the booking: it may have been made, or may
be made later, and the adapters read it as they read a refusal. Settings may change between any two reads, so each read of them is free.
`OtherOrderStep` is the cron, the verification and the deletion.

### Sessions and SignIn: who is let in, and until when

`Sessions` models `users/token.service.ts` and the requests that end sessions, one
MongoDB statement a step. `token[k]` is a refresh token, `user[u]` the fields of a
user that matter (`tv` is `tokenVersion`), `access` the access tokens signed so far;
`idle` and `over` hold the tokens whose idle time, and families whose session,
have passed. `ended` and `killed` are history: what some request ended.

| action | code |
|---|---|
| `PresentToken`, `CheckOwner`, `Claim`, `Burn`, `Create` | `rotateRefreshToken`: read, checks, atomic claim, revocation of the family on reuse, insert |
| `Logout` | revocation of the presented token's family |
| `SavePin`, `FindKeep`, `SweepOthers` | `changeCustomerPin` |
| `SavePassword`, `Sweep` | `setPassword`, the sweep of `revokeAllForUser` |
| `Increment` | `$inc tokenVersion` of `revokeAllForUser` |
| `LoadReset`, `SaveReset` | `resetCustomerPin` |
| `TokenIdles`, `SessionExpires`, `CleanTokens`, `Crash` | time, the cleanup cron, a killed function |

`SignIn` EXTENDS it with what comes before a session: account limit, lockout,
secret, cooldown, code, invitation. `CountFailure`, `LockKey`, `ResetRound`,
`ClearFailures` are the statements of `lockout.service.ts`; `Consume` is one
`consumeRateLimit`; `DropOldCodes`, `InsertCode`, `MailCode`, `RemoveUnsent` issue a
code, `FindCode`, `CountAttempt`, `CheckCode`, `ConsumeCode` verify it; `LoadGrant` to
`RollbackGrant` are `grantAccess`, `FindInvite` and `UseInvite` the set-password link,
`LoadRevoke`, `SaveRevoke`, `DropCodes` `revokeAccess`. Whether a secret or a code is
right is a free choice. Codes are numbered in the order of issue.

`SessionSpec` is a property of `SignIn`: each of its steps is one of `Sessions`, or one of
those that `Sessions!Elsewhere` allows. The run `accounts` checks it, `SignInProofs`
proves it, and with it the theorems about `Sessions` hold of the whole.

### Cache and Settings

`Cache` models `src/src/cache` in commands of Redis. `data[v]` counts the commits that
changed what view `v` shows, `cached[v]` is the count the cached value was read at,
`tracked` the views whose key is in its index set, `cooling` the instances that
have switched Redis off for a while. `Get`, `Load`, `Store` are `cacheGetOrSet`; `Write`,
and `MoveStock` with `CommitStock`, change data and queue in `todo` the commands of
their invalidation, which `Send` sends one at a time in any order the code allows
and `GiveUp` loses. Different query strings of one list are one key.

`Settings` EXTENDS it with the one settings document. `OpenForm`, `LoadUpdate`,
`CommitUpdate`, `AuditUpdate` are the admin form and `updateSettings`: the merge is
done on what was loaded, and the write matches its version. A secret is a record
of who wrote it and under which key. `LoadRotation` and `RewriteSecrets` are
`rotate-settings-key.ts`, which always knows both keys (`ScriptRing`); `Ring` is what the
deployment knows. The script may run at any stage of it, in particular where its
instructions put it, before the new key is deployed (`stage = "old"`). `DeployNew`, the
new key alone, is step 3 of the instructions and comes after a run has ended
(`rotated`); `DeployBoth`, both keys at once, is what `secretBox.ts` provides for, may come at any
time and need not come. `behind` marks an update that read with the old key alone,
or before a run of the script ended, and `late` that such an update has committed since
the last run. `TakeBackup` and `Restore` are those of
`backup.service.ts`.

### Catalog and SeedImport

`Catalog` models categories, products, reviews and media by what refers to what.
Every request checks and then acts (`CheckCategory`, `ResolveImage`, `WriteCategory`;
`StartProduct`, `ResolveImage`, `ChooseSlug`, `WriteProduct`; `CheckDelete`,
`RemoveCategory`; `CheckMedia`, `Destroy`, `DeleteRow`; `Upload`, `RegisterMedia`), one
statement or Cloudinary call a step. `CheckReplace`, `ResolveList`, `Purge`, `Park`,
`EndReplace` are the phases of `replaceCategories`; `InsertReview` and `DeleteReview`
are one transaction with the product's count. `cloud` are the assets Cloudinary
has, `media` the rows. `raced` and `calm` are history: what a deletion and a write
of the same thing have overlapped on, and the requests nothing has overlapped.
What a request remembers between two statements is a field of `req[r]` (`slug`, `cat`,
`image`, `doomed`, `held`, `order`, `todo`), and each step that sets one says so by name
(`Slugs`, `Finds`, `Resolved`, `Dooms`, `Keeps`, `Reaches`). A deletion remembers in
`doomed` what it found and deletes by that id.

A product is created with the `reviewCount` of its form; `base` is what this is beyond
the live approved reviews that its id has by then. A review enters and leaves the
count only when it is approved (`Counts`). `WriteCategory` and `WriteProduct` write what
`save()` sends, the fields that differ from the loaded document (`Saved`): name, slug,
category and images, where an empty string clears an image and a slug that is not
sent, or is the loaded one, is kept. An update of the images is refused when they
are no longer those that were loaded; mongoose compares a version number, so an update
that finds the same images again after two changes is refused by the code and not
by the model.

`WellFormed`, `Stored` and `OwnUpload` say what a workload may be: bodies as the route
schemas leave them, a database whose references resolve, and uploads whose publicId
Cloudinary has just made up. They are the assumption `CatalogConstants`, which TLC
evaluates on every workload of the run.

`SeedImport` adds `importSeed.ts`: `Problems` and `Todo` are `buildPlan`, `StartImport`,
`UploadImage`, `WriteRow`, `LookUp`, `DeleteDoc` and the `Create...` actions execute it:
images, categories, products, reviews, orders and settings, in this order.
It runs beside the services, may be killed, and runs again, forced or not. `SlugFor`
is the slug of a row among the rows before it with the same stem, in closed form; a
task is a row of a file, by its number. `orders` has only what an import can trip
over, ids and the unique bKash TrxID; customers place none while an import runs, and
what imported orders do to stock is in `OrderStore`, which starts with them. A review
carries the `approved` of its row, and the count of its product is the row's
`reviewCount`. The import clears no cache, so it is no writer of `Cache`. `ExportConstants` assumes that files name
ids, that a new review's id is in no file, and that no upload is given a publicId the
export uses.

### MC modules and configurations

`MCOrderStock`, `MCOrderPayment` and `MCOrderTxn` only give the constants small
values. `MCAccounts`, `MCSettings`, `MCCatalog` and `MCFulfilment` also give a set of
*workloads*: each says which requests run together, and a behaviour begins by
picking one. Requests that cannot meet on a document are not put together, which
is what keeps these instances small. `OrderStoreProofs`, `OrderTxnProofs`,
`OrderRefinementProofs`, `DispatchProofs`, `SessionsProofs`, `SignInProofs`,
`SettingsProofs` and `CatalogProofs` hold the theorems.

## 3. Properties and runs

| run | states | question |
|---|---|---|
| `order_stock` | 384 thousand | stock: `StockConserved`, `HeldIffLive`, `ArchivedNotSold`, `TypeOK` |
| `order_payment` | 886 thousand | payments and coupons: `RedemptionsBacked`, `PaidWasVerified`, `FakeFlagReversible` |
| `order_txn` | 234 thousand | two checkouts, interleaved: `CommitsAreOperations`, `OneOrderPerCheckout`, `TypeOK` |
| `order_cron` | 60 thousand | checkout, patch and cron, interleaved: `CommitsAreOperations`, `EveryRequestAnswered` |
| `fulfilment` | 274 thousand | bills and couriers: `CollectsExactlyDue`, `ParcelsAccounted`, `AutoNeverResends`, `StockAnswered`, `RequestsEnd`, `DispatchTypeOK` |
| `accounts` | 770 thousand | sessions and sign-in: `OneLiveToken`, `EndedStaysEnded`, `KilledStaysKilled`, `CodeGuessesBounded`, `OneSessionPerCode`, `FailuresLock`, `WindowLimits`, `NoHalfCreatedAdmin`, `SessionSpec`, `TypeOK` |
| `settings_cache` | 337 thousand | cache, settings, key rotation: `StaleExplained`, `UpdatesSerial`, `SecretsReadable`, `EventuallyFresh`, `TypeOK` |
| `catalog` | 783 thousand | references and the import: `NoDanglingCategory`, `NoDanglingImage`, `AssetHasRow`, `CountMatchesReviews`, `ReplaceTakesEffect`, `ImportComplete`, `TypeOK` |
| `stock_derived` | violation | `InStockDerived` |
| `expired_unpaid` | violation | `ExpiresOnlyUnpaid` |
| `lock_order` | violation | `SameLockOrder` |
| `phantom_audit` | violation | `NoPhantomExpiry` |

* `StockConserved`: shelf plus held units equal the units ever supplied. Held
  units are counted from the orders whose flag `stockDeducted` is set, so a double
  release, a forgotten flag or a lost expiry shows at once.
* `HeldIffLive`: an order placed here holds stock exactly while it is neither
  cancelled nor deleted. Imported orders are exempt: the import leaves the flag
  as the file says.
* `ArchivedNotSold`: while a product is archived, only an admin edit lowers its
  count.
* `RedemptionsBacked`: `timesUsed` equals the number of orders that carry the
  coupon, whatever happened to them later. An order keeps the use when it is
  cancelled or deleted, as the code says.
* `PaidWasVerified`: `ADVANCE_PAID`, shown or remembered, implies an earlier
  verification. Imported orders count as verified, their history being unknown.
* `FakeFlagReversible`: a flagged order remembers a real payment status.
  `FAKE_SUSPECTED` shows only while flagged; an override by an admin while the
  order is flagged may hide it, which the code allows.
* `OneOrderPerCheckout`: answered checkouts have distinct orders, and no order
  comes from a checkout that failed, whatever was re-run.
* `EveryRequestAnswered`: under fairness, every request ends or is killed.
* `CollectsExactlyDue`: what a parcel collects plus the advance is the bill.
* `ParcelsAccounted`: a recorded consignment is a booked parcel of that order, and a
  booked parcel is recorded, unless its request runs, was killed, never heard of
  the booking, or could not save it. These exceptions are the code's: a courier
  that books and does not answer, or answers with an error status, leaves a parcel
  nobody knows. A refusal is no exception: it leaves none.
* `AutoNeverResends`: an automatic dispatch sends no order that had a consignment
  when the patch arrived, but for one overwritten by a manual dispatch whose
  Steadfast answer was unreadable (which counts as success, with the id `""`). Two
  patches that both saw none may both send.
* `StockAnswered`: a patch that moved stock says so, and which way. The converse fails
  (section 4).
* `RequestsEnd`: no courier holds a request up.
* `OneLiveToken`, `EndedStaysEnded`, `KilledStaysKilled`: a family has one live token;
  an ended family has none, but for the one a refresh that had already claimed
  may still insert; an access token killed by a revocation stays killed, unless
  an absolute save of `tokenVersion` overwrote an increment (`clobbered`).
* `CodeGuessesBounded`, `OneSessionPerCode`: a code compares at most `MaxAttempts`
  guesses and opens one session, however parallel they are.
* `FailuresLock`: failures at the threshold mean that a request is about to lock,
  or was killed before it could. `WindowLimits`: no window lets more than its
  limit through, beside the cleanup job.
* `NoHalfCreatedAdmin`: an admin without a password was mailed the link, or the
  grant that made it runs or was killed.
* `StaleExplained`: a cached view older than its data is about to be deleted, or one
  of the named races has left it to its time limit. `EventuallyFresh`: once writing
  stops, every view becomes fresh.
* `UpdatesSerial`: the document is what the updates make of it one after the other;
  only parts that a rotation or a restore overlapped are exempt.
  `SecretsReadable`: until a run of the script has ended the deployment decrypts all
  it stores, and one that knows both keys always does; from that end on the new key
  alone decrypts everything, which is what lets the operator discard the old one,
  unless an update commits that was `behind` the rotation. Between the script's end and the
  deployment of the new key it is not claimed that a deployment with the old key
  alone decrypts anything: it does not.
* `NoDanglingCategory`, `NoDanglingImage`, `AssetHasRow`: references dangle only after
  a deletion has overlapped the write that names its object.
* `CountMatchesReviews`: `reviewCount` is its baseline and the live approved reviews,
  through duplicates, repeated moderation and the moderation of imported reviews that
  never counted. A count lower than the approved reviews there are, which an import
  or a product created anew under an old id may leave, has no such baseline. The
  average is not modelled.
* `ReplaceTakesEffect`, `ImportComplete`: a replacement, or an import, that nobody
  disturbed does not fail half-way and leaves all of what it says, for an import every
  category, product, review and order of its files and the settings, also
  after a run that was killed and when two names are swapped.

Every property has a mutant of the code (section `mutants` of `PROJECT.json`)
that TLC finds to violate it: the bug it would catch.

Some hazards of `PROJECT.json` have no property, and its notes say why: a count typed
over movements since the form was opened, two patches that both dispatch, a stock
movement reported by an attempt that moved nothing, the rounded average, a form
that passes its version check after a restore. They are the code's behaviour and
break nothing it says. That imported orders neither lose nor gain units is proved
(`StockIsConserved`), not run: `order_stock` has no imported order.

**Bounds.** `order_stock`: two products, two orders, one concurrent admin edit,
at most two units, carts of one and of two lines. Two orders are enough for one
to expire, or to take the stock of, the other; two products for a line that fails
after another succeeded; a count typed by an admin may be 0 or 2, so orders both
fit and do not. Order ids are interchangeable (symmetry).
`order_payment`: one product, so that payment states, flags and coupon edits can
all be combined on one placed and one imported order. `order_txn`: two checkouts
with three possible inputs that clash on a product, a coupon or a bKash id, one
unit of each product, an imported order that holds one and may become stale, two
runs of a callback, two ids. Two runs show every effect a re-run can have,
because a run leaves nothing behind but audit rows and its counters.
`order_cron`: one checkout, one patch, the cron, two orders. `MaxRuns` stands
for the driver's limit of 120 seconds, `MaxIds` for `MAX_ID_ATTEMPTS`;
`StockInput`, `LimitInput`, `MaxQuantity` bound what is typed.

`fulfilment`: one order; either one of 144 quotes (a price that rounds and one that
does not, percentages with and without a cap, both zones and an ambiguous one,
free delivery, all payment choices) with one dispatch, or one prepaid order with
two requests, of which one may be killed: two patches, two manual dispatches, or
one of each, which overlap at every pair of statements. `MaxReruns` bounds the aborted
attempts of a patch. The exception of `AutoNeverResends` needs a third request.
`accounts`: four users, four requests a workload, five tokens, two codes, every
limit 2, which is the least that distinguishes the first, the last and one too
many. A third request shows what two racing ones left. One token ages, one
request is killable; which they are does not matter, since workloads exchange roles.
`settings_cache`: two instances, since the cooldown is per instance; two sections
and two secrets, so that two updates may or may not touch the same part; the
requests of a workload meet on a view or on the document; the script runs beside
two updates, or beside an update and another run of itself, in every deployment. Time limits have no
length: a key may expire at any time.
`catalog`: three of each id, name and asset, three requests: two that overlap and
one that uses, or repairs, what they left; approved and unapproved reviews, products
created with a count of 0 or 2; two exports, one of which names a category twice,
and a database in which a foreign order holds a TrxID of the files.

Deadlock checking is off everywhere: requests are used once, coupons expire and
orders age only once, so every instance comes to an end.

**Fairness.** `OrderTxn` assumes weak fairness of each request's next statement
and none of `Crash`, `Age` or `ArchiveProduct`: the database answers every
statement, with a conflict if need be, and the driver's loop goes on until it
gives up. That is what the platform gives a function that is not killed.
`Dispatch` assumes the same of each request's next step, and nothing of the courier:
the adapters' timeout is a step of the request. `Settings` assumes it of each
request, and that a key expires, which Redis does by itself; nothing of crashes,
failures, or the operator's deployments. The other modules assume no fairness; their
properties are safety.

## 4. Findings

1. **`inStock` is not always derived** (`stock_derived`,
   `products/product.service.ts:218,226`). The flag is derived from a document loaded
   several awaits earlier, and `save()` writes only what changed against it. The
   run: two units, one sold; an admin opens the product (1 left, in stock); the last
   unit is sold, which stores `inStock: false`; the admin's save stores the count
   2 and not the flag, which did not change *in the form*. The product is listed
   as out of stock until its stock moves again.
2. **A verified order expires as unpaid** (`expired_unpaid`,
   `orders/order.service.ts:68`). The filter looks at `status` alone and
   `verifyOrderPayment` leaves it `pending`.
3. **Lock order** (`lock_order`, `orders/stock.service.ts:26`). Each call is
   sorted, the transaction is not: the expiry hook releases before the checkout
   reserves. `EveryRequestAnswered` shows it costs re-runs and no deadlock.
4. **Audit rows of an expiry that never happened** (`phantom_audit`,
   `orders/order.service.ts:83`). The rows are written outside the session of a
   transaction that may still abort or run again.

Other disagreements met while modelling. The models behave as the code does, and
the properties name these cases as their exceptions; none has a run of its own.

*Sessions and sign-in.*
- A refresh or a login in flight during `revokeAllForUser` inserts a live token after
  the sweep (`users/token.service.ts:97`). The access token signed with it may carry the
  old version and be refused, but the refresh token that survived is accepted next
  time, if the account is still active.
- `changeCustomerPin` and `setPassword` write `tokenVersion` as the loaded value plus
  one; racing an `$inc` they can repeat or lower it (`clobbered`).
- A caller whose own refresh runs during its PIN change loses the family that was
  to be kept: it is looked up by a token that is no longer live.
- A grant killed between its save and its mail leaves a half-created admin; of
  two concurrent grants, the rollback of one undoes the other; a `setPassword` that
  overlaps `revokeAccess` can clear `revokedAdminAt`.
- `resetCustomerPin` makes a revoked admin an active customer again.

*Orders and couriers.*
- Two patches may both dispatch automatically (`orders/order.service.ts:253`): each
  looks before the other has recorded. Cancelled orders can be dispatched by hand.
- The answer's `stock` outlives the transaction's attempts, and says a movement
  also when the attempt that committed moved nothing (289-290). It never hides one.
- A Steadfast answer of 200 whose body is unreadable counts as success with the
  consignment id `""`, so an automatic dispatch may send the parcel again. A
  timeout, an error status after the booking (`courier/steadfast.ts:36`,
  `courier/pathao.ts:63`), or a failed last transaction leaves a parcel the order does
  not know.

*Cache and settings.*
- A fill between the two `DEL`s of `cacheInvalidateIndex` leaves a cached key outside
  its index until its TTL; stock invalidates before its commit
  (`orders/stock.service.ts:53,66`), so a read in between caches the old count.
- `reencryptSecrets` writes without a version: it overwrites a secret updated
  meanwhile, and an update in flight puts old-key envelopes back.
- The script and the repository's `README.md:19-26` rotate first and deploy the new key
  afterwards. In between, the running deployment knows the old key alone: it cannot
  decrypt a secret (`tests/settings.test.ts:233-235` shows the error), so the admin
  form and the dispatch to a courier fail, while a form that was already open can
  still be saved, as the script leaves the version alone: the write stays though its
  answer fails, and seals what it sets under the key about to be discarded. "Then
  deploy the new key and discard the old key" loses such a secret, unless the
  script is run once more first. Deploying both keys before the script runs
  (`SETTINGS_ENCRYPTION_KEY_PREVIOUS`) avoids the outage, but not the update in flight.
- A restore brings back an old version number, so that a form opened before it may
  match again, and it invalidates no cache.

*Catalog.*
- Deletions of media and categories check, then act; a write in between dangles.
  A row registered again during the deletion of its asset outlives the asset.
- `replaceCategories`, "all-or-nothing" by its comment (`categories/category.service.ts:97-98`), leaves
  parked names when it is killed, or meets a duplicate name, between its phases.
- Removing a rating is called the exact inverse of adding one
  (`reviews/review.service.ts:88`); with a rounded average it is not.
- An import killed between `deleteOne` and `create` leaves products without their
  category until it runs again. It skips rows whose id repeats, compares names
  case-sensitively where the index does not, and keeps a `reviewCount` lower than
  the reviews it imports.

*Outside the models.* `loginWithGoogle` does not look for "already linked" again on
its duplicate-key path (`auth/auth.service.ts:143-149`); two concurrent `addAddress`
may leave two defaults.

## 5. Proofs

Every theorem holds for every value of the constants its module's assumptions
allow: any number of documents, requests, function instances, settings.

### OrderStoreProofs

| theorem | statement |
|---|---|
| `StoreSound` | `Spec => []Sound` |
| `TypeCorrect` | `Spec => []TypeOK` |
| `StockIsConserved` | `Spec => []StockConserved` |
| `OrdersHoldWhileLive` | `Spec => []HeldIffLive` |
| `EveryUseHasItsOrder` | `Spec => []RedemptionsBacked` |
| `PaidOnlyWhenVerified` | `Spec => []PaidWasVerified` |
| `SuspicionIsReversible` | `Spec => []FakeFlagReversible` |
| `ArchivedIsNotSold` | `Spec => ArchivedNotSold` |

*Assumptions* are those `OrderStore` names: the absent value is no value, there
are finitely many order ids and quantities are bounded, carts and patches are
what the request schemas let through (in particular no patch sets `ADVANCE_PAID`
or `FAKE_SUSPECTED`), imported documents are what `seedImport/importSeed.ts:384-418`
writes.

*Argument.* `TypeOK` is not inductive: `PlaceOrder` overwrites the record of an id
no document has, and an operation that found stock, a coupon or a bKash id in
such a record would lose it. `UnusedIsBlank` says there is nothing in it.
`Sound == TypeOK /\ UnusedIsBlank` is inductive, one lemma per family of actions
(`PlaceOrderSound`, `ExpireOrderSound`, `PatchOrderSound`, `OrderEditSound`,
`SaveProductSound`, `CatalogSound`). Every other theorem is an invariant
inductive relative to `Sound`.

`StockConserved` counts units as pairs of an order and a number, so that a
product's held units are the cardinality of a set. `UnitsSplit` and
`UnitsOfOne` give the cardinality after an order starts or stops holding, and
`Exchange` what a checkout that also expires a set `X` of orders does: the units
of `X` leave and those of the new order arrive. `PlaceOrderConserves`,
`ReleaseConserves`, `ReserveConserves` and `NothingMovedConserves` then cover
what any operation can do to stock. `RedemptionsBacked` is an equality of two
counters: the set of orders that carry a coupon gains exactly the new order.
`StepHeldIffLive`, `StepPaidWasVerified` and `StepFakeFlag` are case analyses of
the patch: what `Patched` writes, and what each stock movement does to the flag.

### OrderTxnProofs

| theorem | statement |
|---|---|
| `TransactionsTyped` | `Spec => []TypeOK` |
| `CheckoutsHaveOneOrder` | `Spec => []OneOrderPerCheckout` |

The invariant is `Orderly`. `Fits` says what a request has at each statement: a
transaction exactly at the statements inside one, an order, something left to
move. `Agrees` says what its snapshot is worth while others commit: which orders
exist is seen rightly for every order that was neither written nor missed; a
written order is not missed and exists, but for the one a checkout is about to
commit, which exists nowhere else. With `Exclusive` (no two transactions hold one
document) it makes the commit sound: an id that a checkout saw free, and may write,
is free (`SeesOrders`). `Placed` then follows the ids: an order is a seed or the
order of a checkout that committed, and two of those never share one.

`RequestMoves` covers every step that leaves the database alone, given that the
request may move so (`MayMove`); a statement only shows that. `ClosingKeeps`,
`BeginningKeeps` and `WritingKeeps` are its three uses; `CommitKeeps` and
`EnvironmentKeeps` the steps that change the database. `MinIsLeast` (stock is moved
in the order of the ids) rests on the well-foundedness of `\subset` on finite sets.
The count in `OneOrderPerCheckout` follows because the orders placed are an image of
the checkouts that may have committed.

Assumed are that the three sets of requests are disjoint and checkouts finitely many
(`RequestsApart`), that carts, patches and seeds are documents
(`InputsAreDocuments`, `SeedsAreOrders`, `EnvironmentTouchesDocuments`), and that
`None` is no id or document (`NoneIsNoId`).

### OrderRefinementProofs

| theorem | statement |
|---|---|
| `TransactionsAreOperations` | `Spec => CommitsAreOperations` |

The theorem says that the statements of any number of checkouts, patches and cron
runs, on snapshots that others overtake, add up to whole operations on the documents
*as they are at the commit*. With it the safety theorems of `OrderStoreProofs` apply
to the committed documents. The invariant, `Refining`, adds to `Orderly` what an open
transaction would do if it committed now:

- `SnapshotAt`: the snapshot equals the committed documents but for what the
  transaction wrote or misses, and knows every bKash id that is taken and not missed.
- `ExpiryAt` (checkouts and the cron): the orders written, `Turned`, are still pending
  and stale in the database, and are expired in the snapshot. For each product
  `snapshot stock + Due + Sold = committed stock + Back(Turned)`: what the expired
  orders held is in the snapshot, less what the checkout took (`Sold`), but for the
  lines the current release has still to put back (`Due`). A product that is not
  written is owed nothing.
- `CheckoutAt`, `CronAt`, `PatchAt`: the coupon has one use more than the committed
  one, which has a use to give; the new order and its bKash id are held; the cron
  writes one order; a patch writes its order as `Patched` says and moves the lines
  worked off so far.

`WorldMoves` shows that this survives another commit: such a commit changes only
documents the transaction now misses, and a transaction never holds what it misses
(`Write` refuses, `Exclusive` keeps two from holding one document), so everything the
invariant says of a written document still holds. Each statement then has a lemma that
moves the accounts by one line (`ReleaseLineHolds`, `ReserveLineHolds`,
`ExpireOneHolds`, ...). `Back` is the cardinality of a set of pairs; `BackOfOneMore`
adds one order to it. `CheckoutCommits`, `CronCommits` and `PatchCommits` read the
invariant at `commit` as `PlaceOrder`, `ExpireOrder` and `PatchOrder`;
`InitIsStoreInit` and `StepsOperate` are the two halves of the simulation.

The assumptions are those of `OrderTxnProofs`, with three of their clauses needed only
here: a cart is not empty (the schema asks for a line), there are finitely many order
ids, and `None` is no bKash id.

### DispatchProofs

| theorem | statement |
|---|---|
| `DispatchImplementsStore` | `DispatchSpec => Spec`, the specification of `OrderStore` |
| `DispatchTypes` | `DispatchSpec => []DispatchTypeOK` |
| `NobodyPaysTwice` | `DispatchSpec => []CollectsExactlyDue` |
| `ParcelsAreAccounted` | `DispatchSpec => []ParcelsAccounted` |
| `AutomaticNeverResends` | `DispatchSpec => []AutoNeverResends` |
| `StockIsAnswered` | `DispatchSpec => []StockAnswered` |

By the first, the theorems of `OrderStoreProofs` hold of the composed system:
each step of a request, of a courier or of a checkout with amounts is an operation
of the store or leaves its documents alone. The invariant is `Collecting`: every
order has a bill from its first moment (`Billed`), a bill's parts add up, and a
request that has read what is due (`Informed`) remembers the amount of that bill.
The arithmetic is `Split`'s, for any subtotal, discount, zone and delivery settings;
sums over a cart are folds, about which nothing can be proved by induction, so
`AmountsAreCounts` assumes a subtotal is a natural number. TLC evaluates that
assumption in the run. `NothingImported` restricts it to orders placed here,
`QuotesAreOrders` and `WorkKnown` are typing.

For the last three, the invariant `Accounted` adds to `Collecting` what a request may conclude from where
it is. `Underway`: before `PostOrder` there is no parcel, a request that is about to
record has a booked one and an answer that counts as a success, and `stock` repeats
`moved` once the patch has committed. `Noted`: a request that ended with a parcel and
heard of it finds a consignment on its order; one that saw a consignment at its
arrival still finds one, since nothing clears it. `Told`: the consignment of an order
was written by a request that is done, and its id is empty only after an unreadable
answer of Steadfast. `Told` rests on requests that are done and therefore never move
again, which is what makes the invariant survive the steps of the others
(`ParcelMoves`). The one fact needed of the store is `StockMoves`: a patch flips
`stockDeducted` only in the direction of its action. In the run the exception of
`AutoNeverResends` cannot occur, as it takes a third request; the theorem covers it.
`NoneIsNoParcel` (no record is the value `None`) is typing.

### SessionsProofs

| theorem | statement |
|---|---|
| `SessionsTyped` | `SessionSpec => []SessionTypeOK` |
| `SessionsHaveOneToken` | `SessionSpec => []OneLiveToken` |
| `SessionsStayEnded` | `SessionSpec => []EndedStaysEnded` |
| `KilledTokensStayKilled` | `SessionSpec => []KilledStaysKilled` |

`SessionSpec` leaves the requests of `SignIn` to `Elsewhere`, a rely condition that
`SignInProofs` shows `SignIn` to keep. `Typed` adds to the types that a request
working on a token knows it and its family (`Bound`). `Families` is what makes one
token per family inductive: a family is named by an issued root, at most one
request is inserting into it, and then no token of it is live; an ended family has
neither. `Versions`: no token carries, and no request will sign or save, a later
`tokenVersion` than its user has, unless that user is `clobbered`.

### SignInProofs

| theorem | statement |
|---|---|
| `SignInImplementsSessions` | `Spec => SessionSpec`, the specification of `Sessions` |
| `SessionsHoldInSignIn` | `Spec => [](OneLiveToken /\ EndedStaysEnded /\ KilledStaysKilled)` |
| `GuessesBounded` | `Spec => []CodeGuessesBounded` |
| `CodesLetOneIn` | `Spec => []OneSessionPerCode` |
| `WindowsHold` | `Spec => []WindowLimits` |
| `FailuresLockKeys` | `Spec => []FailuresLock` |
| `InvitesRollBack` | `Spec => []NoHalfCreatedAdmin` |
| `SignInTyped` | `IsFiniteSet(Request)` implies `Spec => []TypeOK` |

A statement of `SignIn` *advances* a request (`Advance`) and may edit users, but never
their versions (`Edited`). That this is a step of `Sessions!Elsewhere` needs one
invariant, `Approaching`: at every statement from which a session can still be
entered (`Waiting`) a request holds no family, and no later version than its user
has. `Elsewhere` then gives the theorems of `SessionsProofs` for the whole.

`Codes` is the invariant of one-time codes. For each of them (`Counted`) the guesses
made, and the requests that have counted an attempt and are about to guess, are
together no more than the attempts counted; a code in use has not been used; a
code nobody was sent is known to no request. The steps that count, guess, use or
insert have a lemma each; every other step `Settles`. `Windows` says an open window
has counted all it let through, and nothing is remembered of a closed one.
`Lockouts` needs of a step that a request leaves `lock` only by locking the key or by
being killed; `Invitations` that an account carries the token of a grant about it,
and that each write that ends an invitation leaves no admin without a password.
`TypeOK` bounds the failures a lockout has counted, which no single step shows: a key
may be written by any request, also by one that read it long ago. `Keys` counts
instead the requests that have left the statement that counts a failure (`Leavers`):
none comes back, each adds one failure at most, and there are finitely many.
`Minds` and `Accounts` type what requests remember and the accounts of admins.
Assumed are `SignInConstants` and `AdminsHavePasswords`: the admins there are at the
start have set theirs.

### SettingsProofs

| theorem | statement |
|---|---|
| `SettingsTypeCorrect` | `Spec => []TypeOK` |
| `SecretsStayReadable` | `Spec => []SecretsReadable` |
| `UpdatesAreSerial` | `Spec => []UpdatesSerial` |
| `StaleIsExplained` | `Spec => []StaleExplained` |

`Rotating` says, for each stage of a key change, under which keys the document and
the updates in flight may hold secrets (`Holds`): only the old key before a run of the
script has ended and while the deployment knows no other (`OldOnly`); from that end on,
and until an update that was behind it commits (`late`), only the new one, in the
document and in every update that is not `behind` (`NewOnly`). A deployment with both keys
needs no invariant, and nothing is assumed of when it comes. An update that loads
after the rotation in a deployment with the old key alone is behind by definition;
one that loads with the new key in its ring has loaded new envelopes, and seals new
ones. `Handled` follows the views a step touches: whatever the commands and
their failures, a cached value falls behind only with its deletion queued or its
excuse recorded. `Serial` says of every update about to commit (`CasRight`) that
what it loaded is still the truth, or its version no longer matches, or a restore
came between, which exempts every part; the same for the secrets a rotation
has loaded (`RewriteRight`). It rests on versions that only a restore lowers.
Assumed are `PartsDistinct`, `NoneIsNoSecret`, `NoneIsNoView`, `InitialOldKey` (the
document starts under the old key), and the typing of hosts,
workloads, patches and the initial document.

### CatalogProofs

| theorem | statement |
|---|---|
| `AlwaysTyped`, `TypesHold` | `Spec => []Typed`, `Spec => []TypeOK` |
| `CategoriesAreKept` | `Spec => []NoDanglingCategory` |
| `PicturesAreKept` | `Spec => []NoDanglingImage` |
| `AssetsHaveRows` | `Spec => []AssetHasRow` |
| `CountsAreKept` | `Spec => []CountMatchesReviews` |
| `ReplacementsTakeEffect` | `Spec => []ReplaceTakesEffect` |
| `ImportsComplete` | `Spec => []ImportComplete` |

`Spec` is that of `SeedImport`: the services and any number of imports, together. The
assumptions are `CatalogConstants` and `ExportConstants`.

*Typing.* `Typed` adds to `TypeOK` where each kind of job can be (`Requests`), what it
knows there, and that what an import has left to do are rows of its files in the
order of the plan, with every category of the files held or still to do (`Planned`,
`Orderly`). That a slug is found is a pigeonhole: among one more candidate than there
are documents one is free, and the least of them exists by the well-foundedness of `<`.

*Each step as one of a few.* `Writes` sorts the steps of any request by the collection
they write (`CategoryWriter`, `ProductWriter`, `ReviewWriter`, ..., `FreshWriter`), and
says that `raced` only grows and `calm` gains at most the request itself; `Goes` says what a request may remember
afterwards. The invariants then are about writers, not about thirty statements.

- `CategoryInv`: a category that a request has looked up or holds is there, or has been
  removed under it (`CategorySafe`); one that is about to be removed has no product, or
  was written meanwhile. This is what makes `NoDanglingCategory` inductive: the check
  that makes a deletion safe lies several statements before it.
- `ImageInv`: an asset about to be destroyed is not in use, or has been named meanwhile
  (`DestroySafe`).
- `RowInv`: a row that will be deleted is that of an asset already gone (`RowsDoomed`),
  whose publicId can come back only with an import that was going to upload it
  (`UploadsRaced`); an upload's publicId is new until then. `Worked` (the jobs are those
  of one workload) is where `OwnUpload` enters.
- `Counted`: the count of each product is its baseline and its live approved reviews,
  writer by writer: a creation sets the baseline against the reviews its id already
  has, an import of an approved review takes one from it, and a forced deletion of one
  gives it back. Both count changes are in the transaction of the review; the work is
  the cardinality of a set that gains or loses one review.
- `ReplaceInv` follows a replacement nobody disturbed through its phases: the rows to
  purge are those not listed; after the purge only listed ones are left; at each
  statement of the last phase, the rows before it are final and the others parked
  under their own ids, so that no name is taken, whatever names are swapped.
- `ImportInv` does the same for an import: what its files name is in place or still
  to do (`KeepsPromise`), nothing foreign stands in the way of the rest, and the document
  about to be created is not there. It holds from any database, hence also from what a killed
  run left. Orders are written by imports alone (`OwnOrders`), and one that writes an
  order disturbs every other (`OrdersStayCalm`).

The last two speak of requests in `calm`. A step of another request either writes
nothing they rely on or removes them from it (`ReplaceOthers`, `ImportOthers`).
TLC checked each of these invariants on the workloads of `catalog` first.

### What is only model-checked

Every invariant the passing runs check is a theorem, and so are all their safety
properties of steps. Liveness (`EveryRequestAnswered`, `RequestsEnd`,
`EventuallyFresh`) is outside the reach of the proof system, as is what a fold
computes for every cart.

## 6. What is left

All the modules planned are written. What a next step would add, in order:

1. `StockConserved`, `HeldIffLive` and `RedemptionsBacked` of the committed documents of
   `OrderTxn` as theorems of their own, from `TransactionsAreOperations`.
2. The code text of a coupon (unique, reused after deletion), the running average
   of ratings, and a restore of the other collections beside open transactions.
3. The exceptions of section 4 as changes to the code; each is the removal of a
   disjunct from a property.

## 7. Not modelled, and why

- Cryptography (hashing, JWT, AES) and HTTP are libraries. A secret is its writer and
  its key, a comparison is a free choice.
- Notifications are output nobody reads back; every channel's failure is caught.
  Mails that carry a code or an invitation are in `SignIn`.
- Registration, Google sign-in, profile and addresses are inserts or edits of one
  document, guarded by unique indexes; the wishlist is one idempotent update.
- Reads that change nothing (lists, search, related products, `salesMetrics`,
  health checks), except where a later write depends on them.
- The OpenAPI document, validation schemas, serializers and routing hold no
  state; what a schema excludes is in the assumptions.
- The text of coupon codes, the rounded rating average, the last bit of a double
  (`net + fee` may differ from the sum of its rounded parts by one ulp;
  percentages are whole numbers).
- Restore of collections other than settings, beside open requests on them.
- Orders the import writes are initial states of `OrderStore`; `Dispatch` leaves them
  out, because their amounts come from the files. An import beside open orders is
  not composed with `OrderStore`: customers place no orders while `SeedImport` runs,
  and under force it deletes and writes orders and products anew, with the stock
  count and the flags of the files.
- `releaseCoupon` (`coupons/coupon.service.ts:158`), and the decrement and resetKey of
  the rate-limit store, have no caller.
