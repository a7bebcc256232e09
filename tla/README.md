# A formal model of rxjshop

TLA+ modules, TLC configurations and TLAPS proofs for the NestJS shop in
`apps/rxjshop_v2` and the library `libs/shared` that it stands on. Paths below are
relative to the repository; `APP` is `apps/rxjshop_v2/src`.

The shop keeps its state in Postgres (TypeORM), in Redis and in S3, and keeps the
three in step by hand: a handler is a sequence of awaited calls, with no lock
and, apart from products, no transaction around it. Node runs one handler at a
time between two awaits, so that every `await` is a point where another request may
come in, and where the process may die with half of the work done. That is what the
models are about: each request is a process, each awaited call that touches shared state is
an action, and every request may be aborted at every await. (Rejected calls stand for that, and in `Carts` a `Fail` that still runs the
code's `catch`; the one connection to Redis itself is never lost.) Calls that are started and *not*
awaited (removals of files, fillings of the cache) are processes or pending statements of their own.

## Inventory

| Component | State it keeps | Operations | Hard behaviour | What makes it correct |
|---|---|---|---|---|
| Signed-in sessions (`APP/auth/services/auth.service.ts`, `keyToken.service.ts`, `strategies/`) | table `key-tokens` (one row per user: key pair, refresh token); Redis `AC_TOKEN:<user>`; tokens held by clients | `login`, `refreshToken`, `logout`; strategies `jwt`, `jwt-refresh` | find-then-create, `save()` writing only dirty columns, row and cached key written one after the other, TTLs | the key pair of a row belongs together; the cached key lasts as long as its tokens; both stores agree when nothing is in flight |
| Registration (`auth.service.ts`, `otp.service.ts`) | table `users`; Redis `OTP:<email>`, `register:<email>` | `ConfirmEmail`, `vertiyOtp`, `register` | three requests linked by expiring entries, mail sent before the code is stored | no account without a verified address; answers are true; nothing is left behind |
| Rate limiting (`libs/shared/utils/middlewares/rateLimit.middleware.ts`) | one Redis counter per address | `use`, in front of every route | INCR and EXPIRE apart, TTL rounding, crash in between | at most the limit per counter; no early reset; no immortal counter |
| Passwords (`auth.service.ts`, `APP/user/services/user.service.ts`, `APP/user/entities/user.entity.ts`) | column `password`; Redis `token-forget-password:<user>` | `forgetPassword`, `changePassowrd`, `changePassword`, `updateUser` | entity hooks that some writes run and others do not, an entity loaded by the strategy and written back later | the password in force is the one last confirmed, and it signs in |
| User profile (`user.service.ts`) | table `users`, avatar in S3 | `updateUser` | upload, row and removal of the old file | as for media |
| Generic repository (`libs/shared/bases/base.repository.ts`) | none of its own | `create`, `update`, `updateBy`, `updateById`, `updatePassword`, `deleteBy` | `getOneOrFail` does not await, so a missing row is `null` and fails one step later | see its users |
| Redis service (`libs/shared/redis/redis.service.ts`) | one shared connection | strings, counters, TTLs, JSON, search, WATCH/MULTI | WATCH state of a connection that all requests share | see its users |
| Media (`libs/shared/media`) | S3 objects, table `medias`, the field `manager` of the service | `handlerFile`, `upload`, `deleteMediaById`, `DELETE /media/delete`, subscriber on commit and rollback | a transaction manager kept in a singleton, so that one request's rows travel over another's connection; a file uploaded before its row; removals that are not awaited | a row has its file; no file without a row is left behind; every file goes through one life |
| Products (`APP/products/services/products.service.ts`) | table `products` and its detail tables `electronics`, `clothing` | `createProduct`, `updateProduct` | a transaction that reads over a second connection and caches before it commits | row and detail row together or not at all; an update stores what was sent, with its caller as the shop, and nothing else; every request is answered |
| Product cache (`productCache.service.ts`) | Redis `product:<id>`, index `idx:product` | `initProductCache`, `setProduct`, `deleteProduct`, `getProductById`, search | filled in the background, only if empty, over what others write meanwhile | the cache shows the rows |
| Carts (`APP/carts/services/carts.service.ts`) | Redis `cart:<user>`, `product:<id>_`, the watched keys of the connection | `addToCart`, `emptyCart`, `deleteCartItem` | optimistic locking over a connection that all requests share; a counter moved outside the transaction | a cart never gains more than its counter was given; a modified product fails the EXEC |
| Chat (`apps/chat`) | conversations, messages | gateway events | find-then-create | does not start: nothing provides its gateway and repositories |
| Posts and abilities, API stub, RabbitMQ library, guards, filters, interceptors, DTOs, wiring | none that changes | | | |
| Welcome mail (`APP/auth/consumers/email.comsumer.ts`) | a Bull queue | `register` job | | its consumer is no provider of any module, jobs are only queued |

How they interact: the rate limiter runs before every route; the `jwt` strategy reads the
`AC_TOKEN` entry that login, refresh and logout write, and loads the user that
`changePassword` and `updateUser` go on to use; `register` inserts the user that
`login` looks up; product and avatar uploads go through the one `MediaService`;
carts read and write the product documents that the product cache owns.

`PROJECT.json` lists the hazards of this code, each at its line, with the properties that
cover it or the reason why none does.

## Modules

* `Sessions` – requests in flight, the rows (`keyTokens`), the Redis entries (`acTokens`) and
  the tokens that clients hold. `StartLogin`, `StartRefresh` and `StartLogout` are a
  request up to its first write or lookup (the strategies are their guards); `LookupRow`,
  `CreateRow`, `FetchRow`, `LoadRow`, `FlushRow`, `InsertRow` are the queries behind
  `updateKeyToken` and `createKeyToken`, with TypeORM's `save()` split into the SELECT that
  finds the dirty columns and the UPDATE or INSERT that follows; `CacheKey` is the end of
  login and refresh; `FindRow`, `DeleteRow`, `ForgetKey` are logout. Both keys
  drawn by one login are one *key generation*. `Tick` is the clock.
* `RateLimit` – the counters and the requests between `INCR`, `TTL` and
  `EXPIRE`. The code only asks whether a count is 1 and whether it exceeds the limit, so that the
  model counts to `Limit + 1`. `TtlReply` rounds as Redis does.
* `Registration` – the table of addresses, the codes and flags in Redis, and the three handlers,
  each from its lookup of the address on. A confirmation nondeterministically fails to
  deliver its mail, as the handler ignores such a failure.
* `Passwords` – the column as a text and the number of times it was hashed (two means two or
  more: `bcrypt.compare` then fails either way), the reset tokens, and for each request in flight whether
  the row it loaded has been written since. The comparison of the reset token is a promise that is not
  awaited; it counts as true, as in the code.
* `MediaLife` – the abstract specification of one file: absent, stored, kept (its row is committed), stored
  again, gone; and lost, its row committed over a missing object, which only the route that deletes an object can bring about, after the
  COMMIT of the row or before it.
* `Media` – S3 (`files`, and `erasing` for deletions that were sent and not awaited), the committed
  `rows`, the links to files in the products' rows, documents and the users' rows, the shared `manager`, and for every
  transaction its connection: `conn[c]` is the queue of statements sent over it, in pg's order. `StartCreate`,
  `StartUpdate`, `StartAvatar`, `StartUpload` are the four kinds of request; `Upload` is the PUT to S3 and the choice
  of the branch of `upload()` by the manager; `LoadMedia` and `InsertMedia` are TypeORM's `save()` through that
  manager, whoever's it is; `FindMedia`, `ReloadMedia`, `DeleteMedia` are `deleteMediaById`; `Commit` and `Rollback` come
  with the subscriber's hooks. `RemovalRejected` is Node's exit on the rejection of a removal that nobody awaits.
  `Discard` is the route `/media/delete`, which checks nothing: any key that was ever drawn may be deleted, whether its row is on its
  way, committed, refused or gone.
  `used`, `byHand` and `orphans` are history: the keys that were drawn, the objects deleted by hand, and the files that a finished
  manager refused (`Unknown` once requests overlap or the outside fails). `LifeSpec` maps each file to its place in
  `MediaLife`: the refinement that shows that `Media` implements it.
* `Catalog` – a product as two parts, the attributes that its detail row repeats and the shop, which the controller sets to the caller
  of every update: `rows`, `details`,
  `docs`, the requests in their transactions, the fillings of the cache, and the pool of connections
  (`InUse < PoolSize`). `ReadDoc`, `WriteDetail`, `FetchProduct`, `SelectProduct`, `WriteProduct`, `DeleteDoc`, `SetDoc`,
  `Commit` are the awaits of an update in order; a creation enters at `WriteDetail`. `ScanDocs`, `LoadProducts`, `FillDoc` are
  `initProductCache`; the scan passes one key at a time, so that it may miss a document that comes behind it, and may end at any key, since
  the pattern `product:*` also matches the counters `product:<id>_` of `Carts`. `calm` and `stale` are history: the products on which
  nothing failed and no writers met, and the clothing whose detail row an update has left behind.
* `Carts` – the documents' stock, the counters, the carts, and the connection's `watched` keys with the flag that makes its
  next EXEC fail (`dirty`). The actions are the awaits of `addToCart`, with its refusals of a quantity below zero and of a step other than one (`Refused`), and `Fail`, a
  rejected call: before the `try` the request ends and its keys stay watched, inside it the `catch` unwatches. `DeleteDoc` and `PutDoc` are what an update of the product does to its
  document (`Catalog` has the update itself). `credited`, `bought`, `served` and each request's `keys` are history.
* `MCSessions`, `MCRateLimit`, `MCRegistration`, `MCPasswords`, `MCMedia`, `MCCatalog`, `MCCarts` – the
  symmetry sets of the TLC instances.
* `SessionsProofs`, `RateLimitProofs`, `RegistrationProofs`, `PasswordsProofs`, `MediaProofs`, `MediaQuietProofs`,
  `CatalogProofs`, `CartsProofs` – theorems.

History variables (`contended`, `phase`, `stage`, `known`, `last`, `age`, `admitted`,
`standing`, `delivered`, `verified`, and those named above) record what happened and restrict nothing but what a bound or
a fresh draw names (`used`, `byHand`, `served`). `contended`
marks the requests that overlapped another one of the same user; the invariants named
`Quiet...` say what holds when the last request of a user overlapped none and succeeded, which is what an answer
promises its client. Under overlap the code does lose updates, and the models show that; the
invariants without `Quiet` hold under every overlap.

Operators commented as mutants are variants of one definition with a plausible mistake. No
specification uses them; `PROJECT.json` names for each property one that violates it.

## Runs

| Run | Instance | Shows |
|---|---|---|
| `Sessions_two` | 2 users, 2 requests, 2 key generations, 2 rows, TTLs 1 and 3; 1,144,182 states | `TypeOK`, `KeyPairIntact`, `QuietStoresAgree`, `KeysBelongToOneUser` |
| `Sessions_live` | 1 user, 2 requests, TTLs 2 and 1, no symmetry; 374,282 states | `CachedKeyOutlivesTokens`, `StrandedKeyDiesOut` |
| `RateLimit_live` | 3 requests, limit 2, a window of 6 ticks, 3 ticks to the second, no symmetry; 117,824 states | `TypeOK`, `AtMostLimit`, `NoEarlyReset`, `DecidedOnMortalCounter`, `WindowsEnd` |
| `Registration_live` | 1 address, 2 codes, 3 requests, TTLs 2 and 3, no symmetry; 320,102 states | `TypeOK`, `AccountsAreVerified`, `QuietStagesAgree`, `LeftoversDie` |
| `Passwords_safe` | 1 user, 2 passwords, 3 requests; 68,940 states | `TypeOK`, `QuietPasswordIsKnown`, `QuietChangeWorks`, `QuietResetIsSpent` |
| `Media_safe` | 2 requests of up to 2 files, 2 keys, 1 product, 1 user; 1,086,367 states | `TypeOK`, `RowHasFile`, `LifeSpec` |
| `Media_calm` | 1 request of up to 2 files, 3 keys, 1 deletion by hand; 318,880 states | `RemovalsBeforeCommit`, `QuietFilesHaveRows`, `QuietLinksHaveRows`, `LifeSpec` |
| `Catalog_safe` | 2 requests, 1 filling, 1 product of 2 attributes × 2 shops, 3 connections; 844,623 states | `TypeOK`, `DetailsExist`, `QuietDocsAgree`, `DetailsAgree`, `UpdatesStoreWhatWasSent` |
| `Catalog_live` | 2 requests, 1 filling, 2 connections, no symmetry; 5,895 states | `AnswersCome`, `FillingsEnd` |
| `Carts_safe` | 2 users, 2 requests at a time and 3 in all, quantities −1 to 2, steps −1 to 2; 2,106,295 states | `TypeOK`, `BoughtWithinCredits`, `OptimisticLock` |
| `Passwords_reset` | 1 user, 1 request | `ResetWorks` is violated |
| `Passwords_profile` | 1 user, 1 request | `ProfileKeepsSignIn` is violated |

The bounds. Users share nothing but the uniqueness of keys and row ids, which
`Sessions_two` is about; everything else concerns one user, one address or one counter
at a time, and one is enough there. Two requests are what a race needs, and
with two any number can follow one another; three, where affordable, let a third slip in
between the halves of two others. Two keys, codes or passwords tell old from new. A lifetime of one to three ticks
puts an expiry before, between and after the steps of a request; the two lifetimes differ
wherever the code's do. A window of two seconds of three ticks makes `TTL` reply
2, 1 and 0. `Limit` is 2, the least value for which the first and the last request of a quota
are different ones. In `Sessions_live` an access token outlives its refresh token, so that a key may be cached a tick
after its token was signed within few states; in `Sessions_two` it is the other way round, as shops set them, so that
tokens are refreshed after their predecessors lapsed. Keys are drawn from those that no store, client or request still knows, which is what
64 random bytes amount to; when none is free a login waits.

`MaxFiles` and the number of S3 keys bound what `Media` may upload in one behaviour: with two keys, two requests can each
have a file and one request can fail between its first and its second; with three, `Media_calm` can replace one
thumbnail by another in a product of two. `MaxByHand` bounds the files deleted through `/media/delete`: none in
`Media_safe`, whose question is what two requests do to each other's files without it, and one in `Media_calm`, at any time, so that a file is
also deleted between the INSERT and the COMMIT of its row; `LivesAsPromised` proves the two together. In `Catalog` there are
two values of attributes and two shops, so that an update by another or the same user can send attributes, none or such that the detail table does not have
(`Alien`), and a lost or resurrected part shows; `PoolSize` is above the number of requests in `Catalog_safe`, where the pool
is not the question, and equal to it in `Catalog_live`, where it is. Both runs have one product: products meet only in a filling that
stops in the middle, which is described under Findings. `MaxServed` bounds the requests to `Carts` in all, whose
counters would otherwise grow for ever, and `MaxQuantity` what one may ask for; −1 stands for every negative quantity and a step of 2 for every step
but 1 and −1, which are refused alike. The DTO would refuse a quantity below 1, but no route applies it (`carts.controller.ts:24-32` is commented
out).

Deadlock is checked in every run.

Fairness. `Sessions_live` and `RateLimit_live` assume only that time passes (`WF_vars(Tick)`).
`Registration_live` also assumes that a request in flight does not stay there for ever: its
awaited call is answered, is rejected, or its server dies (`WF_vars(Step(r) \/ Abort(r))`);
Node, the drivers and the process manager between them leave no fourth outcome. No run assumes
that a request succeeds, or that one arrives.

`Catalog_live` assumes strong fairness of each request's and each filling's next step: Postgres and Redis answer, and what
is waited for, a connection of the pool or the lock on a row, is granted to those in its queue before newcomers (pg-pool and
Postgres both keep queues), so that a step that is possible again and again is taken. `AnswersCome` and `FillingsEnd` have one escape, and
it is the code's: an update holds a connection while it waits for a second one, and when updates hold all
of them the pool stays exhausted for ever.

`WindowsEnd` is as strong as the code allows: a counter may be renewed for ever by requests that
hit its last half second, or stay immortal when the server dies behind every INCR; the property names
these two escapes and excludes every other.

## Findings

* `ResetWorks` (`Passwords_reset`): the reset by mail stores the text itself
  (`APP/auth/services/auth.service.ts:68`, a query that runs no hook), `login` compares with bcrypt, and the new
  password is refused after 'Change password successfully'.
* `ProfileKeepsSignIn` (`Passwords_profile`): the `BeforeUpdate` hook hashes in both of its
  branches (`APP/user/entities/user.entity.ts:54-62`), so that every effective profile update hashes the hash and locks the user
  out. A profile update after a reset happens to repair it: it hashes the text once.

Beyond these two runs, modelling showed the following, which the passing properties name as their exceptions:

* The pool can be exhausted for good: `updateProduct` (`APP/products/services/products.service.ts:208`) reads the product through the
  repository, over a second connection, inside its transaction. pg's default pool has ten connections and waits without a timeout.
  With as many connections as requests TLC finds that state in `Catalog_live` as soon as the first disjunct
  of `AnswersCome` is dropped.
* Nothing clears `MediaService.manager` after a product's transaction
  (`libs/shared/media/services/media.service.ts:28`): from then on every upload on its own is refused after S3 has stored its file.
  These files are `orphans`, which `QuietFilesHaveRows` allows and nothing else.
* Every update makes its caller the product's shop: the controller adds `product_shop: user` to the payload
  (`APP/products/products.controller.ts:98`), and the roles that would restrict the callers are commented out (`:82`). The shop of
  the detail row is set when it is created and never again, so that the two name different users from then on.
  `UpdatesStoreWhatWasSent` says that the row gets just that and what was sent.
* `Clothing.updateProduct` writes to `ElectronicEntity` (`APP/products/services/products.service.ts:286-291`). Attributes
  that electronics do not have are refused; one that both have, the colour, changes the product and leaves its clothing row as it was.
  `DetailsAgree` excepts exactly the clothing to which that has happened (`stale`); drop the exception and TLC shows it.
* `/media/delete` deletes the object of any key (`libs/shared/media/controllers/media.controller.ts:54-57`). When the key's row is still in an
  open transaction, the COMMIT that follows puts the row over a missing file. In `MediaLife` that is the move from gone to lost.
* `initProductCache` (`APP/products/services/productCache.service.ts:29`) takes one document for a filled cache: when the
  server dies in the middle of a filling, the other products are never cached again, and without a document they can be neither found nor updated.
* The connection to Redis is shared, so that the EXEC or UNWATCH of one request forgets the keys of all
  (`APP/carts/services/carts.service.ts:42`); `OptimisticLock` holds up to exactly that. And a step by one writes
  the document that it watches itself (`:102`), so that it only ever succeeds after another request has made the connection forget.
* A request that is refused for lack of stock has lowered the counter (`:72`), and `incrementBy` raises the counter it should lower
  (`:90`); `BoughtWithinCredits` counts such raises as credits.
* The document that an update caches carries the quantity of the row, which knows nothing of what carts took from the document.

## Proofs

All theorems hold for every value of the constants that the modules' assumptions admit. Each module of proofs has one
inductive invariant, or several that are stacked on one another; its named conjuncts are defined and commented there.

* `SessionsProofs` – `TypeCorrect` (with `RowFetched`: a request about to save or delete has
  a row id).
  * `KeyPairsStayIntact`: `KeyPairIntact` alone is not inductive, because `save()` writes only the columns
    in `dirty`. The strengthening `LoginsCarried` adds that every request carries a pair of one login,
    and that at `flush` the dirty set contains either both keys or neither. That holds because the
    SELECT compared both columns of an intact row, and the row can only have changed since to another intact pair
    that, if it was equal before, is overwritten in neither column or in both.
  * `CachedKeyOutlives`: the same invariant and `CacheInv`, no access token a client holds has more than `AccessTTL` left; a
    cached key starts with exactly that and ages with it.
  * `KeysStayWithTheirUser` from `OwnerInv`: a key wanders from a request into a row, an entry and a token, and from there by
    a refresh into the next request. `Signed` ties the tokens of a request to its user and keys, `RowsOwned` says that a row belongs to
    the user of its refresh token or, once logged out, to nobody, `RowHeld` that the id a request holds is that of its user's
    row, `UniqueRows` that ids are unique, and `OneOwner` that whoever knows a key, anywhere, is one user.
  * `StoresAgree` from `QuietInv`: the property speaks of users with nothing in flight, so that it needs to be said of a request
    that overlapped no other what it has behind it at each of its awaits (`Solo`: the row it will save is still there,
    the columns not in `dirty` are already as it will answer, and so on). `Overlaps` says that of two requests that overlap each
    is marked, so that an unmarked one has its user's rows to itself.
* `RateLimitProofs` – `LimitHolds` from `Quota`: the places given away and the places held by requests in
  flight together never exceed the count. `WindowHolds` from `FullWindow`: the age of a counter and its remaining
  life make at least one window. `MortalDecisions` (the action property `DecidedOnMortalCounter`) needs only types: `TTL` answers
  more than 0 for no immortal counter. All rest on `Shape` and `TypeOK` (`TypeCorrect`).
* `RegistrationProofs` – `TypeCorrect`; `OnlyVerifiedAccounts` from `PastProof`: a request past the comparison of the
  code, or past the check of the flag, has a verified address; `StagesAgree` from `QuietInv`, built as in `SessionsProofs`.
* `PasswordsProofs` – `TypeCorrect`; `NoPasswordLost`, `ChangesWork` and `ResetsSpend` from one invariant. The `Quiet...` invariants
  speak of users with nothing in flight, so they are not inductive: `Confirmed` extends them to users whose requests do not overlap,
  `Exclusive` says that two requests in flight for one user both know that they overlap, and `Carried` that a request
  without overlap carries the column as it still is. A reset between its write and its answer is the one
  place where the column is ahead of what its user was told (`Settled` excludes it).
* `MediaProofs` – `TypeCorrect`, `RowsHaveFiles`, `RemovalsKeepAhead` and `LivesAsPromised` from `Core`.
  * `Wired` says what is on the connections, and in which order: of a request's own statements there is one at a time, the
    statements of `save()` on all connections together are each awaited by exactly the request they name, and removals keep
    ahead of what is sent behind them (`InOrder`), which gives `RemovalsBeforeCommit`.
  * `Managed`: the manager is no request's, or that of a product's open transaction. An avatar's transaction, which is never the
    manager's, therefore has its connection to itself (`Apart`).
  * `Placed`: a key whose row is on its way is in S3 and not being erased unless it was deleted by hand, is held by one request only, and once inserted by one
    transaction, which nobody but itself deletes it from. Without this a commit could insert a row whose file a rollback of another
    transaction is erasing; with it `RowHasFile` is inductive.
  * `LivesAsPromised` is the refinement: `Lived` lists what a step may do to one key, and each case is a move of `MediaLife` or a
    stutter under the mapping of `Life`. It includes the route that deletes an object at any time: `Stored` says that a key whose row is
    on its way has its file unless it was deleted by hand.
* `MediaQuietProofs` – `QuietFiles` and `QuietLinks` from `CalmInv` on top of `Core`. The properties are about `Calm` executions with nothing
  in flight; `Peace` says of a calm execution what its one request (`Single`) has done so far.
  * `Accounted`: a file has its row, was refused one, is about to be erased, or its row is on its way or inserted. COMMIT makes
    rows of what was inserted, ROLLBACK puts it on the list to erase.
  * `Linked`: links have rows, except those of an avatar between the COMMIT that removed its row and the write to its user; nobody
    shares a link; a cached document shows its product or what is about to be committed, so that the files an update removes are
    its own product's.
  * `Bound`: the links the request will store are nobody else's, have rows or inserted ones, and are none that it deletes.
  * `Staged`: nothing is sent behind a ROLLBACK, and no look-up of a removal is still unanswered when one is sent. A removal that
    outlived its transaction would delete a row by itself. Only a DELETE may still be on its way: the ROLLBACK behind it undoes it,
    or it fails in a transaction that is broken already, which stops the server and ends the calm.
* `CatalogProofs` – `TypeCorrect`; `RowsComeTogether` from `Carried`, what a request has read and will write, by where it is;
  `AttributesAgree` (for `calm` products that are not `stale`), `CacheFollows` and the action property `UpdatesAreExact` from `Orderly`, said of every product that is still
  `calm`: it has at most one writer or one filling (`Alone`); what that writer will store is the row with what was sent although it was put
  together from two reads (`Stores`); the cache shows the row, or nothing, or between `cache` and `commit` what the writer will commit
  (`Shows`); and where it shows nothing somebody is about to fill it (`Awaited`).
* `CartsProofs` – `TypeCorrect`; `NoOverselling` from `Covered`: what the counter still grants, what was bought and the units that
  requests took from the counter and have not yet put into a cart never exceed what was credited. It needs `Counted` (a
  document is below zero only when its counter exists, so that no counter is set up with a negative stock) and
  `Stepping` (what is refused does not reach the counter). `LockHolds` (the action property `OptimisticLock`) needs `Watching`: keys that nobody modified or made the connection forget
  are watched, and a modification leaves the mark that fails the EXEC.

Assumptions on constants are the named ones of the modules: lifetimes are positive, `Requests` is finite where requests are
counted (`RateLimit`), `Keys` is finite in `Media` (an update sends its removals in some order of a finite set), and the values that
stand for "none" differ from the others. Nothing is assumed about the number of users, products, files or quantities.

Only model-checked: the liveness properties (`StrandedKeyDiesOut`, `WindowsEnd`, `LeftoversDie`, `AnswersCome`, `FillingsEnd`),
which need fairness and ENABLED and are beyond the proof system. Every invariant and action property of the runs is a theorem.

## Not modelled

Chat, posts, the API stub, the
RabbitMQ library and the welcome mail consumer are not reachable from the running application. Guards,
filters, interceptors, DTOs and wiring keep no state. Inside the modelled components: the text of tokens, codes and mails,
the hashing itself, the cookie's `maxAge`, input validation, and reads that change nothing (`me`, `check-admin`). A failed
database or Redis call is a request that ends where it stands.

Of media, `updateACL` only changes a permission in S3. Of products, the search's filters and its paging are left out (what
matters is whether it finds something), and the index is taken to exist. The columns other than attributes, shop and thumbnails, the type
among them, are merged like attributes without a detail row: an update may change the type of a row, and its detail row stays in the table that
it was created in. Of carts,
`emptyCart` and `deleteCartItem` look up a row of `carts` that nothing ever creates, and fail before they change anything;
`addToCart` is modelled as the service offers it, although its route is commented out.
The generic repository's soft delete, paging and delete by id, and the Redis service's `sendCommand`, `ftInfo` and filter helpers have
no caller.

## Plan

In this order:

1. `Sessions`, `RateLimit`, `Registration`, `Passwords`, with the proofs above (done).
2. `Media` with its abstract specification `MediaLife`, `Catalog`, `Carts` (done).
3. Proofs about them, with the refinement of `MediaLife` (done).
4. `KeysBelongToOneUser`, `QuietStoresAgree` and `QuietStagesAgree`, along the lines of `PasswordsProofs` (done).
5. `QuietFilesHaveRows` and `QuietLinksHaveRows` (done).
6. An abstract specification of a session (signed in with one generation of keys, or signed out) that undisturbed
   `Sessions` steps refine.
