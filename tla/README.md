# TLA+ for the book store

This directory specifies, model-checks and proves parts of the e-commerce back
end in `src/`: a NestJS gateway (`apps/magic-pages-api-gateway`), two small
services (`apps/storage`, `apps/notification`) and shared libraries (`libs/`)
over PostgreSQL (TypeORM), Redis, RabbitMQ and MinIO.

What the system must not get wrong is money and copies of books: stock is
reserved when a book is put into a cart, held through checkout and payment, and
deducted when the payment is confirmed, by handlers that run at the same time,
by three jobs that run beside them and by webhooks that arrive late, twice or
not at all. Around that core are parts that span two stores without a
transaction over both: the cache of carts, the files of books, and accounts
that are verified by mail.

## Inventory

| component | state | operations | what is hard | what makes it correct |
|---|---|---|---|---|
| Carts and reservations: `cart.service.ts`, `cart-merge.service.ts`, `checkout.service.ts` up to its commit, `reservation-worker.service.ts` | `carts`, `cart_items`, `stockQuantity` and `reservedQuantity` of `book_format_varients` | read, add, update, remove, clear; the same for guests; merge at login; checkout; three jobs every five minutes | unlocked reads before the row lock; jobs that work through lists read at the start; cascades | never more reserved than there is; the counter is what the rows hold; one active cart per owner; expired holds are released |
| Checkout and payment: the rest of `checkout.service.ts`, `payment-webhook.controller.ts`, `order-timeout.service.ts`, `payment-reconciliation.service.ts`, the providers | `orders`, `order_items`, `transactions`; what has happened at PhonePe or Razorpay | create order and transaction, initiate, webhook, time out after 15 minutes, ask PhonePe after 5 | saves of stale entities; saves without a transaction; late, repeated and reordered webhooks | paid means money was received; sold once; every order settles |
| Cart cache: `cart.service.ts` and the others over `redis.service.ts` | `cart:<user>`, `guest_cart:<session>` with a TTL | read through, delete after a commit | a read that caches what a change has just replaced; changes that delete nothing; Redis failing after the commit | an entry is old only for a known cause, and not for ever |
| Circuit breaker, retry, timeout: `libs/common` | state, failure and success counts, time of the last failure | execute | calls that end after the state changed | no call gets through while it is open; counts fit the state |
| Mail: `email.consumer.ts`, `mail.service.ts`, RabbitMQ | the durable queue, handlers, unacknowledged messages | deliver, attempt, acknowledge | lost connections, restarts, late answers, mails accepted though the attempt failed | nothing is acknowledged unsent; every message is handled to an end |
| Registration, login, OTP: `auth.service.ts`, `otp.service.ts`, the providers of users | `users`, `email_verifications` | register, create user, verify, request a login code | no transaction over row, code and event | one account and one code per address; active only by its own mail |
| Books and their files: `books.service.ts`, `create-book`, `delete-book`, `upload-book-files` providers, `apps/storage` | books, variants, objects in MinIO | create, bulk create, update, archive, delete, upload | uploads before and compensation after a transaction; saves of rows read long ago | no saved URL without its object; titles unique; reservations survive |
| Queries of books: `find-book.provider.ts` | none | list, search, filter, page, count, find one, related | two search strategies, counts by cloned queries, page arithmetic | hidden books leave no trace; counts agree with filters; pages partition |
| Categories, age groups, browse | four tables and `book_age_groups` | create, update, delete, bulk, add and remove a book, seed | rows and lists saved as they were read | names unique; members exist; nobody is removed silently |
| Not modelled: cart archive, `ReservationCleanupService`, book metrics, reading of formats, locations and users, notification, signatures and refunds, infrastructure | - | - | see the end | - |

The parts interact through the database (the carts' rows, counters and row
locks are what checkout, webhook, jobs and the administrator's requests share),
through calls (gateway to provider, gateway to storage), through callbacks (the
webhook) and through the queue (the event that asks for a mail).
`PROJECT.json` lists each part with its files and, under `hazards`, the places
where the code can go wrong in a way a test would hardly reach.

## Modules

| module | what it is |
|---|---|
| `CartReservation` | carts, rows, counters; every handler and job that touches a reservation |
| `CheckoutPayment` | extends `CartReservation` with orders, transactions, the providers, the webhook, the order timeout and the reconciliation |
| `CartCache` | extends `CartReservation` with Redis: readers, entries, deletions owed after a commit |
| `Breaker` | abstract: what callers of a circuit breaker rely on |
| `CircuitBreaker` | the breaker of `libs/common`; implements `Breaker` |
| `MailDelivery` | extends `CircuitBreaker` with the queue, the handlers, `Retry` and `Timeout` |
| `Accounts` | extends `MailDelivery` with users, codes and requests |
| `BookFiles` | books, variants, objects and the requests of administrators on them |
| `BookQueries` | extends `BookFiles` with the public's queries, as operators |
| `CatalogTables` | categories, age groups, formats, collections, membership |
| `<module>_proofs` | the theorems about `CartReservation`, `CheckoutPayment`, `CartCache`, `MailDelivery` (with `CircuitBreaker`), `Accounts`, `BookFiles` (with `BookQueries`), `CatalogTables` |
| `CartLedger_proofs` | the theorems about what carts hold against what variants have reserved; extends `CartReservation_proofs`, and is what the proofs of payment build on |
| `MCCartReservation`, `MCCheckoutPayment`, `MCCartCache`, `MCMail`, `MCAccounts`, `MCBooks`, `MCTables` | workloads, bounds and symmetry for TLC |

### CartReservation and the code

Every handler runs in one PostgreSQL transaction at READ COMMITTED. It reads
the cart or the row without a lock, then locks the variant (`FOR UPDATE`, or by
updating it), tests, writes and commits. Everything between lock and commit
that others could see happens under the lock, so a handler is two steps:
`...Begin` with the unlocked reads, kept in `req[p]`, and one step for the
rest. Three handlers need more. An addition to a row that holds no stock, of a
digital variant or an expired cart, reads and saves it in two steps
(`FindUnheldRow`, `SaveUnheldRow`), because a removal of such a row takes no lock
of the variant. A merge locks all its lines before it reads the guest cart
(`MergeCartLock`, then `MergeCart`). A checkout holds the row of the cart from the
read to the commit (`CartFree`). A handler that needs a lock held between two such
steps is not enabled until it is free. A merge has one quantity for each variant:
two lines of one variant end as one line of their sum, or of the one that still
found stock.

| state | code |
|---|---|
| `stock`, `reserved` | `stockQuantity`, `reservedQuantity` of a variant; integers, because nothing in the tables keeps them from sinking below zero |
| `status[<<owner, n>>]` | the n-th cart of a user or session; `"none"` before the insert, `"deleted"` after |
| `fresh` | the carts whose `updated_at` is younger than the reservation TTL (15 minutes, 10 for guests); `Expire` is the passing of time |
| `items`, `issued` | `cart_items`; an id is used once, but `save` of an entity whose row was deleted inserts it again under its id |
| `req[p]` | what a request in flight has read, by `op` |

Facts about TypeORM that the actions depend on: `save(entity)` compares the
entity with the row as it is and writes the columns that differ, so a stale
entity overwrites; it inserts again a row that has been deleted; `remove`
deletes by id, whether or not the row is there; saving a `CartItem` does not
touch `carts.updated_at`; deleting a cart cascades to the rows it has by then.
The unique indexes on ACTIVE carts of a user and of a session and on
(cart, variant) are `TargetCart` and the guards of `ItemAt`.

`Rollback(p)` is a refused request, a deadlock victim, a lost connection and a
crash of the process at any point before the commit: nothing of the request
remains.

### CheckoutPayment and the code

A worker runs one of: the tail of a checkout after its commit, one delivery of a
webhook, the timeout job at one order, the reconciliation at one transaction.
`task[w]` is what it has read and what it does next. The webhook runs in a
transaction that works from an unlocked read (`WebhookBegin`, then
`WebhookSuccess` or `WebhookFailed`, which writes order, stock and cart at
once). The tail of the checkout and the jobs run without a transaction: each
`save` and `decrement` is a step (`SaveTransaction`, `InitiatePayment`,
`SaveResponse`; `FailTransactions`, `FailOrder`, `ReleaseOrderItem`;
`GetPaymentStatus`, `SettleTransaction`, `SettleOrder`, `FindCart`,
`SettleCart`), and `Abort(w)` between any two of them is an error or a crash.
Before that, the look-up of the idempotency key (`CheckoutLookup`) is a step of
its own, ahead of the read and lock of the cart. Saving a transaction writes the
columns of the entity that was read (`SaveColumns`): webhook and reconciliation
set `raw_response` too, which is what a repeated key is answered with, and the
tail of a checkout saves the PENDING it began with over whatever a fast webhook
has written.

`gateway[o]` is the outside world: `OPEN` once the payment was initiated, then
`SUCCESS` or `FAILED`; a Razorpay order may be paid after a failed attempt, a
PhonePe transaction settles once. What is in it may be delivered at any time,
again and in any order, also before the response of `initiatePayment` is saved;
a Razorpay webhook then finds no transaction, because it looks for the
`gateway_ref_id`. Webhooks that report neither success nor failure change nothing
and have no action. Checks of signatures pass for what the provider sends.

The thresholds (5 and 15 minutes) are far longer than a request, so a job looks
at an order only after the request that created it has ended (`InCheckout`);
otherwise it may look at any time. Every instance of the gateway runs the
jobs, and no lock keeps two of them apart: two workers may run the same job at
the same order.

### CartCache and the code

An entry is the answer of `getCart` or `getGuestCart`: the cart's id and the
quantities of its rows. A reader is three steps, the miss, the read of the cart
and `setex`; a handler commits (`Commit`) and then owes the deletion of the
entries its code names (`Invalidates`), which is a step of its own, may fail
(`InvalidateFails`: the client is told that the change failed) and may come
after a reader has stored something older. `Evict` is the TTL. `excused` is a
history variable: the owners whose entry may be old for one of three causes,
namely that a checkout or a clean-up changed the cart (they delete nothing),
that Redis failed, or that a reader stored what it had read before a change.

### CircuitBreaker, MailDelivery and the code

`Execute`, `OnSuccess` and `OnFailure` are the three parts of `execute`; the
function runs between them, so a call that was let through while the breaker was
closed may end when it is open or half open. `CoolDown` is the clock reaching
`nextAttempt`. `OnFailure` is both an exception and the breaker's own timeout.
A handler of `EmailConsumer` is a `worker`: it waits (for its first attempt or
in the back-off of `Retry`), calls, and in the end acknowledges or throws; a
message whose handler throws stays unacknowledged. The broker gives
unacknowledged messages out again when their connection ends: `Reconnect` keeps
the old handlers running, whose answers are no longer heard (`live`), and
`MailRestart` ends them. `Timeout` and the breaker both wait ten seconds, and the
breaker's timer is the first to be started, so a call ends with its attempt
(`SendFails`); the SMTP server may accept its mail later (`AcceptLate`).

### Accounts and the code

Each query is a step: look for the address (`Register`), insert (`CreateUser`,
under the unique index), write the code (`GenerateAndSaveOtp`), emit the event,
which is not awaited and may be lost (`Emit`); look up the newest unused code
and compare (`VerifyRegistration`), save it as used (`SaveUsed`), make the
account active (`ActivateUser`). Codes live in the table `email_verifications`.
A client types a code it was mailed, or none; that no code is guessed is an
assumption, since `otp.service.ts:69` counts attempts and limits none. `Restart` ends the requests with
the process and takes the delivery of mails with it.

### BookFiles, BookQueries and the code

A request of an administrator goes through phases. `...Begin` tests and reads;
`UploadAssets` stores the files and deletes what it stored when one fails, where
it knows the keys. A key is the time and a name, and images have none
(`undefined`), so two of the same millisecond may share an object (`Keys`); `Create` and `UpdateBook` are the transactions, under
the unique index of titles, with variants that are matched, added and deleted as
`updateBook` does, and with an update that puts back a book that has been
deleted; `DeleteOldKeys` follows the commit. `DeleteStorage` comes before
`MarkBookArchived` or `DeleteBookRecord`. `Abort` is an error or a crash between
any two, with whatever of the clean-up was done. Every deletion may do any part
of its work. Which URLs a service can turn back into a key is `ServiceKey` and
`DeleteKey`: it differs with the kind of URL. `Reserve` and `Release` are the
carts; `NameVariant` and `LastRowGoes` are the rows of carts and orders that hold
no stock but keep a variant from being deleted. `SaveAgeGroup` is the book that
`BookAgeGroupsService` saves as it read it. The image of a book stands for its
cover and its snapshots. The workload sends URLs of `admin/upload` only; the code
tests no URL, so it may send one before its object is stored.

`BookQueries` has no actions. It defines the answers of `findAll`, its facets
and pages, of `findOne` and of the related books over a table of books, and its
properties are asked in every state of `BookFiles` in which no request is in
flight (`Quiet`).

### CatalogTables and the code

Four services have the same operations, so one set of actions has the table as
a parameter. An update reads rows, and `SaveUpdate` writes back every column and
inserts rows that are gone. `AddBookToAgeGroup` and `RemoveBookFromAgeGroup`
read a book with its age groups, `ListAgeGroups` is the list in a request that
creates or updates a book, and `SaveMembers` writes the list that results, with
the rows of the age groups by cascade. `Boot` is a restart, which seeds an
empty table of age groups.

## What the runs check

Run a configuration with `tlc -config <cfg> <MC module>`. Deadlock is not
checked: a workload ends when its carts, rows, files and messages are used up.

| run | bounds | shows |
|---|---|---|
| `Cart_concurrent` | all handlers and jobs (clear is remove when a cart has one row), one user and one guest, two processes, two rows, two copies of a paper book, two carts per owner, expiry at any time | `Capacity`, `OneActiveCart`; `CoveredKept`: rows come to hold more than the counter only by a request that releases rows another has changed since it read them; `BalanceKept`: from a balanced ledger without unreserved rows, only such a request, or a checkout or addition in the same position, leaves balance |
| `Cart_guests` | two processes that add for a guest, merge, release and clean up, one physical and two digital variants, a limit of one row | `TypeOK`; `GuestCartBound`: overlapping additions exceed the limit by one for every other request in flight, no more |
| `Cart_release_live` | user and guest, adding and clearing, expiry, both release jobs, fairness | `ExpiredIsReleased` |
| `Cart_cache` | one user, one guest, one request, one reader, two rows, all handlers of customers, checkout and clean-up, fairness | `CacheTypeOK`; `OldForAReason`: no handler forgets an entry; `StaleLeaves`: an old entry goes |
| `Pay_concurrent` | one user, two carts that both reach CHECKOUT, two orders, PhonePe (the provider that is reconciled), two workers, all jobs | `PayTypeOK`, `PaidHasMoney`, `CompletedHasMoney`, `OneActiveCart`; `StockFollowsSales`: stock and sales move together except in two named cases |
| `Pay_serial` | two users, two copies, both providers, one idempotency key, one worker, no reconciliation | `StockIsSold`, `KeyUsedOnce` |
| `Pay_settles` | one user, two orders, one key, both providers, one worker, fairness | `OrderSettles` |
| `Pay_oversold` | two users, one copy, three orders, one worker, a violation is expected | the code does not keep `NotOversold`, see below |
| `Mail` | two handlers, two mails, thresholds 3 and 2, three attempts, two lost connections or restarts, fairness | `MailTypeOK`, `CountsFitState`, `NoLostMail`, `OneAnswers`, `MailsHandled`; `ImplementsBreaker`: the refinement of `Breaker` |
| `Accounts` | two addresses, two requests, two codes, one handler, one restart or lost connection | `AccountsTypeOK`, `ActiveWasMailed`, `OneRegistration` |
| `Books` | two books, two variants, two objects of uploaded files, one hosted, two requests of administrators, age groups included, symmetry | `BooksTypeOK`, `UniqueTitles`, `UploadedStored`, `AdminsKeepReserved`; and of every resting state `FacetsDrillDown`, `HiddenLeavesNoTrace`, `PagesPartition` |
| `Tables` | two categories, two age groups, a format, a collection, two names, two books, two requests in flight, books' own lists of age groups included | `TablesTypeOK`, `UniqueNames`, `MembersExist`, `NoSilentRemoval` |

Bounds. `MaxCarts`, `MaxOrders`, `ItemIds`, `BookIds`, `MaxVariants`, `Uploads`,
`Mails`: how many carts per owner, orders, rows, files and codes are ever
created; `MaxQty`: the quantity of a request and of a row; `MaxDebt`: how far
below zero repeated releases may take a counter; `MaxReconnects`: connections
lost. `MaxGuestItems` stands for `MAX_GUEST_CART_ITEMS`, `MaxLimit` for the
largest page, the thresholds and `MaxAttempts` for those of the decorators (the
run `Mail` has the code's three attempts). Every race in the hazards takes two
requests, one variant and one or two copies; a second variant matters to the
limit of a guest cart and to digital items; a second cart of a user to a checkout
followed by a new cart; a second file to the clean-up of one request while
another saves; two handlers and a new connection to a message that two of them
work on. `Pay_concurrent` has the one provider whose payments
are reconciled; Razorpay's, where a failure may be followed by a success, are in
the runs with one worker, and the theorems are about both. `Pay_serial` states
what holds while workers do not overlap and nothing is reconciled; `StockFollowsSales` of `Pay_concurrent` is what remains of it when
they do. The two properties of a step, `CoveredKept` and `StockFollowsSales`, and
`BalanceKept`, are not about the absence of races, which the code has, but about
their extent: a request is overtaken (`Overtaken`, `OrderOvertaken`) when a row
it goes by has changed since it read it, and nothing else may part the counters
from the rows or the stock from the sales.
Symmetry is used over processes, workers, rows, books and administrators, never
in a run with a liveness property.

Fairness. `Fairness`: a request ends (NestJS runs it to its end or the
connection is lost), a job that runs every five minutes picks an expired row
again as long as it is there, not each time while a request has the variant of
the row locked, and its transaction is not rolled back every time. `PayFairness`:
a worker goes on or gives up; the timeout job reads every PENDING order again and
does not fail at each attempt. `CacheFairness`: an entry
with a TTL expires; nothing is assumed of requests, readers or Redis.
`MailFairness`: the broker delivers what is queued when a handler is free, and
a handler with a message goes on, because an attempt ends within its timeout and
a retry is a timer; it may fail every time, and connections may be lost.
Nothing is assumed of customers, providers, webhooks and administrators.

## What the code does otherwise than it says

`findings` in `PROJECT.json` quotes the place of each. With a run: `Pay_oversold`,
a payment that succeeds after the order timed out is deducted although its copy
was sold to someone else (`checkout.service.ts:109`). Seen while modelling, and
part of the modules where they are modelled:

* Carts: `updateCartItem` saves a row it read before the release job released
  it; changing items does not move `updated_at`; a repeated merge adds again;
  `archiveCompletedCarts` cannot run.
* Payment: the timeout job saves a stale order as FAILED over PAID; the cart of
  an order that timed out stays in CHECKOUT.
* Books: a failed delete leaves a book without its image, and the files of
  variants are never deleted; replaced and orphaned uploads stay, because the
  service cannot derive their keys; `updateBook` brings back a deleted book; the
  counts of genres ignore the list's conditions; archived books are never found.
* Categories: every one is listed as top-level. Registration issues no token.

## What is proved

`CartReservation_proofs`, for any sets of users, sessions, variants and
processes and any bounds:

* `Typing`: `Spec => []TypeOK`.
* `NeverOverReserved`: `Spec => []Capacity`. The inductive invariant is
  `IInv == TypeOK /\ stock = InitialStock /\ Capacity`: the stock has to be kept
  non-negative because `GREATEST(0, ...)` may raise a counter that is below
  zero, and the type of `req` carries the type of what a request has read. The
  steps that add to a counter test it under the same lock; all others release.
* `NeverTwoActiveCarts`: `Spec => []OneActiveCart`. The invariant says that the
  cart a request has seen exists (`SeenCartsExist`): then a request that writes
  to a cart it saw inserts none, and one that saw none inserts under the unique
  index. The proof is by two step predicates: `StatusStep` (no step makes a
  second cart active) and `SeenStep` (what a request sees was active when read).

`CartLedger_proofs`, for any owners, variants, processes and bounds. What the
rows of all carts hold of a variant is a sum over rows. `HeldBy` counts it copy
by copy, as the size of a set, so that the library's facts about finite sets
give the one lemma the sums need: if one row changes, the sum changes by as much
(`TotalChanges`). That the counter always covers, or equals, that sum does not
hold: two requests for one customer may both act on what they read, and both
release it. What holds, of all behaviours and without a condition on who overlaps
with whom, is where this can come from:

* `OnlyOvertakenReleasesUncover`: `Spec => CoveredKept`. A step takes a counter
  below what the rows hold only if it is the write of a request that updates,
  removes, clears, merges or releases, and a row it goes by has changed since it
  read it. In particular no addition and no checkout does, whatever overlaps.
* `OnlyOvertakenWritesUnbalance`: `Spec => BalanceKept`. From equality, and with
  every physical row reserved, a step leaves equality only if it is the write of
  a request that was overtaken.
* Both follow from `NextSettles`: with `UniqueRows` (a cart has one row of a
  variant, an invariant by itself) the write of a request that was not overtaken
  is `Settled`: the counter of each variant moves by no less than the sum
  (`CoverStep`), and by just as much where every row is reserved; and the write of
  a request that does not release is a `CoverStep` even if it was overtaken.
* `GuestCartsAreBounded`: `Spec => []GuestCartBound`. The limit is tested before
  the lock, so it is exceeded. The invariant `GuestInv` counts the rows of a guest
  cart together with the additions that have passed the test and have no row yet
  (`GuestLoad`), at most `MaxGuestItems - 1` and one for each process: an addition
  passes only below the limit, and trades its place for the row it inserts. It
  needs that rows belong to carts in the table (`GuestRowsInTable`) and that a row
  that is saved after it was deleted went with its cart (`SavedRowsInTable`), or
  saving it would insert one more.

`CheckoutPayment_proofs`, for any number of orders, workers, keys and providers
as well:

* `PayTyping`: `PaySpec => []PayTypeOK`.
* `PaidOrdersHaveMoney`: `PaySpec => []PaidHasMoney`, and
  `CompletedCartsHaveMoney`: `PaySpec => []CompletedHasMoney`. Neither is
  inductive: a worker marks an order paid, or a cart completed, on the strength
  of what it read earlier. The invariant `MInv` adds that a worker about to do
  so works at a placed order whose payment succeeded (`TasksSure`), that
  transactions belong to orders (`OpensPlaced`), and that only users check out
  (`CheckoutsOfUsers`). Every action is shown to be `Sound`: it keeps the types,
  and what it does to orders, transactions, tasks and carts is a `MoneyStep`;
  `SoundKeepsMInv` derives the invariant from that alone. The lemmas about the
  cart handlers are those of `CartReservation_proofs`.
* `FailedPaymentsKeepOneActiveCart`: `PaySpec => []OneActiveCart`, by the same
  `StatusStep` and `SeenStep`, with the webhook that makes a cart active again.
* `OnlyOvertakenPaymentsPartStockFromSales`: `PaySpec => StockFollowsSales`, with
  any number of webhooks, timeouts, reconciliations and checkouts in flight. The
  webhook deducts on the strength of a `payment_status` it read without a lock, and
  the timeout job saves FAILED on the strength of one, so two workers at an order
  may deduct twice, or leave a deduction without a sale; and the reconciliation
  pays without deducting. The theorem says that stock and sales part in no other
  way: a webhook whose order is as it read it deducts what it pays for, or nothing
  if it was paid (`WebhookSuccessSells`), a timeout that was not overtaken fails an
  order that is not paid (`FailOrderSells`), since a task at work carries the PENDING
  it read (`BusyColumns`), and a new order sells nothing. The sums are the ones of
  the ledger (`Taken`).
* `KeysBuyOneTransaction`: `PaySpec => []KeyUsedOnce`: a transaction that is
  saved again keeps its key, and a new one takes a key nobody has (`KeyStep`).

`CartCache_proofs`, for any owners, requests and readers:

* `CacheTypeCorrect`: `CacheSpec => []CacheTypeOK`.
* `EntriesAreOldForAReason`: `CacheSpec => []OldForAReason`. A commit has to be
  shown to change no cart of an owner whose entry it does not delete, and a
  handler writes rows it read earlier. The invariant `EInv` says that a request
  knows only carts of the owners it will invalidate (`RequestsOwn`) and that a row
  stays in one cart for good (`OneCartPerRow`), so what it writes back cannot
  turn up in the cart of somebody else.

`MailDelivery_proofs` and `Accounts_proofs`, for any thresholds, handlers,
messages, users and requests:

* `BreakerRefines`: `BreakerSpec => ImplementsBreaker`, with `BreakerTypeCorrect`
  and `BreakerCounts`.
* `MailImplementsBreaker`: every step of the delivery is a step of the breaker
  or leaves it alone, hence `MailCounts`; then `MailTypeCorrect`, `MailNotLost`
  and `OneHandlerAnswers`, whose invariant relates handlers, messages and the
  calls the breaker counts.
* `AccountsUseDelivery`: the composed accounts implement `MailSpec`, so that
  what holds of the delivery holds in the composition; then
  `AccountsTypeCorrect`, `ActiveAccountsWereMailed` (a request that will
  activate an account has compared with a code of its own address that was sent)
  and `OneRegistrationEach`.

`BookFiles_proofs`, for any books, requests, files and catalogues:

* `TitlesStayUnique` and `ReservedSurvives`. Both rest on rows having their
  columns, and the first on the index being tested in the step that saves.
* `BooksTypeCorrect` (`BooksTypeOK`) and `UploadsStayStored` (`UploadedStored`),
  from one invariant, `FilesInv`: the types of rows and of what requests have read,
  with the files they may name restricted to hosted ones and to uploaded ones that
  are stored (`Names(StoredUploads)`). A type that depends on the state, it is kept
  because stored uploads only become more: the keys a clean-up derives are those
  of hosted files (`ServiceKeys`, `DeletionsSpareUploads`).
* `FacetsCount`, `HiddenStaysHidden` and `PagesMakeTheList`, about the answers to
  queries in every state. The second is about the order of the tests in a search:
  the visible books decide between full text and similarity. The third is about
  lists of any length: `FlattenSeq` is characterised by a function that grows by
  one page after the other (`Flattened`), whose uniqueness comes from the
  least-number principle, and the number of pages by division that rounds up
  (`RoundsUp`).

`CatalogTables_proofs`: `Typing` (`TablesTypeOK`), `NamesStayUnique`,
`MembersStayExisting` and `RemovalsAreAsked`. The invariant types rows and requests
and says that a list that waits to be saved carries the rows of its age groups, so
that saving it inserts again what has been deleted.

The assumptions are those named in the modules: users and sessions are
different, stocks and bounds are natural numbers, the rows that are ever
inserted are finitely many (`ItemIds`, `BookIds`), thresholds and the largest page
are positive, codes are numbered, uploaded and hosted files are different, what
requests say is of the types of the DTOs, and the null values are no carts, rows,
orders, files or transactions.

Every invariant and every safety property of a step that a passing run checks is
thus stated by a theorem, except `StockIsSold`, which holds only of one worker
without reconciliation, as in `Pay_serial`; what holds in general is
`StockFollowsSales`. Model-checked only, besides: the liveness properties
`ExpiredIsReleased`, `OrderSettles`, `StaleLeaves` and `MailsHandled`, since
fairness and ENABLED are out of the prover's reach. `NotOversold` is refuted by
`Pay_oversold`.

## Not modelled

Left out of the modelled parts: prices, authors, tags, addresses, passwords and
messages; titles are compared as they are; the Redis copies of reservations, which
are written and never read; the early return of `clearCart` with an open
transaction, since connections are not modelled; the lock on the book's row; Google
Pay, which the checkout refuses. The order of a list is one fixed sequence, so
`Queries of books` is only partly modelled: the code orders by `createdAt` without a
tie-breaker, and `PagesPartition` does not say that two queries share an order. The
stock an administrator sets outright is in `BookFiles` and not in
`CartReservation`, whose `Capacity` it breaks. The second query of `checkout` is
taken to return the cart the first has locked; the webhook's `findOne` and `save`
of the cart are one step, and so are a merge's read and save of a row under the
lock of its variant. No service derives a key from the URL of an uploaded file
(`ServiceKey`), so of the clean-ups only those of hosted files can lose an object,
and `UploadedStored` is about uploads and transactions; a service that did derive
it would be tested by the same property. Sales of digital variants, whose counters
the webhook decrements below zero (`Deduct`), are in no run. The webhook and the
order timeout are not composed with the cache: they delete no entry, as checkout
does not.

Without a module: `archiveCompletedCarts`, which asks for a lock outside a
transaction and so changes nothing; `cleanupCart`, without a caller;
`ReservationCleanupService` and the book metrics, which no module provides;
`reset()` of the breaker and the MinIO variant of the upload, without a caller;
the reading of formats, locations and users, single queries with nothing to
interleave; the notification service, a stub; signatures and refunds, which save
nothing; configuration, logging, metrics, guards and validation.

## Plan

What remains worth adding: an abstract ledger of stock (reserve, release, sell)
that `CartReservation` implements but for requests that were overtaken, and the life
of an order (pending, paid, failed) that `CheckoutPayment` implements in the same
sense; sales of digital variants in `CheckoutPayment`; the webhook and the timeout
over `CartCache`.
