# TLA+ specifications of Tenet Commerce

Tenet Commerce is a multi-tenant point of sale: a Go back end over PostgreSQL
and Redis, a Next.js front end, a small AI worker. These modules specify the part
of it where a mistake costs money or goods and a test hardly reaches: concurrent
transactions on one tenant's store, retries of the requests that start them, and
the pages in front, which send those requests, lose their answers and must not
tell the user what did not happen.

`tlc -config X.cfg M` checks a run, `tlapm M.tla` checks a proof module.

## The system

| Component | State | Operations | What makes it correct |
|---|---|---|---|
| **POS** (`backend/internal/pos`) | products, transactions and their lines, adjustment audit rows | checkout, void, stock adjustment, product create / update / delete | a sale is priced, stocked and recorded as of one moment; a key sells once; a void returns what was sold, once |
| **Inventory** (`backend/internal/inventory`) | `inventory.stock_quantity`, append-only `stock_movements` | lock a balance, post a movement | the balance is the sum of the movements and never negative |
| **Ledger** (`backend/internal/ledger`) | journal entries and lines | entries for sale, void, receipt, adjustment; manual entry, reversal | every entry balances; there is one per document |
| **Procurement** (`backend/internal/supplychain`) | suppliers, certificates, purchase orders, goods receipts | issue, receive, cancel, register / revoke certificate, supplier update | nothing is received beyond the order or from a supplier without valid certificate |
| **Idempotency** (`backend/pkg/idempotency`) | `idempotency_requests` rows, Redis entries | wraps every mutating route | a success reported is a success committed, for this payload; a retry does no harm |
| **Entitlements** (`backend/internal/entitlement`) | subscription rows, Redis cache | check, update, invalidate | a change of plan is seen once it is committed |
| **Tenant context** (`backend/internal/tenant`) | `search_path` of pooled connections | acquire, set, reset | a request sees its own tenant's schema and no other |
| **Auth** (`backend/internal/auth`, the BFF's `api/auth` routes) | tokens issued and blacklisted, the browser's cookies | login, refresh, logout | a session that was logged out is out; one that was renewed can be renewed again |
| **HTTP client and BFF** (`frontend/src/lib/api.ts`, `api/backend` route) | calls on their way | call, renew once, call again | a call takes effect at most once, and what the page is told of it is true |
| **Web POS** (`frontend/src/features/pos`) | the cart, its draft in IndexedDB, the step of the checkout | edit, review, pay, dismiss; leave, reload | a lost answer never turns into a second sale; the draft is the cart |
| **Back office** (`frontend/src/features/inventory`, `supply-chain`, order history, ledger, dashboard) | a fetched list, the forms open over it, the gate | refresh, open, submit, close | a confirmation is carried out once; the list tells of it; no form is stuck |
| **Migration runner** (`backend/pkg/database/migration`) | `schema_migrations` | apply pending | each migration is applied once, in order |

### How they interact

A mutating request passes auth, the tenant middleware (which gives it a database
connection with the tenant's `search_path`) and the idempotency middleware, and
runs its handler. The handler's service opens a transaction *of its own*: the
middleware's row on the key commits apart from it, before and after. Within the
transaction POS calls the inventory repository for each movement and the ledger
service for the entry, on the same transaction handle, so what they write
commits together. Concurrent requests meet in PostgreSQL only, under READ
COMMITTED: `SELECT ... FOR UPDATE`, the `FOR KEY SHARE` a foreign key check takes,
and unique indexes are all that orders them. Attempts of one request meet in the
idempotency row and in Redis.

A page never talks to the back end: `apiFetch` calls the BFF, which turns the
cookies into a bearer token and relays. A 401 makes the client ask the BFF for a
renewal and send the call once more. Pages differ in nothing the client does, so
what they may rely on is a specification of its own, `CallPromise`: `Session`
implements it and `WebTill` and `BackOffice` are built on it.

### What is hard

* **Interleaving.** `PostMovementTx` writes an absolute balance computed from one it
  read. Whether two transactions lose an update depends on which lock covers
  what, over code in three packages.
* **Stale reads.** A checkout reads price, cost and availability long before it
  writes them; an adjustment reads its unit cost under no lock at all.
* **Lock order.** Checkout locks product, then inventory rows; voids and adjustments
  lock the inventory row, then share the product row; receipts share the product
  row first, and alone sort their rows. They do deadlock; PostgreSQL fails one of
  them, and what the code makes of that failure is part of the behaviour.
* **Decisions that must last.** An order or a receipt is judged by the policy, the
  supplier and the certificate several statements before it is written, and
  operators change all three meanwhile.
* **Check then insert.** A key is looked up without a lock, or under the lock of
  something else (a receipt's key under its order's), then inserted.
* **Partial failure.** A sale is some ten statements, and the journal may refuse
  the entry after all of them.
* **Retries.** The idempotency row and the business transaction commit
  separately; leases expire under slow handlers, answers are lost, Redis forgets.
* **Lost answers.** The browser or the BFF may give a request up at any point of its
  way; it may be carried out afterwards.
* **Renewals and logouts** of one session overlap: several calls are answered 401
  side by side, and a logout lists the tokens of the moment it was sent.
* **Effects nobody awaits.** The draft of the cart is read and written by effects whose
  order is that of the store, under a tenant's name that arrives late.
* **Dialogs over a list** that is fetched again under them, by themselves and by
  others, whose answers arrive in any order.

## The modules

| Module | What it is | Code |
|---|---|---|
| `Ledger` | the entries the ledger composes and the check each one passes | `ledger/service.go` |
| `StoreData` | rows, documents and commands of a store; pricing, settlement, movements | `pos/service.go`, `pos/models.go`, `inventory/repository.go` |
| `StorePromise` | *abstract:* every command takes effect in one step | the same operations, seen from the committed data |
| `Store` | *detailed:* one session per request, one statement per step, row locks | `pos/service.go`, `pos/repository.go`, `inventory/repository.go` |
| `RowLocks` | PostgreSQL's locks as the code takes them, and circles of waits | the locking statements of all packages |
| `StoreInv` | what each session of `Store` knows (`IInv`), and the books (`BooksInv`) | |
| `Store_proofs` | their proof and what follows, the refinement among it | |
| `Idempotency` | several attempts under one key around one handler, its invariant | `pkg/idempotency/middleware.go` |
| `Idempotency_proofs` | its proof and what follows | |
| `ProcurementData` | orders, receipts, suppliers, certificates, policy; when a certificate is good, what a delivery leaves | `supplychain/service.go`, `compliance.go` |
| `ProcurementPromise` | *abstract:* every command takes effect in one step, judged by the rules of the moment | the same operations, seen from the committed data |
| `Procurement` | *detailed:* one session per request with its locks | `supplychain/service.go`, `compliance.go`, `repository.go` |
| `ProcurementInv` | the inductive invariant of `Procurement` | |
| `Procurement_proofs` | its proof and what follows, the refinement among it | |
| `StockLocks` | the locks of POS and supply chain on the rows both use, with the rank of each | both repositories |
| `StockLocks_proofs` | every circle of waits has a session of the POS in it, proved | |
| `CallPromise` | *abstract:* a call takes effect at most once and is answered for what it did | `lib/api.ts`, as its callers see it |
| `Session` | *detailed:* cookies, tokens, blacklist, calls with one renewal each, logout, its invariant | `lib/api.ts`, the BFF's routes, `auth/handler.go`, `auth/middleware.go` |
| `WebTill` | cart, draft, checkout controller and page of the POS, over `CallPromise` | `features/pos`, `lib/offline/db.ts` |
| `WebTillInv` | what the page knows of its sales, and how cart, drafts and pending storage operations hang together | |
| `WebTill_proofs` | its proof: what one opening of the page cannot do, and that the draft is the cart | |
| `Session_proofs` | that `Session` takes the steps of `CallPromise` and no others, proved | |
| `BackOffice` | lists, forms and gates of the other pages, over `CallPromise` | `features/inventory`, `features/supply-chain`, `order-history.tsx`, `feature-gate.tsx` and their hooks |
| `BackOfficeInv` | how forms, commands, rows, list and gate hang together | |
| `BackOffice_proofs` | its proof and what follows | |
| `NumberTheorems` | lemmas: sums over finite sets, and that no circle of numbers rises | |
| `MCStore`, `MCIdempotency`, `MCProcurement`, `MCStockLocks`, `MCSession`, `MCWebTill`, `MCBackOffice` | instances for TLC | |

`Store` composes POS, inventory and ledger: `InsertMovement` is `PostMovementTx` of
the inventory repository, `CommitSale`, `CommitVoid` and `CommitAdjustment` contain the
ledger's check and entry. `Store` has `Promise == INSTANCE StorePromise`, under the
identity on the six committed variables, so `Promise!Spec` says that each step
of a session either changes no committed row or does the whole of one command.

### Store: state and actions

Committed data: `catalog` (products), `stock` (`inventory.stock_quantity`),
`movements`, `sales` (transactions with lines), `journal`, `audits`
(`inventory_adjustments`). A document's UUID is the request that created it.

Session state, one of each per request: `pc` the next statement; `held` the row
locks; `view` and `seen` what its reads returned; `work` the balances as its own
uncommitted updates leave them; `moves` its uncommitted movements; `toLock`, `toPost`,
`line` the position in its loops. Uncommitted writes live in the session and are
published by the step that commits.

| Action | Code |
|---|---|
| `Begin` | the handler accepts the request, the service begins a transaction |
| `LookupKey` | `GetTransactionByIdempotencyKey` |
| `LockProductRow`, `LockInventoryRow`, `QueryDone` | `GetProductsBySKUsForUpdate`, one result row after the other |
| `PriceOrder` | the loop over the cart, totals and settlement |
| `InsertSale` | `CreateTransaction`, waiting on the unique index over the key |
| `LockForMovement`, `InsertMovement` | `PostMovementTx`: lock the balance, then check, insert the movement (whose foreign key shares the product row) and update |
| `CommitSale`, `CommitVoid` | the rest of the service method, journal entry and commit |
| `LockSale` | `GetTransactionForVoid` and its status check |
| `ReadCost`, `LockForCount`, `CommitAdjustment` | `AdjustStock`, `PostAdjustmentMovement` |
| `LockForEdit`, `UpdateInventoryRow`, `CommitEdit` | `UpdateProduct`, `DeleteProduct` |
| `CreateProduct` | `CreateProduct`, one step: its rows are invisible until it commits |
| `LoseDeadlock` | PostgreSQL's deadlock detector picks this session |
| `Abort` | any other failed statement, lost connection or crash |

Statements that touch only rows the session already holds, or rows nobody else can
see, are merged with their neighbours; a wait for a lock is always a step of its
own. Cart lines are posted in cart order by a checkout and in any order by a void,
whose query has no `ORDER BY`.

### Procurement: state and actions

Committed data: `orders` (terms, decision on record, status), `receipts`, `suppliers`,
`certificates`, `policy` (the `compliance` row of `tenant_config`), `listed`
(`products.is_active`), `stock`, `movements` and `journal` as far as receipts move them,
and `day`, the UTC date. Session state: `pc`, `held` as in `Store`; `rules` the policy
a session read, `decision` what it decided, `toPost` its loop over products, `work` the
balances it will write.

| Action | Code |
|---|---|
| `CheckTerms` | `CreatePurchaseOrder` up to its transaction: quantities, costs, total |
| `ReadPolicy`, `LockSupplier`, `CheckCertificate` | `checkCompliance`: `LOCK TABLE tenant_config IN SHARE MODE`, supplier and certificate `FOR UPDATE`, then `evaluateCompliance` with the clock of that moment |
| `LockActiveProduct`, `CommitOrder` | `LockActiveProductsForPurchaseOrder`, insert, commit |
| `LockOrder` | `LockPurchaseOrder`, the look-up of the key, the status check |
| `ReconcileItems` | `GetReceivedQuantities`, `reconcileReceiptItems` |
| `InsertReceipt`, `InsertItem`, `PostMovement` | `Repository.CreateGoodsReceipt`: the row under its unique key, then per line the item (whose foreign key shares the product row) and, if any of it was accepted, the movement |
| `CommitReceipt` | the order's status, the journal entry, the commit |
| `CancelPurchaseOrder`, `ListProduct`, `UpdateSupplier`, `CreateSupplier`, `RegisterCertificate`, `RevokeCertificate` | the methods of those names (`ListProduct`: `UpdateProduct` and `DeleteProduct`, as far as they list or withdraw a product) |
| `Configure` | an operator's upsert of `tenant_config`: no handler writes it |
| `Midnight` | the clock |

The handlers from `CancelPurchaseOrder` to `Configure` take at most one lock that
others hold, and read and write under it, so each is one step. What a receipt reads
at `ReconcileItems` is protected by the lock of its order; that two receipts of
*different* orders under one key do not both get through rests on the unique
index alone.

`Promise == INSTANCE ProcurementPromise` under the identity on the committed
variables. The abstract specification judges a document by the policy, supplier and
certificate of the step that writes it; the detailed one judged it several steps
earlier. Only the day may lie in between: a certificate that expires at midnight
covers a receipt that was judged before.

### StockLocks: where POS and supply chain meet

`Store` and `Procurement` each have product and inventory rows; composed, their states
would be too many to explore, and what the two do to each other is to make each
other wait: in either, `stock` changes only under the inventory row's lock and
`is_active` under the product's. `StockLocks` composes them at the level of locks. A
session has a `script`, the locks its next statements take, and a set `rest` of products
whose rows follow: `Preamble` is what the transaction locks before any product,
`ProductLocks` the rows of one product in the order of the code, and `NextProducts` whose
turn it may be: the least one where the code sorts (orders, receipts), any where a query
returns rows in no order (the locking query of a checkout, the lines of a void).

### Idempotency: state and actions

`record` is the row (fingerprint, status, whether its lease is live, the answer),
`cache` the Redis entry, `applied` the attempts whose business transaction
committed. An answer is represented by the attempt whose effect it reports.
`LookInCache`, `SelectRecord`, `Replay`, `Reserve`, `Renew`, `Execute`, `RecordSuccess`,
`RecordFailure`, `CacheAnswer` are the middleware from top to bottom; `Stop` ends an
attempt anywhere, `LeaseExpires` and `CacheExpires` are the two clocks. `Execute` is the
handler. The fingerprint covers method and route, so the constant `Handler` gives each
payload its kind: `once` remembers what it did in a table of its own (checkout, goods
receipt) or refuses to repeat it (void); `plain` does it again (stock adjustment).
Its commit may succeed and its confirmation be lost.

### Session: state and actions

Back end: `owner` (the user of each token pair, in the order of issue), `expired`,
`revoked` (the blacklist in Redis), `redis`. Browser: `jar` (the two cookies), `user` (whom
the pages show). Per call: `pc`, `request` and `renewal` (what has become of either on
the way), `answer`. `exit` is the logout request; `session` remembers how it ended and is
read by `LogoutHolds` only.

| Action | Code |
|---|---|
| `Login` | `POST /api/auth/login` and the page that follows it |
| `apiFetch`, `Receive`, `GiveUp` | `apiFetch`: send, read the answer, or the `catch` around either |
| `Serve` | the BFF's proxy, `JWTAuthMiddleware` and the handler: done, rejected or denied |
| `AskRenewal`, `Renewed`, `NotRenewed` | the branch of `apiFetch` for a 401, with the BFF's `refresh` route |
| `CheckRenewal`, `Renew` | `RefreshToken`: blacklist and user; then the next pair, and the old token listed |
| `AskLogout`, `ServeLogout`, `LogoutArrives`, `LogoutLost` | the header's button, `Logout`, the cookies expired, the `catch` |
| `Expire`, `RedisFails` | the clock; the blacklist is skipped while Redis does not answer |

`Serve` and the renewal's two steps stay enabled when the browser has given up.
`cookies.delete(name)` expires a cookie at path `/`, and the refresh cookie is set at
`/api/auth`, so `Cleared` leaves it where it is.

`Promised == INSTANCE CallPromise` maps `pc` to the phase of a call and the number of
times its handler ran to `effect`.

### WebTill: state and actions

`slug`, `restored`, `cart`, `drafts`, `queue` are `useCart` and IndexedDB; `step`,
`cashTendered`, `command` the checkout controller; `phase`, `effect`, `answer` the sales on
their way (variables of `CallPromise`). A cart carries the `visit` it belongs to, so that
copies of it in the draft store and in commands can be told apart.

| Action | Code |
|---|---|
| `addItem`, `updateQuantity`, `decrementItem`, `removeItem`, `clearCart` | the methods of `useCart`, each with the effect that writes the draft |
| `ProfileArrives` | `authApi.me()` answers: the tenant changes from `default`, both effects run |
| `Storage` | the next operation on the store: a draft read (and shown), written, or refused |
| `startReview`, `setCashTendered`, `closeReview`, `submitCheckout`, `Answered`, `finishCompleted` | the controller, behind the buttons that offer them |
| `Serve` | the sale takes effect, which may be after the page was told it is lost |
| `Leave`, `Reload` | the page is left and opened again; a reload also drops pending writes |

### BackOffice: state and actions

One page with its list, forms and gate. The nine forms share one shape and differ in
four respects, which their records name: what they submit, what `locks` their button,
whether they `wait` for the list to be fetched again before they close, and whether
they may be dismissed while busy. `fetches` are the fetches on their way: none is told
from another, the last to end wins.

| Action | Code |
|---|---|
| `Refresh`, `FetchStep` | `fetchData` of the page's hook: read by the back end, ended with or without an answer |
| `OpenForm`, `OpenDetail`, `CloseForm` | the buttons of the tables and headers, the dialog's close |
| `Submit`, `Serve`, `Answered` | `handleSubmit` of the form, the handler, the hook's `await` and what follows it |
| `CapabilitiesArrive`, `RetryGate` | `fetchCapabilities`, the gate's button |
| `Elsewhere`, `PlanChanges` | other users, the operator |

## The runs

| Run | Question | Shows |
|---|---|---|
| `shop` | do three concurrent requests out of sales, retries under a key, voids, counts, write-offs and catalog edits keep the books? | `IInv`, `BooksInv`, `StockIsSumOfMovements`, `TrailMatchesDocuments`, `KeySoldOnce`, `LockedBalanceIsCurrent`, `SaleAtCurrentTerms`, and the refinement `KeepsPromise` |
| `not_found` | does `PRODUCT_NOT_FOUND` mean what the contract says? | violated, see *Findings* |
| `idempotency` | is a reported success true, and when does a key take effect once? | `IInv`, `SuccessIsTruthful`, `OnceUnlessDisturbed` |
| `idempotency_retry` | does it take effect once whatever happens? | violated, see *Findings* |
| `dock` | do deliveries and cancellations of orders that share a product agree with each other, without waiting in a circle, and is each answered? | `IInv`, `NeverOverReceived`, `StatusTellsReceived`, `ReceiptOncePerKey`, `StockIsSumOfMovements`, `BooksTellReceipts`, `NeverInCircle`, `KeepsPromise`, `EveryRequestAnswered` |
| `desk` | are orders and receipts lawful when they are written, whatever the operators change meanwhile? | `IInv`, `WithdrawnIsNotAwaited`, `DecisionIsCurrent`, `KeepsPromise` |
| `mixture` | what do the POS and the supply chain make of each other's locks? | `CircleNeedsTill`, `EverySessionEnds` |
| `session` | does a call take effect once and is its answer true, over renewals, losses and logouts? Is out who logged out? | `IInv`, `LogoutHolds`, and the refinement `KeepsPromise` of `CallPromise` |
| `renewal` | can a session that was renewed be renewed again? | violated, see *Findings* |
| `till` | is the cashier shown what happened, and never led to charge twice? Is the draft the cart? | `IInv`, `StepTellsEffect`, `UndecidedIsFinal`, `DraftCatchesUp`, `NothingHangs` |
| `paid_cart` | is a cart that was paid gone for good? | violated, see *Findings* |
| `office` | is a confirmation carried out once, does the list tell of it, is every form let go? | `IInv`, `CountReplacesWhatWasSeen`, `OncePerConfirmation`, `ListTellsOwnChanges`, `ContentIsGranted`, `NobodyIsLeftWaiting` |

Each `IInv` is the inductive invariant of its component, the type invariant among its
parts; the runs check on their instances what the proofs carry to all. `StockLocks` has
one too, which its run need not check to show what it shows.

Deadlock checking is off everywhere: requests are handled once, calls and openings are
bounded, and the system is then at rest, rightly. That nothing *hangs* is said by the
liveness properties: `EveryRequestAnswered`, `EverySessionEnds`, `NothingHangs`,
`NobodyIsLeftWaiting`, and the fairness in `CallPromise!Spec`, which `KeepsPromise` of
`session` includes. `Store` has none of its own: its requests wait for nothing but row
locks, `IInv` says that a request that has ended holds none, and `EverySessionEnds`
is about the order in which its sessions take them.

### Bounds, and why they are enough

* **Three requests.** The longest scenarios known to matter need three: a sale, its
  void and a second void; two sales and a count between them; a circle of three
  waits. Invariants over any number of requests are proved.
* **Two products.** The smallest number at which lock order shows, and a cart
  can be disjoint from another.
* **Carts up to three lines**, one of them naming a product twice, so that the second
  movement starts from the first one's balance.
* **Stock of two each**, so that any two sales of a product compete for the last unit.
* **Two keys, two fingerprints.** One shared and one not.
* **Amounts** are a few rupiah with `MaxMoney` 30 and `MaxTransactionAmount` 20. A price
  change to cost 0 makes the journal refuse a sale after its movements were posted.
* **Four attempts** under one key, two of a count and two of a sale: the one that acts,
  the one that retries, and those of another payload, whose handler is of the other kind.
* **Two open orders that share a product**, one of them with two lines: deliveries whole,
  partial, partly and wholly rejected, a repeated key on one order and on another.
* **Two days** (`LastDay` 2) at the desk, where a certificate expires between them; one
  where no certificate is used. Two suppliers, two certificates, one of them not yet
  registered, one certificate kind.
* **Order bounds** `MaxTransactionAmount` 20 and `MaxLineItemQuantity` 5; one command
  at the desk exceeds the latter.
* **Three sessions** on the lock graph, out of eight transactions of six kinds, one receipt with
  a line of which nothing is accepted: circles of two and of three.
* **Two calls, one of them a probe, two users, two token pairs** (`MaxPairs` 2): two calls
  that are denied side by side and renew with one token, the second refused; a logout
  across a renewal; one user after the other in one browser, with the first one's
  refresh token still there.
* **One product, stock 0 to 2 (`MaxStock`), two sales, two visits, two openings of the page, two
  pending storage operations**: a cart above `MaxQuantity` and above `MaxTotal`, a second
  sale after a first one undecided, the paid cart read back by the next opening.
* **Two rows, one not there at first; two commands, two openings of a form, one change
  by others, two fetches at a time**: a form submitted twice, a stale dialog, a fetch
  that overtakes another. Every page is an initial state.

In `shop` and `desk` `RequestSymmetry` permutes requests, which commands mention only in
the set of all voids; in `idempotency` `AttemptSymmetry` permutes attempts of one payload.
The runs with liveness do without.

### Fairness

`FairSpec` of `Procurement` and `StockLocks` gives each request weak fairness on `Proceed`,
the disjunction of its own statements and, in `StockLocks`, of losing a deadlock. The
code justifies it: a handler's goroutine runs, a lock request is granted some time after the
lock is free, and PostgreSQL's deadlock detector runs. `Begin` and `Abort` are not
fair: no request must arrive, none must fail. Row locks do not need strong fairness
here because every request runs once, so nobody can overtake for ever. `Procurement`
has no deadlock detector to be fair to, since `NeverInCircle` shows it has nothing to find.
`Midnight` is not fair: nothing waits for a date.

`Session` is fair to `Proceed(c)`, what the browser does about a call: it hears an answer
or gives up, since every `fetch` ends. The server's steps are not fair; it may never
answer. `WebTill` and `BackOffice` are fair to the client's answer (which `CallPromise`
promises), to operations on the store, which end or fail, and to fetches. The user is
not fair anywhere: nobody must press a button.

`Store` and `Idempotency` have safety properties only: the middleware promises no retry.

## What is proved

Every safety property of the passing runs, for every value of the constants that the
assumptions allow: any number of requests, attempts, calls, products, orders, suppliers,
token pairs, forms' commands and visits. Each proof module ends in theorems that say
what a run checks, and begins with an inductive invariant; the lemmas between them
go action by action.

**Assumptions.** `StoreAssumption`, `ProcurementAssumption`, `IdempotencyAssumption`,
`SessionAssumption`, `TillAssumption`, `OfficeAssumption` and `LocksAssumption` say that
constants have their types and that a value standing for "none" is none of the others.
Beyond that: a product without row has no stock; products of `Procurement` and
`StockLocks` are numbers, as their sorted ids are; the orders there are at first have no
receipts yet, so none is in part or wholly received; the catalog the till shows is
finite, and there is a first opening of its page. No number of requests is
bounded.

### `Store`

`IInv` is what locks guarantee. None of its parts is inductive alone. That a locked
balance is current needs that no other session may write the row, hence
`LocksExclusive`, and that a session only publishes balances of rows it holds. That a
sale commits at current terms needs `LockedViewIsCurrent` (what a checkout read it
read under the product's lock), `CheckedOrder` (what it checked then still holds at the
commit) and that edits hold the product (`EditHoldsProduct`). That a key sells once needs
that past the insert a session holds the key's index entry and the key is unsold. The
proof shows for each action first what it does to the acting session, then that it leaves
every other session's knowledge alone.

`BooksInv` is what is about to be published. A session between two statements has
inserted exactly the movements of the lines it has posted (`MovesOfLines`) and works with
a balance that is the committed one plus these (`BalanceOfMoves`); with the lock on
that balance, what it publishes moves stock and trail together. That no movement is
counted twice needs `AdjustedWhenDone`: nothing of a request's document is there before
its commit.

| Theorem | Establishes |
|---|---|
| `Inductive`, `TypeCorrect`, `Locking` | `[]IInv`, `[]TypeOK` (no balance is negative), `[]LocksExclusive` |
| `NoLostUpdate` | `[]LockedBalanceIsCurrent` |
| `AtMostOneSalePerKey` | `[]KeySoldOnce` |
| `SoldAtCurrentTerms` | the action property `SaleAtCurrentTerms` |
| `BooksInductive` | `[]BooksInv` |
| `StockReconciles` | `[]StockIsSumOfMovements` |
| `TrailIsTrue` | `[]TrailMatchesDocuments` |
| `EffectAtOnce` | `KeepsPromise`: initial states map to initial states, and a step is a stutter of `StorePromise` or one whole command of it |

`EffectAtOnce` goes through the commits. A commit publishes what its session computed from
`view` and `work`; by `IInv` these are the committed rows of this moment, so the command
of `StorePromise`, which reads the committed rows, writes the same.

### `Procurement`

`IInv` has four kinds of parts: what a session has locked so far (`LocksSoFar`), what it
knows under those locks (`OrderHeld`, `ComplianceHeld`, `ProductsHeld`, `DeliveryFits`,
`BalancesCounted`), that locks exclude one another, and that the committed documents agree
(`DocumentsAgree` and the properties themselves). That nothing is over-received needs that
the receipts a session reconciled with are still all there are, which the order's
lock guarantees; that a key makes one receipt needs the entry of the unique index, the
order's lock being that of one order only.

| Theorem | Establishes |
|---|---|
| `Inductive`, `TypeCorrect`, `LocksNeverShared` | `[]IInv`, `[]TypeOK`, `[]LocksExclusive` |
| `ReceivingWithinOrders`, `StatusCorrect` | `[]NeverOverReceived`, `[]StatusTellsReceived` |
| `AtMostOneReceiptPerKey` | `[]ReceiptOncePerKey` |
| `NoneWithdrawnAwaited` | `[]WithdrawnIsNotAwaited` |
| `NoLostReceipt`, `BooksCorrect` | `[]StockIsSumOfMovements`, `[]BooksTellReceipts` |
| `DecisionsLawful` | the action property `DecisionIsCurrent` |
| `EffectAtOnce` | `KeepsPromise` |
| `NeverDeadlocked` | `[]NeverInCircle` |

`NeverDeadlocked` ranks the locks: order, configuration, supplier, certificate, key, then
per product its row and its balance. `LocksSoFar` gives that a session holds only what ranks
below what it waits for, so along a circle of any length the ranks would rise for ever.

### `StockLocks`

`OnlyWithTill`: `[]CircleNeedsTill`. `Ascending` says of a session of the supply chain that
all it holds ranks below all it will still ask for, and that it will ask in rising
order; `ProductLocksRise` and `NextProducts` keep it so. In a circle without the
POS every session is of the supply chain, since one at rest waits for nothing. That
every member of a circle is itself in a circle, which the property is about, is the
lemma `AllInCircle`: count the circle from him on.

### `Idempotency`

`Inductive`, `TypeCorrect`, `Truthful` (`SuccessIsTruthful`) and `Once`
(`OnceUnlessDisturbed`), for any set of attempts and payloads and any `Handler`. The
invariant says that row and cache only ever report effects committed for their own
fingerprint (`Stored`), that an attempt at work is covered by the row (`Reported`),
and that two attempts have worked only if a lease ran out or an attempt failed (`Alone`).

### `Session`

* `Inductive`, `TypeCorrect`: every token that anybody holds was issued;
* `LoggedOutIsOut`: `[]LogoutHolds`;
* `StepsOfPromise`: the safety half of the refinement, `Promised!Init` and
  `[][Promised!Next]_(Promised!vars)`.

`IInv` says beside the types what a call's request may have come to at each point
of `apiFetch` (`CallsOK`): it was executed if and only if it had its effect, a call that
renews was denied, a call that has ended before its request was served has lost its
answer. From this every step is a `Submit`, a `TakeEffect`, an `Answer` or a stutter of
`CallPromise`. For the logout it carries a fact from the moment of asking to the end
(`LogoutOK`): from a logout carried out whole onwards the refresh token of the jar is
listed, and no renewal the page waits for is past the blacklist check or asks with
another token (`Stale`), so none can put a good token back.

### `WebTill`

For every catalog and bound, and every client that keeps `CallPromise`: `Inductive`,
`TypeCorrect`, `NoSecondCharge` (`[]UndecidedIsFinal`), `ShownIsTrue` (`[]StepTellsEffect`)
and `DraftIsCart` (`[]DraftCatchesUp`). `PaymentInv` says that each sale of this opening of
the page except the one it shows is decided, that an answer tells its sale's effect for
good, and that the step tells the answer. `DraftFollows` looks at the operations that
wait for storage: either the page still waits for the draft, with nothing behind that look
that would write one, or the last write waiting, or done if none waits, is of the cart
as it is. When the queue is empty that is `DraftCatchesUp`.

### `BackOffice`

`Inductive`, `TypeCorrect`, `CountsSeen` (`CountReplacesWhatWasSeen`), `OnlyOnce`
(`OncePerConfirmation`), `ListIsCurrent` (`ListTellsOwnChanges`) and `ContentGranted`
(`ContentIsGranted`), for any rows and numbers of commands, openings, fetches and changes
by others. A form that locks itself is safe by `LockedWhilePending`, `ClosedBySuccess` and
`NextAfterAnswer`: a second command of one opening follows the answer of the first.
Of the two that do not, the order's detail and a supplier's certificate history, what keeps
a second confirmation from changing anything is the state of the row, `Settled`. The list is
`FetchedAlone`: a fetch that has always been alone has read every change that was
reported before it read.

### Sums

`NumberTheorems` proves what the books need of `SumFunctionOnSet`: the sum of the empty
set, of a set and one more element, of two disjoint sets, of equal functions, and
that natural summands make natural sums. The library defines it by recursion over the
set. Where a textbook would use induction, these proofs take a least counterexample: a
set of naturals has a least member by the library's `WFMin`, which takes a set and not
an operator.

### Only model-checked

Liveness under fairness: `EveryRequestAnswered`, `EverySessionEnds`, `NothingHangs`,
`NobodyIsLeftWaiting`, and the fairness that `CallPromise!Spec` and so `KeepsPromise` of
`session` contains. They need `ENABLED` and the well-founded descent of each queue and
loop, which the prover's temporal backend has no part in. The violations under *Findings*
are counterexamples and need no proof. No module has a `RECURSIVE` operator.

## Mutants

Beside a definition stands, where a plausible bug has a short form, the same
definition with that bug. No specification uses them; put in the original's place
each makes TLC find a property violated, which shows that the properties see the code.

| Module | Mutant | Bug |
|---|---|---|
| `Store` | `TransactionUnlocked`, `ProductUnlocked`, `InventoryUnlocked` | a `FOR UPDATE` left out |
| | `KeyNeverTaken` | no unique index over the key |
| | `ReadCommitted` | a product's second line starts from the committed balance |
| | `LinesPostedButOne` | a loop that stops early |
| `Idempotency` | `KnownKey`, `ReserveAnyway`, `RecordFailureCached` | the fingerprint is not compared, the conflict ignored, a failure cached |
| `Procurement` | `...Unlocked`, `FailOpen`, `NextProductAny` | no lock, a transaction left open, the sort left out |
| `ProcurementData` | `OutstandingOfOrder`, `StatusAfterAny`, `ReceiptMovementsAll`, `ReceiptEntriesDelivered` | earlier receipts forgotten, rejected units counted |
| `StockLocks` | `NextProductsUnsorted`, `EndHolding` | the wrong order, a transaction left open |
| `Session` | `RenewedSwapped` | the pair's other token in the access cookie |
| | `AccessOnly` | a logout that does not name the refresh token |
| | `GiveUpLater` | a lost request sent again |
| `WebTill` | `EditOfKeepsVisit` | an emptied cart is still the visit's |
| | `OutcomesHopeful` | a lost answer shown as a rejection |
| | `closeReviewUndecided` | an undecided sale can be dismissed |
| | `PersistGoods` | an emptied cart is not written |
| | `AnsweredUnlessLost` | no `catch` around the submission |
| `BackOffice` | `OpenFormAnywhere` | a dialog opens over one that is open |
| | `ExpectedNow` | a count measured against the list at submission |
| | `LockedNever`, `AnsweredUnlisted`, `FinishedStuck` | no disabled button, no refresh, no `finally` |
| | `checkFeatureOpenly` | a gate that opens before the answer |

## Findings

1. **A deadlock is answered as a missing product** (`not_found`). `GetProductsBySKUsForUpdate`
   does not read `rows.Err()`. When its query loses a deadlock against a void or an
   adjustment, the products it did not reach look absent and the checkout answers
   404 `PRODUCT_NOT_FOUND`, which `docs/design/POS_CONTRACT_MAP.md` defines as a product that
   is missing or inactive.
2. **A retry can repeat an adjustment** (`idempotency_retry`). A `FAILED` row lets a retry
   through, an expired lease is renewed, and `AdjustStock` has no memory of the key. An
   adjustment whose confirmation was lost is applied twice under one key, where
   `docs/PRD.md` promises no double decrement upon retries. `OnceUnlessDisturbed` says
   exactly how much does hold.
3. **A session can be renewed only once** (`renewal`). The back end rotates: a renewal lists
   the refresh token it was asked with and answers a new pair. The BFF's route stores the
   pair's access token and drops its refresh token, so the cookie keeps the listed one
   and the next renewal, one access token's life later, is refused. A refresh answers the
   same token-pair envelope as a login, `docs/API_SPECIFICATION.md` says, and the login
   route does store both.
4. **A paid cart comes back** (`paid_cart`). `useCart` keeps the draft under the tenant
   `default` until its own `authApi.me()` answers. A product added before is saved under
   `default` too; the dismissal of the receipt clears the tenant's draft only, and the
   next opening of the page starts from the other one. `lib/offline/db.ts` says of
   `clearCartDraft` that it clears the draft when a checkout is complete.

Receipts lock their products in order "to eliminate deadlock risks"
(`docs/API_SPECIFICATION.md`). Among orders and receipts it does, which is `NeverInCircle`;
against checkouts and voids, which take the same rows unsorted, it does not:
`CircleNeedsTill` says that some session of the POS is part of every circle, and
`EverySessionEnds` that each circle is broken.

## Not modelled

* **Read-only queries** (reports, stock card, manager analytics, trial balance) and the
  dialogs that show them: they change nothing.
* **The catalog's cache and the daily summary** of the POS page: what the cards show is an
  input of `WebTill`, any product at any moment.
* **The procurement draft** of the order form, and the receiving dialog, which no page opens.
* **Leaving a back office page** while a form is open, which forgets it.
* **Manual journal entries and reversals.** Their hazard (a sale's entry reversed by hand
  and the sale voided afterwards) is listed.
* **The back end's entitlement cache** and **the tenant's connections**: hazards listed.
* **The migration runner**, which runs before any request.
* **Money arithmetic and its formatting** beyond the bounds and the representability that
  checkout and orders check.
* **Categories, QRIS settings, receipts' wording**: no invariant relates them to the rest.
* **Outstanding purchase orders** keep a product from being withdrawn: `Procurement` has
  the rule (`Withdrawable`), `Store` leaves open whether there are any.
* **A supplier's contact data, document wording, traceability**: no rule is about them. The
  30 days of notice before a certificate expires only colour an answer.
* **Passwords, signatures and permissions**: outcomes of a login and of the middleware.
* **Layout, languages, printing, logging, configuration, the AI worker**: no state of the domain.
* **Legacy Redis idempotency** (`pkg/redis/idempotency.go`): no router mounts it.

## Plan

1. *Done.* Store with POS, inventory and automatic ledger entries; idempotency.
2. *Done.* Procurement, checked against `ProcurementPromise`; the lock order of
   receipts against sales.
3. *Done.* The session of the browser and its client, checked against `CallPromise`; the POS
   page and the back office pages over that promise. Proofs of `Session` and of the payment
   part of `WebTill`.
4. *Done.* Proofs: the books and the refinement of `Store`; `Procurement` with its
   refinement and its lock order; the POS among them in `StockLocks`; the draft of `WebTill`;
   `BackOffice`. Next would be to compose them: a page over `CallPromise` over the
   middleware over a store, at the level of their promises.
5. **Manual ledger.** `ManualLedger`: manual entries, reversals, second reversals against
   voids. Theorem: the ledger as a whole balances.
6. **Entitlement cache and tenant connections.** Cache fill against invalidation;
   `search_path` of pooled connections over failures and timeouts.
7. **Money** as an algorithm over a bounded integer width, checked against exact
   arithmetic; **migration runner** over crashes.
