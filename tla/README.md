# StockGuardian in TLA+

Models, model-checking runs and machine-checked proofs of StockGuardian: a
FastAPI service over PostgreSQL (SQLAlchemy, one session and one transaction
per request) and Redis (refresh tokens, dashboard cache, ARQ jobs) that keeps
the stock of products, its history of movements and its alerts.

    tlc -config Movements.cfg MCInventory.tla     # any run: see "Runs"
    tlapm InventoryProofs.tla                     # and the other *Proofs

## 1. Inventory of the system

| component | state | operations | talks to |
|---|---|---|---|
| stock movements (`services/movement.py`) | `products.quantity`, `stock_movements` | create; history | row lock on the product, alerts in the same transaction |
| stock alerts (`services/alert.py`) | `stock_alerts` | evaluate (inside the caller's transaction), acknowledge, resolve | reads the caller's copy of the product |
| products (`services/product.py`) | `products`: limits, supplier, SKU | create, PATCH, DELETE | evaluate after a change of `min_stock`; foreign keys |
| suppliers, users (`services/supplier.py`, `services/user.py`) | a row with a unique key each | create, PATCH, DELETE | referred to by products, movements, acknowledgements |
| seed (`scripts/seed.py`) | none of its own | look up and insert a list of rows, one transaction | the same unique keys as the routes |
| authentication (`services/auth.py`, `core/security.py`, `dependencies/auth.py`, `core/permissions.py`) | refresh keys in Redis; the tokens clients hold | register, login, refresh, logout, every protected call | loads the account each time |
| dashboard (`services/dashboard.py`, `core/cache.py`) | one cached summary with a TTL | summary | three COUNTs over the catalog |
| listings (`schemas/common.py`, `repositories/`) | none: a client's walk is a sequence of calls | history, page by page | the rows others write meanwhile |
| reports and workbooks (`services/report.py`, `utils/excel.py`) | none | valuation, movements summary, their sheets | one SELECT each |
| report jobs (`services/report_jobs.py`, `worker/`, `routes/reports.py`) | ARQ's queue, in-progress and result keys | enqueue, status, download; the worker's task | the worker reads the database |
| sessions and errors (`core/database.py`, `exceptions/`) | connection pool, transactions | begin, commit, roll back, answer | under everything above |
| singletons and lifespan (`core/queue.py`, `core/redis.py`, `main.py`) | two lazy globals per process | create, close | report jobs, tokens, cache |
| schema and migrations (`migrations/`, `scripts/entrypoint.sh`, `k8s/migrate-job.yaml`) | the revision of the database | upgrade, by any container | everything that issues SQL |
| health, logging, metrics, configuration | none of their own | observation | |

What is hard. Every handler is a coroutine that gives up control at each
statement, so the unit of interleaving is one SQL statement or one Redis call,
and several processes may serve. PostgreSQL runs at READ COMMITTED: a statement
sees what has been committed by now, so a handler's second statement may
contradict its first. Only `MovementService.create` locks what it reads. The
other guards are a partial unique index, unique columns, CHECKs and foreign
keys, some of whose errors are swallowed and some of which become a 500.
A process may die between any two statements. In Redis there are no
transactions at all; keys expire.

What makes each component correct:

- movements: the quantity is the balance of the newest movement, each balance
  follows from the one before, whatever runs concurrently; what committed is
  recorded once, answered 201 or not, and what failed before the commit is not.
- alerts: one active alert per product and kind; active exactly when the
  condition holds; never backwards; the recorded snapshot is true.
- products, suppliers, users: keys stay unique, references stay valid, no history
  disappears with a user, and no call waits for ever; the seed may be repeated.
- authentication: a login has one usable refresh token, none after a logout, but for
  calls that overlap or answers that are lost, in the ways section 3 names; rights are
  those of the account now, not those of the token.
- dashboard: the summary agrees with the database once writes stop.
- listings: a walk through the pages misses and repeats no more than what was
  removed and recorded under it.
- reports: they agree with the history and with each other, and the sheets with
  them.
- report jobs: an accepted job ends; what a poll says was true; a file is the
  kind of report asked for, on data no older than the request for it.
- processes: a call's clients stay open, and pools bounded; nothing serves over an
  incomplete schema after its own migration; an upgrade is all or nothing.

The hazards behind these, each at its line of code and with the properties
that watch it, are listed under `hazards` in `PROJECT.json`.

## 2. Modules

| module | models |
|---|---|
| `StockRules` | the pure rules: `_apply_movement`, `decide_alert_action`, the alert conditions |
| `StockLedger` | the abstract specification: a quantity and a ledger change together in one step |
| `Inventory` | movements, PATCH, DELETE, acknowledge, resolve as concurrent transactions |
| `InventoryProperties` | the properties of `Inventory`, the refinement mapping, the inductive invariant |
| `InventoryProofs`, `AlertProofs` | theorems |
| `Catalog` | suppliers, products, users, what refers to them, and the seed |
| `Dashboard` | the cached summary over `Catalog` (it extends it: the reader and the writers share the rows and the connection pool) |
| `AuthTokens` | accounts, tokens, refresh keys, permissions |
| `ReportJobs` | the job routes, the worker, and ARQ's state of a job |
| `ReportFigures` | the pure part of the reports: aggregation, order, rows of the sheets |
| `Reads` | the walk through the history and the reports, over the abstract ledger |
| `Migrations` | the objects that each revision makes, and those the models declare |
| `Deployment` | containers, upgrades, restarts, the lifespan and its two clients |
| `CatalogProofs`, `AuthTokensProofs`, `ReportJobsProofs`, `ReadsProofs`, `ReportProofs`, `DeploymentProofs` | theorems |
| `MCInventory`, `MCCatalog`, `MCReads`, `MCDeployment` | instances for TLC |

`map` in `PROJECT.json` names the lines each definition stands for. Definitions
that only name a shape, spell out a lock mode or dispatch to actions that are
mapped are left out of it.

### Inventory

A request `r` is a process. `op[r]` is its call, `pc[r]` the statement its
handler issues next, or its answer. `products`, `ledger`, `alerts` are the
committed rows. `view[r]` is the `Product` in the session's identity map,
`pend[r]` and `staged[r]` the rows it has written and not committed, `lock[r]`
the mode in which it holds its product's row, `target[r]` the alert the next
statement writes. The steps of a movement follow the code line by line:

| `pc` | action | statement |
|---|---|---|
| `lock` | `LockProduct` | `SELECT ... FOR UPDATE`, the new balance, the flush of product and movement |
| `low_stock`, `overstock` | `ReadActiveAlert` | `evaluate`'s SELECT for that kind |
| `open`, `key_share` | `InsertAlert`, `CheckAlertProduct` | the INSERT in its savepoint: unique index, then foreign key |
| `close` | `CloseAlert` | the UPDATE to resolved |
| `commit` | `Commit` | `session.commit()` |
| `refresh` | `Refresh` | `session.refresh`, on a connection checked out anew, in a new transaction |

`FlushPatch` starts a PATCH that has loaded the product in `AskPatch`; it writes
only the columns that differ from what was loaded, as the unit of work does, and
no UPDATE at all when none does. The commit gives the session's connection back to the
pool (`Connected`), so the `refresh` after it may find none, lose the one it gets, or
find the row gone: a 500 for what is recorded, the answer `"unconfirmed"`. `SetAlertStatus` is the UPDATE of acknowledge
and resolve with the refresh that follows it, `DeleteChildren`, `DeleteProduct` and `CascadeDelete` the DELETE.
Of PostgreSQL the module has row-lock modes and conflicts, waits on the unique
index (`KeyHolders`), and a deadlock detector that aborts a member of a cycle of
waits. `Abort` is what happens when an exception leaves the handler.

Requests are numbered in the order their transactions begin. The number stands
for `created_at`, which is `now()`, the start of the transaction; the sequence
`ledger[p]` is in commit order. The two orders differ, and run `HistoryOrder`
is about that.

An alert's timestamps, a product's name, price and `is_active`, and a
movement's reason are left out: no property tells them apart.

### Catalog and Dashboard

`rows` has suppliers, products, users, movements and alerts in one function,
named by the request that inserted them and reduced to the columns that refer
or are referred to; `staged[r]` are the rows a transaction has written, `locks[r]`
the modes it holds. create is `AskCreate` (look for the key), `FindSupplier`,
`Insert` (unique index), `CheckReference` (the foreign key's shared lock),
`Commit`, `Refresh`; update likewise. A movement is `AskRecord`, `LockProduct`
and the same INSERT; an acknowledgement an UPDATE of the column that refers to the
user. DELETE is `Detach` (what the ORM does to the children first), `Delete`, and
`ApplyOnDelete`, where `OnDelete` says what each foreign key asks for. The seed is
`Seed` and `Insert` in turn along `Demo`, `cursor[r]` being its place in the list.
A statement waits while a lock or a key it wants is held (`BlockedBy`); a cycle of
waits loses a member (`DetectDeadlock`).

The dashboard's reader is `Get`, three `Count`s in the order of the dict, and
`Set`; `Expire` is the TTL. Any number of readers do so at once, each with figures of its
own moments. `Admits` is the connection pool that readers and writers share; who waits
for it too long is turned away, a call that only has its refresh to do included.

### AuthTokens

Calls are numbered as they arrive; `call[r]` is what call `r` asks for and the token it
carries, `pc[r]` the next step of its handler, or its answer. A jti is the number of the
call it was issued to, `keys` the set of jtis with a key in Redis, `expired` the tokens
whose `exp` has passed. refresh is `CheckKey`, `LoadUser`, `Rotate`, `IssueTokenPair`,
one call to Redis or PostgreSQL each. Any call may arrive at any moment with any token
that some client has received, one that another call is carrying included: that is a
client that gave up waiting and tries again while the handler runs on, or one with two
windows. A lost answer leaves a token that nobody sends, `Crash` stops a handler between
two steps, `EditUser` is what an administrator does to the account meanwhile.
`beside[r]`, which calls were in progress when `r` arrived, and `during[r]`, which rows
the account had while `r` was served, are history.

### ReportJobs

`job[j]` is what ARQ holds: a stage, the tries, whether a live worker has it, the
data its SELECT saw and its outcome. `ReadStatus`, `ReadInfo`, `FetchStatus`,
`FetchResult` are the up to four reads of a download; the job may move between any
two. `seen[r]` records the states the job went through while `r` was served, so
that "was true at some moment" can be stated.

### ReportFigures and Reads

`ReportFigures` has no state: `SummaryByType` is the GROUP BY, `BuildMovementSummaryRows`
the zeros for missing types, `InventoryValuation` the other report, and
`ValuationSheet`, `MovementsSheet` map row numbers to cells as `utils/excel.py` does.
`Reads` lets `Record` and `Forget` of `StockLedger` change the ledger (`Inventory`
is proved to implement it) while one client walks the history: `Begin`, then `ReadItems`
and `ReadCount` per page, as long as the last answer says there is a further page.
A movement's number is its `created_at`; movements are committed in any order of
them. Two movements never have the same number, and prices and quantities are
small integers.

### Migrations and Deployment

`Migrations` writes each revision as the objects it creates and drops and checks,
in the assumption `LatestIsComplete`, that what they amount to has everything that
`models/` declares. (It has one index more, `ix_stock_movements_product_created`.)
`Deployment` runs containers over one database. `upgrade[c]` is a migration in its
transaction: the version it read and the one it is at. Two may read the same version;
DDL waits for the other's (`Migrating`), and then finds its objects (`Visible`) and
fails. Containers of `Api` run the entrypoint, those of `Direct` have a command that
bypasses it, as the Kubernetes manifest has, and `Jobs` migrate and end. In each
process `pool[c]` is `_pool`, `open[c]` what it has created and not closed; a caller
is between `AskPool` and `CreatePool` while it awaits `create_pool`.

Definitions whose comment starts with `Fault:` are not part of any
specification. Each is what a definition next to it would be after a plausible
mistake (the lock forgotten, the wrong column set written, the index missing),
and a property earns its place by failing when the definition is so replaced;
`mutants` in `PROJECT.json` pairs them up.

## 3. Runs

| run | module | shows | instance |
|---|---|---|---|
| `Movements` | `MCInventory` | `LedgerSound`, `AlertsFollowStock`, `AnswersMatchLedger`, `ImplementsStockLedger` | 3 concurrent movements or deletions, crashes, `MaxInt` 4 |
| `Everything` | `MCInventory` | `TypeOK`, `LedgerSound`, `AlertSnapshotsTrue`, `OneActiveAlert`, `ImplementsStockLedger`, `EveryRequestAnswered` | 3 concurrent calls of every kind |
| `Serial` | `MCInventory` | `DriftExplained`, `AlertsOnlyAdvance` | 4 calls over 1 connection |
| `Reports` | `ReportJobs` | `AnswersWereTrue`, `FileIsTheReportAskedFor`, `EveryJobEnds`, types | 1 job, 3 requests, 2 tries |
| `Tokens` | `AuthTokens` | `OnlyOverlapForks`, `LogoutEndsLogin`, `TokensForLiveAccounts`, `ServedByCurrentRole`, types | 1 account, 3 calls, 1 edit |
| `Summary` | `MCCatalog` | `UniqueKeys`, `EveryReferenceHolds`, `HistoryIsKept`, `SeedIsIdempotent`, `SummaryConverges`, `EveryCallAnswered`, types | 2 calls out of 9, 2 readers, 3 connections |
| `Reads` | `MCReads` | `WalkMissesNoMore`, `WalkRepeatsNoMore`, `ReportsReconcile`, `SheetsAddUp`, types | 2 products, 3 movements, pages of 1 and 2 |
| `Deployment` | `MCDeployment` | `ServesWholeSchema`, `UpgradeIsWhole`, `HandlesOpen`, `PoolsBounded`, `EveryContainerSettles`, types | 3 containers, 2 callers, 2 faults, every revision to begin with |
| `HistoryOrder` | `MCInventory` | `NewestRowIsCurrent` is violated | 3 concurrent movements |
| `AckRace` | `MCInventory` | `AlertsOnlyAdvance` is violated | an acknowledge against movements |
| `StalePatch` | `MCInventory` | `AlertsFollowStock` is violated | a PATCH of `min_stock` against movements |
| `ReportExpiry` | `ReportJobs` | `FailureWasTrue` is violated | as `Reports` |

Some properties hold of some mixes of calls only, and both sides are shown.
`AlertsFollowStock` holds of concurrent movements and deletions (they serialise on the
row lock) and fails when a PATCH runs beside a movement. `AlertsOnlyAdvance` holds of one
transaction at a time, where it only says in what order the guards let the status change;
what it is for, a status tested without a lock (`services/alert.py:119`), can be met
beside a movement alone, and there, in `AckRace`, it fails. Both speak of products that have moved: `ProductService.create` does not call `evaluate`, so a
product born with quantity 0 at or under its minimum has no alert before then.

One transaction at a time, alerts and stock still part in two ways, and `DriftExplained` says
they are the only ones. `update` evaluates when `min_stock` or `quantity` is in the
payload, so a PATCH of `max_stock` alone leaves the overstock alert as it was; and
`AlertService.resolve` resolves an alert whether or not its condition has ceased. Either
lasts until the next movement or PATCH of `min_stock`. (The property once named the
PATCH alone; the attempt to prove it showed the other, which no instance had let happen.)
The design document of superestoque
(`docs/superpowers/specs/2026-06-26-deteccao-superestoque-design.md:25`) has alerts
resolve "quando a condição cessa".

`services/auth.py:3` and `docs/architecture.md:72` promise that a logout revokes at once and
that refresh rotates. Both hold of calls that do not overlap. `refresh` looks the key up
(`:79`), loads the account, deletes the key without looking at what `delete` returns (`:88`)
and sets another (`:101`), four steps. Two refreshes of one token in progress together can
both find the key, and then both issue: the login has two usable tokens from then on, and a
logout with one leaves the other. A logout that comes between `:79` and `:101` deletes a key
that is gone, or about to go, and the pair then issued stays usable. So does the pair whose
answer was lost, when its client logs out with the token it had before. `OnlyOverlapForks`
and `LogoutEndsLogin` say that this is all: they name these exceptions, the instance reaches
them, and the theorems say that without them a login has one token at most, and none after
its logout. (With the exceptions left out, both fail in this instance.)

The pool of `core/queue.py` is called a singleton and is not quite one: first callers
that overlap each create one. `PoolsBounded` says how far that can go.

Bounds and why they are enough. All bounds are constants of a `.cfg`.

- `Products`: one. Requests for different products share nothing but the pool;
  within a product the locks, the index and the ledger are all there. The
  proofs have any number.
- `RequestCount` 2 to 4, `PoolSize` three, two or one. Each race found here, and
  each cycle of waits, needs two transactions; a third gives it a state to
  start from (an alert that is open, a product that has moved), and the fourth
  of `Serial` a second opening after a resolution. `Catalog` starts from rows that are
  there, so two calls are a race, and two readers let one be slow: it stores what it
  counted before a commit over what the other counted after it.
- quantities 1 to 3 with thresholds `[1, 2]` and `[0, NULL]`: movements cross each
  limit in both directions, stay on it, hit zero, and exceed `MaxInt`.
- `MaxTries` 2: a first try that dies and a last one. `MaxVersion` 1: data
  before and after a change. One job id is enough since jobs share nothing.
- `CallCount` 3: a login and two calls with its token, beside each other or one after the
  other, or a call with the token of the first refresh; `MaxChange` 1: an account
  deactivated, demoted, given another password or deleted. Both are guards that the code
  does not have; they bound the run.
- `Reads`: three movements make two pages of two and three of one, so that a commit
  or a deletion can come before, between and after the pages; the two products differ in
  supplier, price order and `is_active`; the periods leave out the first movement or
  the last.
- `Deployment`: two upgrades meet in the container and the job (the third container does
  not migrate); `MaxFaults` 2 kills both, or one of them twice; two callers are the
  least that race for the pool. The proofs have any number.

Symmetry is not used: requests are ordered, and liveness is checked.

`CHECK_DEADLOCK` is left on. `Finished` and `Rest` are the stuttering of an
instance in which everything has been answered or stopped; a reader or a TTL can
always move in `Dashboard`, a client in `Reads`.

Fairness. `Inventory`: weak fairness of each request's next statement, and of
PostgreSQL's deadlock detector, which runs after `deadlock_timeout`. A
statement that waits is not enabled, so weak fairness says only that the
event loop resumes a coroutine whose database answered. `Catalog`: while a call
in progress need not wait, or a cycle of waits can be broken, the database goes on
with one of them. `Dashboard`: in addition, a reader that missed goes on to
`Set`, and the TTL runs out. `ReportJobs`: some worker is up and works, a dead
worker's in-progress key runs out, a handler in progress goes on. `Deployment`: the
platform starts what is down (`restart: unless-stopped`, the Job's backoff), processes
go on, `create_pool` returns or raises. Nowhere need a client call, a process die or
be stopped, a result expire or data change. `AuthTokens` and `Reads` state safety only.

Findings. The four violation runs are disagreements between the code and what
its tests, messages or design documents say; `findings` in `PROJECT.json` quotes
both sides.

## 4. Proofs

Each proof module takes a component's specification for every value of its
constants. The assumptions are the named ones of the modules: quantities of
movements are positive (`MovementCreate` requires it), thresholds are consistent
(`ProductCreate` requires it), the sets of callers and clients are finite where they
are counted, the markers `None` and `Unset` are not values, the rows that `Catalog`
starts from obey the constraints of their tables (`PresentAssumption`) and the seed
inserts a supplier before its products. TLC evaluates all of
them in the runs, `LatestIsComplete` included, which is about the text of the
revisions and has no parameter.

**Inventory.** `InventoryProofs` proves `InventoryInvariant` (`Spec =>
[]InventoryInv`), `TypeCorrect` and `LedgerIsSound` for every set of products and
calls, every number of requests, every pool size and every `MaxInt`.
It also proves `Implements`: `Spec => ImplementsStockLedger`. The
mapping hides everything but the quantity and the ledger.

`LedgerSound` is not inductive: at `Commit`, the row written is `pend[r]`,
computed statements earlier. `InventoryInv` adds what makes it so:

- `RequestShape`: which of `op`, `view`, `pend`, `target` a request has at each `pc`;
- `LockSafety`: two transactions never hold conflicting modes on one row, a lock
  is held only on a row that exists and only in the middle of a transaction, and
  a DELETE about to cascade holds the strongest mode;
- `PendingSound`: a pending product row is held in a mode that excludes other
  writers; while a movement is in progress, its pending row is the
  committed row with the quantity `ApplyMovement` gives it, and a PATCH's pending
  row has the committed quantity. Both stay true because whoever might change
  the committed row is excluded by `LockSafety`.

The order of the argument is the layout of the module: lemmas about the
operators, then for each conjunct one lemma per group of actions, then the
invariant. The refinement uses the invariant: `Commit` of a movement is `Record`
because `PendingSound` says the pending balance is that of the current
quantity; `CascadeDelete` is `Forget`; all else, `Commit` of a PATCH included, is
a stutter.

**Alerts.** `AlertProofs` adds `AlertInv` to `InventoryInv` and proves, for any mix of
calls, `AtMostOneActiveAlert` and `SnapshotsAreTrue`. `evaluate` reads without a lock
whether an alert is active, so the invariant has to say what that reading is worth later:

- `AlertsFresh` and `WritesApart`: an alert row is inserted once, by its own request, and
  no two transactions have written the same one, since the second waits (`AlertHolders`);
- `KeysApart`: the key of an uncommitted active alert is free of the committed rows and of
  everybody's uncommitted ones (`InsertAlert` waits for `KeyHolders`);
- `WritesSound` and `ViewSound`: an uncommitted alert is what the session's product says, and
  that product is the row about to be committed or one that was committed once, so the
  quantity it records is a balance of the ledger.

`AnswersAgreeWithLedger` has an invariant of its own, `AnswersInv`: a request's number is in
the ledger once from its commit on and never before, and in its own product's only. The
answer is the weaker evidence: a 500 may stand for a movement that was recorded, when the
refresh failed, and the theorem counts that call (`"unconfirmed"`) among the committed.

Three theorems are about some mixes of calls only, because the run beside them shows that
the property fails of the others; their hypotheses are constants of the runs.
`MovementsKeepAlertsTrue` assumes `OnlyMovementsAndDeletes`, which run `Movements` meets, and
needs `EvaluatedSound`: between `evaluate` of one kind and the commit, what was decided still
fits, since the locking read lets nobody else at the product. (`StalePatch` adds a PATCH.)
`AlertsAdvance` and `DriftHasTwoCauses` assume `PoolSize = 1`, as run `Serial` has it: one
connection, hence one transaction at a time; a request that has committed and waits to
refresh holds none, and the next may begin. (`AckRace` has two.) `SerialInv` says that what
the one connected request has read is what is committed. `DriftHasTwoCauses` assumes further that no
process dies (`Crashes = FALSE`), because its property speaks of committed calls by their
answers, and a request that died after its commit has none.

**Catalog.** `CatalogProofs` proves `KeysAreUnique`, `ReferencesHold`, `MovementsAreKept` and
`DashboardTypeCorrect` from `CatalogInv`, for any rows to begin with, any calls and any
number of them. Only `Commit` changes `rows`, and what it writes was decided statements
earlier, so the invariant says what keeps a decision good until then:

- `StagedSound` and `LocksApart`: a row written and not committed is new, or locked by
  its writer alone, so no two transactions have written the same row; `RowsFresh` says
  that the row of an id is inserted once, so a row that is gone stays gone;
- `KeysApart`: a key is free of the committed rows and of everybody's uncommitted ones,
  which is what waiting on the unique index achieves;
- `ReferencesSound`: wherever an uncommitted row refers to, the reference was there
  before, or the row it leads to is held (`Holds`), or `CheckReference` comes next;
- `DeleteSound`: at the commit of a DELETE no row that its transaction sees refers to the
  row that goes. Rows that others are about to commit cannot either: they hold it in
  a mode that conflicts with the DELETE's.

The order of the module: facts about the data, a step that commits nothing
(`LocalStep`), one lemma per action, then `Commit`, which has one lemma for its own rows
and one for what it leaves true of the others (`CommitKeeps`, `CommitOthers`).

`SeedRunsAgain` needs one thing more, `SeedInv`: unless somebody deletes rows, every
place of the list that a seed has passed is in its sight, committed or in its own
transaction. What others commit meanwhile adds rows and changes no key, because
`StagedSound` leaves only a DELETE to put a row away. That the markers are not strings
(`MarkersAssumption`) matters here: a row of the list has a key.

**Report jobs.** `ReportJobsProofs` proves `JobsTypeCorrect`, `AnswersAreTrue` and
`FilesAreFresh` from `ReportJobsInv`. `JobSound` relates a job's data to its report and
to the moment it was asked for. `AskingSound` is the point: between two reads the job
may move, so it says only what survives, that the state now is among those seen, and
that a job once found complete is complete or expired ever after. `AnsweredSound` ties
a file to its job.

**Tokens.** `AuthTokensProofs` proves `AuthTypeCorrect`, `ForksNeedOverlap`, `LogoutIsFinal`,
`TokensOfTheLiving` and `RolesAreCurrent` from `AuthInv`, for any number of accounts and of
calls in progress together. A login's tokens form a tree, each rotated into the next:

- `KeysSound`: a token that some call has rotated (`Spent`) has no key;
- `ForkSound`: of the tokens of a login that nobody has rotated, those about to be issued
  included, there is one, or the login has forked. `RotateStep` is where that counts: if
  the token was spent before, then by
- `RaceSound` whoever spent it was in progress together with this call. For a refresh past
  the lookup has found the key, when nobody had rotated the token; and of two calls in
  progress the later one found the other (`ArrivalSound`);
- `LogoutSound`: a token logged out with has no key or has expired, and a refresh with it
  that arrives after the answer gets no further than the lookup;
- `HistorySound` keeps, for each call, a row the account had while it ran. `CallSound` says
  which step belongs to which call, and that what a call carries was issued.

The deletion of a key that is gone already (`services/auth.py:88`) is thus the only place
where two tokens come of one.

**The walk.** `ReadsProofs` proves `ReadsTypeCorrect`, `RepeatsBounded` and `MissesBounded` from
`ReadsInv`, for any filters, page sizes and number of movements. Neither bound is inductive:
a page may come late, long after the rows under it have shifted. Each becomes so with a
potential. `Ahead` are the rows the client has been given that are at the walk's next
position or after it: they are what it may still be given again. A commit moves at most one
row past that position, so repeats and `Ahead` together never outnumber the commits.
`Behind` are the rows that were there from the beginning, lie before that position and
have not been given: a deletion moves at most as many rows ahead as it removes, so they
never outnumber the removals. `PositionShift` and `RowsBetween` say how far a row's position
moves; `PagesEnough` that the walk ends only when no position is left to read, which is what
`Page.create` rounding up is for.

**The reports.** `ReportProofs` proves `FiguresReconcile` (`ReportsReconcile`) and
`WorkbooksAddUp` (`SheetsAddUp`), for any products, movements and filters. Both need to know
what a sum over a set is, whatever the order of its terms, and the module begins with that:
`SumIsRecursive`, `SumRemoves`, `SumUnion`, `SumReindexed`. Their induction over the subsets of
a finite set takes the set of those for which a claim holds in place of the claim
(`SubsetInduction`), from the minimal element that a well-founded order gives. Upon them:

- `RowOfType` and `SummaryTotal`: a row of the report has the figures of its type's group,
  zeros where there is none, and the total is that of the three groups;
- `Balanced`, an invariant: a product is gone with its movements, and one that was never
  adjusted has in stock what came in less what went out. Summed over the products
  (`FlowIsStock`) it is the second half of `ReportsReconcile`;
- `ListExists`: ORDER BY stock value and SKU has one answer, because a SKU is unique, so that
  the items of a valuation list each chosen product once (`ItemsListed`);
- `ValuationLayout` and `ColumnAddsUp`: where the rows and totals of a sheet stand, and that a
  column of it adds up to the sum over the products.

What is assumed of the shelf is what the schema has: SKUs are unique, prices and quantities
are numbers not below zero.

**Deployment.** `DeploymentProofs` proves `DeploymentTypeCorrect`, `SchemaWhileServing`,
`UpgradesAreWhole`, `ClientsStayOpen` and `PoolsStayBounded` from `DeploymentInv`.
`MigratedFirst` says that whoever is past the entrypoint's command finds the last
revision; with `LatestIsComplete` that is all the models name. `ClientsSound` says that
a process's open pools are those it has created and the stored one the last of them.
`PoolsCounted` is the potential behind the bound: pools created and callers creating
one never outnumber the callers, since nobody starts creating once a pool is stored.

Only model-checked: liveness (`EveryRequestAnswered`, `EveryJobEnds`, `SummaryConverges`,
`EveryCallAnswered`, `EveryContainerSettles`), which is out of the prover's reach, and the
four violations. Every safety property that a passing run checks is a theorem, three of them
for the mixes of calls named above.

## 5. Not modelled

- The filters of a report job, which travel in its arguments: "the report asked for" is its
  kind only.
- The shutdown of uvicorn: `Drained` assumes that it waits for the requests in progress
  before the lifespan ends. What `HandlesOpen` checks is that no pool is closed under a
  call when another is stored.
- Whether `Metadata` and `Revisions` in `Migrations` are what `models/` and
  `migrations/versions/` say: both were written down by hand.
- The lists of alerts, products, suppliers and users. They share `Page` with the history;
  the list of alerts may be filtered by a status that changes during the walk, and
  nothing like `WalkMissesNoMore` could be said of it.
- Two movements with the same `created_at`: the order of the history leaves them open.
- Downgrades: nothing in the repository runs them. (That of `0003` rebuilds an index over
  `product_id` alone, which two active alerts of different kinds would violate.)
- Hashing, signing, validation of strings, decimals, fonts and titles of the sheets,
  logging, metrics, tracing, health, settings.
- Redis losing keys, PostgreSQL failing over: the code has no handling of
  either beyond an error answer.

## 6. Plan

Done, in this order: `StockRules`, `StockLedger`, `Inventory` with its
properties, runs and proofs; `ReportJobs`; `AuthTokens`; `Catalog` and
`Dashboard`; `ReportFigures` and `Reads`; `Migrations` and `Deployment`; the proofs of
`Deployment`, `ReportJobs`, `AuthTokens`, `Catalog`, the alerts and answers of `Inventory`,
`Reads` and the reports.

To extend: the list of alerts with its changing status; alerts of `Inventory` and users of `Catalog` in one composition.

To prove: whatever the extensions add.
