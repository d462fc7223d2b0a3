# TenderApi: a TLA+ model

TenderApi is a Go service (Beego) over a Microsoft SQL Server database. It lets the
procurement staff of a company collect external purchase orders into baskets, open
tenders for them, sign contracts, and send orders that a tender did not settle back
to the external order system, from which they return later. This directory holds
TLA+ modules that model the service, TLC configurations that check them, and proofs
that TLAPS checks.

Every HTTP request runs in a goroutine of its own and opens database connections of
its own (`controllers/default.go:54-73`). There is almost no shared memory: requests
meet in the tables, so the concurrency of the program is the concurrency of its SQL
statements. That is the grain of the models: **a request is a process, an SQL
statement is a step**.

## 1. Inventory

| Part | State | Operations | What is hard | What makes it correct |
|---|---|---|---|---|
| Tender life cycle: `ReannounceTender.go`, migration 002 | `Tender` (version, current flag, life-cycle status), `TenderRecycleBatch/Packages/Codes`, `TenderVersionItems`, `TenderRecycleOutbox` | reannounce: one transaction under an application lock and a row lock | concurrent reannouncements, suspension, deletion and contracts; a failure between two statements | one open batch per tender; what was checked under a lock holds at the commit; all or nothing; a waiting tender has a queued batch |
| Recycle matcher: `TenderRecycleMatcher.go` | the batch tables | run on each answer of the external order list: mark codes, packages, batches | several answers at once, repeated answers, deadlocks | status follows the marked codes; nothing recognised is lost |
| Tender administration: `PostTender`, `UpdateTender`, `DeleteTender`, `PostGeree`, `UpdateGeree` | `Tender`, `Geree` (contracts), `Notifications` | single statements without a transaction, except the deletion | check and write in different statements | no contract on a deleted or suspended tender |
| Baskets: `PostBasket`, `UpdateBasket`, `DeleteBasket`, `UpdateBaskedValidation` | `Basket` | create (application lock per user and plan), rename, delete, validate | lookups wider or narrower than the lock | one temporary basket per user; distinct names and numbers in a plan |
| Basket items: `PostBasketItems`, `MoveBasketItems`, `UnpackBasketItems`, `ReturnBasketItems`, ... | `BasketItems` | claim orders, move, unpack, return, delete, mark | claims of two users, tenders created in between | one live claim per order; orders of a tender stay; one price per order in a plan |
| Orders refresh: `GetTotalInfo.go`, `scheduler.go`, `getBranchStatistics.go` | `orders`, `branch_statistics` | TRUNCATE and refill, daily and on request | two refreshes at once, failed pages, a crash in between | every order once; the summary counts what was stored |
| Notifications | `Notifications` | insert, list, count, mark read, due-date notices after each scheduled refresh | repeated runs over days and restarts | one due-date notice per item and user; the first reading stays |
| Sessions, users, passwords: `UserSession`, `UserHeartbeat`, `UserLogin`, `UserPasswordChange`, ... | `UserSessionLog`, `Users`, tokens | login, touch in the background, logout, password change, hash upgrade | a touch after the logout, an upgrade after a change | a closed session stays closed; the last password set is the one in force, but for the upgrade of an old hash; only those entitled write |
| CPOS codes: `PutCposCodeMeasurement(s)`, `ExternalCpos` | table of codes, cache in memory | upsert one or many, cached fetch | lock order, late answers | bulk writes are whole; no deadlock; a cached list is not too old |
| Documents; teams and boards | file tables, two lists | row and files one by one; DELETE then INSERT | partial failure, two posts at once | an upload told to be done has all its files; one current list |
| Read side: `GetTender`, `GetAll`, `GetItemSteps`, `GetStatistic`, ... | none | queries, grouping of rows in Go, answers of several statements | pointers into growing slices, the same logic written twice, changes between two statements | every basket listed once; both copies agree on an order that has begun; an answer lies between its first and last moment |
| External orders proxy, configuration, routing | none after start-up | forward a request with a token | - | - |

How they meet: the proxy of the external order list calls the matcher on every
successful answer (`ExternalOrders.go:162-164,198-200`); tenders refer to baskets by a
list of identifiers; unpacking asks whether a tender holds the orders; tender handlers
insert notifications; every authenticated request touches its session from a
background goroutine.

The hazards of all parts, at their lines, are listed in `PROJECT.json`.

## 2. Plan

1. **Tender life cycle** (done): `TenderStore`, `Reannounce`, `RecycleMatcher`,
   `TenderAdmin`, composed in `TenderLifecycle`; the abstract `TenderVersions` it
   implements; proofs in `TenderLifecycleProofs`.
2. **Baskets** (done): `BasketStore`, `Baskets`, `BasketItems`, composed in
   `BasketFlow`; the abstract `OrderClaims` it implements; proofs in
   `BasketFlowProofs` and `BasketClaimsProofs`.
3. **Orders refresh** (done): `DueNotices` and `OrdersRefresh`, with the scheduler;
   proofs in `OrdersRefreshProofs`, with sums from `SumLemmas`.
4. **Accounts** (done): `Sessions` and `Accounts`; proofs in `AccountsProofs`.
5. **Records** (done): `CposCodes`, `CposCache`, `TeamLists` and `Documents` over
   `RecordStore`, composed in `RecordFlow`; proofs in `RecordFlowProofs`.
6. **Read side** (done): `ReadTables`, and over it `BasketLists`, `ItemProgress` and
   `TenderStatistic`, composed in `ReadFlow`; proofs in `ReadFlowProofs`, with sums from
   `SumLemmas`.

## 3. Tender life cycle

### Modules

| Module | Models |
|---|---|
| `TenderStore` | the tables, what migration 002 makes of the tenders it finds, requests, transactions and locks |
| `Reannounce` | `ReannounceTender.go`: `Post` and `lockTenderForReannounce` |
| `RecycleMatcher` | `TenderRecycleMatcher.go` |
| `TenderAdmin` | `PostTender.go`, `UpdateTender.go` (suspension date), `DeleteTender.go`, `PostGeree.go` |
| `TenderLifecycle` | all of them interleaved, failures, fairness, the properties |
| `TenderVersions` | the promise: each operation in one step, without requests or locks |
| `MCTenderLifecycle` | small instances for TLC |
| `TenderLifecycleProofs` | theorems: of reannouncements, and of the matcher and the promise |

### State and steps

`tender`, `geree`, `batch`, `versionItems`, `outbox` and `notices` are the committed
tables. A batch row carries its packages and codes: `items` are its codes, `matched`
those with a `MatchedAt`, `pkgs` the packages with status `Matched`. `call[r]` is what
request `r` asks for, `pc[r]` the statement it is at, `frame[r]` its local variables
and the write set of its open transaction. A statement inside a transaction only adds
to the write set; the commit makes it visible in one step; an early return discards
it (`defer tx.Rollback()`). `appLock` is `sp_getapplock` on `TenderReannounce:<id>`,
`rowLock` the update or exclusive lock on a `Tender` row.

| Action | Code |
|---|---|
| `TakeAppLock`, `LockTimeout` | `lockTenderForReannounce`, answer 409 after five seconds |
| `ReadTender` | `SELECT ... WITH (UPDLOCK, HOLDLOCK)` and the checks 404, 403, 409 |
| `CountOpenBatches`, `InsertBatch`, `InsertOutbox`, `ArchiveTender`, `CommitReannounce` | the statements of lines 158-265, with their early returns |
| `MatchCode`, `EndOfRecords`, `MatchPackages`, `MatchBatches`, `CommitMatch` | the three UPDATEs of the matcher, its early return and commit |
| `DeadlockVictim` | SQL Server ends one transaction of a cycle of waiting ones |
| `InsertTender`, `NotifyCreated`; `ReadSuspended`, `SetSuspended`, `NotifySuspended`; `CheckDelete`, `UpdateDeleted`, `CommitDelete`; `CheckTenderOpen`, `InsertGeree`, `NotifyAssigned` | the statements of the four administrative handlers |
| `Abort` | a statement fails, the process stops (`connectDB` ends it with `log.Fatal`) or the connection drops; what was committed stays |

### What the database is taken to do

* READ COMMITTED with locks, SQL Server's default; nothing in the repository turns
  row versioning on. A read waits for a changed row (`Readable`), a write for any
  holder (`Free`), an UPDATE of the matcher for rows other transactions have inserted
  or marked (`CodeBlockers`, `PackageBlockers`, `BatchBlockers`). The mutant
  `ReadPastLocks` shows that the matcher depends on it.
* A scan may also wait for rows that cannot change its outcome; those waits are left
  out.
* The base tables are older than the repository's migrations; whether `Geree` has a
  foreign key to `Tender` is not known, and none is assumed.

### Abstractions

* The input of a reannouncement is the set of (package, code) pairs that
  `normalizeReannounceInput` accepts: not empty, each pair once. `Slot` is the part of
  a package identity that the unique index of `TenderVersionItems` sees (number and
  date), so that two packages that differ in their name collide, as in the database.
* A batch is named after the request that makes it; a request makes at most one.
* `VersionNo` and `SourceVersionNo` are left out: no code changes a version number.
* `UpdateTender` sets whichever column the client names. Only the suspension date is
  modelled; clients are taken not to name the life-cycle columns or `RootTenderId`.
* The records of an answer are matched in any order, which covers every order.

### Runs

| Run | Instance | Shows |
|---|---|---|
| `recycle` | 3 requests out of 4 reannouncements, 3 answers, a deletion, a suspension and a contract, 2 tenders, with fairness | `OneOpenBatch`, `StatusFollowsCodes`, `OnlyForward`, `KeepsPromise`: the committed tables behave as `TenderVersions`, and `RequestsEnd` |
| `lifecycle` | 4 requests of all kinds but answers, on three migrated tables (one tender; a superseded one with its version; a deleted version), symmetric | `TypeOK`, `ReadStaysTrue`, `WaitingHasBatch`, `AllOrNothing`, `ReannouncedFresh` |
| `contract_race` | 2 requests | finding: a contract for a tender that is suspended or deleted |
| `reannounce_race` | 2 requests | finding: a tender announced again in spite of a contract |

Bounds. A hazard of this component needs two reannouncements of one tender and one
other request, or two answers for one package and the reannouncement that made it:
three requests. The fourth of `lifecycle` is one that holds a lock or has changed the
row while those race. Two codes in one package are the least for which a package can
be half matched, two packages the least for which a batch can. Requests are taken
once; a repeated request is a second request with the same call. `CHECK_DEADLOCK
FALSE`: all requests end. `recycle` has no symmetry, which liveness does not allow.

Fairness. `WF_vars(Step(r))` for each request: the server runs each connection on its
own, so a statement that can run runs. `Abort` is not fair: nothing has to fail.
`DeadlockVictim` is part of `Step`: SQL Server's monitor does end a cycle.

### Findings

* `PostGeree` checks the tender and inserts the contract in two statements, and
  `DeleteTender` counts contracts without a lock. A suspension or a deletion between
  them leaves a contract where the messages of `PostGeree.go:110` and
  `DeleteTender.go:79` say there can be none.
* A reannouncement reads with the tender's row whether there is a contract (line 128), but
  its locks are on the tender: a contract inserted before the commit is not seen, and the
  tender is announced again, which the message of line 154 says is impossible. The other
  checks are kept by the locks, and `ReadStaysTrue` names them.
* Without a run of its own: migration 002 (line 8) says that a returned package creates
  the next active version. No code, and so no action, does: batches stop at `Matching`, tenders at `WaitingExternal`, and the outbox is
  never read.

## 4. Baskets

### Modules

| Module | Models |
|---|---|
| `BasketStore` | the tables `Basket` and `BasketItems`, of `Tender` its `Basket_Ids` and whether it is open, requests, transactions and locks |
| `Baskets` | `PostBasket.go`, `UpdateBasket.go`, `DeleteBasket.go`, `UpdateBaskedValidation.go` |
| `BasketItems` | `PostBasketItems.go`, `MoveBasketItems.go`, `UnpackBasketItems.go`, `ReturnBasketItems.go`, `DeleteBasketItemById.go`; the INSERT of `PostTender.go` and the suspension of `UpdateTender.go` |
| `BasketFlow` | all of them interleaved, failures, fairness, the properties |
| `OrderClaims` | the promise: open, take, release and close, each in one step |
| `MCBasketFlow` | small instances for TLC |
| `BasketFlowProofs`, `BasketClaimsProofs` | theorems |

### State and steps

`basket`, `item` and `tender` are the committed rows; `call`, `pc` and `frame` are as
in the first group. A transaction of this group writes one table in one statement, so
its write set is in its program counter: at `commitBasket` a basket is inserted and
not committed, at `commitItem` an item, at `commitMove` and `commitUnpack` the items
of the call have a new basket. The commit shows it to the others.

| Lock | Code |
|---|---|
| `basketLock` | `sp_getapplock` on `TenderBasket:<user>:<plan>` (`PostBasket.go:102`) |
| `priceLock` | `sp_getapplock` on `TenderPlanPrice:<user>:<plan>` (`MoveBasketItems.go:101`) |
| `claimLock` | the scan `WITH (UPDLOCK, HOLDLOCK)` of `PostBasketItems.go:148`. Its predicate is on functions of the columns, so no index narrows it and its range locks cover the table |
| `itemLock` | the exclusive lock of an UPDATE on the rows it changed |

| Action | Code |
|---|---|
| `TakeBasketLock`, `BasketLockTimeout`, `FindTemp`, `CheckName`, `ReadNumber`, `InsertBasket`, `CommitBasket` | the statements of `PostBasket`, with the unique index of migration 001 |
| `Rename`, `Validate`, `Drop` | one statement each |
| `CheckOwned`, `CheckClaim`, `InsertItem`, `CommitItem` | the statements of `PostBasketItems` |
| `CheckTarget`, `TakePriceLock`, `PriceLockTimeout`, `CheckChosen`, `CheckPlanPrices`, `LockItems`, `CommitMoved` | the statements of `MoveBasketItems` |
| `CheckTemp`, `CheckPacked`, `CheckTendered`, `LockItems`, `CommitMoved` | the statements of `UnpackBasketItems` |
| `MarkReturned`, `NotifyReturned`; `DeleteItem` | `ReturnBasketItems`, `DeleteBasketItem` |
| `InsertTender`, `SetTenderOpen` | what other requests do to the tenders that unpacking looks at |
| `Abort` | a statement fails, the process stops or the connection drops |

### Abstractions

* An order is the ten columns by which `PostBasketItems` finds it, one model value;
  `Code` and `Price` are the two of them that `MoveBasketItems` compares. `Hidden` are
  the orders its scan does not find because a column reads otherwise in the table than
  in the call: the table's side is trimmed in all ten, the call's in two.
* Names are classes under trimming and case, as `CheckName` compares them.
* A number 0 is a text that is no number; the query of the next number then fails and
  the handler goes on with 1. No instance has one: the program writes numbers only.
* Whether `BasketItems` has a foreign key to `Basket` is not in the repository.
  Deleting a basket may leave its items, delete them or fail; an item written into a
  basket that has gone may stay or fail.
* Identifiers of a call are a set. Twice the same identifier is answered with 409,
  for fewer rows than identifiers are changed.
* `SetTenderOpen` opens or closes any tender: what may become of a tender is the
  subject of the first group.
* The name of a plan, the corrected price and quantity, the arrival mark and the
  remark of an item are columns no guard reads.

### Runs

| Run | Instance | Shows |
|---|---|---|
| `baskets` | 3 requests out of 11 calls of two users, on no row and on three baskets and an item, with fairness | `TypeOK`, `OneTempPerUser`, `DistinctInPlan`, `RequestsEnd` |
| `packing` | 3 requests out of 18 calls, on the temporary baskets of two users, an inbox, two other baskets and three orders, symmetric | `OnePricePerPlan`, `OneLiveClaim`, `MovedTogether`, and `KeepsClaims`: the tables behave as `OrderClaims` |
| `unpack_race` | 2 requests | finding: a tender without its order |

Bounds. Each hazard here is a race of two requests; the third is the one that takes
away what they have found: a basket deleted, an item returned, a lock held. Two orders
of one code at two prices are the least for a conflict, two plans the least to pass
by the lock of `PostBasket`. `baskets` has no renames, for `UpdateBasket` makes no
check and equal names and types may follow; `packing` has them. In `packing`, orders
are posted to temporary baskets only: `PostBasketItems` accepts any basket and
compares no price, so with other posts `OnePricePerPlan` does not hold. Nor does it, if
the database has no foreign key, with one combination of three requests that the run
leaves out: an item is unpacked, its basket deleted before the commit, and a move of the
same item asks for the prices of the plan just then. The joins do not find the item, the
move goes on, and after the commit of the unpacking it takes the item with it.

`MovedTogether` speaks of two steps. The UPDATE takes items of the caller only, for
packing from the temporary basket or an inbox, for unpacking from any but the temporary
basket. By the commit the basket they leave may have been deleted or have changed its
type, as `UpdateBasket` waits for neither; it is never another user's, and never a
temporary one that items are unpacked from. All of them move, and nothing else does.

Fairness is that of the first group. A request at a lock either gets it or times out,
both in `Step`.

### Finding

`UnpackBasketItems` asks for open tenders in a SELECT that locks none. A tender
inserted before the UPDATE loses orders that the message of line 116 says stay.

## 5. Orders refresh

### Modules

| Module | Models |
|---|---|
| `DueNotices` | the due-date notices of one user and their read marks (`Notifications.go`) |
| `OrdersRefresh` | `GetTotalInfo.go`, `scheduler.go`, what `getBranchStatistics.go` shows, and the notices |
| `MCOrdersRefresh` | small instances for TLC |
| `OrdersRefreshProofs` | theorems |
| `SumLemmas` | sums over finite sets: `MapThenSumSet` as the proofs use it |

### State and steps

`orders` counts the rows of each order, `stats` are the rows of `branch_statistics`
(of its three sums, the number of orders), `notices` the read times of the notices of
each item. A run is a request or the goroutine of the scheduler; `frame[r]` are its
local variables. Every statement commits by itself, so each is a step that others see.
`alarm` is when the scheduler's sleep ends.

| Action | Code |
|---|---|
| `Truncate`, `DeleteStats`, `GetToken`, `Fail` | the beginning of `refreshOrdersAndStatistics` and its early returns |
| `Answered`, `Retry`, `NoRecords` | `getOrdersRaw` with its three attempts; a year without an answer is a failure, and the next year follows |
| `Store`: `InsertOrder`, `InsertFails`, `SkipRecord` | one turn of the loop over the records |
| `InsertStat`, `EndOfYear` | one row of the statistics, in any order of the branches; the next year or the end |
| `Wake`, `Due` | `StartDailyJob` and `runJobOnce`: the notices follow a refresh without error |
| `ReadNotices` | `MarkRead`, `MarkAllRead` |
| `Crash` | the process stops and starts again; what was committed stays |
| `Tick` | a day has two moments, before and after two o'clock |

`holder` is a history variable: the run whose rows, and only whose, are in the table
of orders. A TRUNCATE sets it if no other run is under way, an error or a crash clears
it. What the code promises about the table it can only promise of the holder.

### Abstractions

* An order is the thirteen columns of `orderKey`. Two records that agree in all of
  them are one order; `Anonymous` orders have none of them and are never compared.
* The items for which notices are due are any of those in baskets, neither returned
  nor arrived; which they are is the subject of the second group. All statements on
  notices select by user, so one user stands for all.
* Every branch that occurs has its row in `branch`, which the query of the statistics
  joins.
* The clocks of the process and of the database agree on the day. A timer fires before
  the next moment: it is not twelve hours late.

### Runs

| Run | Instance | Shows |
|---|---|---|
| `refresh` | the scheduler over two days and one request, three orders of two branches and none, two answers, with fairness | `TypeOK`, `StoredOnce`, `SummaryAgrees`, `ShownAgrees`, `WarnedOnce`, `OncePerDay`, `RunsEnd` |
| `refresh_race` | one order | finding: an order that is there twice |

Bounds. Two runs are the least that can interfere. Both years may get the same answer,
which is how orders are repeated. `LastMoment` lets the scheduler wake on two days,
the least for a second warning; `LastShared` ends the request before the second, so
that the two days multiply with the request no further. The scheduler's own run may
last over midnight.

Fairness. `WF_vars(Step(r))` for each run: the order list is asked for with a timeout
of 90 seconds, and the database answers. `GetToken` is not fair: it uses
`http.Post` without a timeout, so a run may wait there for ever.

### Finding

The map of orders seen belongs to one run and nothing keeps two runs apart. A
requested refresh and the daily one may both truncate and then both insert.

## 6. Accounts

### Modules

| Module | Models |
|---|---|
| `Sessions` | the filters of `main.go:33-48`, the tokens of `UserLogin.go`, `UserSession.go`, `UserHeartbeat.go` |
| `Accounts` | the table `Users`: the rest of `UserLogin.go`, `UserPasswordChange.go`, `UserPasswordRenew.go`, `UserRegister.go`, `UserInfoUpdate.go`; failures, restarts and the properties |
| `MCAccounts` | a small instance for TLC |
| `AccountsProofs` | theorems |

### State and steps

`users` and `session` are the rows of `Users` and `UserSessionLog`, `tokens` the tokens
that clients have been given, each with the claims it carries and the moment it ends.
`touch[r]` is the goroutine that `TrackSessionActivity` starts: it outlives the request
and runs at any later time, or never. `frame[r]` holds the token of a request and, of a
login, the row it has read and the token it has made.

| Action | Code |
|---|---|
| `Arrive`, `Touch` | `TrackSessionActivity`, `RequireAuth`, and the UPDATE of the goroutine |
| `CloseSession`, `Heartbeat` | `UserLogout.Post`, `UserHeartbeat.Post` |
| `ReadUser`, `Upgrade`, `CreateSession` | the statements of a login; a failed upgrade and failed log entries stop nothing |
| `ReadHash`, `CountUser`, `SetHash`, `SetInfo`, `InsertUser` | the statements of the other handlers; `SetHash` is that of a change and of a renewal |
| `Restart` | the process stops and starts again; without `JWT_SECRET` its key was made at the start, and no former token is valid any more |

`past` is a history variable: of each user the first hash, the password chosen last and
the roles it has had.

### Abstractions

* A hash is the password it verifies and its form: SHA-256 as before, or PBKDF2.
* A client sends a token of the user it works for, or none. A request is admitted by
  the claims of its token alone, as in the code, so that a role taken away lasts as
  long as its token is renewed; `OnlyEntitled` therefore asks for a former manager.
* Nothing keeps an e-mail to one user; a login reads any user with it.
* The log of logins (`UserLoginLog`) is only written.

### Run

`accounts`: 3 requests out of 9 calls of a user with an old hash, a user with a new one
and a manager, each logged in before; two of them share an e-mail. It shows `TypeOK`,
`ClosedStaysClosed`, `PasswordInForce` and `OnlyEntitled`. Three requests are a login, a
change and a renewal of one password, two users of one session and its logout, or a
user who is made a manager, logs in again and registers another.
`LastMoment` and `TokenLife` let a token end between the filter and the handler. The
requests of this group wait for nothing, so no liveness is stated.

The code does undo a password change that was answered with success: `UserLogin.go:219`
writes the new form of the hash it has read by the user's identifier alone, so that a
password chosen since the read at line 195 is lost and the old one is in force again.
`PasswordInForce` says that this is the only way: each time a user comes to another
password than the one chosen last, the step is that UPDATE, of a login that was between
its read and its UPDATE when the password was chosen (`past[u].overtaken`), of a user
whose hash had the old form. Without its last disjunct TLC finds the race.

## 7. Records

### Modules

| Module | Models |
|---|---|
| `RecordStore` | requests and answers of the modules below |
| `CposCodes` | `PutCposCodeMeasurement.go`, `PutCposCodeMeasurements.go` |
| `CposCache` | `ExternalCpos.go`, with the token and the client of `ExternalOrders.go` |
| `TeamLists` | `PostExecTeam.go`, `PostUnelgeeHoroo.go` |
| `Documents` | `UploadFiles.go`, `DeleteFiles.go` |
| `RecordFlow` | all of them interleaved, failures, fairness, the properties |
| `MCRecordFlow` | a small instance for TLC |
| `RecordFlowProofs` | theorems |

### State and steps

`code` are the committed rows, `wrote[r]` what an open transaction has written and
`todo[r]` what it has not; `keyLock` is who holds a key of the index. `cache` is the list
in memory, `edition` the present list at the service, `fetch[r]` the attempts of a
request. `row` are the rows of teams and boards, `visible` and `file` those of the
documents; `unsaved[r]` are the files an upload has not inserted.

| Action | Code |
|---|---|
| `Lookup`, `Write`, `CommitCodes` | SELECT WITH (UPDLOCK, HOLDLOCK), INSERT or UPDATE, COMMIT |
| `ReadBack` | what was saved is read for the answer, after the COMMIT |
| `Hit`, `Miss`, `Answer`, `NoAnswer`, `StoreAnswer` | `serve`, with its two attempts |
| `DeleteRow`, `InsertRow` | the two statements of a post |
| `InsertDocument`, `SaveFile`, `HideDocument` | the statements of an upload, and of `DeleteFiles` |
| `FailCodes`, `FailList`, `FailDocument` | a statement fails; only one of the codes before the COMMIT is rolled back |
| `Publish`, `TickCache` | the service has a new list; time passes |

### Abstractions

* A key-range lock is a lock of the key at which the search ends: the code, or the next
  one in the index, or its end. `Code` is taken to have an index, as no migration creates
  the table; a table scan would lock more and leave no room for a deadlock. Codes are
  numbers in the order of the index, and `Sorted` takes them in the same order: the sort
  of `PutCposCodeMeasurements.go:166` compares bytes, which is taken to be the order of
  the index's collation. Where a collation orders codes otherwise (letters of both
  cases, say), `WaitsUpward` says nothing.
* The values of a code are one model value; `PutCposCodeMeasurement` is the case of one
  item. It answers 500, "Measurement saved but response could not be loaded" (lines
  188-192), if the read after the COMMIT fails, and `FailCodes` at `readBack` is that
  answer; `PutCposCodeMeasurements` leaves out what it cannot read and answers with
  success (lines 199-203), which is part of `ReadBack`. `PutWhole` therefore ties success
  to a stored call, and lets an error be told of a stored one.
* An edition is a list of the service at some time. `Patience` is the timeout of
  `externalOrdersClient` for the token and the list together, and the time between the
  service's answer and `setCachedCposData`.
* Who may see a team, and the people in it, are left out: a list is a plan and user or a
  tender, and a row is told from others by the request that inserted it.

### Run

`records`: 3 requests, either all of one part or some of three parts (`MCMixes`), with
fairness: the parts share no table and no lock, so that their interleavings say nothing
new beyond the one mix. Three writers are the least that may wait in a circle longer
than two; the calls write present and absent codes in rising, falling and repeated order.
Two new editions and three moments are the least for which a list stored late is stale,
expires and is replaced. Time passes only where a list is asked for (`Asked`). The
run shows `TypeOK`, `PutWhole`, `WaitsUpward`, `StaleBound`, `ListedOnce`,
`AnsweredWhole` and `RequestsEnd`.

Fairness is that of the first group; an attempt at the service ends by an answer or by
the timeout of 30 seconds (`ExternalOrders.go:21`).

## 8. Read side

### Modules

| Module | Models |
|---|---|
| `ReadTables` | the columns the readers show, and what other requests do to them, among it the arrival mark of `UpdateBasketItemState.go` |
| `BasketLists` | `GetAll.go`, `GetAllValid.go`, the filters of `GetItems.go` and `GetBasketItemsById.go`, the prices of `GetBasketWithTotalPrice.go` |
| `ItemProgress` | `GetItemSteps.go`, `GetBasketItems.go`, `GetBasketIdsByRootNum.go` |
| `TenderStatistic` | `GetStatistic.go` |
| `ReadFlow` | the readers of several statements, statement by statement |
| `MCReadFlow` | a small instance for TLC |
| `ReadFlowProofs` | theorems |

A reader of one statement sees one state of the tables and is an operator; `AllLists` and
`ValidLists` follow the loop over the rows with the slices and pointers of Go: a slice is
the sequence of the arrays it has had, and a pointer names one of them. A reader of
several statements (`GetItemSteps`, `GetStatistic`, `GetBasketWithTotalPrice`) is a
process of `ReadFlow`. Readers change nothing and lock nothing for longer than a
statement, so one of them stands for all. Writers are single steps here: what they check
and how they meet is the subject of the first two groups. `disturbed` is a history
variable: something was taken back (an item moved or returned, a tender deleted, a mark
undone), or a query failed without the reader noticing.

### Run

`reads`: every kind of reader, on three databases of four baskets, up to four orders,
two tenders and a contract, with two writes of any kind. Two writes are the least for a
reader of three statements to see a change before and one after its second. Three
baskets of one type and one group outgrow an array twice; the arrays have room for 1, 2 and
4 (`Capacities`). `CHECK_DEADLOCK FALSE`: the
writes are bounded (`MaxWrites`).

| Property | Shows |
|---|---|
| `ListsWhole` | each basket is listed once, in its group; exactly the orders read through a pointer into a former array are missing |
| `StepsAgree` | `GetItemSteps` and `GetBasketItems` show an order that has begun at the same step |
| `RowsAddUp` | how the rows of the branches relate to the summary |
| `AnswersBetween` | what was put together from several statements lies between the first and the last moment |

The lists do lose orders. `GetAll.go:264` and `GetAllValid.go:183` keep a pointer to a
slice element while the slice grows; the query orders by plan, type and item, so that two
baskets of one group and type are read in turns, and orders read after the slice has moved
are written into the array it has left. `ListsWhole` does not excuse this, it says how far
it goes: an order is missing if and only if, from the first order of its basket up to it,
the number of baskets found in the group passed a size that an array had (`Outgrown`), and
no order of a basket is missing that is the only one of its type in its group (`Apart`).
The databases of the run have such a loss: two baskets, and three orders in turns. Which
sizes arrays have is up to Go (`Capacities`; for the 176 bytes of a `BasketDTO` go1.23 gives
1, 2, 4, 8, 17, ...), and the property is of any. Not modelled are the `continue` after a
row that cannot be scanned (`GetAll.go:231-234`, `GetAllValid.go:153-156`) and rows that
end early, as `rows.Err()` is not asked: no write of the repository makes such a row, and
a lost connection would shorten the answer unseen.

"SAME LOGIC AS GetItemSteps" (`GetBasketItems.go:91`) is not quite true. `GetItemSteps`
marks the last of its steps as current if there is one (line 314), and an order without
dates, tender, contract or arrival has none; the `CASE` ends with `created_by_company`
(line 145) for it. `StepsAgree` says both halves: the same step for an order that has begun
(`Begun`), none against `created_by_company` for one that has not. Item 3 of the run
has no dates, and its basket is tendered in one of the databases and not in the others.

## 9. Proofs

`TenderLifecycleProofs` proves, for any sets of tenders, users, packages, codes,
requests and calls, from `StoreAssumption` alone (managers are users, `None` is no
request or tender, calls and migrated rows are well formed, a reannouncement without
items is turned away before it starts, `ReannounceTender.go:288`):

| Theorem | States |
|---|---|
| `TypeCorrect` | `Spec => []TypeOK` |
| `LocksProtect` | `Spec => []ReadStaysTrue` |
| `RecordedFresh` | `Spec => ReannouncedFresh` |
| `Inductive` | `Spec => []IInv` |
| `AtMostOneOpen`, `WaitingIsQueued`, `RecordedTogether` | `OneOpenBatch`, `WaitingHasBatch`, `AllOrNothing` |

The argument is rely and guarantee. `Relies(r)` says what the other requests may
assume of a step of `r`: it leaves their locks, locals and program counters alone,
changes no tender they have locked and opens no batch for a tender whose application
lock they hold. Each handler keeps it (`ReannounceProtected`, `MatchProtected`,
`AdminProtected`), and under it whatever a request has checked stays true
(`OthersProtected`). None of the three table invariants is inductive alone: the commit
of a reannouncement keeps `OneOpenBatch` only because no batch is open at that moment,
which is `ReadStaysTrue`, and keeps `AllOrNothing` only because its write set holds
both the batch and the payload and its batch did not exist before, which is
`Recording`. `IInv` is their conjunction.

Its second half goes on from the same assumption to the matcher:

| Theorem | States |
|---|---|
| `MatchInductive` | `Spec => []MInv` |
| `StatusFollows` | `Spec => []StatusFollowsCodes` |
| `NothingGoesBack` | `Spec => OnlyForward` |
| `AsPromised` | `Spec => KeepsPromise`: the handlers implement `TenderVersions` |

`StatusFollowsCodes` could fail where two matchers each mark a code of one package and
neither sees the other's. `CountsRight` says why it does not: a matcher that has counted
knows exactly the packages its marks complete, and where it holds a code of a package
that is not complete, some other code is `Unknown`, neither committed as marked nor held
by a matcher that has counted. So the one that marks the last code either waits for the
row of the first, or counts after its commit. `StatusRight` carries this to the batch.
`AsPromised` maps every step to one of `TenderVersions` or to a stutter; the commits of a
reannouncement and of a matcher are the two that take `IInv` and `MInv` to map.

`BasketFlowProofs` proves, from the `StoreAssumption` of `BasketStore` (inserted rows
have new names, calls and rows that precede the behaviour are well formed and keep the
invariants):

| Theorem | States |
|---|---|
| `TypeCorrect` | `Spec => []TypeOK` |
| `Inductive` | `Spec => []IInv` |
| `OneTemporary` | `Spec => []OneTempPerUser` |
| `ClaimedOnce` | `Spec => []OneLiveClaim` |

`OneTempPerUser` is kept by the commit of a basket only because nobody else's
temporary basket of that user is inserted or committed by then (`FirstTemp`).
`OneLiveClaim` is not inductive for two reasons. A claim is committed a statement
after its scan: `Claiming` says that meanwhile the range locks are its own, no item is
being moved and the order is still free. And a move may bring an order back to life:
the basket of an item goes, with it the claim, and then the item is moved to a basket
that is there. `KeptOnce` therefore counts the items that are locked with the live
ones, and `Holding` says which requests hold item locks, so that a claim and a move
exclude each other. `Fresh` keeps the name of a request's row from being met before
the row is there. Most steps only read or only take rows away (`ReadsQuiet`,
`ShrinkKeeps`, `EasyKeeps`); the seven that do more have a lemma each.

`BasketClaimsProofs` goes on from the same assumption to what baskets promise of orders:

| Theorem | States |
|---|---|
| `ClaimsInductive` | `Spec => []CInv` |
| `MovedAsOne` | `Spec => MovedTogether` |
| `ClaimsKept` | `Spec => KeepsClaims`: the handlers implement `OrderClaims` |

`CInv` adds two facts to `IInv`. `Aimed`: a request about to put items into a basket has
found it to be its user's, and the basket is, unless it has gone, for no statement
changes the user of a basket. `OwnMoves`: items locked for a move are not returned, and
not in a basket of another user's, nor in a temporary one if they are unpacked. Each step of a request leaves the baskets and the
pursuits of the others alone (`Steady`) and the rows they have locked (`Locked`); only
the UPDATE takes items for a move, and `OnlyLocksTake` says which.
`PlaceRight` says what the mapping of `KeepsClaims` means: as `OneLiveClaim` holds, the
place of an order is the basket of its only live item. A commit of a posted or moved
item is a `Take`, of a basket an `Open`, a return or deletion of items a `Release`, of
baskets a `Close`; every other step stutters. The mapping made the promise more exact in
one point: when the basket of an order goes while the order is moved, the order is free
until it arrives, so one `Take` may move own orders and claim free ones.

The same module proves what the two application locks are worth. Other handlers write the
same columns without them, so these theorems have hypotheses on the behaviour:

| Theorem | States |
|---|---|
| `PlanDistinct` | `Spec /\ DistinctInPlan /\ Numbered /\ NamesStay => []DistinctInPlan` |
| `PlanPrices` | `Spec /\ []ForeignKey /\ PostedToTemp => []OnePricePerPlan` |

`NamesStay`: no step changes the type or the name of a basket there is (`UpdateBasket`
checks nothing). `Numbered`: no old number is a text that is no number (the query of the
largest number fails on one, and 1 is taken). The run `baskets` meets both. `ForeignKey`:
every item has its basket, as with a foreign key from `BasketItems` to `Basket`, which the
repository does not show; without it the property fails as section 4 says. `PostedToTemp`:
an order is posted to a temporary basket, and a move under way does not name an item that
is yet to come.

Both are inductive only with what a request knows under its lock (`LocksHeld`). `Knows`:
from the check to the commit the name is free and the number is none in use, because
nobody else commits a basket in the same slot and deletions only free names. `Priced`:
from the first check the chosen items agree with each other, from the second with the
packed items of the plan. They stay so because the chosen items only get fewer, and
because the packed items of a plan get more only by the commit of a move into that plan
(`PackedStays`), whose request holds the lock of its prices.

`OrdersRefreshProofs` proves, from `RefreshAssumption` and `NoticeAssumption` (the
scheduler is no request, answers hold orders or malformed records):

| Theorem | States |
|---|---|
| `TypeCorrect` | `Spec => []TypeOK` |
| `StoredOnceEach` | `Spec => []StoredOnce` |
| `DailyOnce` | `Spec => OncePerDay` |
| `OneWarning` | `Spec => []WarnedOnce` |
| `FirstReading` | `Spec => FirstReadStays` |
| `SummaryTrue` | `Spec => []SummaryAgrees` |
| `ShownTrue` | `Spec => []ShownAgrees` |

`StoredOnce` is not inductive: an order is stored once only if its absence from `seen`
means its absence from the table, and only if nobody else is at work. `Held` adds both
(`Matches`, `Alone`), and `Heard` counts the answers against the years. A step of the
holder keeps them (`StoreHeld`, `FetchHeld`, `OthersHeld`), no other run takes one
(`OwnerHeld`), and a TRUNCATE sets them up (`TruncateHeld`). `OncePerDay` rests on
`Timer`: a sleeping scheduler has its alarm at a two o'clock, later than that of its
last run and not yet past.

The figures need `Sound`. `Summed`: the rows of the table are as many as the holder has
counted as stored. `Filed`: as long as its statistics are whole, what the table has of a
branch is in the rows of the holder's day or still counted (`Tallied`), no row is of a
later day (`Latest`), and no row that the holder is about to insert is there already
(`Fresh`), which would be lost in a set. The rows shown are those of the latest day
there is; this is the holder's, because the run deletes what its day had before it counts
(`DeleteBalanced`), other runs are not at work (`Alone`), and a row inserted after
midnight makes the statistics no longer whole (`InsertStatBalanced`).

A sum over a set is a recursive function over its subsets that takes any element first.
`SumLemmas` proves of it, for every finite set, that there is exactly one (`SumsExist`,
`SumIs`), that the order does not matter (`SumTake`), and what a further element
(`SumAdd`) or one more in a value (`SumBump`) does. In place of induction over the set
each proof takes a least set for which the claim fails (`LeastSet`), by the
well-foundedness of `<` on the sizes.

`AccountsProofs` proves, from `SessionAssumption` and `AccountAssumption` (a login names
its session by a new identifier, and the tokens, sessions and users that precede the
behaviour agree):

| Theorem | States |
|---|---|
| `TypeCorrect` | `Spec => []TypeOK` |
| `LogHolds` | `Spec => ClosedStaysClosed` |
| `LastChoiceHolds` | `Spec => PasswordInForce` |
| `RightsHold` | `Spec => OnlyEntitled` |

None follows from the steps alone. `OnlyEntitled` needs to know at each statement what
the earlier ones have found: `Knows(r)` says which token a request holds at which
statement, whose row it will write and with what right; `Genuine` that a token names a
role its user had; `Recorded` that a hash of the old form is the user's first, which is
why an upgrade writes a known password, and the one chosen last unless a choice has
overtaken the login (`PasswordInForce`). `Inv` is their conjunction; `Stable` is what no
step takes away from them, so that the other requests keep what they know
(`OthersKnow`). `ClosedStaysClosed` needs `Logged`: no session is from a later time, and a
login that has not ended has no session, so that its INSERT meets no row.

`RecordFlowProofs` proves, from `RecordAssumption`, `CodesAssumption`, `CacheAssumption`,
`ListAssumption` and `DocumentAssumption` (calls are well formed, codes are ordered
below the end of the index, old rows have no request that inserted them, the files of an
upload are told apart):

| Theorem | States |
|---|---|
| `RecordsInductive` | `Spec => []IInv` |
| `RecordsTyped` | `Spec => []TypeOK` |
| `NoDeadlock` | `Spec => []WaitsUpward` |
| `CacheStaleBound` | `Spec => []StaleBound` |
| `TeamsListedOnce` | `Spec => []ListedOnce` |
| `UploadsWhole` | `Spec => []AnsweredWhole` |
| `CallsWhole` | `Spec => PutWhole` |

A request holds keys below the one it waits for only because its codes are sorted and a
key range ends at the next present key: a code of its own that is still to be written
must not get a row below a key it already holds. `Guards` says that no present key lies
between such a code and a key held, although other requests insert codes meanwhile;
they cannot, because the range up to the held key is locked. `Split` says that what is
written and what is left make up the call, which is what a commit shows (`PutWhole`);
the steps of the other handlers move no request that writes codes (`OthersMove`), so that
no answer but that of `ReadBack` tells of success.
`FetchRight` and `StoreRight` tie the age of an answer to the attempt it belongs to,
`Meets` two rows of a list to the posts that overlapped, `UploadRight` what is saved to
the statement an upload is at. The least of a set of codes, and the greatest, are taken
from the well-foundedness of `<` (`WFMin`).

`ReadFlowProofs` proves, from `ReadAssumption` (the rows at the start and those that may
be inserted are of their types, tables and branches are finite, a contract is of a tender
that is there) and `CapacityAssumption`:

| Theorem | States |
|---|---|
| `StepsAlike` | `Spec => []StepsAgree` |
| `RowsTrue` | `Spec => []RowsAddUp` |
| `AnswersTrue` | `Spec => []AnswersBetween` |
| `ListsRight` | `Spec => []ListsWhole` |

All but `AnswersTrue` need of the tables only their types (`TablesOK`). For `StepsAlike`,
`LatestLast` follows the five conditional `append`s of `GetItemSteps.go:114` and finds at
the end of the list the latest dated step, which the `CASE` of `GetBasketItems` takes;
`KeyStep` goes on with tenders, contracts and arrival, and gives the rank of the step as
the `Level` of what the tables hold. For `RowsTrue`, a figure of the branches is a sum of
sums over parts of the rows of the year (`SumParts` of `SumLemmas`): the parts cover them
if every tender names a branch, so that nothing is missing, and have nothing in common if
it names at most one, so that nothing counts twice.

`AnswersBetween` is not inductive: it says nothing before there is an answer. `Knows` says
what a reader knows between two statements: before the tenders are asked for, the step
shown at the beginning is not beyond the `Level` of the date and arrival it has read and
the tenders and contracts that are there *now*; after them, not beyond that of the list it
has and the contracts that are there now. `Grows` is what an addition may do to the
tables, and `KnowsGrows` that what a reader knows outlasts it, as tenders, contracts, sums
and marks then only grow. A statement that takes something back ends all knowledge, which
is why `disturbed` is in the property. TLC checked `Knows` on the `reads` run before it
was proved.

`ListsRight` is about a loop, which `Reading` writes as a function of the set of rows that
have been read. Its invariant is `Filed`: slots keep their baskets when a slice is copied
(`AppendedMeans`), so that a pointer into a former array still names a slot of the present
one (`Pointed`, `Placed`), whose entry may lack what was written through the pointer since.
A slice is as long as the number of baskets found in its group (`Sized`), and the slot of a
basket is the number at its first order (`Begins`). `Stale` is the heart of it: a pointer is
into the present array until the length of the slice has passed a size since that slot was
filled (`Passed`), which is what `Outgrown` says of the rows alone (`OutgrownMeans`); and
an order is in the present array if and only if it was not outgrown when it was read
(`Entered`). The step is `AddBasketFiled` and `AddItemFiled`; a least set of rows that come
first and are not filed (`LeastSet`) stands in for induction. Nothing is assumed of
`Capacities` but that they are natural numbers. That a basket alone of its type loses
nothing follows from the order of the query only (`ApartKeeps`): between two rows of a
basket it has only rows of its plan and type (`BeforeOrders`), hence none of its group, and
the count stays. With rows in the order of plan and identifier only, `BeforeOrders` is the
lemma that fails, and TLC finds a list that is not whole. TLC checked the property on the
states of `reads` before it was proved.

Only model-checked: liveness (`RequestsEnd`, `RunsEnd`), which is out of the prover's
reach. `FirstReadStays` is only proved.

## 10. Not modelled

* Readers that list rows as they are stored: `GetTender` (live, current and active
  tenders), `GetGeree` (contracts of tenders that are not suspended), `GetBasket`,
  `GetBranch`, `GetTest`, `GetUsers`, `GetUserinfoById`, `GetOrders`, `GetFiles`,
  `GetExecTeam`, `GetUnelgeeHoroo`, `GetCposCodeMeasurements`, and
  `GetTenderByRootId`, whose rows depend on the order of the columns of a table that is
  older than the migrations.
* What the proxies forward (`ExternalOrders`, `ExternalEmployee`), and columns that no
  guard reads (`UpdateGeree`, `UpdateBasketItemById`, the other columns of
  `UpdateTender`).
* Configuration and routing: no state after the start.
* Formatting, logging, response bodies, password hashing and the HTTP layer.
