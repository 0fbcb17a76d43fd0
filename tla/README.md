# A TLA+ verification of titan-explorer

titan-explorer is the back end of the Titan network: a Go web service (`api/`)
with background jobs (`job/`, `core/statistics/`), a MySQL database
(`core/dao/`), Redis, schedulers reached by JSON-RPC, a Cosmos chain
(`core/chain/`) and a KubeSphere installation (`core/kubesphere/`). Several
server processes run against the same database. There are hardly any tests of
what happens when two requests, two timers or two processes meet, and hardly any
database transactions: most operations are a chain of separate statements. That
is where these specifications look.

Contents: 1 inventory, 2 the modules, 3 runs and bounds, 4 fairness, 5 proofs,
6 divergences found, 7 what is not modelled, 8 plan.

All paths below are relative to `src/`.

## 1. Inventory

| Component | State it keeps | Hard behaviour | What makes it correct | Module |
|---|---|---|---|---|
| **Container orders** `core/order`, `api/platform.go`, order part of `core/dao/platform.go`, `core/chain`, `core/kubesphere` | rows of orders (status, duration, expired_at, workspace), the contract's records, workspaces | handlers and two timers read first and write later; compare-and-set on the status only; external calls in between; executor lock never renewed | no service without payment; an ended order stays ended; a recorded payment is served | `ContainerOrder`, `OrderLifecycle` |
| **Order prices** `core/order/price.go`, `CalculateOrderRefund` | price and hash of an order | tiers, durations above 720 hours, integer division | everything accepted costs something; a refund is at most the rest that was paid | `OrderPrice` |
| **Platform accounts** `bindKeplr`, `resetKubPwd` | passwords in two systems | two calls without a transaction, requests that overlap | both systems hold one password | `PlatformAccounts` |
| **KubeSphere token** `core/kubesphere/manager.go` | a token shared through Redis | the loser of the lock stores an empty token | a process without a token gets one | `KubeToken` |
| **Token faucet** `core/token` | hourly quotas, claims | check-then-act over four statements and a chain transaction; midnight | bounded overdraft and claims, no uncharged transfer | `TokenFaucet` |
| **User assets and groups** `api/events.go`, `core/dao/user_assets.go`, `job/handler_delete_asset_group.go` | `user_asset`, `user_asset_area`, `user_asset_group`, `used_storage_size`, asynq tasks | quota checked long before it is charged; deletions per area; a deletion of a group is a task that is retried | used size is the sum of the files, rows and copies come and go together, groups form a tree, limits | `AssetStore` |
| **Area synchronisation** `job/cron.go`, `job/common.go`, `core/oprds` | a Redis list, `is_sync` flags | drain races with push; locks with a TTL; late reports | flags are earned, work is not forgotten and completes | `AreaSync` |
| **IPFS import** `api/import.go`, `core/dao/sync.go` | `sync_ipfs_record` | a query without the user | only what was asked is recorded | `IpfsImport` |
| **Tenant notification** `job/handler_*notify.go`, `job/retry.go`, `api/events.go` | asynq tasks | retries, repeated reports, deletions that nobody announces | the tenant hears of an upload and of a deletion as what they are | `TenantNotify` |
| **Transfer reports** `core/dao/asset_transfer_log.go`, `report/transfer` | `asset_transfer_log`, its details, the scheduler's events | repeated, late and anonymous reports; the scheduler is told before the transaction | a trace counts once, where it was opened; reports are whole | `TransferLog` |
| **Links** `create_link`, `share_link_update` | table `link` | read, change, write back | a link opens with what its owner was last answered | `ShareLinks` |
| **Direct shares** visits, traffic, downloads | counters in MySQL and Redis | counted and tested in two statements; drains overlap | limits hold up to the overlap; what is recorded was served | `SharedAssets` |
| **API keys** `core/storage` | one column for all keys of a user | read, change, write back | a key works from its creation to its deletion | `ApiKeys` |
| **Temporary files** `api/temp_storage.go` | counters, areas in Redis | limits read before they are incremented, toggling push | bounded counters, an area that offers a file holds it | `TempFiles` |
| **Users and sessions** `api/users.go`, `api/jwt.go`, `api/tenant.go`, `core/dao/users.go` | users, codes, tokens | a lost INSERT, lookups before the insert | referrers form a forest, codes are bounded | `Accounts` |
| **Devices and their owners** `api/users.go`, `api/nodes.go` | owner in four places | check-then-act, rounds of statistics give devices back | nobody owns a device who has not bound it | `DeviceOwner` |
| **Node operations** `api/nodes.go`, `api/test1_node.go` | a column and the scheduler's state | the scheduler is called before the row | both agree | `NodeOperation` |
| **Statistics rounds** `core/statistics/statistics.go`, `fetcher.go` | a Redis lock, bounded queues | lock expires, slow schedulers, crashes | what was written is summed | `StatFetch` |
| **Rewards** `stat_node_daily.go`, `core/dao/kol.go` | four tables | four statements without a transaction, profits that fall, devices that change hands | a gain or loss is paid for once | `UserRewards` |
| **Daily rows, incentives** `fetcher_node.go`, `online_incentive.go` | rows per day, sums | late jobs after midnight | the days add up to the profit | `DeviceDaily` |
| **Hourly rows** `core/dao/rewards.go`, `core/cleanup` | rows per hour, charts | redundant rows, late jobs, clean-up | an hour shows what it earned | `HourlyStats` |
| **Device profiles** `api/nodes.go`, `core/dao/devices_info.go` | rows, checksums in Redis, an app's copy | polling with old checksums, INSERT IGNORE | an app that is told "unchanged" is up to date | `DeviceProfile` |
| **Miner signatures** `api/sign.go` | `sign_info` | REPLACE of a row read earlier | the stored signature verifies | `MinerSign` |
| **Edge batches** `api/users.go` | sorted sets and hashes in Redis | two structures without a transaction | the list of batches can be read | `EdgeBatches` |
| **Areas and schedulers** `core/statistics/etcd.go`, `api/common.go`, `api/api.go` | etcd, Redis, caches in the process | stale caches, two maps filled by two statements | a request gets an area it asked for and a client of it | `AreaDirectory` |
| **Operation log** `core/oplog` | log rows | none | not modelled, section 7 | |
| **Queries, administration, tools, generated code** | rows edited one at a time | none beyond single statements | not modelled, section 7 | |

### Interactions

* API handlers and timers share the database and Redis only; the process that wins
  a Redis lock runs the order timers, every process serves the API, the cron jobs
  and the asynq workers.
* `order` calls `chain` and `kubesphere`. The customer talks to the contract
  directly; the platform sees a payment only by asking.
* `events` handlers push work into Redis lists and asynq queues; `job` drains them
  and calls the schedulers, which report back through the API
  (`AssetStore`, `AreaSync`, `TenantNotify`, `TransferLog`).
* `statistics` pulls from the schedulers into the same `device_info` tables the
  binding handlers write (`DeviceOwner` has both) and the app's polls read
  (`DeviceProfile` has both). Its rounds end in `Finalize` (`StatFetch`), which
  runs `UserRewards` and the second half of `DeviceDaily`.
* The parts are modelled apart where the code's only tie between them is that one
  writes values the other reads whole; where statements of two parts interleave on
  a row, one module has both.

## 2. The modules

| Module | What it is |
|---|---|
| `OrderLifecycle` | abstract specification of an order: placed, funded, granted, ended, dropped |
| `ContainerOrder`, `_proof`, `MC_` | the order subsystem with the chain, KubeSphere and the lock as its environment; proofs; small instances |
| `TokenFaucet`, `_proof`, `MC_` | the faucet, one action per statement; proofs; a small instance |
| `AssetStore`, `_proof`, `MC_` | files and groups of users, with the tasks that finish deletions; proofs; small instances |
| `IpfsImport`, `MC_` | import of files by cid |
| `Jobs`, `_proof`, `MC_` | `AreaSync`, `StatFetch`, `TenantNotify`, `KubeToken` side by side: background work with fairness; proofs; a small instance |
| `Services`, `_proof`, `MC_` | the other seventeen modules side by side; proofs; a small instance |
| `Statistics_proof` | proofs about the statistics in `Services` (days, hours, pages, commissions), and its type invariant |
| `MC_TempFiles` | `TempFiles` for its expected violation |
| `DeviceOwner_proof` | proofs about the module of that name, which `Services_proof` instantiates |
| `Sums_proof` | lemmas about sums over finite sets |

Definitions introduced by a comment that begins with *mutant* are altered copies of
the definition that follows them, the way a plausible mistake would alter the
code. No specification uses them; replacing the original by the mutant must make
the named property fail.

`Jobs` and `Services` pick one service at the start of a behaviour; its
variables move and the others rest, so that the state space is the sum of the
services' and not the product, and each service is explored completely. The
properties of a service are looked at in the behaviours that picked it: elsewhere
it is in a state it started from. Where
several services answer one kind of question (a limit, an answer that must stay
true, rows that must add up) their properties are conjoined under a common name;
section 3 lists which.

### ContainerOrder

State and code:

| Variable | Code |
|---|---|
| `status`, `hours`, `space` | columns `status`, `duration`, `workspace_id` |
| `due` | `expired_at < NOW()`, as `LoadExpiredOrders` evaluates it |
| `stale` | `time.Now().Sub(UpdatedAt).Minutes() > 10` |
| `chain` | the contract's record of the order: unknown, Active or Expired, and its hours |
| `kub` | the workspace named after an order: never created, up, deleted |
| `lock`, `up` | the Redis key `container_platform_order_exec_lock`; what each process does |
| `timer` | for each timer goroutine, the function it is in and the rest of its result list |
| `job` | for each goroutine, the calls it has decided on and not made yet |

A handler or a loop iteration reads the row (and, in the timers, the chain
record in its list), decides, and then makes at most four calls: delete the
workspace, release on the chain, create the workspace or update the quota, and
the compare-and-set. Every call is an action of its own, so everything else can
happen between two of them. The decision is the record `job[p]`, the rest of the
goroutine's program.

| Action | Code |
|---|---|
| `Start`, `LockExpires`, `Crash` | `NewOrderManager`, the 50 s TTL, a process that dies |
| `CreateOrder`, `TerminateOrder`, `RenewalOrder`, `UpgradeOrder` | the four handlers of `api/platform.go` with `order.Create`, `Terminate`, `Renewal`, `Upgrade` |
| `LoadRows`, `GetOrders`, `GetOrdersFails` | the query at the head of each timer function, and the chain query |
| `PaidItem`, `CreateItem`, `RenewalItem`, `UpgradeItem`, `AbandonedItem`, `ExpiredItem`, `ActiveItem` | one iteration of the loop of each timer function, up to its first outside call |
| `PaidItemPanics` | `checkOrderPaid` logs `dOrder.ID` of a nil order when the row was deleted meanwhile: the process dies |
| `DeleteOrders` | `deleteOrders` |
| `DeleteUserSpace`, `ReleaseOrder`, `CreateSpace`, `UpdateQuotas`, `UpdateOrder` | the calls |
| `UpdateOrderFails` | the database refuses the UPDATE |
| `Overdue`, `TenMinutes` | time |
| `ChainPay`, `ChainRenew`, `ChainExpire` | customer and contract (external) |

Abstractions, and why they lose nothing the properties see:

* Result lists are functions from order to record: the loops treat elements
  independently and the database promises no order.
* A timer function whose query fails or selects nothing returns at once, so a
  timer is `Idle` between two functions that have something to do, and any
  function of its round may come next. This allows more schedules than the
  fixed order of calls in `startTimer`; the safety results hold for all of them.
* Resources, prices, accounts and clusters are left out; `checkOrderParams` only
  restricts them. The account check of the handlers holds or the handler returns.
  `UpdateOrderHash` writes a column nothing else reads.
* Hours are counted as `Duration / 600` does; a payment for less than one hour is
  not modelled. `due` is free to become true at any time after the row is
  written, so the different ways the code computes `expired_at` (section 6) do
  not matter to these properties.
* `KubeSphere` refuses to create a workspace whose name is in use.
* The order contract: an id is paid for once, a renewal only adds hours, an
  Expired record stays Expired, and paying for an upgrade ends the record of the
  order it replaces (what `checkOrderAbandoned` waits for). These are
  assumptions about code that is not in this repository.

`ImplementsLifecycle` maps a `Created` or `Upgrade` row to *unpaid*, a deleted
one to *dropped*, `Expired` and `Termination` to *over* and everything else to
*served*; `granted` is the row's duration while served, `funded` the chain's.

### TokenFaucet

One action per SQL statement of `ReceiveTokens`: `ReadQuota` and `OpenHour`
(`GetOrCreateHourlyQuota`), `CheckClaim`, `SaveClaim`, `ChargeHour`, `Send`;
`Abort` at every point, because any statement can fail and nothing is undone.
The hour string is read once at the start (`Receive`), the day when
`isToday` runs and again when the statement writes `time.Now()`; `Tick` may come
in between. `claims` and `sent` are history variables: they count what
`user_receive` and the chain have been told. The schema of the tables is not part
of the repository; the model assumes what every statement takes for granted, one
row of `hourly_quotas` for an hour and one row of `user_receive` for an account,
so that a second INSERT is refused. `ClaimsBounded` depends on it. `hourlyQuota` and
`maxUserQuota` are constants (10000 and 400 in the code), so the proofs cover
any values with `0 < maxUserQuota <= hourlyQuota`.

### The asset modules

`AssetStore`. A request or a worker is a sequence of statements; only what one
transaction of `core/dao/user_assets.go` holds is one action. An upload checks the
quota and asks the schedulers (`create`), looks whether the row exists (`look`) and
writes (`add`); a deletion counts per area whether the file is the only one
(`only`) and deletes the rows of the areas that answered. The deletion of a group
moves its files and groups into a task (`step` rows, only, remove, next, one level
after the other), which is queued again after an error. `load` fixes the kinds of
requests of a behaviour; `overlap` and `fault` are history variables the
invariants about a user who waits for each answer are conditioned on.

`AreaSync`. `list` is the Redis list, `job` the goroutines of a drain, `rec` what
the scheduler of an area has, `report` what it has reported. `lost` notes the
disturbances after which the code does forget work: a failed call, two drains on
one entry, an entry drained before its rows are written.

`IpfsImport`. `GetNoExistCIDs` and the queue name are translated literally: the
records of a request come from a query over everybody's files, and the task is in
a queue that `Served` does not contain.

`TenantNotify`. `notices` is the queue of asynq; a delivery that is refused is tried
again until `MaxRetry` (eight in the code) and then archived. `heard` keeps the kinds
of notices the tenant has received of a file, and `unsent` the notices that never
came into the queue. A deletion request reads the file, deletes some or all of its
areas and queues its notice, whether the file is gone or not; `DeleteAssetByGroup` is
what the task of a group deletion does to a file, and it queues nothing.

`TransferLog`. `transferLog` and `detailRows` are the two tables, `told` what the
scheduler has been told. A report reads, tells the scheduler of each detail and
then stores both in one transaction; the primary key of the details refuses a
second one of a trace.

### The statistics modules

`StatFetch`: `run` is a firing of a cron job, with its wait group and its goroutines;
`handler` is `handleJobs`. `UserRewards`: `fin` is the round of `SumUserReward`
between its four statements; amounts are in thirds of a point so that the integer
column of `user_l1_reward` can differ from what it stands for. Schedulers report any
profit of `Profits`, also a lower one than before, and devices with all they have
earned come to a user (`BindDevice`) and leave (`UnbindDevice`). `credited` and
`dropped` keep the changes that were paid and those lost between two statements;
`unmatched` the users for whom `user_l1_reward` was not the L1 part of what
`users.reward` held, which is what the computation of a change takes for granted.
`DeviceDaily`,
`HourlyStats`: a fetch takes its time, the job that writes it runs later, in any
order, and a clock crosses days and hours in between. `DeviceProfile`: the app's
copy (`client`), the checksum and time it sends back, the fetchers, `Finalize` and
the time it caches.

### Users, devices, links and the rest

A request is a record in a function over requests, with `pc` and the values its
reads have returned. External calls may fail at any point up to a bound. History
variables (`disturbed`, `raced`, `mixed`, `unsettled`, `lost`, `overlapped`) say what
the properties except: a property that holds "unless requests have overlapped" is
stated where the code does no better, and the exception is as narrow as the runs
allow.

Abstractions common to all modules: usernames, cids, hashes, addresses and nodes
are model values; formatting, logging, HTTP codes and JSON are left out; a
SELECT or an UPDATE is one action; the time is a counter or a nondeterministic
expiry; a call that may fail does so nondeterministically, up to a bound.

## 3. Runs and bounds

| Run | Instance | What it checks |
|---|---|---|
| `order_upgrade` | 2 orders, 1 process, 1 request at a time, 1 hour | two rows sharing a workspace, against both timers, crashes and every failure of a call |
| `order_requests` | 1 order, 1 process, 2 concurrent requests, up to 2 hours, fairness | renewals and the liveness properties |
| `order_overlap` | 1 order, 2 processes | a second pair of timers: payment and life cycle still hold |
| `faucet` | 2 concurrent requests, 2 accounts, 3 hours on 2 days, quota 5, share 2 | the bounds, across the end of an hour and of a day |
| `assets` | 1 user, up to 3 files, 2 areas, 4 groups, 2 workers, five mixes of requests | the storage charged, rows and copies, the tree of groups, limits, that a group deletion ends |
| `jobs` | one file with two areas, two runs, three notices, two managers | liveness of the background work, flags and the list of pending work |
| `services` | two requests at a time, two or three users, devices or files | everything else, two million states |
| `order_lost_space`, `order_lost_renewal`, `assets_others_file`, `ipfs_import`, `temp_files_queue` | small | expected violations, section 6 |

Bounds of the orders: `MaxHours` caps the hours an order can have; orders are
single-use ids, so two orders are one upgrade and what it replaces. One request at
a time is enough beside two timers, since these are three processes working on
stale reads; `order_requests` has two requests. One order suffices for the overlap
of two processes, which have four timers working on two lists each.

Bounds of `assets`: a pair of requests that meet on one row is the case that
matters, so each mix names the kinds of requests that can meet, and bounds the
requests to two or three: two that overlap, and one before or after them. Sizes
are 1 and the quota is 1, so that the second file already exceeds it. Tasks are
bounded by two, so that a deletion of a group can overlap another.

Bounds of `jobs`: one upload with one or two requests and up to one failure, two
goroutines of the drain (the overlap of two drains); two runs of statistics with
one or two schedulers, queues of length one (so that they fill) and two pages; one
file with three notices; two processes that fetch tokens, which last ten rounds.

Bounds of `services`: two requests under way everywhere, one failed call where
calls can fail, two or three users, devices or files; clocks of two to six units,
so that at least one end of a day or hour lies between two steps of a request.
In the rewards an edge reports two or four thirds of a point and a candidate three
or four, so that profits fall as well as rise and one of the candidate's fits the
integer column and the other does not; two rounds are needed to pay twice.
`Orders` of the prices are the bounds of every tier and their neighbours, each
with all bounds of the durations.

Every `.cfg` has `CHECK_DEADLOCK FALSE`: once all orders have ended, all processes
have died, all requests are answered or a clock stands at its last unit, the system
may stop.

Properties of `ContainerOrder`:

* `CoveredByPayment`: a row that is served has a chain record, and its duration is
  at most the duration paid for. Writers work on lists that are arbitrarily old.
* `EndedForGood`, `NoRebirth`: an order that is over, and a workspace that was
  deleted, stay so, whoever still works with an old list (one process).
* `RunningHasSpace`: *Paid* becomes *Done* only while the workspace is up.
* `ChainExpiryEndsOrder`, `RenewalResolves`: an order the chain has ended ends, and a
  pending renewal is settled.
* `PaidIsServed`: a payment that `checkOrderPaid` has recorded leads to a workspace or
  to *Failed*; nothing removes the row. Before it is recorded, `deleteOrders` may
  remove the row although the order is paid on the chain; the property says so and
  promises nothing of such an order (section 6).
* `ImplementsLifecycle`: the refinement, also with two processes.

With two processes `EndedForGood` and `NoRebirth` do not hold and are not claimed:
the compare-and-set guards the row but not the calls before it, and
`checkOrderRenewal` passes the status it has just read as the expected one, so a
second executor turns *Termination* into *Expired*. For the life cycle both are
*over*, and the refinement holds. A second executor that has loaded a renewal
before the first one settled it overwrites, once the customer renews again, the
longer duration with its older one: that recorded hours never shrink is therefore
no property of this code, and with one process there is no older list that could
make them shrink.

Properties of `Services` that stand for several:

* `RewardsCorrect`: `EveryChangePaidOnce` (whatever fails, every gain and loss is paid
  for once or lost to that failure, unless `user_l1_reward` was once not what
  `users.reward` contains) and `ReferralsExplained` (without failures the details of a
  referrer add up to the referrer's reward).
* `DailyRowsAgree`: `DaysAddUp` and `IncentivesAreExplained` (`DeviceDaily`),
  `HoursShowTheirIncome` and `ChartIsBounded` (`HourlyStats`), `ProfilesFollow` and
  `RowsStay` (`DeviceProfile`).
* `OperationsAgree`: of `NodeOperation`, and `CountedWhereOpened` and
  `ReportsAreWhole` of `TransferLog`.
* `LimitsHold`: `OpensBounded` and `DownloadsRecorded` (`SharedAssets`),
  `CountersBounded` and `OfferedWhereStored` (`TempFiles`), `AddressesBounded`
  (`EdgeBatches`), `RefundsBounded` and `EveryPartIsPriced` (`OrderPrice`).
* `KeysAsAnswered`: of `ApiKeys`, `SignaturesVerify` (`MinerSign`), `BatchesReadable`
  (`EdgeBatches`), `LinksAsPromised` (`ShareLinks`), `ClientsOfArea`, `ConfigsFollow`
  and `AnswersAsked` (`AreaDirectory`).

The others (`ReferrersAreOlder`, `OwnersBound`, `ExpireDaysNotNegative`,
`PasswordsAgree`) are the property of one module. Each conjunct's comment in its
module says what it excepts and why the code does no better.

## 4. Fairness

`ContainerOrder`: `FairSpec` assumes, for each order,

* weak fairness of each timer and of the calls it makes: goroutines run, the
  tickers tick, every outside call returns;
* strong fairness of loading the order: every timer function is called in every
  round (`startTimer`, `startTimer2`), so one that again and again has the order
  to select gets to do it;
* strong fairness of a successful chain query and a successful UPDATE for it:
  the chain and the database fail, but not every single time. A failed query ends
  the function and the next round asks again, so this is what "not down for good"
  means;
* weak fairness of `TenMinutes`.

Nothing is assumed of customers, of request handlers, of the start of a process or
of KubeSphere, whose calls may fail every time. A process may crash at any time;
the liveness properties are conditional on an executor running (`TimersRun`).

`AssetStore`: weak fairness of the task's steps, and of `DeleteLevel`: asynq runs a
task that is queued, again after an error. `AreaSync`: weak fairness of handlers,
goroutines, reports and the scheduler's pulls; strong fairness of taking an entry,
because `syncUserScheduler` runs every ten seconds and loads the whole list but
the goroutines are few in the model. `StatFetch`: weak fairness of `handleJobs`
alone; nothing is assumed of schedulers or cron. `TenantNotify`: weak fairness of
the worker. `KubeToken`: weak fairness of the ticker of each process, of the lock's
expiry and of the passing of a round. In `Jobs` no fair action is enabled at the
start of a service, so that a service at rest owes no step.

## 5. Proofs

Checked by TLAPS for every value of the constants:

* `ContainerOrder_proof`: `PaymentInvariant`, and from it `TypeCorrect` and
  `OrdersCoveredByPayment`; `PaymentOnlyGrows`. The inductive invariant
  `PaymentInv` adds three parts to `CoveredByPayment`. `ChainInv`: a record the
  chain knows has at least one hour. `ListInv`: what a timer holds in its list
  after the chain query is covered by the chain. `JobInv`: the hours in a job
  are covered by the chain, and a job that starts to serve an order carries
  hours. They are needed because `UpdateOrder` writes what was read any number
  of steps earlier; they survive because the chain's hours only grow and a
  record is never forgotten (`Grows`, proved as an action property). The type
  invariant needs one fact of `ListInv` as well: `checkOrderExpired` passes the
  status in its list on as the expected status.
* `ContainerOrder_proof`, the refinement: `OrdersImplementLifecycle` is
  `Spec => Life!Spec` for all orders at once. The compare-and-set writes only over
  the status a job expects, so a step is legal when the pair of statuses in the job
  is: `LifeInv` says that no job expects a row that is not there, that none leads
  from *over* back to *served*, that what `checkOrderRenewal` has loaded was served
  once, and that the chain knows only orders that were placed. What *served* costs
  comes from `CoveredByPayment`.
* `ContainerOrder_proof`, workspaces: `RunningOrdersHaveSpaces`, from `LaunchInv`.
  Between `CreateSpace` and `UpdateOrder` the workspace must not be deleted. An
  order that has been launched stays launched; jobs and lists concern orders as far
  as they have come; a workspace is deleted only on behalf of a launched order, and
  one that is not launched yet shares its workspace with nobody.
* `ContainerOrder_proof`, lists: `OverStaysOver` and `DeletedStaysDeleted` have the
  form `Spec /\ []OneExecutor => ...`. The code means to
  run the timers in one instance, with a lock of 50 s that nobody renews; with two
  instances at work TLC finds a counterexample to each of them (section 3), so
  the hypothesis cannot be dropped; the runs that check them have one instance,
  and meet it. `ExecutorInv` says why one executor suffices: which statuses
  each goroutine writes over which others (only `timer1` leads out of `Paid` and
  `Renewal`), and that what a list or a job knows of its row is still so. The
  handlers keep working from what they have read; their compare-and-sets are over
  `Done` only.
* `TokenFaucet_proof`: `FaucetInvariant`, and from it `TypeCorrect`,
  `OverdraftIsBounded`, `ClaimsAreBounded`, `TransfersAreCharged`. The invariant
  counts what is still on its way: requests that have read an amount with room
  for them (`Drawing`), requests about to record a claim (`Claiming`) and
  requests about to send (`Sending`). For instance the amount charged plus one
  share for every drawing request stays within the bound; a request that starts
  drawing has seen room for itself, and amounts only grow, so at most the other
  requests can be added to it.
* `AssetStore_proof`: all six invariants of the run of assets, for any users, files of
  any sizes, areas, groups and requests. `GroupsInv` and `QuotaInv` count as in the
  faucet: what is stored plus what the requests that have seen room may still add
  (for the quota one of them has seen room for its own file, the others may add the
  largest one). The other three concern a user who waits for each answer. `AloneInv`:
  such a user has one request under way, or tasks that delete groups, and not both.
  `RowsInv` (for `RowsHaveCopies`): what a request has read before it asked the
  schedulers is so when it writes. `UsedInv` (for `UsedIsSum`): the user is charged
  for the files outside `Doomed(u)`, the groups the tasks have still to come to;
  `DropGroup` charges a whole tree off at once and the tasks delete it level after
  level, so each step of a task shrinks `Doomed` by exactly the files whose rows it
  deletes. `TreeInv` (for `GroupsFormTree`), again for a user who waits, since two
  overlapping moves do make a circle (section 6): live groups have live parents and no set
  of groups is closed under parents; `MoveGroup` walks up one parent per statement,
  and the invariant keeps the set of groups it has passed, none of them the group
  that moves. That a walk down ends within the number of groups is the pigeonhole
  principle. `SizeOf` is a fold of the community modules: `SumsOn` shows it to be the one
  function with the equations of a sum, by well-foundedness of the subsets of a
  finite set, and the lemmas after it (a sum over a union, without an element, and
  so on) are what the proofs use.
* `DeviceOwner_proof`: `OwnerInvariant`, and from it `OwnerTypeCorrect` and
  `OwnersAreBound`. The owner of a device is copied between four places and
  through the local variables of requests and rounds, so each of them needs its
  own part: rows of `signature` with one hash have one user, and a row that names
  a device is of a user who has bound it (`SignatureInv`); a request carries the
  user of a row of its hash (`CallInv`); a round carries an owner who has bound
  the device it looks at (`RoundInv`). A user who has bound stays so.
* `Services_proof`, the composition. A behaviour of `Services` is, for each service,
  a behaviour of that service's module with its variables, so that an invariant is
  proved from `X!Init` and `[X!Next]_vars` of the service alone; the owners of
  devices are the theorems of `DeviceOwner_proof`, instantiated (`OwnersHaveBound`).
* `ReferrersFormForest` (`ReferrersAreOlder`), from `AccountInv`. A request that is
  about to insert a user carries a referrer of the table (users are never deleted),
  and nobody is born later than the table is large.
* The referral codes, from `CodeInv`. `AddReferralCode` counts the codes of a user
  before another one is inserted, and `CreateUser` inserts one also when its INSERT of
  the user was lost or came too late. What a user has, together with what requests are
  about to write, is at most the limit, two codes for each request, and those of the
  INSERTs that were lost; one for each request while the user is not there.
* `OperationsAndReportsAgree` (`OperationsAgree`). `OperationInv`: an undisturbed
  request is the only busy one, and between its call and its UPDATE the scheduler
  is where the row will be. `TransferInv`: what a report has told of, is the rows of
  details it has written and the part it still has to write; the sums are `Total` of
  `Sums_proof`.
* `LinksExpireLater` (`ExpireDaysNotNegative`) and `LinksAsPromised`, from `LinkInv`:
  both times a writer or a reader carries come from one row (`AllDated`,
  `Updating`), and a writer about to update carries what is promised of the newest
  link of its key (`AsPromised`).
* `PasswordsStayTogether` (`PasswordsAgree`), from `PlatformInv`: for an address that no
  failure has left unsettled, the one call between KubeSphere and the table carries
  the password that is set (`Settled`).
* `AnswersAreKept` (`KeysAsAnswered`), from one invariant of each module. `KeyInv`: what
  a request is about to write differs from the row only in the key the request is
  about, unless another request came between. `SignInv`: the rows that requests
  carry verify, so that it does not matter when they are written. `MacsInv` with
  `LeftBy` (edge batches): the addresses can be assigned to requests so that each
  has left at most one per url, which also gives the bound on their number.
  `HadInv`, `FollowInv`, `AddressInv` (areas): a client and its address lead to
  what the area has had.
* `LimitsAreKept` (`LimitsHold`). Counters are bounded together with the requests on
  their way to them: `OpensCounted` and `DrainsAlone` (shares: what is recorded and
  the downloads in Redis are at most what was served, while one drain is at work),
  `FileInv` (temporary files, which are offered only where they are stored or in
  the first area), `BatchInv`; `PriceInv` (an order is priced by its parameters,
  and what a refund gives back is a part of the price).
* `Statistics_proof`, days: `RowsAgree` (`DailyRowsAgree`) rests on three invariants.
  `DailyInv`: a job that began on its day has summed the rows before it, which have
  not changed since (`CountedInTime`), so that the row it writes completes the profit
  of a device; a job that is late does not settle the device. Incentives are at most
  the rows that explain them, and equal where each of those adds something
  (`Explained`); that a row is not written twice around midnight needs `NotYetPaid`.
* `HourInv`: rows are in the order of their creation up to the longest wait of a job
  (`RowsInOrder`), each of them tells one report (`FromReport`), and a report of
  minute 0 whose job has run has its redundant row unless the row was overtaken or is
  old enough to be deleted (`RedundantRows`). Hence the chart, a difference of two
  reports, is never more than the profit.
* `ProfileInv`: what rounds have found is known to the row and, where there is one, to
  the page (`RowsInTime`); what a request has read is as new as the request
  (`PollsFollow`); and the client that is left alone shows the value of its checksum
  (`ClientsFollow`).
* `CommissionsArePaidOnce` (`RewardsCorrect`), for any profits, rising and falling,
  fractions of a point included, and any bindings. What a round pays for is the
  difference between two tables that it overwrites with absolute values while the
  referral rewards grow by increments. `CommissionsExact` says, for each place a round
  can be in, how much of that difference has been paid or lost: between rounds, and
  until `users` is written, what was paid is what `users.reward` holds without
  `user_l1_reward` (`PaidFor`); from then on the local changes of the round make up
  the rest, which `UpdateReferrerReward` pays or `Abort` loses. Where a round stands
  between the two absolute writes, the rows it carries have an L1 profit that
  `user_l1_reward` already holds; that is what fails for the users in `unmatched`, and
  for no others. `DetailsExplain` is the other half: a referral reward is the sum of
  its details and of those on their way. The theorem has no hypothesis; what happens
  to the users in `unmatched` is in section 6.
* `TypesAreKept` (`TypeOK` of `Services`) collects the types of the seventeen services,
  with the bounds of all counters, from the invariants above.
* `Jobs_proof`: `JobsInvariant`, and from it `TypeCorrect`, `SyncedIsHeld`
  (`FlagsAreEarned`) and `SyncIsRemembered` (`SyncNeverForgotten`). `FlagInv`: what a
  request or a goroutine is about to mark is held by its scheduler. `CoverInv`: an
  area that is not synchronised is covered by a record, by the request, by an entry
  of the list, or by a goroutine that has asked. It rests on the number of equal
  entries: outside `lost` an entry is in the list at least as often as goroutines are
  busy with it (`ListInv`), and while the request that pushed one has still to write
  its rows, fewer goroutines have asked for the areas than there are entries, so that
  their LREMs leave one (`AddInv`). Fairness is not used.
* `Sums_proof`: what the proofs about sums use (a sum over a union, without an element,
  after one value has changed, and how a cardinality changes with it). The sums of
  the community modules recurse on a chosen element; by well-foundedness of the
  subsets of a finite set they are shown to be the one function with the equations
  of a sum.

Assumptions of the proofs: the named ASSUMEs of `ContainerOrder`, `TokenFaucet`,
`AssetStore`, `Services` and `Jobs`, which TLC evaluates in the runs: request
goroutines are not named like timers; durations are within the bound; finite sets of
requests, goroutines, names, users, devices and files, with at least one request; days
do not go backwards; a share fits in a quota; sizes, totals, limits and bounds
are natural numbers, profits are integers; an empty id is no device and no user; a referrer, an owner and a
binder is a user; a device is an edge or a candidate; there is a user of a node; the
first area is an area; a day, an hour, a link's life and a file's shares are at least
one, and an hour has more than one part; rows of hours outlive the chart by more than a
job waits; workloads have the shape of one. In `DeviceOwner_proof` the theorems state
them, and `Services_proof` discharges them. One hypothesis is stated in the theorems
that need it: `OneExecutor`, about behaviours.

Every invariant and every action property of the runs that are expected to pass is
stated by a theorem. Only model-checked: all liveness, since fairness is out of the
provers' reach (`ChainExpiryEndsOrder`, `RenewalResolves`, `PaidIsServed`,
`GroupDeletionEnds`, `SyncCompletes`, `RoundsAreSummed`, `TenantHears`,
`TokenRecovers`); the properties of the runs that expect a violation; and `IpfsImport`
and `MC_TempFiles`, which have no other runs.

## 6. Divergences found

* **A lapsed upgrade takes the running order's workspace with it** (run
  `order_lost_space`). `Upgrade` creates a row that shares the old order's
  workspace (`core/order/impl.go:38`). If the customer does not pay, the old order
  returns to *Done* after ten minutes, and the upgrade row keeps its `expired_at`.
  When that passes, `checkOrderExpired` (`core/order/manager.go:356-370`) selects
  the row, *Upgrade* being in its list, and `Terminate` deletes the workspace of
  the order that is *Done* and paid.
* **A renewal that was paid can be dropped** (run `order_lost_renewal`).
  `checkOrderRenewal` tests the ten minutes before it compares the durations
  (`core/order/manager.go:191-199`): when the list shows the payment only after
  ten minutes the order goes back to *Done* with its old duration, and no later
  check looks at the longer one.
* **A repeated deletion removes another user's file** (run `assets_others_file`).
  `CheckUserAssetIsOnly` (`core/dao/user_assets.go:784`) counts the rows of a hash in
  an area, of whatever user; after the user's own row is gone the one it counts is
  another owner's.
* **An import records what nobody asked for** (run `ipfs_import`).
  `GetNoExistCIDs` (`core/dao/user_assets.go:1266`) selects everybody's cids that are
  *not* in the list, not the user's missing ones.
* **A second upload cancels a synchronisation** (run `temp_files_queue`).
  `PushAreaIDs` (`core/oprds/redis.go:136`) removes an entry that is already queued
  and returns.

Read in the code while modelling, not given a run.

Orders, prices and the platform:

* `checkOrderUpgrade` computes `expired_at` from `tOrder.Duration` where the other
  functions use hours (`manager.go:301`): 600 times too late. `UpdateOrderInfo` does
  not write `ram`. The executor lock is set for 50 seconds and never renewed
  (`manager.go:41`). An Abandoned order that expires on the chain without an upgrade
  having been paid is marked *Expired* without deleting its workspace
  (`manager.go:237`). `DeleteUserSpace` always returns nil.
* `deleteOrders` removes *Created* rows that are five minutes old without asking the
  chain (`core/dao/platform.go:218-224`): an order that is paid late, or whose payment
  `checkOrderPaid` could not read in time, is never served.
* In the faucet, the claim is recorded before the chain is called: a failed
  transaction costs the user his claim for the day.
* Prices are not monotonic: the price per hour falls at each tier of the duration,
  17 cores cost less than 16 and 33 GB of memory less than 32; the refund of an order
  rises when its used hours pass a tier, and hours above 720 are free.
* `addPlatformUserInfo` after a failed `CreateUserMap` stores a password KubeSphere
  does not have. The loser of the token's lock keeps an empty token for ten minutes,
  and the HTTP client has no timeout.

Files, links and reports:

* `ShareAssets` and `OpenAsset` pass the empty area id and do not return after its
  error (`api/events.go:1205`). `GetLongLink` ignores the user; links are unique by
  their long link while they are looked up by file and user; links without
  `expire_time` are always expired for `CheckShareLink`; a link without a password
  refuses any password. `DownloadTempFile`'s retry counter is never incremented.
  `GetAssetAllListHandler` passes the size as the offset. `checkAuthGetGroup` is never
  called. `GetFileSize` caches for ever.
* Two moves can make a circle of groups. `MoveAssetGroup` walks over the new parents,
  one query per level, "to prevent loops", and updates the row afterwards, outside any
  transaction (`core/dao/user_assets.go:459-484`). Two overlapping requests of a user
  that move each of two groups into the other both see the tree as it was. The next
  walk that comes into the circle does not end (`user_assets.go:461`), and nor does
  the walk down of a deletion (`user_assets.go:1031`). Two groups and two requests are
  enough. This is why `GroupsFormTree` is claimed of a user who waits for each answer.
* An upload that has read a row which a deletion removes before the upload's
  transaction (`core/dao/user_assets.go:93`) writes areas of a file without a row,
  without adding to the storage used. `UsedIsSum` and `RowsHaveCopies` are claimed of a
  user who waits for each answer.
* A report of a trace with two details, or a second detailed report, is rolled back
  after the scheduler was told: `asset_transfer_detail` has `trace_id` as its primary
  key (`scripts/update_20241213.sql`, whose CREATE TABLE also lacks a comma). A report
  without a token overwrites the user of a trace. `buildAssetTransferLog` appends nil
  for a node without a success, and the next loop panics; transfers under a second
  divide by zero; `areaIDs[0]` panics on an empty list; a scheduler client that could
  not be had is called. `UploadTempFileCar` opens its trace as a download.
* A group deletion notifies no tenant of the files it deletes
  (`job/handler_delete_asset_group.go:44-72`), while a deletion of some of a file's
  areas is announced like that of the file, which stays (`api/events.go:1120-1148`).
* A deletion notice may overtake a retried upload notice, and repeated reports of
  success notify again. `EnqueueIPFSRecord` uses the default queue, which no server
  serves. The counter of `IncrUnSyncNodeID` (`core/oprds/redis.go:229`) is never reset.
  `MoveNode` (`api/events.go:3187`) does not compare its two areas and stops half way
  on an error.

Statistics:

* `Finalize` of two processes may credit a commission twice: it runs outside the lock
  of `Once` (`statistics.go:182`); `wg.Add` runs outside the mutex (`statistics.go:152`).
* The commission of the grandparent takes level 0 unless the parent has devices;
  users with L1 devices only are never updated; `UpdateUserL1Rewards` without such
  users ends the round with an error; a deleted level configuration is dereferenced.
* Commissions are paid without a gain. `SumUserReward` computes a gain as
  `L2Reward - (user.Reward - l1Rw.Reward)` (`stat_node_daily.go:341`), where
  `user.Reward` contains an L1 profit with six decimals and `user_l1_reward.reward` is
  an integer column (`scripts/update_20240902.sql`). With an L1 profit of 4/3 points the
  difference is not zero in any round, and in each of them the referrer's reward is
  changed by a commission on it, up or down with the sign of the rounding. In
  `UserRewards` these users are `unmatched`, and `EveryChangePaidOnce` excepts them.
  Rows of less than one point are never written to `user_l1_reward`, not even when a
  penalty or an unbinding has brought the profit down to zero, so that the old value
  stays (`stat_node_daily.go:546-560`); a failure between `user_l1_reward` and
  `users.reward` has the same effect. The whole profit of a device that changes hands
  counts as a loss of the one user and a gain of the other, and a user who has lost
  the last device is no longer looked at at all: the commissions stay.
* A job that runs after midnight overwrites the row of the day before; the incentive
  adds a tenth of yesterday's profit also when it is negative; offline nodes lose the
  user of their daily row; a late job of minute 59 overwrites the redundant row.
* `UpsertFullNodeInfo` swaps columns (`core/dao/full_node_info.go:20-33`); two drains of
  the dashboard can record downloads twice; a cancelled context makes the clean-up
  spin; a level an administrator sets can be overwritten by `UpsertKOLs`.

Users, devices and areas:

* `CreateUser` loses the error of its first INSERT; `SSOLoginHandler` and
  `SubUserRefreshToken` go on after an error. Unbinding is undone by the next round
  (`GetDeviceUserId` gives the device to who signed last), and the cache of owners is
  never cleared. `UpdateUserDeviceInfo` clears the name of the device.
* `getCommand` for a registered miner unregisters it when it overlaps `setSignInfo`.
* `lastSyncTimeStamp` is set once, so that the cache of areas works for the first ten
  minutes only, and an empty list panics; configurations of areas that are gone stay
  in Redis and clients are cached for ever; an address keeps its first area.

## 7. What is not modelled, and why

* Read-only queries, listings, charts with other columns, and rows that an
  administrator edits by a single statement (`api/ads.go`, `api/releases.go`,
  `api/fil_storage.go`, `api/admin_dashboard.go`, `core/dao/bugs.go`, most of
  `api/admin.go`): no state across steps.
* The operation log: append-only, nothing reads its outcome.
* Configuration of the levels of key opinion leaders: constant in `UserRewards`.
* The batches in which statements write many rows (`batchSize` in
  `core/statistics`): a statement writes all rows or none.
* `MoveNode`: it moves state that only the schedulers keep.
* Geo look-ups, mail, captcha, object storage, certificates, cryptographic checks:
  external, modelled by the outcomes the code distinguishes.
* Code nobody calls: `cleanData` and `startCheckNodeTimer` (`core/dao/platform.go`),
  `sendOrder`, `FilePassVerifyHandler`, `SumDeviceInfoDaily` and what it calls, the
  resynchronisation in `job/common.go:148`, `tools/`.
* Generated code, documentation and wiring.

Outside systems (chain, KubeSphere, MySQL, Redis, etcd, schedulers) are modelled by
what the code relies on.

## 8. Plan

1. *Done:* orders and faucet with proofs; assets, groups and their jobs; area
   synchronisation, imports, notices; statistics and rewards; users, devices, keys,
   links, shares, temporary files, reports, areas, prices.
2. *Done:* proofs about the owners of devices, referrers, node operations and miners.
3. *Done:* the refinement of `OrderLifecycle`; `EndedForGood` and `NoRebirth` for one
   executor, `RunningHasSpace` for any number; every invariant
   of `AssetStore`, of `Jobs` and of `Services`; sums over finite sets.
4. *Done:* rewards with profits that fall, fractions of a point and devices that
   change hands; deletions of groups in the tenant's notices.
5. Open: liveness, which stays with TLC; how far commissions drift for the users in
   `unmatched`, which needs a bound that grows with the rounds; a property of the hours
   of an order for several executors, should the code come to guard them.
