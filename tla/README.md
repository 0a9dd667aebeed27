# A TLA+ verification of qcc_plus

qcc_plus is a reverse proxy for the Claude API written in Go.  It keeps a pool
of upstream nodes per account, sends each request to the cheapest node that
works, fails over to another node when one does not, probes failed nodes until
they recover, and shows all of this on a monitoring page fed by WebSockets.

This directory holds TLA+ models of its concurrent core and of what it keeps in
its database, the TLC configurations that check them on small instances, and
proofs of the most important facts for every instance, checked by TLAPS.  `PROJECT.json` is the
index: it maps every definition to source lines, lists the runs, the mutants
(plausible bugs that each property detects), the hazards, the findings and the
theorems.

## How to run

    tlc -workers 2 -config MCNodePool.cfg MCNodePool  # any module / cfg below
    tlapm NodePoolProofs.tla                          # any *Proofs module

## 1. Inventory

All state is in one process (`proxy.Server`) and one SQL database (`store`).
HTTP handlers, proxied requests and background loops are goroutines.  They share
`Server.mu` (accounts and nodes), one mutex per circuit breaker and per cache,
channels of the WebSocket hub, and the rows of the database.

| Component | State | Operations | Interacts with |
|---|---|---|---|
| Node pool (`proxy/node_manager.go`) | per account: `Nodes`, `FailedSet`, `ActiveID`; per node: weight, `Failed`, `Disabled`; rows of `nodes`, `config.active_node` | add, update, delete, activate, disable, enable, select the best node, `getActiveNode` | health checks, requests, warm-up, database |
| Health checks (`health.go`) | verdict of a ping, promotions | `checkNodeHealth`, `checkFailedNodes`, `handleFailure`, `maybePromoteRecovered` | node pool, breaker (`Reset`), hub (`Broadcast` under `Server.mu`) |
| Warm-up (`warmup.go`) | slots of `warmupSem`, attempts | `warmupNode` | selection; its checks may outlive it |
| Start-up (`builder.go`, `server.go`) | memory rebuilt from the database | `loadAccountsFromStore` | database |
| Circuit breaker (`circuit_breaker.go`) | state, sliding window, trial counters | `AllowRequest`, `RecordResult`, `Reset` | request handler, health checks |
| Request handler (`handler.go`, `retry.go`, `reverse_proxy.go`, `metrics.go`) | loop over the nodes, attempts, the client's `ResponseWriter`, failure streaks | one request on one or several nodes | node pool, breaker, upstream |
| WebSocket hub (`ws_hub.go`, `ws_client.go`, `api_ws.go`) | viewers, three bounded channels, one send channel per viewer | register, unregister, broadcast, both pumps | health checks, metrics, node operations |
| Settings (`settings_cache.go`, `settings_handler.go`, `api_config.go`, `store/settings.go`) | table with versions, in-memory cache, callbacks; the same values in `config` | list, get, update, batch, delete, 30 s refresh, `PUT` of the configuration | runtime parameters of the server |
| Notifications (`notify/`, `api_notification.go`, `store/notification.go`) | bounded queue, deduplication marks, rows of channels and subscriptions | publish, list, send; create, update, delete | health checks, requests, database |
| Tunnel (`tunnel/`, `api_tunnel.go`, `server.go`) | cloudflared process, remote tunnel, DNS record, row, published manager | start, stop, automatic start, `PUT` of the row | Cloudflare API, database |
| Full health scheduler (`health_scheduler.go`) | two semaphores, timer | tick, stop | `checkNodeHealth` |
| Metrics (`scheduler.go`, `store/metrics.go`, `api_metrics.go`) | rows, hours, days and months of each node, timers | insert, aggregate, clean up, by the scheduler or an administrator; trend | requests, database |
| Migrations and seeding (`store/migration.go`, `store/pricing.go`) | the schema, the first rows | a list of statements at every start | database, start-up |
| Sessions, accounts, shares, usage | rows and a concurrent map | create, read, delete | - |
| API handlers, client, frontend | none of their own | decoding, rendering | all of the above |

What is hard here, and what would be correct:

* **Node pool.**  `Server.mu` is released for every database write and for the
  warm-up, and what was read before is used after.  `config.active_node`
  is written under the lock by a selection and after it, together with the rest
  of the configuration, by `updateConfigForAccount`.  `FailedSet` duplicates the
  `Failed` flags and is kept by seven handlers and the start-up.  Correct means:
  the two copies agree, database and memory agree but for writes that are
  still to come or that raced, an active node that goes out of service is replaced, a failed node is probed
  until it recovers, a selection ends.
* **Circuit breaker.**  Results come late, in another state than the one the
  call was admitted in, or never.  Correct means: closed only below its own
  threshold, a bounded number of trials, and a decision in the end.
* **Request handler.**  A loop over nodes with attempts, transport retries, a
  breaker, timeouts of two kinds, and one `ResponseWriter` for all attempts.
  Correct means: one answer, no node tried after the request was served, every
  usable node tried before giving up, a fair count of failures, an end.
* **Hub.**  One goroutine that receives from and sends to the same channel;
  viewers that are unregistered several times by different goroutines.  Correct
  means: no close of a closed channel and no send on one, no gap in what a
  viewer that stays sees, no waiting for ever.
* **Settings.**  A row, a cache in every instance and a value the server runs
  with, each updated after the one before; a row is compared with the client's
  version in one statement and written in the next.  The callbacks ignore some
  values, and another page sets the running value directly.  Correct means: no
  administrator overwrites what he has not seen, the cache ends up with what the
  table says, and a server that was told works with what its cache says.
* **Notifications.**  Two workers, a map of marks and tables that administrators
  change in two statements.  Correct means: one attempt per event, channel and
  window, none for a channel that was deleted before, every event taken in is
  dealt with.
* **Tunnel.**  A start is a dozen remote calls, any of which may be refused or
  carried out without an answer, and none of which is under a lock.  Correct
  means: nothing is left behind that nobody knows of, no two operations work on
  one tunnel, what is published works, a stop that reports success was one.
* **Metrics.**  Statements replace buckets by sums of what is left of their
  sources, over windows that overlap and start when the task does.  Correct
  means: nothing is counted twice, and everything is counted in the end (which
  for days and months it is not, section 5).
* **Migrations.**  Dozens of statements without a transaction, one of which drops a
  table.  Correct means: whatever part was done, the next start completes it,
  and nothing of the site's configuration is lost.
* **Full health scheduler.**  Its hazards are in `PROJECT.json`.

## 2. Modules

### `CircuitBreaker` (`proxy/circuit_breaker.go`)

One breaker and `Caller` goroutines.  A method holds the mutex from start to
end, so it is one action; between `AllowRequest` and `RecordResult` a caller is
out of the lock.  `Abandon` is the handler that leaves without a result
(`handler.go`: 499, 504, overall deadline).  `Reset` may come at any time.  Time
is discrete; ages stop one tick after the last value the code distinguishes.
`lost` is a history variable.

### `NodePool` (`node_manager.go`, `health.go`, `warmup.go`, `metrics.go`, `server.go`, `builder.go`, `store/node.go`, `store/config.go`)

The nodes of one account.  A critical section of `Server.mu` is one action, and
everything a handler does after it has unlocked is a step of its own: the
unlocked snapshot (`toRecord`), the write of the row, the warm-up attempts, the
lock that sets `ActiveID`, the comparison of `enableNode`, the configuration
that `updateConfigForAccount` saves with the active node it has read.  `thread[t]` is the
program counter and the locals of a goroutine; `HealthLoop` is the goroutine of
`healthLoop`.  `asyncSelects` are selections started with `go`, `lateChecks`
the health checks a warm-up attempt has stopped waiting for.  `Restart` drops
all goroutines and rebuilds memory from the rows, at any moment.  Node ids are
numbers in the order of creation, so the tie-break on `CreatedAt` is `<`.
Whether there is a warm-up is read when the process starts (`warmup`).  History:
`stale` are nodes whose last write failed or overlapped with another one,
`activeStale` says the same of the active node.  `MCNodePool` adds symmetry.

### `RequestRetry` and `Exchange` (`handler.go`, `retry.go`, `reverse_proxy.go`, `metrics.go`, `health.go`)

`RequestRetry` is the handler of `POST /v1/messages`: select, breaker, deadline,
transport tries, response, `recordMetrics`, `shouldFail`, `handleFailure`, each a
step other handlers and health checks may come between.  `client` is the status
the client has seen (`net/http` keeps the first one).  `Exchange` is the
abstract promise: an answer before the handler returns that never changes, and
at most one node that served the request.  `MCRequestRetry` adds symmetry.

### `WSHub` (`ws_hub.go`, `ws_client.go`, `api_ws.go`)

The hub for the viewers of one account: `Run` with its `select`, the loop of
`broadcastToAccount`, both pumps of every viewer, and callers of `Broadcast`, one
of which is `checkNodeHealth` with `Server.mu` locked.  The channels `register`
and `unregister` are sequences of viewers; in `broadcast` and in a viewer's
channel only the number of messages matters.

### `Settings` (`settings_cache.go`, `settings_handler.go`, `store/mysql.go`, `builder.go`, `server.go`)

One system setting.  A SQL statement is one action, and so is a critical section
of the cache.  A handler of `PUT` is at `create` or `update`, then `reread` (the
version it will answer with), `local` (`UpdateLocal`) and `notify` (the
callbacks, after the lock); a refresh is at `list`, `swap` and `notify`, for a
batch, a deletion or the watcher's ticker alike.  `ids` and `row` are the table:
there may be several rows of one key, because `account_id` is NULL and NULLs are
never equal to a unique key; every `Restart` adds the default again.  `known` is
what a client has read or been answered, which is what it sends with its next
write.  `applied` is what the running server works with: the callbacks give it
what they accept, and leave it alone for a value in `Ignored` (0 or less, no
number) or a key that is removed.  `SetConfig` and `SaveConfig` are `PUT
/admin/api/config`: the first sets `applied` and not the cache, the second the
row of `config` a start begins from.  History: `direct` says that the configuration
page set the value last, `crossed` that two goroutines had callbacks to call at
the same time.
`MCSettings` gives the constants that a cfg cannot write.

### `Tunnel` (`server.go`, `tunnel/manager.go`, `tunnel/cloudflare.go`, `api_tunnel.go`, `builder.go`, `store/tunnel.go`)

A start is a number: its manager, the tunnel it makes, the DNS record that points
there and its cloudflared share it.  Every remote call and every statement is
an action with the outcomes `ok`, `refused` and `unanswered` (carried out, but
the caller saw an error).  `op[a]` is where a goroutine is: an administrator, the
automatic start of `Build` (`Starter`), or cccli, which saves a row from its
environment and starts (`Main`).  `dns` may hold a record of something else
(`Foreign`); a manager that created a record but could not find it again has
`Unnamed`.  `Exit` is the end of a cloudflared by itself, which nobody waits for.
`Restart` forgets every manager and leaves Cloudflare as it is.  History: `died`
are processes that ended by themselves, `lost` tunnels nobody can clean up for a reason that is visible (an
unanswered creation, a refused deletion, an overwritten manager, a restart),
`disturbed` are starts another operation overlapped with, `stopped` are those
whose `Stop` returned no error.

### `Notify` (`notify/manager.go`, `api_notification.go`, `store/notification.go`)

`Publish` appends or drops.  A worker takes an event, lists the channels (the
join of both tables), and for each one either finds the mark (`Suppress`) or sets
it in the same critical section (`BeginSend`) and sends.  `Tick` ages marks and
workers; one context of `SendTimeout` bounds the handling of an event.  The
handlers that read a row and write it later are two actions each, and the
upsert differs between MySQL and SQLite.  `since` and `deletedAt` are history.

### `Metrics` (`store/metrics.go`, `scheduler.go`, `api_metrics.go`, `metrics.go`)

One node.  An attempt gets its time when it ends and its row later (`late`).  The
three statements of `runAggregation` are three actions, each may fail; so are the
three of a clean-up, which stops at the first failure.  `agg` and `clean` are the
two loops with their timers.  The statements for days and months group by
`bucket_start`, which is a column of their source (`Aggregated`): any one of the
sources of a bucket may be what it ends with.  The first run is on the hour, the ticker counts from
the end of that run, a run takes up to `MaxLag` ticks.  The hour, the day and the
month are short (`HourLen`, `HoursPerDay`, `DaysPerMonth`).

### `Startup` (`store/migration.go`, `store/mysql.go`, `store/sqlite.go`, `store/pricing.go`, `builder.go`)

A start is the list `Steps` of statements in the order of the code, conditional
ones with how many statements they skip, and `at` is the next one.  A table is
the set of what later releases added to it.  A statement may be refused, carried
out without an answer, or be impossible on what it finds; `Crash` ends the
process anywhere.  The rows of `model_pricing` are the set of models that have
one, since a second insert of a model is ignored.  `Init` takes an empty database or that of one
of three releases, on MySQL or SQLite.

### How they fit together

`RequestRetry` treats the breaker as "may or may not let the request through",
which is what `CircuitBreaker` does for any history; `CircuitBreaker` treats the
handler as callers that report late or never, which is what `RequestRetry` does.
`MarkFailed` of `RequestRetry` is the first critical section of `HandleFailure`
of `NodePool`; the switch that follows is modelled there.  `LockForCheck` of
`WSHub` is the critical section of `CheckVerdict` of `NodePool`, seen from the
hub.  `Restart` of `Settings`, of `NodePool` and of `Tunnel` is a start that got
through the statements of `Startup`.  `EndAttempt` and `InsertMetrics` of `Metrics`
are the end of an attempt in `RequestRetry` and the last write of `recordMetrics`.
`Publish` of `Notify` never waits, so it is left out of the modules that call it.

## 3. What each run checks

| Run | Shows | Instance |
|---|---|---|
| `CircuitBreaker` | `ClosedBelowThreshold`, `TrialSlots`, `HalfOpenDecides` | 3 callers, window 2 s, cooldown 2 s, 2 trials, threshold 3 or 2/3, 7 calls |
| `MCNodePool` | `FailedSetExact`, `RestartLoadsMemory` | 2 nodes, 2 goroutines and the selections they start, with and without warm-up, store errors, 2 operations or restarts |
| `NodePoolLoop` | `SelectionTerminates`, `FailedNodesProbed` | 2 nodes, 1 goroutine, warm-up, the health loop, restarts |
| `MCRequestRetry` | `FailedHasStreak`, `EveryNodeTried`, `EachStepNearer`, refinement `KeepsPromise` | 2 nodes, 2 handlers, 2 transport tries, `MaxAttempts` 1, 3 requests |
| `WSHub` | `NoPanic`, `MissedOnlyIfLeaving`, `LeaverRemoved`, `LockReleased` | 2 viewers, channels of 1, 2, 1 and 1, 4 messages |
| `WSHubStuck` (violation) | the hub waits for itself | same, `UnregisterCap` 1, 3 messages |
| `MCSettings` | `NoLostUpdate`, `CacheConverges`, `RuntimeFollowsCache` | 1 instance on MySQL, 2 administrators, a value that is ignored, 2 requests, 4 rows: one restart |
| `Tunnel` | `OneOwner`, `RunningReachable`, `StopLeavesNothing` | 1 administrator, the automatic start and cccli, 2 starts, 1 operation, 1 fault (of a call or a process), 1 restart |
| `Notify` | `OncePerWindow`, `QuietAfterDelete`, `Handled` | 2 channels, 2 workers, 2 administrators, queue of 1, window of 2 ticks, 2 events, 2 operations, MySQL without foreign keys |
| `Metrics` | `NeverOverCounts`, `HoursComplete`, `BucketsAppear` | 2 months of 2 days of 2 hours of 2 ticks, 2 requests, 1 failure, stop or operation |
| `MetricsDaily` (violation) | a day does not have the sum of its hours | same |
| `Startup` | `NothingLost`, `StartsAgain`, `ServesComplete` | 4 kinds of database on MySQL and SQLite, 3 starts, 2 faults, crashes anywhere |

Together with one type invariant per module.  `TrialSlots` is `TrialBound` with
`FullHalfOpenHasPendingTrial`, `RestartLoadsMemory` is `StoreMatchesMemory` with
`ActivePersisted`, and `OneOwner` is `OwnedOrLost` with `NotShared`.
Every passing property has a mutant in `PROJECT.json`: a definition changed the
way a plausible bug would change it, under which TLC finds the property
violated.

### Bounds, and why they are enough

* `CircuitBreaker`: 7 admitted calls are enough to open (3), give out all trials
  (2), have two results of the closed period arrive late, and close or open
  again.  Three callers let one result be late while both trials are out.
* `NodePool`: two goroutines with an operation each cover every pair of handlers
  that overlap, with the selections they start; one operation and a restart cover
  a crash at any of its steps.  The first state may be any database an earlier
  process left, so nothing has to be built up first.  The invariants are about
  all nodes separately or about the active node and one other, so two nodes
  are the smallest interesting pool.  One weight makes the run short; rows
  with weights that change are part of the proof, as are more goroutines,
  operations and nodes.  `MaxAsync` and `MaxLate` bound goroutines the code
  starts freely.
* `RequestRetry`: two nodes and `MaxAttempts` 1 let a request go past its last
  attempt; `MinLoops` 1 (20 in the code) makes `maxLoops` twice the number of
  nodes, so the bound can be met.  Two handlers meet on one node's streak.
* `WSHub`: capacities of 1 and 2 instead of 64 and 256 make full channels
  ordinary; four messages fill a viewer's channel, occupy the hub, fill the
  broadcast channel and leave one caller waiting.  The theorems hold for every capacity.
* `Settings`: each start inserts two rows, the default and what it takes over from
  `config`, so four rows are one restart.  Two requests are two writes that
  race, a write and the configuration page, or a deletion and a write that
  creates; with the restart before, between or after them.  One administrator
  enters a value that the callbacks accept and the other one that they ignore.
  `Get` stops with the last operation, since what it reads could not be used.
  The theorems are about any number of instances, clients, requests and rows.
* `Tunnel`: with three goroutines a start, another start and a stop or a `PUT`
  overlap; one fault is enough to enter each clean-up path, two starts to have a
  manager overwritten or a restart leave a tunnel behind.  The theorems are about
  any number of goroutines, starts, operations, faults and restarts.
* `Notify`: two events of one type meet in two workers; with a queue of one the
  second may be dropped.  A window of two ticks and a send of one let a send end
  inside the window and after it.  The bounds on events and operations are the
  only ones the theorems keep.
* `Metrics`: sixteen ticks are two whole months, so that each statement runs on
  buckets that are complete, partial and cleaned up; raw rows are kept for six
  ticks, which is less than a day and a half, hours for nine, two days and one tick,
  and days for seventeen, as `ConfigAssumption` asks of them.  Two requests tell a bucket that
  counts twice from one that counts both.
* `Startup`: two prices are the smallest list a start can leave unfinished; two
  broken starts and a third one are a crash, a crash in the repair, and the repair.
* Where a budget of operations or messages ends the behaviours, the cfg says
  `CHECK_DEADLOCK FALSE`; `CircuitBreaker` has none, as time always passes.

### Fairness, and why the code justifies it

* `CircuitBreaker`: weak fairness of the end of each call.  Every attempt runs
  under `context.WithTimeout` (`handler.go`), so it ends one way or another.
* `NodePool` (`FairSpec`): weak fairness of the steps of each goroutine and of
  the loop's ticker; strong fairness where a goroutine waits for a warm-up slot,
  since a Go channel serves waiting senders in order.  No fairness for
  operations or failures.
* `WSHub` (`FairSpec`): the loop of `Run` goes on by itself, `select` chooses at
  random among ready channels, so each is taken again and again, a write ends
  after `writeWait` at the latest, a write pump that ends closes the connection,
  which ends the read pump, and senders blocked on a channel are served in order.
  The code would justify strong fairness; as viewers and messages are bounded,
  every behaviour comes to rest and weak fairness says the same.
* `Settings` (`FairSpec`): weak fairness of the goroutine of each client and of
  each watcher.  A handler runs to its end (every statement has a timeout), and
  the ticker of `startSettingsWatcher` fires every 30 s.  Clients and restarts
  have none.
* `Notify` (`FairSpec`): weak fairness of the workers; every statement and send
  ends with the context of the event.  None for publishers and administrators.
* `Tunnel`, `Metrics` and `Startup` state no liveness.  Nothing in the code makes a
  start end in time, and nothing starts the process again when it has ended.
  `BucketsAppear` says "in the end" as an invariant about time that has passed.
* `RequestRetry` needs none: that a handler ends is shown by a variant
  (`EachStepNearer`), every wait being bounded by the attempt's timeout.

## 4. What is proved

The proofs hold for every value of the constants that satisfies the module's
`ConfigAssumption` (`BreakerAssumption` in `CircuitBreaker`).

* `NodePoolProofs`: `TypeOK`, `FailedSetExact`, `RestartLoadsMemory`, and
  `FailoverComplete`, which is stated there. `FailedSetExact` is inductive with
  `TypeOK`: what matters is that a node created later never has an id in the set, and
  that a restart reads flags and set from the same rows. `RestartLoadsMemory` is
  proved for any number of goroutines that overlap. Its half about the active
  node needs that a configuration which is about to be saved holds the active node, or
  `activeStale` says otherwise. Its half about the table follows from `Synced`: two
  goroutines that write the same node at once make it `stale` (`WritersApart`), and
  what a goroutine will write of a node that is not stale is what memory says of it
  (`WritersAgree`); the lemma `Turn` says once what a goroutine that turns to another
  node does to both. `FailoverComplete` is proved under
  `FailoverSetting`: no warm-up (section 5 has the behaviours that break it
  otherwise), no activation by hand, no restart and no late success of a request that
  clears the flag of a node. With database errors it holds as long as no node is
  disabled or enabled: these two handlers return on an error before they select; a
  change of weight returns too, but takes no node out of service, and every other
  handler goes on.  The invariant `Covered` says who will see to the switch: if the active node is out of
  service and some node is usable, a selection is on its way or a goroutine is about
  to promote that very node; and the node a goroutine carries towards an activation is
  in service. With `enableNode` handlers run one at a time, since it compares a node
  it read before with the active one; without it any number of goroutines may be at
  work.
* `RequestProofs`, in two parts, on the two modules a request goes through.  On
  `CircuitBreaker`: `BreakerTypeOK`, `ClosedBelowThreshold`, `TrialSlots` with its two
  parts, and `StreakMatchesWindow`. `ClosedBelowThreshold` needs to know what trimming
  and ageing do to a window: the lemmas on `Aged`, `Window` and `FailCount` show that
  ageing changes no verdict. `TrialBound` is not inductive: the strengthening says
  that every trial in flight holds one of the slots that were given out,
  `Cardinality(Trials) <= halfOpenCalls`. On `RequestRetry`: `TypeOK`,
  `FailedHasStreak`, `EveryNodeTried`, `EachStepNearer` and the refinement
  `Spec => Promise!Spec` (`KeepsPromise`). The lemma `HandlerMoves` says once how a
  step may change a handler; the invariant `HandlerOK` ties loops to skipped nodes, so
  that `loops` can reach `MaxLoops` only when no node is left, and says that a request
  that was served is over, so `Serve` of `Exchange` happens once.
* `WSHubProofs`: `TypeOK`, `NoPanic`, `MissedOnlyIfLeaving`, and `HubStaysStuck`: the
  state the finding `WSHubStuck` is about is never left again. `NoPanic` needs the life
  cycle of a viewer: one that waits in the register channel waits there once, has not
  been in the map yet and is open, one in the map is open; so a viewer that was
  removed can never come back into the map.
* `SettingsProofs`: `TypeOK`, `NoLostUpdate`, `RuntimeFollowsCache`. The first of
  these two, an action property, follows from `LockInv`: a row's version only grows,
  so a client that read an earlier version either holds one that is past or still
  stands for the value read with it (`KnownVersions`); a handler that is about to
  update was started with the version its client knows (`SendsKnown`); and ids are not
  given out twice, so a deleted and created row is never taken for the one that was
  read (`KnownIds`). `RuntimeFollowsCache` follows from `Following`: as long as no two
  goroutines had callbacks to call at once, the one that has is about to tell what the
  cache holds, and a server nobody is about to tell has the value already, if it is one
  the callbacks take and not one of the configuration page (`InOrder`); and an instance that starts has an empty cache and nobody
  else on it (`Alone`).
* `TunnelProofs`: `TypeOK`, `OneOwner`, `RunningReachable`, `StopLeavesNothing`.
  `OneOwner` needs that no two goroutines hold the same manager (`Distinct`), that the
  published one is in nobody's hands (`Unpublished`), and what each position of a
  start says about what exists so far: before `create` nothing, after `undo` nothing
  that is not in `lost`. `RunningReachable` needs more, since it is about a start that
  ended long ago: an undisturbed start is alone from its first call to its publication
  (`Reach` says which of tunnel, route, record and process are there at each of its
  positions), and whatever begins later marks it as disturbed or leaves it alone.  That
  cloudflared may end by itself at any time takes a process into `died` and
  changes nothing else, as no code looks.
  `StopLeavesNothing` is about the DNS record, which a manager may not know: `Trail`
  says that a record of a manager is at its host, that the manager remembers it or
  remembers only that there is one (`Unnamed`), and that nobody works on a manager
  again once its stop is over (`Gone`).
* `NotifyProofs`: `TypeOK`, `OncePerWindow`, `QuietAfterDelete`. The first follows
  from a relation of each mark with its history, `mark[k] + since[k] = DedupWindow`;
  the second from what a worker has listed: nothing in the queue or in its hands is
  newer than what was published so far (`QueueBefore`), so a channel that was alive
  when its event was listed is deleted, if ever, after that event was published
  (`HeldOK`).
* `MetricsProofs`: `TypeOK`, `NeverOverCounts`, `HoursComplete`, `BucketsAppear`. For the
  hours, the invariant is the schedule (`OnSchedule`: a run starts at most `MaxLag`
  after the hour, because the ticker inherits how late the first run ended) and
  `OnlyOldAreGone`: a row that was inserted and is not there any more is older than
  `RawKeep`. Then the rows of the last two hours are inside the window and still
  there, as `RawKeep >= 2 * HourLen + MaxLag`. A day or a month is left with the count
  of one of its parts, which has no more rows than the whole (`Parts`,
  `AggregatedBound`); that the trend counts nothing twice is arithmetic over hours
  that have no row in common (`SumBound`). `TypeOK` bounds how far a run may be in time
  and needs to know where each loop is (`Course`). `BucketsAppear` follows from
  `RolledUp`: each table has a bucket wherever the last run of its statement owes it
  one (`HoursHave`, `DaysHave`, `MonthsHave`), a run hands on to the days what the hours
  have and to the months what the days have, and a failed statement leaves one
  table one run behind, so that only rows inserted in time (`prompt`) are certain to
  leave a trace. It needs that buckets are kept for two of the next size (in the code
  hours 30 days and days a year) and that a day has at least two hours; it is about
  at most one failed statement, no stop and no window of an administrator, as
  section 5 shows what these do.
* `StartupProofs`: `TypeOK`, `NothingLost`, `StartsAgain`, `ServesComplete`, for any
  number of starts, faults and prices. The list of statements is taken apart first:
  `Layout` says which statement is where on either database, and `BeforeEarly` that a
  conditional statement leaves out only what is done if its condition holds (`Sound`)
  and that a table is made before a column is added to it (`Tabled`). The invariant
  follows a start through the list. What is behind it is done, whether this start did
  it or an earlier one (`DoneSoFar`), which is not inductive without `Config` and `Reached`:
  an addition is reached only where the column is missing, as a start that comes
  past the question before it found it missing. `Config` and `Kept` have one conjunct
  for each stage of making the configuration table again, so that at every one of them
  the old table, the copy or the renamed copy holds what the site had configured.
  `Priced` says that a start ends between two prices only with `cut`, and
  `Schemas` that at most one start fails without a fault.  The proof attempt found two
  overlapping guards in the definition of the schema of the first database, of which
  TLC had silently taken the first; they are one case now.

What is only model-checked is the liveness (`HalfOpenDecides`, `SelectionTerminates`,
`FailedNodesProbed`, `LeaverRemoved`, `LockReleased`, `CacheConverges`, `Handled`),
which needs fairness and `ENABLED` and is beyond this prover, and the violations.  Every
invariant and action property of a passing run is proved.

## 5. Findings

Two runs that TLC refutes, with the text each contradicts quoted in `PROJECT.json`:

* The hub sends to the channel that only it empties; when it is full, the hub,
  then every broadcaster, then `Server.mu` are stuck (`WSHubStuck`).
* A day does not have the sum of its hours (`MetricsDaily`).  The statement groups
  by `bucket_start` (`store/metrics.go:333`), of which the hourly table has a column,
  and not by `DATE(bucket_start)` as `docs/monitoring-data-persistence.md:317` says.
  There is one row for each hour, all with the key of the day, and each replaces
  the one before; a month in the same way has the count of one day.  Hours are
  right, as raw rows have `ts` and no `bucket_start`.

Observed in the models, without a run of their own.  Requests and nodes:

* The first failed attempt's status reaches the client even when a later node
  answers 200: every attempt writes to the same `ResponseWriter`, which keeps the
  first status (`handler.go:259`; `docs/cost-first-node-switching.md:44` says that
  the request succeeds).
* `MaxAttempts` ends nothing: the loop goes on and every further node is treated
  as the last attempt and marked failed (`handler.go:312`, against the comment in
  line 341).
* A configuration is saved with the active node that was read before
  (`api_config.go:94`, `store/config.go:84`): a switch in between is undone in the
  database, and a restart comes back to the node that was left.  Hence
  `activeStale`.
* A row written from an older snapshot undoes `disabled` (`metrics.go:124`;
  `docs/disable_node_feature.md:160` says that it survives a restart).  Hence `stale`.
* A node that is disabled, fails or is deleted during its warm-up is activated
  (`node_manager.go:346`; `docs/disable_node_feature.md:9`).
* The breaker opens again although no trial failed: it decides when all trials
  have been given out, and one early success is fewer than all
  (`circuit_breaker.go:212`).
* On MySQL a setting goes back to its default.  Every start inserts the default
  once more (`mysql.go:107`); an update makes the row it changed the newest, a
  refresh keeps the oldest of a key (`mysql.go:143`, `settings_cache.go:137`).
  After update, restart, update, the row of the restart is the one that counts.
* The optimistic lock holds for versions read with a value, not for the version
  a `PUT` is answered with: it is read after the update (`mysql.go:255`) and the
  page sends it with the next `PUT` (`SettingsContext.tsx`).
* Callbacks of two changes may run in the other order, and later refreshes find
  no difference (`settings_cache.go:182`): hence `crossed`.
* `PUT /admin/api/config` and the settings disagree: it sets the running value and
  the row of `config`, not the setting, so the settings page shows another value
  than the one in use until it changes; after a restart the setting is in use
  again, whatever was configured.  Hence `direct`.
* A setting of 0, or of another type, is stored and shown and never used
  (`server.go:628`, `builder.go:486`).  Hence `Accepted`.
* A `PUT` for the setting of an account replaces the system setting in the cache
  until the next refresh (`settings_handler.go:234`).

Tunnel:

* The DNS record stays when the token or cloudflared fails afterwards
  (`tunnel/manager.go:166`).
* The eight seconds for saving the row begin before `mgr.Start` (`server.go:480`):
  a start that takes longer is undone.
* Two starts at once both pass the check in `server.go:471`; the second to publish
  overwrites the first, whose tunnel and process nobody stops.  A stop between the
  save and the publication stops nothing.
* A record the manager could not find again is searched for once more by the stop;
  if that fails, the stop succeeds and the record stays.
* A `PUT` of `enabled` alone takes the zone from the request, so the host becomes
  the one of the first zone.  A start writes back the row it read at its beginning.
* Every restart leaves the remote tunnel behind.  When cloudflared ends by itself
  (`tunnel/manager.go:172`), its tunnel stays published, the row says that it runs,
  and no start is possible before a stop.  Hence `died`.

Notifications:

* A failed send suppresses the same event for the window; one context of eight
  seconds serves all the channels of an event; events may arrive out of order.
* A concurrent update brings a deleted subscription back.  On MySQL the upsert of a
  key that exists keeps the old id, and the reply names one that does not exist;
  on SQLite it is refused, and a batch ends halfway.

Metrics:

* The window of the hourly statement starts two hours before the run and not on
  the hour (`types.go:100`; `docs/monitoring-data-persistence.md:304` shows aligned
  windows): the older bucket is replaced by a sum without the first seconds of its
  hour.  Hence `Body`.
* An administrator's window replaces complete hours by partial ones.
* An hour that ended more than two hours before the next run, because the process
  was down, is never aggregated; days and months only on the day after.

Start-up:

* MySQL does not know `CREATE INDEX IF NOT EXISTS`: the first start on a database
  without accounts fails after it has added the column, and the next one goes on
  without the index.  Hence the exception of `StartsAgain`.
* The error of the copy into `config_new` is ignored, and the old table dropped.
* Prices whose seeding was interrupted are never completed (`pricing.go:111`).
* `INSERT IGNORE` is not idempotent for settings of no account: each start adds the
  default and the migrated value again; the default, being older, counts, so
  that migrated values have no effect.
* Nodes of a database without accounts go to the account `default`, which is never
  created (`docs/multi-tenant-architecture.md:230` says that it is).

## 6. What is left out

* `NodePool`: several accounts (they share no state but `Server.mu`), names, URLs
  and keys, torn reads of a node in the unlocked `toRecord` and of `n.Weight` in
  `shouldPromote`, the failure streak (in `RequestRetry`), two late checks of the
  same node at once, the health history, node creation at the first start.  The
  values of a configuration are in `Settings`.
* `RequestRetry`: the order by weight (any order is allowed), the breaker's
  history (it may refuse at will), nodes added during a request, the
  administrator's `Disabled` flag (like `Failed`, without the streak),
  `X-Upstream-Status`, counters, usage rows, and errors while the body of a
  failed response is written.
* `Settings`: database errors, batches of several keys, other keys (they share
  only the lock), secrets, `SettingsCache.Set` (nobody calls it), the global
  version, two statements in the same second (`updated_at` has seconds), and the
  configuration of accounts other than `default`, which the server does not run with.
* `WSHub`: viewers of other accounts (the map is by account), what a message says.
* `Tunnel`: the list of zones, two accounts of Cloudflare, the output of
  cloudflared, notifications about the tunnel.
* `Notify`: other accounts, what a message says, a channel whose configuration
  cannot be read (it is skipped with its mark set, like a failed send), the test
  message, and `Stop`, which has no caller.
* `Metrics`: other nodes and accounts (groups of the same statements), the columns
  besides the number of requests, queries, intervals other than the default ones,
  the health history.
* `Startup`: two processes that migrate at once, the default node made from the
  environment, the refill of empty names and keys, configurations of accounts other
  than `default`.
* Components without a module.  Sessions, accounts, shares and usage are single
  statements or single steps on a concurrent map, in which no two steps could
  interleave; API handlers decode and render; the client is sequential; the
  frontend and the packages are not part of the server.  The full health
  scheduler is next in the plan.

## 7. Plan

Done: `CircuitBreaker`, `NodePool`, `Exchange` and `RequestRetry`, `WSHub`,
`Settings`, `Tunnel`, `Notify`, `Metrics` and `Startup`, each with its proofs.
Next, in this order:

1. `HealthScheduler`: two semaphores, a stop with a deadline, checks that go on
   after it.
2. A composition of `NodePool`, `CircuitBreaker` and `RequestRetry` for one node:
   a node that recovers gets traffic again.
3. For `Settings`: a register with compare-and-set as abstract specification, a
   run with two instances, and a run on the row that a start adds.
4. More proofs: of the modules above, and `FailoverComplete` for a warm-up whose
   node nobody takes out of service meanwhile.
