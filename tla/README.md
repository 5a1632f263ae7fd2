# bifrost-trade-api: a TLA+ model

`bifrost-trade-api` is a set of FastAPI applications (monitor, account, portfolio,
strategy, market, research, ops, docs) between the dashboards of a trading system and
its Postgres, its Redis and its Kubernetes cluster. Most of a route is a
statement against one table. What is hard is what several routes, threads and
processes do to one thing together: a cache, a stream, a lease, a book of fills, a
settings row, a pool. That is what these modules model; and of the many routes that
are one statement, what they answer for what became of it.

Line numbers of every definition are in `PROJECT.json` under `map`; paths below are
relative to `src/bifrost_api/` of the repository.

## 1. Inventory

| Component | State it keeps | Operations | What is hard | Correct when |
|---|---|---|---|---|
| Monitor: `GET /status` (`monitor/routers/status.py`) | `_status_cache`, `_status_cache_ts`, a lock | the page, built from about nine reads; suspend and resume (`daemon.py`) change what it reads | the lock is not held while the page is built; the clock is sampled before the lock; what one read returned is used by later ones | a page agrees with itself, is stale for a bounded time, and shows the last call at last; its names are those of its ids |
| Monitor: message center (`monitor/routers/messages.py`) | a Redis stream, an item per message, one position for all pods; per pod a reader thread and a list of SSE queues | read, materialize, persist, fan out; connect, disconnect | two pods, one position; a failing call in the middle of a batch; full queues | nothing before the position is lost; streams are in order; every message is listed |
| Monitor: configuration (`routers/config.py`) | the settings row | `POST /config/ib`, `POST /config/active-strategy`, reads | read, fill, write without a lock; an unreadable row is an empty one | an omitted field stays as it is |
| Monitor: daemon controls (`routers/daemon.py`) | a run flag, a control stream, account snapshots | suspend, resume, flatten, refresh | answers of two refreshes arrive in any order | the flag a page shows is that of the last call |
| Ops: ingest services (`ops/routers/market_ingest.py`, `ops/market_ingest_control_env.py`, `ops/services/`) | a workload, a health hash, a control lease | one row per service: probe, clear orphans, derive the state shown | every read is an await of its own; the clearing HDEL comes last; a failed read looks like "down"; replicas that are ready lag those asked for | a lease is taken only from a service that was down or on its way down, those of dead ones go; "off" has a cause |
| Ops: audit and workers (`ops/services/platform_audit_client.py`) | a ring of 500 records, `last_error`, a thread per record | record, send, status | nothing calls `_audit` (`ops/routers/workers.py`), so nothing is ever recorded | - |
| Account: executions (`trading/routers/executions.py`) | three raw tables and a view over them | fetch from two gateways, enter, delete, page | a partial fetch; a writer that says True of a missing table; rows moving between pages; one id space for three sources | an unqualified 200 means stored; pages are complete and do not repeat |
| Strategy (`strategy/`) | templates, structures, opportunities, allocations, plans, trades, reviews, gate sets, searches | list, read, create, patch, replace, move, delete: one transaction each | two names of one field; omitted fields and nulls; a page that saves a whole row; failures told like refusals; answers made after the commit | an answer says what became of the row; a request changes what it means to; an outage is not "no rows" |
| Portfolio (`portfolio/`), Market: watchlist (`market/routers/watchlist.py`) | categories, tags, orders, classes, snapshots, the watchlist | the same | the same | the same |
| Market: quotes (`market/app.py`, `market/routers/quotes.py`) | an on-demand set, tick keys, a subscriber thread, SSE queues | register, clean up, subscribe, stream | a quote passes two threads; queues drop; cleanup races polling | prices never go back; the last one arrives |
| Market: bars, calendar | tables | reads | - | rules are in `bifrost_core` |
| Research: feedback (`research/feedback_store.py`) | a pool of 5 connections, reports, images, an unread dot | submit, list, read, reply, move | the pool refuses instead of waiting and can lose slots; commits whose answer is lost | reports are whole; the dot hides no news |
| Research: readiness, discovery, greeks, screener (`research/routers/`, `research/*_client.py`, `*_reader.py`) | pages of option snapshots in Redis, for 120 s | fifteen readers of other services, the snapshots, a scan of names | a service fails between the reads of one answer, answers `ok` false with 200, or fails for one batch of several; a failed page is cached | an outage is not told as missing data; a page is of the contracts asked for; a scan scores a name from all its contracts |
| Admission (`ops/auth.py`, `write_guard.py`, `deprecations.py`, `common/query_vocab.py`) | none | roles, the write guard, retired query names | tokens come from two places; the order of the layers | a write runs for those entitled to it and nobody else |
| Research: financials (`research/sepa/financials_data.py`) | none | the tables of the Stock Inspector from the statements of a name | two vendor formats, restated periods, quarters that must be derived | each period once, newest first, under its own quarter |
| Docs (`docs_api/`) | none | fetch four OpenAPI documents and merge them | any service may be down; names of components collide | what answered is whole, what did not is named |

How they meet: the dashboards poll every application over HTTP. Applications share
Redis (run flag, streams, leases, ticks) and Postgres (settings, book, feedback)
with the daemon, the market gateways and the Flex plugin, which are not in this repository. Routes declared
`def` run on a thread pool, so two requests really overlap; routes declared
`async def` interleave at every await; subscriber and reader threads hand messages to
the event loop with `call_soon_threadsafe`. Deployments replace processes at any moment.

The 40 hazards this leads to are listed in `PROJECT.json`, each at its line and with
the properties that watch it.

## 2. Modules

Every module is one component. Its `VARIABLES` are the state the code keeps, marked in
the comment beside them; a variable marked *history* is not in the code and exists only
for properties to speak of the past. Every handler is cut exactly where another actor
can get in: at an await, at a call to Redis or Postgres, at the taking of a lock.

| Module | Models | State | Actions |
|---|---|---|---|
| `StatusCache` | `monitor/routers/status.py` (226-241, 306-326, 592-633), suspend and resume of `routers/daemon.py` | cache and its age, per request its phase and what it has read, the flag and the daemon's row | `Arrive`, `LookupHit/Miss`, `ReadRow`, `ReadRun`, `ReadRest`, `Fail`, `Store`; `Suspend`, `Resume`; `DaemonBeat`, `Restart`, `Tick` |
| `DurableCursor` | abstract: what the message center promises of its stream | stream, items, position | `DPublish`, `Materialized`, `Commit` |
| `MessageCenter` | `monitor/routers/messages.py` (32-131) | the same, and per pod a reader, per client a queue | `Boot`, `ReadBatch`, `PassOver`, `Materialize`, `Persist`, `CopyQueues`, `FanOut`, the `...Fails` of each, `Crash`; `Connect`, `Join`, `Receive`, `Disconnect` |
| `IngestServices` | `ops/routers/market_ingest.py` and the helpers it awaits | replicas asked for and ready, heartbeat, lease; per request its reads | one action per await: `Probe`, `ReadEnv`, `ReadStamp`, `CheckOrphan`, `Clear`, `ReadExternalLive/Recent`, `ReadStack`, `ReadGateway`, `ReadEngineLive`, `ReadLive`, `ReadRecent`, `Answer`; each may fail, in a `...Fails` of its own or by hearing no; the world moves by `Scale`, `ReadyChanges`, `Beat`, `WriteLease`, `Tick` |
| `Executions` | `trading/routers/executions.py` | raw tables, their counters, per fetch what it was told, the paging client | `Arrive`, `AskPrimary/Secondary`, `Write`, `WriteFails`, `WriteMissesTable`, `WriteNothing`, `Announce`; `PostExecution`, `DeleteExecution`; `FirstPage`, `NextPage`, `Leave`; external `Trade`, `Rollover`, `Confirm` |
| `ConfigWrites` | `monitor/routers/config.py` | settings row, per request what it read | `Arrive`, `Read`, `WriteIb`, `Reread`, `WriteActive`, `Done` |
| `StatusPage` | `monitor/routers/status.py` (38-72, 242-275, 331-361, 426-477, 545-572); extends `ConfigWrites`, whose requests write what it reads | the page so far, the names of the rows, the daemon's and the gateway's heartbeat | `Ask`, `ReadBeat`, `ReadId`, `ReadName`, `OpenRedis`, `Overlay`, `NoOverlay`, `FailPage`, `Leave`; the world by `Rename`, `Live` |
| `AccountRoutes` | the routes of `strategy/`, `portfolio/`, `trading/` and the watchlist, as data | none | a table: per handler how it reads its body, what it does, what it answers for each outcome |
| `AccountApp` | the requests of those routes over one row of one table: bodies (`strategy/patch_bodies.py`, `common/write_errors.py`, `common/request_bodies.py`), the call, the answer; extends `Admission` | the row, and per caller the row as its page last read it | `Refused`, `Found`, `NotFound`, `Done`, `Denies`, `Fails` |
| `FeedbackStore` | `research/feedback_store.py` and its router | pool, connections, rows, drafts of open transactions | `GetConn`, `NoConn`, `Insert`, `InsertImage`, `Touch`, `Select`, `StatementFails`, `Commit`, `CommitLost`, `Breaks`, `PutBack`, `Discard`, `RollbackRaises`, ...; `ServerStops/Starts`, `EnsureSchema`, `Restart` |
| `QuotesStream` | `market/app.py` (72-145) and `market/routers/quotes.py` | on-demand set, ticks, thread, callbacks, queues | `Tick`, `Hear`, `CopyQueues`, `Send`, `RunCall`; `Register`, `CleanupList/Remove/Fails`; `Connect`, `Receive`, `Disconnect`; `RedisDown/Up`, `Startup` |
| `Admission` | `ops/auth.py`, `write_guard.py`, `common/query_vocab.py` | none: operators over the tokens and the request | `Admit` and what it is made of |
| `ResearchApp` | `research/app.py`, the routers of research but feedback, and the readers they call; extends `Admission` | per request its route, what the services said, what the answer shows; the pages in Redis; the names of a scan | `Arrive`, `Layers`, `BadArguments`; `Read`, `Respond`, `PickNothing`; `NoStrikes`, `Look`, `Fetch`, `Store`, `Tick`; `Expirations`, `Chain`, `IvPercentile`, `NextName`; `Leave` |
| `InspectorRows` | `research/sepa/financials_data.py` (166-303) and its route | the statements the plugin answered | `AskQuarterly`, `AskAnnual`, `AskFails`, `LeaveTables`; `OneFormat`, `Derived`, `Take`, `Table` and the rest are operators |
| `MergedDocs` | `docs_api/app.py`, `docs_api/merge_openapi.py` | the services still to ask, what was merged, what is unreachable | `FetchMain`, `MainDown`, `FetchOther`, `Down`, `LeaveDocs` |
| `Statements` | - | the lists of statements `research` and `inspector_keys` give the inspector | - |
| `MC*` | - | the constants of the runs; `MCAccount`, `MCStatusPage` and `MCResearch` also put together modules that share no state, each in behaviours of its own (the second module's names then carry what they are of: `AppInit`, `TablesNext`, `DocsSpec`) | - |
| `*Proofs` | - | the theorems of section 5 | - |

Definitions whose comment begins with "Mutant" are in no specification: each is a
plausible mistake in the definition it stands before, and every property of a passing run
is violated when one of them takes that definition's place.

What data is abstracted to: a page of `/status` is the daemon's row, the flag, and
whether accounts are full, because nothing else on it is judged by a property; an
event is its stream id; a fill its `exec_id`; a health hash its age and its flag; a feedback
row the number of its images and of its news; what a service answers is rows, none, `ok` false, 404 or a
failure, a route is the sequence of its reads with what it does about each (`Plan`), and a score is whether
a contract passes. A row of the account application has two fields and a status, an older name for the first,
and a name no schema knows; that is what bodies, aliases, nulls and omitted fields differ in. Ages replace clocks: an age stops growing where no guard can
tell more, so that time never ends and the state space does.

External, modelled from how the code uses them: Redis, Postgres at READ COMMITTED, psycopg2's
pool, the services research reads, the view `brokerage.executions` and the writers of `bifrost_core`, the
daemon, the market gateways, the ingestor, the cluster.

## 3. Runs

| Run | Checks | Instance, and why it is enough |
|---|---|---|
| `status_cache` | `CausalPage` `FreshAfterQuiet` `GoesBackForCause` `LastWriteShown` | two threads, TTL, lock wait and page each one tick, one control call, reads of the flag without an answer at any time: a page expires under a waiting request, and a slow reader stores what it read before the call over a page that shows it |
| `status_detail` | finds `FullDetailOnRequest` violated | the same with callers that ask for full accounts and callers that do not |
| `status_page` | `AnswerShowsWrite` `OmittedKept`; `NamesOfTheirIds` `CheckOfItsBeat` | two requests, two fields of one route and one of the other, one value besides null: a read of one straddles the write of the other. And a page while one request after another writes the active strategy, two names for a row, heartbeats that change at any moment: a setting is written between the id's read and the name's |
| `message_center` | `CursorCovered` `StreamInOrder` `NoMessageSkipped` `ImplementsPromise` `EveryMessageListed` | two pods, one client that may reconnect to either, batches of two and queues of one, three events of which the first is no message, two faults: a batch is cut short by a failure, read again by the other pod, and overflows a queue |
| `ingest_services` | `OffHasCause` `ClearNeedsDown` `ClearNeedsAge` `OrphanGoes` | one request that polls for ever, four rows (a plain one, of staging by its hash and of production by the configuration; a gateway's on redis-live and one on redis-ib alone; the engine, of no stack), one replica, whose being asked for and being ready change apart, a hash that is old for a tick before it expires, one lease write besides the initial lease. Overlapping requests are left to the theorems, which hold for any number |
| `ingest_kept` | finds `KeptWhileRunning` violated | one request, a plain row |
| `account` | `OkMeansStored` `PagesComplete` `NoRowRepeated`; `AnswerMatchesRow` `OthersKept` `OutagesTold` | a fetch of two slots, pages of one row, one complete fill, one the mapping refuses, one entered by hand, all of one instant (so the id decides the order), one delete; while a client pages, only the primary slot reports, because which slot stored a row is nothing a page shows. And one caller of every route of every table, with every body of up to two names, two values, null, blank and a wrong type: its form goes stale by its own other requests as it would by anybody's |
| `executions_paging` | finds `NoRowSkipped` violated | the fetch of one slot, without deletes and with two complete fills |
| `feedback` | `ConnectionsBounded` `ReportsWhole` `NewsSeen` `AnswerTrue` `StoreRecovers` | two threads, a pool of two (full only once a slot has leaked), a report of one image, one reply, two faults |
| `quotes_stream` | `LastQuoteArrives` `CaughtUp` `NeverBackwards` `TickArrives` | two symbols, three ticks, a queue of one: it overflows, and what it drops may be the only tick of its symbol; one outage, one cleanup |
| `research` | `RowsAsAsked` `OutagesSaid` `ScanHonest` `BlanksFade` `WritesByRole`; `NewestOfEachPeriod` `QuartersRight`; `DocumentWhole` | one request for any route beside one for snapshots, two ladders, a page that stays two ticks (it can be half gone), two names of two batches (the first or the last fails); a token that is a viewer in the YAML and the operator's of the environment, one whose YAML role does not exist, one that is nowhere, none at all. Up to three quarterly and two annual statements of two years of 52 weeks, in both formats, one restated three days off, one without data, three without a fiscal year and one without a date; tables of two rows. Four documents whose paths and components collide, of four services any of which may be down |
| `inspector_keys` | finds `KeysUnique` violated | the same statements |

A run asks one question of one application, and independent parts of an application are separate
behaviours of one run (a variable that never changes says which): their product would show nothing more.
`account` is checked under a VIEW that leaves out the last request, which no step depends on; its action
properties look at every step before the view is taken. The type invariants are not among the runs' properties:
each is proved (section 5), which says more.

What they show, beyond the absence of violations:

- **A page of `/status` can go backwards, for two causes, and not for long.** A
  request that read the flag before a suspend stores its page over a newer one and stamps
  it as fresh; and a read of the flag that has no answer is shown as "not suspended", and cached
  like one that has. `GoesBackForCause` says these are the only two. After one TTL, one lock wait
  and one page's reads without a control call and without such a read, every page is right.
- **`?include_accounts=1` is not honoured on a warm cache** (finding, `status_detail`).
- **The persisted position of the message center may go back** when the slower of two
  pods persists last, which costs repeated work and loses nothing: the pods together implement
  `DurableCursor`. The reader thread of a pod ends when its first Redis call fails
  and only a new connection starts another; that is why `EveryMessageListed` needs clients that
  come and go.
- **A lease can be cleared while its service runs again** (finding, `ingest_kept`), in the
  window between the probe and the HDEL. Apart from it, a lease is cleared only from
  a service scaled to zero, whose last replicas may still be ready, or without a replica ready, or that could
  not be asked: a failing read of the workload is answered as 0 of 0 replicas. `ClearNeedsDown` says so of the
  whole of the request: with a replica asked for and one ready all the time, nothing is cleared. Spec and ready
  lag each other in the cluster, and the code reads them from one object (`executor_kubernetes.py`, 133), so
  `Probe` takes both in one step.
- **"Off" may be told of a service that runs** when a read of Redis or of the cluster fails, since every one of them
  answers a failure as "no". `OffHasCause` names which failures can do it: the read of the workload, and, for a row the gateway
  manages, the last read of its heartbeat. No other can.
- **Paging by cursor can skip a fill when rows are only added** (finding,
  `executions_paging`): a TWS row has a negative id, its Flex confirmation a positive
  one, which sorts before a cursor of the same instant. Fills that stay
  under one id are shown exactly once.
- **`POST /config/ib` can put back a field** another request changed between its read and
  its write, and clears the omitted fields when its read fails; `OmittedKept` says these are the only two ways.
- **The feedback pool loses a slot** whenever the rollback inside `putconn` raises; after
  `maxconn` of them every request is refused, with the same 503 "feedback store error" as an outage, until the process
  is replaced. `StoreRecovers` says how far the store recovers by itself: once the server stays up, the error of a lost
  connection stops for good, and that of an exhausted pool stays only where requests and lost slots together
  outnumber the pool. It does not say that slots come back, because they do not. A statement that runs into its
  timeout may fail at any time, and rolls back like any other.
- **A 200 of `POST /executions/fetch` means stored** only without `secondary_error` and without
  `tws_raw_missing_table`: a writer that does not find its table says True, and the system message is one of success
  (`WriteMissesTable`).
- **The quotes subscriber is started at startup only, and only if Redis was there.**
  `TickArrives` therefore speaks of ticks notified to a running subscriber.
  A symbol polled between the SMEMBERS of a cleanup and its removal is removed under its reader, and
  is back with the next poll.

- **Four routes of the account application cannot tell a failure from a refusal** (`Blurred`): the `PUT`
  of a structure, a gate set and a fill, and the `POST` of a fill with splits, because their writers come back with one
  False or None for both. Everywhere else a 4xx means nothing was written. A 500 or a 503 leaves it open: the
  answer is made, and passes its response model, after the commit.
- **A page that saves a whole structure or gate set** puts back the fields another request has changed since it
  read the row; nothing in the row or the route would notice. `OthersKept` says it is the only such way.
- **`GET /transactions` with a limit below one** answers an empty list although the statement failed; every other
  reader tells an outage as one.
- **The names on a page of `/status` are those of its ids** however the settings are written
  meanwhile, because each id is read once and its name by that value; a name may be one the row no longer has.
- **Two statements of the inspector can share a row key** (finding, `inspector_keys`): a year of nested-format
  statements without an annual one gives rows whose quarter is null, and these are not compared.
- **Statements without a fiscal year count as one year.** The annual table keeps the newest of them only, of however
  many years they are, and the quarterly one the newest of each quarter they carry; a statement without a date sorts last and has
  no quarter unless it carries one. `NewestOfEachPeriod` takes that for its notion of a period.
- **The merged OpenAPI document** has every path of every service that answered, and what the paths refer to.
  References from one component of a service to another are not rewritten by `merge_openapi_specs`, whose docstring promises that
  only for paths and tags; `DocumentWhole` leaves them out.

- **Research tells outages apart, with exceptions.** `OutagesSaid` names them (`Excused`): the option PCR, the
  ticker overview, liquidity, relative value and the metrics of the raw data answer 200 with a blank when a
  service fails them, and the PCR shows zero contracts open where only the volume could be read.
- **A failed snapshots page is cached** like a good one and can replace it; `BlanksFade` bounds how long it is
  found by one stay after the last failure stored, because nothing renews a page that is found.

Symmetry is used in `research` (of ladders), which checks no liveness. Deadlock is checked in every run.

### Fairness

Fairness is a formula of its own in each module, on a `LiveSpec`:

- requests end and are made again (`Arrive`, `Begin`): the dashboards poll `/status`, the
  Ops page and the feedback summary without end, and no handler waits for ever (every store
  call has a timeout);
- time passes (`Tick`);
- a thread or an event loop that was started runs (`Reader`, `Subscriber`, `RunCall`);
- SSE clients read what they are sent, and in the message center leave and come back (EventSource reconnects,
  proxies cut streams). `QuotesStream` assumes no reconnection;
- strong fairness only where a read may fail again and again but not for ever
  (`ReadEnv`, `Clear` of the ingest row).

Never assumed fair: that anyone publishes, ticks, writes, that Redis or Postgres comes back, that a
failure happens or does not.

## 4. Hazards without a property

Three hazards have no property; `PROJECT.json` gives the reasons: an event
that can never be materialized blocks the reader, and whether one exists is decided in
`bifrost_core`; a client accepted while no subscriber thread runs waits in vain; and a symbol removed under its
reader is back with the next poll, which is one step of the model. Three more belong to code outside this repository and are
not listed there: a queue whose generator the framework never starts, a deleted fill that the next fetch
brings back, and two account snapshots merged out of order.

## 5. Theorems

Checked by TLAPS for every value of the constants the assumptions allow.

`StatusCacheProofs`: `TypeCorrect`, `Causality` (`CausalPage`), `Freshness`
(`FreshAfterQuiet`), `Regression` (`GoesBackForCause`), for any number of threads, any
TTL, lock wait and page. None of the properties is inductive. The invariant
`IInv` adds what each page in hand knows: a page's row was read before its flag (`RowInv`); a
flag that differs from the present one was read before the last write, so `sinceWrite` is at most the
time since its reading (`ReadInv`), and likewise for the cached page, by its age (`CacheInv`), and
for an answered one (`AnswerInv`); the same of a page whose flag had no answer, with `sinceUnread` in the place of
`sinceWrite`; a request not marked `overlapped` read the flag no
earlier than the store it will replace (`OverlapInv`); and pages of one write agree about it (`AgreeInv`).

`MessageCenterProofs`: `TypeCorrect`, `NothingLost` (`CursorCovered`), `InOrder`
(`StreamInOrder`), `NoneSkipped` (`NoMessageSkipped`), `Refinement` (`ImplementsPromise`), for any number
of pods and clients, any batch and queue size. The invariant: whatever lies
between a reader's start and `newest` is materialized or no message (`CoverInv`, which
makes every `Persist` a legal `Commit`), the messages in hand are those of the batch
(`BatchInv`), every queue holds only events before those in hand (`SentInv`), and
without a fault what a client is owed is in the hand of its reader (`OwedInv`).

`IngestServicesProofs`: `TypeCorrect`, `OnlyTheDown` (`ClearNeedsDown`), `OnlyTheOld`
(`ClearNeedsAge`), `NoFalseOff` (`OffHasCause`), for any number of overlapping requests and any
set of rows and any number of replicas, where TLC takes one request and one replica. The
invariant ties what a request has read to its history: a process read as not running had none asked for or none ready, or could
not be asked (`DownInv`), a request about to clear saw it so (`ClearInv`), a silence is witnessed by every request under way
(`QuietInv`), a gateway about to be shown without a recent heartbeat had a silence or a read that failed (`HeardInv`, which
rests on `GatewayInv` and `EngineInv`: who is asked in which phase), and a stamp is not older than the lease unless
`misdated` (`StampInv`).

`AccountProofs`, of `Executions`: `TypeCorrect`, `NothingForgotten` (`OkMeansStored`), `CompletePages`
(`PagesComplete`), `NoRepeats` (`NoRowRepeated`), for any number of fills and fetches and any page size.
Everything about pages rests on `IdsDistinct`: ids of three tables in one signed space do not
meet, because a table has given out as many ids as it has rows and has lost (`RawInv`), which is below
`Base`. From that, keys order the book totally, a page is closed towards the front and ends
at its cursor, so a steady fill has been shown exactly if the cursor has passed it (`PageInv`). The
assumption `Base > Cardinality(Execs) + MaxDeletes` is what the code takes for granted when it
starts journal ids at 1,000,000,000.

`AccountProofs`, of `AccountApp`: `AppAlways`, `MatchingAnswer` (`AnswerMatchesRow`), `KeepsTheOthers` (`OthersKept`),
`TellsOutages` (`OutagesTold`; all three action properties), for any number of callers and any values of the fields.
They rest on two things. One is `RoutesAre`: each of the routes in `AccountRoutes` answers failures and refusals
apart unless it is one of `Blurred`, each reader but one tells an outage as an error, only plans move, and what
replaces a whole row takes no alias and skips nothing. It is proved one table of routes at a time (`StructuresAre`,
`PlansAre`, `FillsAre`, ...), so a route that is added or changed has its own step to fail in. The other is what a body becomes:
`PayloadIs` says which fields bifrost_core is handed whatever names, blanks and nulls were sent, and `WrittenIs`
what the row is then. The invariant is `AppInv`: types, and no status of a row that is not a plan's ever leaves
"draft", so a `put`, which writes the row anew, leaves its status as it was. `ValuesAssumption` says that null, blank and a
value of a wrong type are not values.

`ConfigWritesProofs`: `TypeCorrect`, `ShownAsSent` (`AnswerShowsWrite`), `OmittedStays` (`OmittedKept`, an
action property), for any number of requests, fields and values: what a request has read is
the row unless it is marked `stale` (`ReadInv`), and what it wrote is still there likewise (`WrittenInv`). The same module
proves `PageNamesItsIds` (`NamesOfTheirIds`) and `PageChecksItsBeat` (`CheckOfItsBeat`) of `StatusPage`, for any number of writers,
ids and names: the names read so far are ones their rows have had since the request arrived (`had` only grows until then).

`FeedbackStoreProofs`: `TypeCorrect`, `PoolBounded` (`ConnectionsBounded`), `WholeReports`
(`ReportsWhole`), `NoNewsHidden` (`NewsSeen`), `TrueAnswers` (`AnswerTrue`), for any number of threads, any pool,
any number of reports, images, replies and outages. A request has a connection exactly
while it works (`HeldInv`), so the pool can be counted; a submit with an id owns it, and nobody sees its
row before the commit (`OwnInv`); an update that was not rolled back holds its row's lock until it
commits, so the row it commits over is the one it found (`LockInv`), which is why a reply
cannot be lost under a `mark_read`.

`ResearchProofs`, of `ResearchApp`: `TypeCorrect`, `PagesOfTheirOwn` (`RowsAsAsked`), `NoOutageUnsaid` (`OutagesSaid`), `ScansHonest`
(`ScanHonest`), `BlankPagesFade` (`BlanksFade`) and `WritersEntitled` (`WritesByRole`; both action properties), for any
number of requests, any routes each may ask for, any tokens and roles, any stay of a page, any number of names
and batches. A reader that goes on has heard no failure it must tell of (`HeardInv`), which follows from what
each read of each plan may be (`PlanReads`); a blank page in Redis has at most `CacheTTL - calm` ticks to live
(`CacheInv`); a scan that goes on has heard no failure of the plugin (`ScanInv`). All but the
pages in Redis is said of one request at a time (`Own`), so that each action is proved for its own request
and `OthersSame` does the others.

`ResearchProofs`, of `MergedDocs`: `WholeDocument` (`DocumentWhole`), for any documents in which the paths refer to
components the document has (`DocumentsAssumption`, which FastAPI sees to). While the document grows, who answered is among
those asked and the rest is named (`HeardDocs`), a path is that of the first service that has it (`PathInv`),
and every component fetched is there under its prefix (`ComponentInv`); prefixes are what keeps two services' components
apart, which is why references still meet their own. Nothing is said of a document that could not be begun (502).

`ResearchProofs`, of `InspectorRows`: `TablesNewest` (`NewestOfEachPeriod`) for any statements, any number of them
and any limits of the tables, and `RightQuarters` (`QuartersRight`). A sorted order of the rows exists and is the only thing
`NewestFirst` may be (`OrderExists`, `NewestFirstIs`). A table is a recursion over its rows; that the recursive
function exists (`FillingExists`) and that each prefix leaves in the table the newest rows of each key, up to the limit
(`TakeKeeps`, `TableOf`), are inductions, done as the impossibility of a least counterexample (`Least`), for which the
library's `WFMin` needs no operator as a parameter. `DatesAssumption` is what the quarters rest on: a carried
quarter is right, and a quarter ends within `Distant` days of where it would in quarters of 91 and years of 365 days.
The code rounds to quarters of 365.25 / 4 days, so it goes wrong from 45.7 days on; forty leave room for leap days, for years of
52 or 53 weeks and for the 91 days themselves, and a company whose calendar is further off is outside what the
code can tell. `QuartersCounted` is the arithmetic.

`QuotesStreamProofs`: `TypeCorrect`, `LastArrives` (`LastQuoteArrives`), `NothingMissed` (`CaughtUp`),
`PricesInOrder` (`NeverBackwards`, an action property), for any number of symbols, ticks and clients and any size of
the queues. The invariant follows a quote on its way from the key to the client: for each symbol, what is in a queue
or in a callback to come is in the order of its ticks (`OrderInv`) and no newer than the quote in the thread's hand
and the key (`UptoInv`, `QuoteInv`); the last quote broadcast to a client is the last on its way, whatever the queue
has dropped (`LastInv`); and what a client that lost nothing is owed is notified, in hand, on its way or shown (`DueInv`).

Only model-checked: the liveness properties `LastWriteShown`, `EveryMessageListed`, `OrphanGoes`, `StoreRecovers` and
`TickArrives`, because fairness and ENABLED are out of the prover's reach. Every other property of a passing run is
proved. What the four runs that end in a violation find is TLC's alone, and is a counterexample, not a proof.

## 6. Not modelled

- The lamps and health roll-up of `/status`: pure functions of one page. Planned, see below.
- Rules that live in `bifrost_core` (what a plan, a trade or an allocation may become, the trading calendar, how
  account snapshots merge): that code is not in this repository. The routes that hand requests on to it are
  modelled, with its answer a choice; reads of the calendar and of bars are handed on unchanged.
- The audit trail of Ops: nothing in the repository calls `_audit`, so its ring, its threads and its mode never
  leave their initial state.
- The rest of `research/sepa/financials_data.py`: from its line 306 on nothing in the repository calls it, and the
  unpacking of a row's JSON into columns is data.
- The arithmetic of research (scores, greeks, percentiles, statements): floating point over rows, outside what
  TLC evaluates. What a filter decides is a choice of the model.
- A research process without Postgres settings: every route that asks for them answers 503 at once.
- Message TTLs and the trimming of the stream; images and ids of feedback as text;
  wording, logging and wiring of the applications.

## 7. Plan

The modules above came first because they hold the state that outlives a request. Next, in order:

1. The lamps and the health roll-up of `/status` against reference definitions, as operators beside `StatusCache`.
2. The remaining controls of the daemon (flatten, refresh) beside suspend and resume.

Runs are kept few: one for each question, twelve now, so each new module has to join one of them
or to replace one.
