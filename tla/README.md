# Meridian in TLA+

TLA+ models, TLC runs and TLAPS proofs for Meridian, a Shopify app that computes
the profit of a shop from its orders, costs and advertising. The modules are
written from the code under `src/`; a definition's name is the function's name
where that is possible, and `PROJECT.json` gives the lines behind every one of
them.

    tlc -config RecalcQueue.cfg MCRecalcQueue     # any run: cfg + module
    tlapm RecalculationProofs.tla                 # the proofs

## 1. Inventory

The server is a Remix application on Postgres (Prisma). More than one process may
serve a deployment; every process polls the same tables. There is no message
broker for the core work: durable work is rows in tables, taken with leases (the
advertising jobs alone wait in Redis).
Nearly all of the interesting behaviour comes from three sources: awaited database
calls between which other processes run, processes that die between two of them,
and Shopify delivering webhooks late, twice or out of order.

| Component | State | Operations | Interacts with | Hard part | Correct when |
|---|---|---|---|---|---|
| Recalculation queue (`lib/recalc-queue`) | `RecalcJob` rows: status, dedupe key, attempts, lease | enqueue, lease, heartbeat, complete, fail, purge | restatement, bundles enqueue and run on it | check-then-act on rows, stale leases, unique key races | outcomes fenced, keys released, jobs settle |
| Webhook outbox (`lib/webhooks`) | `WebhookEvent` rows: payload, lease, deadline | claim, direct run, sweep, mark, expire | every webhook route; erasure and shop deletion write its table | duplicate deliveries, crash after the 200, poison payloads | acknowledged is handled, once if nothing fails, and no payload outlives its use |
| Restatement (`lib/restatement`) | `PeriodSnapshot`, `PeriodRestatement`, line item costs | enqueue and merge, restate, close, reopen | queue, recompute, cost history, order sync | long run of separate writes, crash in the middle, merged requests | frozen figures immutable, every request applied, trail exact |
| Recompute (`lib/recompute`) | order profit columns, a map of runs in flight | recompute a shop month by month | restatement, settings, backfill, ads queue, pages | joining a run that started earlier | the ledger shows the inputs of the caller |
| Order and product sync (`lib/sync`, `webhook-processors`) | orders, shipments, customers, variants, price facts | a delivery's transaction, snapshots of products | outbox, backfill, metering, erasure | stale snapshots after newer ones, orders that change hands | source time never runs back, summaries agree with rows |
| Backfill (`lib/backfill`, `backfill-claim`) | claim columns and cursors on `Shop` | claim, renew, import pages, complete, fail | sync, recompute | two owners, resume after a crash | one owner writes progress; resumption misses nothing |
| Usage metering (`lib/usage-meter`) | meter row, usage events | count an order, bill the overage | order sync, Shopify billing | a charge outside the database | an order counts once, a unit is charged once |
| Customer erasure, data requests (`lib/customer-erasure`, `data-request`, `data-retention`) | tombstones, exports | redact, export, collect, purge | outbox, order sync | erasure against writes in flight | an erased shopper stays erased |
| Costs and bundles (`lib/cost-history`, `lib/bundles`, `engine/bundles`) | cost timeline, bundle components | record a cost, confirm, roll up | queue, restatement | derived timelines, replays | the timeline is what the edits say |
| Connector health (`integrations/ad-health`, `lease`, `scheduler`) | connector rows: credentials, lease, failures, alerts | sweep, claim, refresh, probe, fail over, alert | settings, ingestion | a row read before its lease, two kinds of failure | every outage is announced |
| Ad ingestion (`lib/ad-ingestion*`, `ad-platforms`, `queue/ads-queue`) | window ledger, spend, queues in Redis | plan, queue, ingest, ask for a recompute, repair | recompute, health | lost queues, recomputes that overtake | due days arrive, stale profit is noticed |
| Shipping (`integrations/shipping`, `shipping-adjustments`) | labels, parcels' costs, corrections | fetch, match, choose a carrier, share out | order sync, recompute | two carriers on one order, voids, currencies | parcels carry one carrier's total |
| Plans, provisioning (`lib/plan`, `provision`, `shop-plan`, `auth`) | plan, store type, status on `Shop`, `Subscription` | install, ask, subscribe, cancel, uninstall | webhooks, billing, backfill | events out of order, answers that are old | the plan is what Shopify charges |
| Engine (`engine/*`) | none | pure functions | recompute, pages | pennies, proration, boundaries | the parts add up to the whole |
| Analytics (`data/*`, `lib/route-data`, `analytics-admission`) | two caches with a generation, a queue of builds | build, admit, invalidate | pages, recompute, prices | a build that finishes after an invalidation | no answer is older than its request allows |
| Price suggestions (`lib/pricing`, `app.pricing`) | `PriceRecommendation` rows | generate, apply, dismiss, restore | analytics, engine | a decision during a generation | a suggestion keeps the margin |
| Pages, clients, secrets, design | none of their own | rendering, HTTP, encryption | all | - | - |

`PROJECT.json` lists these parts with their files and what is modelled of each,
and under `hazards` the places in the code that are hard to test, with the
properties aimed at them.

## 2. What is modelled

### FencedLease: the abstract specification

`recalc-queue.server.ts` says the code base has "one durable-work pattern ... to
reason about, not two that drift apart". `FencedLease` is that pattern with every
mechanism taken away: an item is opened once, taken by a succession of takers, and
closed once, by the taker that took it last or by the system; a closed item is
never taken again. Both `RecalcQueue` and `WebhookOutbox` are checked to implement
it (`ImplementsFencedLease`), under the mapping `LeaseItem` that reads phase, latest
taker and closing taker off their rows.

### RecalcQueue: the durable queue

| In the model | In the code |
|---|---|
| `row[j]` | the `RecalcJob` row created by request `j`; `due`, `live` are its two timestamps against the clock |
| `client[r]`: `Widen`, `FindExisting`, `Fold` / `ReleaseKey`, `Create`, `CreateUnkeyed` | `enqueueRestatement` up to its call, then `enqueueRecalcJob`, one action per awaited call |
| `worker[w]`: `SelectCandidate`, `TryLease`, `HandlerReturns` / `HandlerThrows`, `Complete` / `Fail` | a process's single-flight sweep: `leaseNextRecalcJob` in its two calls, then `runRecalcJob` |
| `Heartbeat`, `LeaseExpires`, `BackoffElapses`, `Purge` | the timer of `startRecalcHeartbeat`, the clock, `purgeFinishedRecalcJobs` |
| `Crash`, `LeaseLapses`, `CompleteThrows`, `FailThrows` | faults: a process dies, its heartbeats fail for a whole lease, the outcome cannot be written |

A payload is the set of requests whose correction it carries. A row created for
request `r` is named `r`. The random lease token of a row's n-th lease is `n`, which
is as unique per row and easier to read. The candidate query's order is left out
(any claimable row may be chosen), which only adds behaviour. The clock reading
`now` is taken once per `leaseNextRecalcJob` call; the compare-and-set of the model
matches whenever the row is claimable at that moment, which again only adds
behaviour. `Purge` requires that no call still refers to the row: the retention
is thirty days, a call lasts seconds. Deletion of a shop (which cascades to its
jobs) is not part of this module.

### WebhookOutbox: receiving and recovering deliveries

| In the model | In the code |
|---|---|
| `event[d]` | the `WebhookEvent` row with webhook id `d`; `held` says the payload is not null |
| `copy[<<d, i>>]` | the i-th HTTP request in which Shopify sends `d`: `Receive`, then `ClaimFresh`, `ClaimReplay`, `ClaimOrphan` or `ClaimThrows`, the branches of `claimWebhook` |
| `run[x]` | `runHandler`, for a direct run (named like its delivery) or a process's sweep |
| `HandlerReturns`, `Effect` | the processor, with what it does to this table: a redaction closes the shopper's pending requests, a shop redaction deletes everything |
| `BeginSweep`, `SelectCandidate`, `TryLease`, `EndSweep` | `drainWebhookQueue` with the expiry it starts with and `leaseNextWebhook` |

Here the order of the candidate query matters (it keeps a poison delivery from
starving the rest), so `after` records which rows have an earlier `availableAt`.
What the processors write outside this table belongs to other modules.

### Restatement: correcting history

One shop, one process; a month's cost basis is a version number. `basis` is what
the cost timeline says, `line` what is written on the line items, `ledger` the
materialised figure. `restateCosts` is one action per awaited call
(`CheckClosed` ... `TallyMove`), the recompute it awaits runs month by month and is
shared by whoever calls it while it is in flight (`rc`), `closePeriod` is three
steps (`closing`). A request is `enqueueRestatement` with the `enqueueRecalcJob` it
calls, one action per awaited call: the lookup whose window it widens (`WidenAsk`), the
lookup that chooses the branch (`FindHolder`), then the update by id (`FoldAsk`), or the key
released (`ReleaseHolder`) and the insert (`CreateJob`, without the key where another
request took it: `CreateKeyless`). The worker reads its candidate (`SelectJob`) before it leases it
(`LeaseJob`) and runs the row as it was read. So concurrent requests interleave with each other and with the
lease. Leases of several processes are `RecalcQueue`'s. Around them happen cost edits,
reopenings, other recomputes, orders sent again and crashes, each as often as
the behaviour's `budget` allows.

A fold or a lease may write over a row that has changed since it was read; the history
variable `crossed` notes it. `AskedIsApplied` says that a request is lost in no other way: not in a merge of requests
that come one after another, nor in a release or a collision of keys, a crash or a retry. That the
overtaken one is not lost either is what the code promises and does not keep (`NoRequestIsLost`, section 6).

Left out: the variant scope of a request (a request is for all variants), its upper
edge (always now), orders that arrive for the first time during a restatement, and
a recompute in another process.

### UsageMeter: charging soft overage

| In the model | In the code |
|---|---|
| `used`, `billed`, `warned`, `status`, `counted` | the `UsageMeter` row and the `UsageMeterEvent` rows of the month |
| `balance`, `keys` | what Shopify holds: the units of all usage records, and their idempotency keys |
| `call[d]`: `CountOrder` / `CountReplay`, `ReadMeter`, `QueryCap` / `QueryCapReached` / `QueryNoLine`, `Charge` / `ChargeRefused` / `ChargeLost`, `ClaimBilled` | one delivery's handler: `recordOrderUsage`, then the four awaited steps of `billSoftOrderOverage` |
| `ApproachingCap` | the webhook by which Shopify says that 90% of the cap is used |
| `Crash` | a process dies, or an earlier step of the processor fails: the outbox runs the delivery from the start |

Money is counted in units of five cents. The code goes from units to dollars and back
with `Math.floor(amount / 0.05)`; in binary floating point that is one unit short for
a few amounts (43, 81, 86 and 91 among the numbers below 100), which is what
`Slips` stands for. Left out: the read-only subscription states in which nothing is
counted, other metrics, the roll-over to the next month's meter, and notifications.

### Backfill: the historical import

| In the model | In the code |
|---|---|
| `shop` | the columns of the `Shop` row: sync status, token, lease, cursor, count, granted scopes, uninstalled |
| `run[r]`: `Ask`, `ReadShop`, `Claim` / `ClaimLost` | `beginBackfill` with its process-wide map (`active`), `claimBackfill` in its read and its compare-and-set |
| `Setup`, `FetchPage`, `SavePage`, `FetchFails`, `InvalidCursor` | the profile and the products, then the loop over the pages of orders, each followed by a fenced write of the cursor |
| `ReadCapacity`, `ClearCapacity`, `DeleteRows`, `CreateRows` | `rebuildCapacityDays`, whose writes are not fenced |
| `Compute`, `StopHeartbeat`, `Complete`, `Fail` | the recompute, the end of the heartbeat, `completeBackfill`, `failBackfill` |
| `Beat`, `LeaseExpires`, `LeaseLapses`, `Crash` | the heartbeat, the clock, an owner that stalls, a process that dies |
| `AfterAuth`, `Resync`, `Uninstall`, `ScopesUpdate` | what starts an import and what happens to the shop meanwhile |

A page of orders is a unit, and a cursor the number of the last page. A run's token is
its name. `imported[p]` says under which scopes the page was read; an
uninstallation empties it, since from then on the store moves unseen. Left out: what
is in a page (that is `Ingest`), the products,
which every run walks again, and rows from before the lease column existed.

### CostTimeline, Bundles, CostBook: what a product cost, and when

| In the model | In the code |
|---|---|
| `CostTimeline`: `CostEffectiveAt`, `CostDivergenceFrom` | `engine/cost-history.ts` |
| `Bundles`: `ResolveBundleCostTimelines`, `CombineComponentTimelines` | `engine/bundles.ts` |
| `rows`, `catalog`, `stamp`, `edges` | `VariantCost`, `Variant.unitCost`, `Variant.inventoryItemUpdatedAt`, `BundleComponent` |
| `LoadBefore`, `SaveVersion`, `PublishSaved` | saving a cost on the costs page: `recordVariantCost` in its three statements |
| `Map` and `EnqueueRollup` behind `UpsertMapping`, `ConfirmMapping`, `RemoveMapping`; `DetectBundles` | the mapping operations, each followed by its enqueue; detection, followed by none |
| `SyncProduct`, `ImportProduct` | the cost part of `syncProductFromShopify` and of the product import, each one locked transaction |
| `Lease`, `LoadConfirmedEdges` ... `HandOver` | `runBundleRollupJob`: one action per statement of `rollUpBundleCosts` and, for each pack, of `replaceDerivedCostTimeline` |

A timeline is a function from a few instants to versions. The functions of the engine
are written as they compute; the property `PackHistoryIsDerived` compares their effect
with `Expected`, which says instant by instant and without timelines what a pack costs.
The answers that the walk over the mappings remembers are left out: they change an
answer only where the nesting exceeds eight levels and the order of the visits decides.
The restatement that a rollup asks for is taken to have run (that is `Restatement`),
and a product has one variant.

A request that comes during a rollup takes the key of the running job
(`recalc-queue.server.ts:78-93`), and another process may lease the new one at once: `Lease` lets two
rollups of one shop overlap, which nothing in the code prevents.

`fresh`, `aligned`, `reported` and `disturbed` are history. They say where a property may
be expected to hold, which is what the code promises: a rollup that read the mappings alone
follows them, single writers keep the catalogue, and rollups that ran one after another, none of them
dying, reach the ledger.

### OrderBook, Catalogue, Ingest: what deliveries do

| In the model | In the code |
|---|---|
| `OrderBook`: `SyncOrder`, `SyncFulfillment`, `Forget`, `RecordDataRequest`, `CollectDataRequest` | the transactions of `syncOrderFromShopify`, `syncFulfillmentFromShopify`, `redactCustomerEverywhere` and the exports; each holds the order's or the shopper's advisory lock and is one step |
| `Acquired`, `Reconciled`, `SeemsFirst` | the bookkeeping of a shopper's first order |
| `Catalogue`: `HydrateProduct`, `HydrateOrder`, `HydrateInventory`; `SyncProduct`, `ImportProduct` | the question to Shopify and the later publication of its answer, with the clocks of the product and of its inventory items, and the price facts |
| `Ingest`: `Deliver`, `Start`, `Finish`, `Crash` and an action for each step of a processor | `webhook-processors.server.ts` beside `importOneOrder` and `importProducts` |

The outbox appears as storing, starting and finishing a delivery. Amounts, refund rows and tax rows do
not occur: what the properties tell apart is which snapshot a row comes from. A shop's
products share no row, so there is one of two variants. `Tellable` says what deliveries may say: a payload is of its topic,
and a fulfilment, which Shopify numbers across the shop, is of one order.

### AdHealth, AdSpend, Carriers, Connectors

| In the model | In the code |
|---|---|
| `AdHealth`: `SweepReads`, `ClaimConnectorWork`, `ProactiveRefresh`, `Probe`, `RefreshAgain`, `ProbeAgain`, `TryStandby`, `CheckPassed`, `PersistConnectorFailure`, `SendConnectorAlert` | one check of a connector, one action per awaited call |
| `StoreConnectorCredentials`, `Revoke`, `Restore`, `Expire` | the merchant and the platform |
| `AdSpend`: `RunSchedulingCycle`, `StartIngest`, `FetchDailySpend`, `CommitSpend`, `RequestRecompute`, `MarkWindowFailed` | the plan of the days, a worker's ingest of one day |
| `StartRecompute`, `ReadSpend`, `FinishRecompute`, `FlushRedis`, `WorkerDies` | the recompute that was asked for, and what is lost |
| `Carriers`: `Claim`, `FetchCosts`, `StoreObservation`, `Matched`, `SetAsideConflicts`, `WriteShares` | `reconcileShippingCosts` under one connector's lease |
| `Void`, `OrderArrives`, `ParcelChanges`, `RecordShippingAdjustments`, `EnsureShipStationWebhook` | what happens to labels and parcels meanwhile |

What the stored expiry of a token says decides whether a check refreshes it first: `expiry` is later, within
five minutes or past, or not known. How a check fails decides what it does next. A first probe that is answered with an outage or throws
(the sweep catches it) is a soft failure, and so is a token that is still good but could not be refreshed in its last minutes.
A refusal leads to another refresh and the second probe; if either of these throws, that counts as a refusal,
and the standby is tried, while a second probe that is answered with an outage is a soft failure.

A spend report and its hash are a version; intervals and backoffs are the action
`Due`; the platform's answers are classified and not parsed. `Connectors` lets either the
advertising connector or the carriers move in a behaviour, since they share no row.

### Account, PlanGate: whose shop, and on which plan

`Account` keeps Shopify's truth (`store`) beside the rows that copy it, and models the
deliveries about installation, scopes, subscription and redaction, handler by handler
and write by write. `PlanGate` adds requests: `FindShop`, `ResetShop`, `RecordScopes`,
`SynchroniseCarrier`, `StartImport` (`afterAuth`, `provisionShop`), `AskStore`, `StoreType`, `ReadSubscription`,
`CheckBilling`, `StorePlan` (`resolvePlan`), `RequestCharge` (the plan page). Beside them goes the import that a sign-in starts: it asks
for the type of the store and stores it (`ImportAsks`, `ImportStoresType`), then ends (`ImportEnds`). `Watch` and
`gap` are history: what Shopify still has to tell, and the sales nobody imported yet.

Bounds of the model itself: one delivery is handled at a time, no uninstallation comes
while an import runs (that is `Backfill`'s; an import may begin and end while the app is away), and there are at most two requests.

### Profit, Products, Channels, Warehouse, Pricing, TaxSplit, Shares; Ledger, Series

The engine as operators over whole cents, named after its functions: attribution of spend,
allocation of overhead, an order's and a period's profit (`Profit`); products, their
buyers and classes (`Products`); cost and value of customers by channel and campaign
(`Channels`); the forecast and the alerts (`Warehouse`); a price (`Pricing`); the tax
of an order (`TaxSplit`); the split by largest remainder that all of them use
(`Shares`). `Ledger` makes the engine's input of stored rows as `queries.server.ts` does,
`Series` the charts, the recurring revenue and the cash figures.

Rates are in thousandths and costs in hundredths of a cent, so that `Rounded` rounds the
very quotient that the code rounds; means stay fractions until the code rounds them. Time is
instants, a number of them to the day, with one change of the clocks. The regression behind the elasticity takes
logarithms: its slope and fit are inputs. Texts, margins in percent and standard deviations are left out.

### AnalyticsCache, Reports: the pages

| In the model | In the code |
|---|---|
| `retained`, `generation`, `tail` | the two caches, their generation, the chain of `withAnalyticsAdmission` |
| `Look`, `Admit`, `Load`, `Finish`, `LoadFails`, `Refuse` | `loadShopAnalytics` and `loadPeriodProfit` between their awaits; each loader of `Promise.all` is a step |
| `Arrive`, `Answered` | `loadDashboard` and the other loaders: a window, and then the window before it |
| `Write`, `Invalidate`; `StartRecompute`, `RunRecompute`, `FinishRecompute`; `Minute` | a delivery that writes and then invalidates, a recompute with its stamp, the age of entries |
| `ReadInputs`, `ReadDecided`, `DeletePending`, `CreatePending`, `Decide` | `generatePricingRecommendations` and the form of the pricing page |

The stored rows are a sequence of editions, and `db` says which one is current: a value
remembers for each loader the edition it saw, which is what `AnswersAreCurrent` compares. The values
are computed by the engine's operators from these editions, so that `FiguresReconcile` sees
pages whose parts were read at different moments. The three queries that load an order graph are one read;
a failed build empties nothing but its own place in the queue, and so does a recompute that throws (`RecomputeFails`), which may have
stored profit before it did: of all months or of none, the months being one edition here.

## 3. Runs

Every bound is a CONSTANT of a cfg. Two of everything is what it takes for a race,
three only where a third changes something. The larger models start with a choice among stories: what may
happen in a behaviour, a few disturbances each, so that their state spaces add up and do not multiply.

| Run | Asks | Bounds, and why they are enough |
|---|---|---|
| `queue` | do stale workers stay fenced, are keys released, do leases exclude each other, is every step one of `FencedLease`, does every job settle | 2 requests on one key (a holder and a releaser), 2 processes, 2 attempts, 1 fault: a takeover, a retry and an exhausted job all occur |
| `outbox` | does a payload live exactly as long as its delivery is pending, is a privacy delivery ever closed unhandled, is every step one of `FencedLease`, is what got a 200 handled in the end beside a poison delivery, and once if nothing fails | 5 kinds of traffic: a redaction or a shop redaction with an access request or with each other, since one delivery closes or deletes the rows of others one by one; a poison order with an access request, which nothing but its handler may close; an access request in 2 copies; 2 processes, 1 fault |
| `restate` | is everything that moves frozen first; does every request reach the line items that nothing overtook, does the trail add up, do restatements come to rest | 2 months, 2 attempts, and either one edit, request, close, crash, other recompute and order sent again, or a reopening in place of the last two, or two requests, which may overlap, with a close or a crash: a fold is by one call into the row of one other, and section 5 proves it of any number |
| `usage` | are charges exact until the cap warning, is `billedUnits` ever ahead of Shopify | 5 orders, one with a second delivery; batches of 3, a cap of 2 batches, 2 faults: a lost answer, its retry under the same key, a replayed order, a slip and the cap itself all occur |
| `usage_charge` | is more charged than there are orders above the limit: violated, section 6 | as above without a fault, and the hard limit reached at the fourth order |
| `backfill` | is a stored cursor sound, is a complete import whole, does an import run alone, does every run end | 2 requests on 2 processes, 3 pages, a ceiling of 2 in one of the processes (an operator who sets or lifts it restarts one after the other), 2 sets of scopes, 1 uninstallation, 1 change of scopes, 2 faults |
| `costs` | do packs get the history of their components, is every change handed over, does the catalogue follow, does what was told survive | a single, a pack of 2 and a case of packs, one pair more for a circle; 3 instants, 2 costs, 2 workers (symmetric), 1 request; seven budgets, so that each pair of causes that can meet on a variant does, one of them with a rollup taken during another |
| `ingest` | does source time ever run back, does erasure hold, do summaries agree with rows, does the catalogue catch up | 11 stories of 4 deliveries, any order, any interleaving, 1 crash with its retry; 3 orders, 2 shoppers, 2 parcels, 2 variants: an order changing hands between two shoppers needs two of each, "earliest" a third |
| `connectors` | is every outage announced, does the ledger know of stale profit, do parcels carry one carrier's total, do due days arrive | 13 stories of one or two disturbances; 2 credentials (a standby), an expiry that is far, near, past or not stored, 1 process that may lose its lease to itself restarted, 3 days (a lookback, a deep one, a first), 2 carriers, 2 labels, 2 parcels |
| `account` | are charges asked of Shopify before they are trusted, is a gap in the sales shown, does the stored plan settle | 11 stories, 2 requests, up to 3 charges; installed twice at once, converted, upgraded, uninstalled and back once and twice, erased, a scope given and refused |
| `reports` | is an answer ever older than its request allows, is more than one order graph held, do suggestions keep the margin, do the orders, the products' costs, the channels and the chart of a page add up to its headline | 12 shops of 5 orders (every combination of 3 baskets, 2 kinds of refund and 2 of 3 spends matter to a split), 7 stories of two pages against a delivery and a recompute, 2 of price runs, sheets; a window of 4 days across the end of a month and the change of the clocks |
| `reports_products` | do the products earn what the overview reports: violated, section 6 | one page of one shop with a returned unit, nothing else happening |

Deadlock is not checked: each model is finite in its requests, deliveries or causes
and really stops when they are used up.

Every property of a passing run comes with a mutant in `PROJECT.json`: a change of a
definition, such as a bug in the code would be, with which the run must fail.
Every module has one type invariant. To save states the runs leave them out; each holds under
the constants of its module's run (put it in the cfg to see), and those of the queue, the outbox, the
restatements, the meter, the import, the account, the deliveries and the advertising connectors are proved.

## 4. Fairness

Weak fairness only, and only of what the code promises to do again.

- `RecalcQueue`, `WebhookOutbox`: the sweep of a process (`setInterval` polls for ever
  and `startDrain` is single-flight), the handler of a run in progress (an awaited
  promise that settles), the clock (a lease runs out, a backoff elapses).
- `Restatement`: the work of the process (leasing a job and the next step of the run it
  is in) and the recompute in flight.
- `Backfill`: the next step of a run whose process lives, and the clock. Nobody has to
  ask for an import, and nothing restarts one that failed.
- `Connectors`: the sweep and a check in progress, the scheduling cycle, an ingest and a recompute
  in progress, the clock that makes checks due and leases lapse. That a queued day is started is strongly
  fair: a worker takes the oldest job, so a day that is queued again and again is not passed over for ever.
- `Account`, `PlanGate`: a delivery that is stored is handled (the outbox), a request goes on,
  a merchant opens a page again, an import asks, stores and ends. Strong fairness for `Age`: a plan grows ten minutes old
  again and again, however often an answer renews it.

`CostBook`, `Ingest`, `UsageMeter` and `Reports` state no liveness and no fairness: their properties
speak of every state, or of those in which nothing is running or waiting.

Callers, Shopify, the purge, the ageing of payloads and every fault are not fair:
nothing obliges them to happen. A crashed process of the queue or the outbox is not
gone for ever; its worker is idle again, like a restarted one.

## 5. Proofs

A theorem stands beside a property of a run: TLC checks it on the small instance of section 3,
the proof for every value of the constants. The assumptions are those the modules declare, and TLC
evaluates them on every run: null values are not members of the sets they stand beside, bounds are
natural numbers, trading months are months of the calendar, the orders of a month are finitely
many, the cap is a whole number of batches, the first state of a story has the types of the rows, a story of
deliveries is `Tellable` and each delivery holds its own answer and its own export. A story of the pages
(`AnalyticsCache`) has at least one edition of the stored rows, with costs that are not negative, and asks for pages and
sheets by different names; a story of the connectors starts with credentials, a standby and a day of the model.
Each inductive invariant was checked by TLC before it was proved.

`RecalculationProofs` proves about `RecalcQueue` (its first part), for every set of requests, keys and
workers, every key assignment, every attempt ceiling and every number of faults:

| Theorem | Says |
|---|---|
| `TypeCorrect` | `TypeOK` |
| `LeaseInvariant` | the inductive invariant `LeaseInv` |
| `OutcomeFenced` | `OutcomeIsOfLatestLease` |
| `FinishedRowsKeepNoKey` | `KeyHeldByOutstandingWork` |
| `NoEarlyGivingUp` | `GivenUpOnlyAtCeiling` |
| `Refinement` | `ImplementsFencedLease`: every step of the queue is one of `FencedLease` or a stutter |
| `HealthyJobsRunAlone` | `HealthyJobRunsAlone` |

`OutcomeIsOfLatestLease` is not inductive. That a settled row's writer is the latest
lease needs, before the write, that a row whose token equals a worker's token
was last leased by that worker; which needs that tokens and attempts agree on
a leased row, that a token is null on a row that is not leased, that a worker's
token never exceeds its row's attempts, and that a settled row is never changed
again except by a fold or a key release, neither of which touches these columns.
`RowInv` says what a row's columns say of one another in each status, `ClientInv`
that a call only refers to rows that exist, `WorkerInv` how a worker's variables
relate to its row. The proof of a step goes through lemmas on the rows
each operator writes (`OtherColumns`, `KeyColumns`, `LeaseColumns`, `OutcomeColumns`,
`NewColumns`): which columns change and to what, so that the case analysis over actions
never looks inside a record again.

The refinement goes row by row: `RowMoves` says that a step keeps, inserts, leases,
finishes or purges a row, `MoveIsStep` that each of these is a step of the item. That a
row is finished only by its latest lease is `FencedRows`, from the invariant.
`HealthyJobRunsAlone` is inductive together with the fact that the job of every running
worker shows that worker's token under a live lease (`OwnerInv`): a lease that is live
cannot be taken, and without faults it stays live while its owner works.

`BillingProofs` proves about `UsageMeter` (its second part), for every number of orders, deliveries
and faults, and every limit, batch and cap:

| Theorem | Says |
|---|---|
| `MeterTypeCorrect` | `MeterTypeOK` |
| `MeterInvariant` | the inductive invariant `MeterInv` |
| `NothingClaimedUncharged` | `BilledIsCharged` |
| `ExactBeforeWarning` | `ChargesAreExactBeforeWarning` |
| `BooksAgree` | `HealthyBooksAgree` |

The invariant has a part that always holds (`KeyInv`: the keys at Shopify and what
handlers have read lag behind the balance; who is about to claim has a record under his
key) and a part that holds until the cap warning (`BatchInv`). The latter is where the
idempotency key does its work: while a batch is charged and not yet claimed, its key is
`billed + Batch`, and every handler that read the same `billed` finds that key taken.
A handler that read an older value finds an older key taken. So a new record means that
nothing was ahead, and the balance is never two batches ahead. That whole batches are
charged needs that the cap is a whole number of them (`WholeBatches`). After
the warning partial batches make keys that differ, the argument fails, and with it the
property: that is `usage_charge`.

`CostBookProofs` proves about `CostBook`, for all variants, mappings, workers, requests
and budgets:

| Theorem | Says |
|---|---|
| `ToldInvariant` | the inductive invariant `ToldIInv` |
| `ToldCostsSurvive` | `DirectCostsSurvive` |
| `SoleWriterHolds` | `SoleWriterKeepsHead` |
| `DerivedReachHistory` | `DerivedCostsReachHistory` |
| `PackHistoryHolds` | `PackHistoryIsDerived`, in every state whose packs nest no deeper than the walk goes (`NestingIsAllowed`) |
| `SmallShopHistoryHolds` | `PackHistoryIsDerived` without condition where there are no more variants than levels of the walk |

Five kinds of step write timelines, each one variant's (`OneTimeline`), and what each
writes keeps the direct versions (`WrittenKeeps`, `ObservedKeeps`, `SeededKeeps`,
`RollupKeeps`). That needs that what a request or Shopify is about to write is a cost and
not the absence of one, which is the invariant. The derivation itself plays no part: a
rollup that computed nonsense would still delete nothing that was told.

`AlignInv` is what a variant's writers owe each other: without one the catalogue is the head of the
timeline; while there is one, it is the head of what that writer read first, and before it publishes
the timeline is what it read with its own rows put in. Publishing compares the
two heads and writes the later, so the next writer finds them equal. A second writer ends it
(`Entering`), and so does a death.

`ReachInv` follows an undisturbed rollup: no other is under way (`OneBusy`), a pack is either still to be done or noted as
moved and never both (`NotesInv`), and wherever the ledger differs from a pack's
timeline, the rollup has noted an instant no later, or has the pack in hand and still holds the timeline
the ledger was told of (`ReachAt`). What carries it is that `CostDivergenceFrom` misses no difference: before the
instant it returns two timelines cost the same, and where it returns none they do throughout (`DivergenceIs`).

`PackHistoryHolds` has two halves. About the engine: `ResolveBundleCostTimelines` gives a pack the rows that `CostAt`
calls for, instant by instant (`ResolvedCosts`). A combined timeline has the sum of its parts' costs, and drops exactly the
versions that say nothing new (`CombinedIs`). The walk ends because every call is inside one more pack (`WalkExists`). It
finds no cost that is not there (`WalkIsRight`, by the variants it has left), and misses none (`WalkIsComplete`, by the levels): it
gives up only on a variant it is inside of, and then that pack is in a circle and has a cost at no level, or at a depth
that different packs, each in the one before, cannot reach (`LeadsOn`). That last step is what `NestingIsAllowed` is for: no
chain of different packs has more than `MaxDepth + 1`. Where one does, the code leaves the outer packs without a cost by design
(`MAX_BUNDLE_DEPTH`, `bundles.ts`), and `CostAt`, which knows no limit, differs. The bound is the property of one state,
not of the run: a merchant may nest deeper in between.
About the rollups: `WornInv` holds while no rollup waits, is about to be asked for or is about to read, and no cost has
moved since the last one read: one worker at most is busy, the mappings and holders it has read are the ones there are, every
pack it has in hand will get what the mappings call for (`Target`), and every other pack wears it already (`Worn`). It
is not relative to where the previous rollup died, which is why the property holds after any crash: the packs to write are
those with components and those with derived rows, and a variant that is neither has nothing to lose. `TimesInv` adds the shapes.
Both were checked on the instance of `costs` first.

`WebhookOutboxProofs` proves about `WebhookOutbox`, for every set of events of any topics, every
number of processes and of faults:

| Theorem | Says |
|---|---|
| `TypeCorrect` | `TypeOK` |
| `PayloadsArePrivate` | `PayloadOnlyWhilePending` |
| `ComplianceIsHandled` | `ComplianceNeverLapses` |
| `Refinement` | `ImplementsFencedLease` |
| `HealthyHandledOnce` | `HealthyDeliveryHandledOnce` |

`RowMoves` says how a row moves, whoever writes it: kept, claimed, leased, marked by its latest taker,
dropped (it expired, or a redaction that is being handled supersedes it) or forgotten. `OutboxInv` says that a payload, a
token and a lease belong to a pending delivery, and the token to the run that took it last; a run writes the rows its own token
fences. So a privacy delivery is closed by its handler or by a redaction (`ComplianceStep`), and each move is a
step of the item or leaves it as it is (`MoveIsStep`). Without faults a run that works shows its own live lease until
its delivery is closed, so it works alone, on what has not been handled yet (`HealthyInv`).

`RecalculationProofs` proves about `Restatement` (its second part), for every calendar of trading months, every ceiling on
attempts, every number of concurrent requests and every budget of edits, closings, crashes, recomputes and resyncs:

| Theorem | Says |
|---|---|
| `RestateTypeCorrect` | `RestateTypeOK` |
| `MovedAreFrozen` | `MovedMonthsAreFrozen` |
| `AskedAreApplied` | `AskedIsApplied` |
| `TrailIsExact` | `UndisturbedTrailIsExact` |

For the first (`FrozenInv`), from the freeze to the rewrite the worker goes on with one window, every month of which that has orders
is frozen, and nobody removes a snapshot. For the second (`AppliedInv`), a month is on the basis it was asked to have, or a job
that covers it is queued or with a worker short of its rewrite, unless a job was given up or a write crossed another. It rests on two
more: the row a call would create is absent until the call is accepted (`CallInv`), and while nothing crossed, what a call or the
worker read of a row is what the row says when it is written over (`HeldInv`). For the third (`TrailInv`),
the records of a month lead from zero to where its line items are, one after another; a month that was rewritten and is not
recorded yet is one record short and starts from the figure read before the rewrite. That holds as long as no crash, no
order sent again and no recompute from elsewhere comes in between.

`BackfillProofs` proves about `Backfill`, for every number of requests, processes and pages, every set of
scopes, and every number of removals, changes of scopes and faults:

| Theorem | Says |
|---|---|
| `TypeCorrect` | `TypeOK` |
| `ResumeIsSound` | `ResumePointIsSound` |
| `CompleteIsImported` | `CompleteMeansImported` |
| `HealthyRunsAlone` | `HealthyImportRunsAlone` |
| `HealthyCapacity` | `HealthyCapacityIsWhole` |

The row says where to go on, so the invariant says of the row, and of every run that read or owns it, that the
pages before its cursor are held (`SoundShop`, `SoundRun`). A run writes only while the token in the row is its own;
what it read before it claimed is of use only if the row did not change in between, which is why a snapshot
is tied to the claim columns of the row it was read from. A removal takes held pages away and ends every
ownership, because the installation that follows sets the row to `PENDING`. The healthy part is of another kind:
without faults the lease stays live while its owner works, so there is one worker (`AloneInv`), and so the two writes
without a token, to the series and its capacity, do not meet another's (`SeriesInv`).

`BillingProofs` proves about `Account` and `PlanGate` (its first part), for every set of requests and every story:

| Theorem | Says |
|---|---|
| `TypeCorrect` | `TypeOK` |
| `BillingIsAnswered` | `BillingModeIsAnswered` |
| `GapIsShown` | `GapIsNotHidden` |

`Request` is what a request knows at each stage. `BillInv` says that what a request saw is up to date as long as
something will be decided by it, and that the type or the plan in its hands was true at some moment it saw: the stored type serves
a page only (`KnowType`), and the best plan is of a charge there is (`BestOfCharges`). `GapInv` says how a complete import
may stand beside a gap: only while the word of the removal waits or is being processed, before the row is marked.
The attempt to prove it showed that an earlier form of the model let an import that began while the app was
away end `COMPLETE` without having walked the store; a story that removes the app twice now covers this.

`IngestProofs` proves about `Ingest`, `OrderBook` and `Catalogue`, for every set of stories of any number of deliveries,
orders, shoppers, shipments, variants and prices, and every number of runs that die:

| Theorem | Says |
|---|---|
| `TypeCorrect` | `TypeOK` |
| `ErasureHolds` | `ErasedStaysErased` |
| `SummariesHold` | `SummariesAgree` |
| `ClocksRunForward` | `SourceClockNeverRunsBack` |
| `CatalogueHolds` | `CatalogueCatchesUp` |

Actions of `Ingest` come down to a few moves of the rows: `RowStep` and `ExportStep` for the book, `CatalogueStep` for the product
(nothing moves, Shopify edits and tells, a run asks, publishes or dies). Erasure (`PrivacyInv`) needs that an order in a
shopper's name has a shopper's row beside it, so whoever is erased has neither; and that the term of an export is set from the day the
request came, which does not change on a retry. Summaries (`SummaryInv`) need that a parcel with a number is of
one order; an order that changes hands leaves to the earliest of the rest, which exists because dates are natural numbers
(`EarliestIsThere`). The catalogue needs most. `SnapInv`: an answer is of the product's past, and of two answers the later one is later
in each item. `PriceInv`: either the last edit of the product still has its delivery under way, and an answer it
holds is the newest there can be, or the prices are right. `CostInv`: the same of each item, except that an import page may have
set it back, and that a variant without a row takes whatever answer comes first, so each answer that could still be published
must know the item as it is (`CostWillCome`). Where the code would compare with `>` for `>=` (the mutant
`PublishesNewer`), the proof stops at just that step: the answer that was on its way no longer publishes.

`ReportsProofs` proves about `AnalyticsCache` and `Reports`, for every set of requests and every story of editions,
windows, writes, recomputes and failures:

| Theorem | Says |
|---|---|
| `CacheIsSound` | the inductive invariant `CacheInv` |
| `FiguresAreCurrent` | `AnswersAreCurrent` |
| `OnePeak` | `OnePeakAtATime` |
| `MarginsAreKept` | `SuggestionsKeepTheMargin` |

`CacheInv` speaks of the mark, the edition that was stored when a generation began. What is retained was read since the mark
(`RetainedIsCurrent`). A build may be older than the mark, but then it is of an older generation: it is neither joined nor stored
(`BuildIsCurrent`). A request in flight waits only for what is as new as its own floor, which the mark cannot have
been behind (`IsServed`). Only the head of the chain is admitted, the rest is queued (`GateIsKept`), and while
it runs no full window is kept, nor anything at all while a recompute waits, because everything ahead of it is of another
generation by then (`PeakIsAlone`). The last part is why emptying the caches before the recompute joins the queue, and not
after, is enough.

The margin is of the algorithm and not of the interleavings: `Recommended` takes the floor that covers the cost, raises
a price below it and only then charms it upwards. What is proved is over the unit cost in whole cents, because
`recommendPrice` rounds it at its start. Over the exact cost it is false: a unit that costs 84.49 cents is taken for
84, the floor is 99, and 0.99 leaves 14.66 % where `MIN_MARGIN` says "Never recommend a price that leaves less than this
contribution margin" (`engine/pricing.ts`).

`ConnectorsProofs` proves about `AdHealth`, `AdSpend` and `Carriers` as `Connectors` composes them, for every set of processes,
worker slots, credentials, days, readers, labels, parcels and item counts, and every story; and about `Shares` and `TaxSplit`, for
every amount and every order:

| Theorem | Says |
|---|---|
| `ConnectorsTypeCorrect`, by `AdsTypeCorrect` | `TypeOK`: `HealthTypeOK`, `SpendTypeOK` and `CarrierTypeOK` |
| `StaleIsSeen` | `StaleProfitIsSeen` |
| `OutagesAreTold` | `OutagesAreAlerted` |
| `LabelsPaidOnce` | `CarrierCostIsChosen` |
| `AllocationIsExact` | the parts of a split by weight add up to the amount |
| `TaxIsSplitExactly` | the jurisdictions add up to the tax of the order, goods and shipping to each jurisdiction |

For the ledger (`SpendInv`), what the recompute under way is about to store must be owed already wherever it differs from the
spend, except for the days it has overtaken: a commit stamps its day both for the profit that is stored and for the one on its way.
For the alerts (`HealthInv`), of checks that keep apart the one at work has the live lease, and status and count of failures are what
it read until it has written (`CheckInv`); so the number of alerts of an outage is a function of its kinds and of that
count (`Tally`), where an alert that is about to be sent counts already.

For the carriers (`CarrierInv`), a reader at work has the live lease of its connector, so each connector has one
(`LeaseHeld`); a label names the same order whenever it is read (`NamesStay`) and is not matched before the order is stored
(`UnseenIsFree`); a copy of the rows that is fresh is the rows, less the conflicts that are about to be set aside
(`ReadIsFresh`); and the parcels carry the chosen total of the rows as they stand, or a reader at work will
still write (`WritesAreOwed`). The last part says why a reader none of whose labels is the order's
may leave its costs alone: whoever changed the rows owes the write. Setting a conflict aside must leave the choice as
it was (`KeptTotal`), or the second write would not be the first one's. The proof takes from the schema that there
are at most two sources (`ShippingCostSource`), which makes `Chosen` the larger count or the first source.

That the parts of a total add up to it rests on `AllocationIsExact`: the remainders of the exact shares make up
a multiple of the whole that is less than the number of parts, and ranks in a strict order
are all different, so exactly as many parts get a penny as are left (`RanksBelow`, `PortionsAddUp`). It holds for
negative amounts, weights below zero and weights that are all zero, which both functions of the code allow.
Sums are recursive functions over the places of a sequence. The induction theorems of the library cannot be used
(they take an operator), so the proofs argue by the least place at which a claim fails: `Less` is well founded, a set of numbers
has a least one (`NatsHaveLeast`), and a set of places closed under the next one is all of them (`Climb`).

The walk over packs within packs is a recursive function over the sets of packs it is inside of: by the same lemma, from the
largest sets to the smaller (`WalkExists`), and level by level for the costs it is compared with (`PricesExist`).

Only model-checked: `FiguresReconcile` of `Reports`, and all
liveness (the prover has no rule for `ENABLED`, so fairness stays with TLC). `FiguresReconcile` compares the
rollups of orders by product, day and channel, sums over the same lines grouped in three ways; the argument by the least failing place
that serves for sums over one sequence was not carried that far.

## 6. Where the code and its documentation disagree

Two runs are expected to be violated (`findings` quotes the statements). `usage_charge`: after the cap
warning, batches may be partial, and then the idempotency key differs from one order to the
next. Two deliveries side by side charge the same units twice. `reports_products`: "there is nothing worse than an overview whose
profit figure disagrees with the product page's" (`analytics.server.ts:36-40`), but a unit that comes back is taken out of
what a product sold (`products.ts:125`) and its refund, tax included, is subtracted as well (`:133`), where the overview subtracts the refund
without its tax and nothing else (`profit.ts:270-280`).

Seven more statements of the documentation are written as properties at the end of their modules, under a
heading of their own. To see one fail, make it the only INVARIANT of the run's cfg.

| Run | Property | Says | What happens |
|---|---|---|---|
| `queue` | `AcceptedIsApplied` | an accepted request is applied (`recalc-queue.server.ts:51-54`) | a request is folded into a job while a worker is leasing it (`:177`, `:67-77`); the worker runs the payload it read before, and the request is never applied. The same if the job is running or done by the time the fold is written, or if two edits overwrite each other's widened window (`restatement.server.ts:701-735`) |
| `restate` | `NoRequestIsLost` | the same of the months a request is for, down to their line items (`recalc-queue.server.ts:53-55`) | the worker reads the queued job, a second request finds it queued and widens it, the worker leases it and rewrites the first request's months; or two requests read one window and the later write drops the other's. No request is open, no job failed, and a month keeps its old line items |
| `restate` | `EveryMoveIsRecorded` | every move leaves a record (`restatement.server.ts:34`) | a restatement dies after its rewrite (`:503`); its retry finds nothing left to change |
| `backfill` | `ImportHasOneShape` | an import runs with one set of scopes (`backfill-claim.server.ts:37-38`, `backfill-resume.test.ts:193`) | nothing sets `PENDING` when scopes change (`webhook-processors.server.ts:346`), so an interrupted import goes on from its cursor with another query |
| `costs` | `PacksFollowComponents` | packs follow their components (`bundles.server.ts:36-38`) | a component's cost is saved (`app.costs.tsx:223`) or observed and its packs keep the cost derived from the old one |
| `ingest` | `RedactedOrdersStayAnonymous` | a redacted order does not keep its trail (`customer-erasure.server.ts:346-349`) | a run that held the order's payload when the shopper was erased writes landing site and campaign again (`sync.server.ts:401-425`) |
| `reports` | `DecidedIsLeftAlone` | what the merchant has decided is left alone (`lib/pricing.server.ts:19-20`) | a suggestion is applied after the decided ones were read (`:34`) and before the pending ones are made (`:56`): the variant is suggested again |

Reading the code for the models showed more. These are not claims of a run.

Queue, outbox, history:

- The attempt ceiling is not compared when a job is leased (`recalc-queue.server.ts:261`), so a job that kills its
  process is run again without end; only a handler that throws counts towards it.
- Only payloads of orders expire after seven days (`webhooks.server.ts:378`); the text in
  `README.md:503-504` does not make the difference. With two processes an expiry can be missed as long as
  each sweep begins while the other has the row leased.
- A merged restatement takes `includeClosedPeriods` from the newest request
  (`restatement.server.ts:733`): a confirmation can be lost, or lent to a wider window.
- The recompute that follows a restatement's rewrite joins a run in flight
  (`recompute.server.ts:61`), which may have loaded the month before the rewrite: the
  ledger keeps the old basis until the next recompute (`restatement.server.ts:32-33`
  says that "the profit engine re-materialises from there").
- A month closed between the check (`restatement.server.ts:434`) and the rewrite
  (`:503`) moves; and an order that is sent again moves a closed month
  (`sync.server.ts:506`).
- The caller of the meter decides whether to charge on the status before the increment
  (`usage-meter.server.ts:195`): a batch may stay uncharged until the next order.
- For 43, 81, 86 or 91 units left under the cap, one unit more is charged than counted.

Costs and catalogue:

- `README.md:419-421` calls `Variant.unitCost` the head of the history. It is, as long as
  saves and rollups do not overlap on a variant (`SoleWriterKeepsHead`). But a product
  sync or an import writes Shopify's cost there while the timeline keeps a later cost of
  the merchant's; a cost that Shopify no longer has is cleared there and not on the
  timeline; and nothing publishes a version dated in the future when its time comes.
- Two rollups of a shop may run at once, on two processes: the older one writes rows derived from
  mappings that have changed since over those of the newer, and nothing derives them again. (In `CostBook`, a rollup that
  overlaps another does not make `fresh` true; without that, the run finds the older costs left behind.)
- A rollup that dies after it replaced a pack's rows and before it asked for the
  restatement (`bundles.server.ts:222`) is run again, finds no difference and asks for
  none: history keeps the old cost of the pack.
- A mapping that the merchant removed is proposed again by the next detection
  (`bundles.server.ts:50-53` speaks of proposals that are not resurrected).
- An import page compares the clock of the product only, so it may take an inventory item back to an older
  cost (`backfill.server.ts:1055-1073`; hence the exception in `SourceClockNeverRunsBack`).
- A partial snapshot advances the clock of the whole product: a sibling variant that changed in between waits for the
  delivery that Shopify sends about it.
- A price fact that comes between two later ones makes the price in force wrong until the next fact.

Deliveries:

- An order whose line names a variant that is gone in Shopify fails whenever it is tried.
- An order that moves to another shopper leaves the former one without a first order until the
  next reconciliation; of two orders placed at one instant the customer's channel stays that of the first to arrive.
- A shipment that comes before its order is dropped and waits for the next word about it; a
  checkout is read and written without a lock, so an older one may win.

Connectors:

- A day is stamped before it is fetched (`ad-ingestion.server.ts:301`; the comment at 298-300 says otherwise), so a recompute that
  read before the commit may count as newer than it. `DueDaysArrive` leaves such a day out.
- A recompute in flight swallows a request made meanwhile, or shares its answer.
- Credentials stored during a check are overwritten by its outcome, and the row is read before the lease is claimed, so two processes may
  probe and alert for one outage.
- Failures that alternate between refusal and outage alert at every turn (`ad-health.server.ts:318-321`); any error of a refresh, and a
  second probe that throws (`:397-399`), counts as a refusal; a process that dies between the failure row and its alert leaves it unannounced.
- An ingest sets a connector that was disconnected meanwhile to connected again; `markWindowFailed` turns a synced day to failed.
- The deep sync is stamped when it is queued and is lost with Redis.
- Two carriers that reconcile at once may leave a total of before; a webhook that comes during another read is dropped
  with a 202; a parcel that arrives while the lease is held is not shared out until the next read; conflicting labels stay aside until they
  are seen again; an error of the listener list counts as an empty list, and a second listener is registered.

Account:

- The type of a store that was asked before `SHOP_UPDATE` cleared it may be stored after (`shop-plan.server.ts:62`): a converted store
  keeps its test charge for ever. The import stores the type too, some time after it asked (`backfill.server.ts:915-927`). `AccountSettles` assumes that this did not happen (`TypeIsHonest`).
- A request under way at an uninstallation takes the mark of it back; a sign-in between the deletion of the sessions and the mark, or
  two resets at once, leave `PENDING` with no import (`provision.server.ts:140-147`). A shop that is installed again while its old
  import still runs in the same process gets no new import either.
- The scopes handler that fails between its two writes never synchronises the carrier connector; scopes deliveries may
  be handled out of order; a late uninstallation resets a shop that is back, and a late redaction purges it.
- Subscription events are not ordered by time; the row is right again when it is ten minutes old and a page asks.
- The meter of a shop that came back stays suspended until its next order.
- A run that has lost its import claim still rewrites the daily capacity series, over the rows of the run that finished.

Figures:

- What the products earn is less than the headline by what is returned (`reports_products`). They leave out shipping revenue, return labels and
  kept fees as well, and lines that name no product, which that run sets aside. `FiguresReconcile` compares the products' costs:
  shipping, fees, packing and advertising to the cent, and the cost of goods together with that of lines that name no product.
- Net revenue is `subtotal - discounts`, while Shopify's subtotal is already after discounts. Products subtract an order's
  discount total on top of the discounts of its lines (`products.ts:127`), so on this the two agree.
- The window's end is now, in milliseconds, and is part of the cache key: two requests almost never share an entry; and every miss
  empties the full windows, so one at most is ever held. An invalidation reaches only its own process.
- The charm price may exceed the 25% cap, by far for cheap products (120 cents over a cost of 100 becomes 195;
  `pricing.ts:294-296`); what it keeps is the margin.
- The overhead's days are counted in strides of 24 hours across changes of the clocks, and the overhead of a month without
  orders falls away; a first day that begins after midnight loses its spend and keeps its orders.
- Two generations of suggestions at once leave every suggestion twice.

## 7. Plan

Done: all modules of section 2, and the proofs of every safety property of the runs but one: `RecalcQueue` and `WebhookOutbox`
with their refinements, `Restatement`, `UsageMeter`, `Backfill`, `CostBook` on `CostTimeline`, `PlanGate` on `Account`, `Ingest` on `OrderBook`
and `Catalogue`, `Connectors` on `AdHealth`, `AdSpend` and `Carriers`, `Shares` and `TaxSplit`, `Reports` on `AnalyticsCache` and `Pricing`.

Left to TLC: the property about figures grouped in several ways (`FiguresReconcile`) and the
liveness properties, for the reasons at the end of section 5.

## 8. Not modelled

- HTTP clients of Shopify and of the advertising services, exchange rates, encryption, rendering, styles and static pages: input
  and output without state the rest depends on. How their answers are classified is modelled where they are used.
- The regression of the price elasticity, margins in percent, standard deviations, explanatory texts, presets of ranges.
- Session storage, feature tables of the plans, notification texts.
- Real time: leases, backoffs and ages elapse when the model lets them.
- A subscription that may only be read, other metrics than orders, the roll-over to the next month's meter.
- Deletion of a shop while work on it runs, beyond the outbox's own table.
- A database that fails in the middle of a connector's check: the check ends and the next one starts anew.
- In a restatement, the variant scope of a request, its upper edge (always now) and a recompute in another process.
