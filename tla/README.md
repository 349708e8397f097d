# carwatch in TLA+

carwatch watches a car market (Yad2) for its users: listings are scraped or
pushed by a browser extension, matched against saved searches, enriched,
scored, and turned into alerts (Telegram, web push) that a user should get
exactly once. This directory models the parts of it that are hard to test:
the ones where processes, requests, queues and a database are used by several
actors at once and any of them may stop in the middle.

* `*.tla` are the models, `MC*.tla` and `*.cfg` the instances TLC checks,
  `*Proofs.tla` the theorems TLAPS checks, `PROJECT.json` the index: which
  definition models which lines, which run checks which property.
* Check a run: `tlc -config PipelineClaims.cfg MCAlertPipeline`.
  Check the proofs: `tlapm AlertPipelineProofs.tla`.

## 1. Inventory

| component | source | state | operations | hard part |
|---|---|---|---|---|
| ingest delivery | `internal/api/ingest_delivery.go`, `listings.go` | per request: context, listings claimed | claim, publish, release | claims taken one by one, released under a context that may be cancelled |
| dedup store | `storage/postgres/dedup.go` | `seen_listings` | `ClaimNew`, `ReleaseClaim`, `Prune` | one row decides whether a user is alerted |
| alert stream | Redis, `internal/broker/broker.go` | log, consumer group, pending list | XADD, XREADGROUP, XPENDING, XCLAIM, XACK | trimming, idle times, counts shared by workers |
| notifier worker | `internal/broker/consumer.go`, `cmd/notifier` | batch in memory, scan snapshot | read, reclaim, reclaim orphans, dead-letter, drain | crash or SIGTERM between any two calls |
| delivery ledger | `notification_deliveries.go` | one row per chat and listing | `RecordDeliveries` | written after the ack, best effort |
| notification channels | `internal/notifier`, `telegram`, `webpush`, `api/push.go` | `push_subscriptions`, the call under way | send by photo, chunks or push; subscribe | one result for many chunks or browsers, answers that get lost |
| digest | `scheduler/digest.go`, `postgres/digest.go` | `pending_digest`, last flush, last daily digest | add, peek, ack; daily window | items added while a digest is being sent, a write that fails after the send |
| scheduler cycle | `scheduler/scheduler.go`, `match.go`, `processing.go` | cycle state, per-search claims | cycle, match, deliver, price drops | claims across searches, deferral |
| enrichment queue | `broker/enrich.go`, `enrich_consumer.go`, `internal/enricher` | stream, pending set, rate limiter | enqueue, process, retry | set and stream updated in two steps, cooldowns |
| fetching | `internal/fetcher`, `fetcher/yad2` | circuit breaker, cache, proxies | fetch | concurrent callers of one breaker and cache |
| listing store | `postgres/listings.go`, `scheduler/match.go`, `maintenance.go` | `listing_history`, bookmarks, clocks of rows and claims | upsert, retire, sweep, prune, refresh | four writers that do not coordinate, feeds that are incomplete or cached |
| matching and scoring | `percolator`, `filter`, `scoring`, SQL of the lists | compiled searches, cohorts | match, score | five transcriptions of one match; completion before or after it |
| API server | `internal/api` | rate limiters, confirm tokens, removal budget, fetch slots, refresh cooldowns | middleware chain, handlers | caps counted before an insert, sweeps, single-use tokens |
| bot | `internal/bot` | wizard session per chat, chat mutexes | commands, callbacks, pages | buttons of old messages, handlers without the lock |
| users, searches | `postgres/users.go`, `searches.go`, `link_tokens.go`, `ext_tokens.go`, `api/uid_cache.go` | rows, cached ids, links | resolve, create, link, move, delete | ids resolved early and used late, merges |
| ops | `health`, `config`, `telemetry`, `logstream` | ring buffers, probes | | buffers at their limit |

How they meet: the scheduler and the API's ingest handler are the producers;
both claim listings in `seen_listings`, then hand a batch to a
`DeliveryStrategy`: instant delivery publishes to the Redis stream
`carwatch:alerts`, digest delivery appends to `pending_digest`. Notifier
workers consume the stream through one consumer group, call the notifier, ack,
and write the ledger; when they give an alert up they release its claims, so
that a later ingest may alert the listing again. The scheduler's cycle, the
refresh handler and instant search share one fetch chain (circuit breaker over
cache over pagination over Yad2); the enricher has its own rate limiter.

What makes each part correct:

* **alerts**: a claimed listing is shown, or given back, or given up in a way
  the code knows of; it is shown twice only where delivery is at-least-once;
  an acked alert is over; every alert is settled by somebody.
* **cycle**: no claim is forgotten on any exit; one message per user and
  listing; a release never frees what was alerted; a price drop is told to
  every user it concerns, once.
* **digest**: what leaves the queue was sent or accounted for; every item
  leaves; nothing is sent again without a cause.
* **channels**: what is reported as sent is with the user, whole; a chunk is
  within the limit.
* **fetching**: the breaker trips on real failures, tests recovery with one
  probe and recovers; the cache keeps within its limit.
* **rate limiter**: nothing is fetched inside a cooldown; the delay comes back.
* **enrichment queue**: a token in the pending set has a request behind it; a
  listing that lacks details gets its turn, none gets it for ever.
* **listing store**: a claimed listing on sale has its row, is still in the hands
  of a cycle, or is without a row for a known cause; bookmarked rows stay;
  retention counts from the last serving.
* **matching**: all copies of the match agree; an alert satisfies its search and,
  as long as no overlapping search takes over the row, is in that search's list;
  a lower price never costs score.
* **bot**: no summary without its answers; a confirmation saves what the summary
  showed, once, within the limit.
* **accounts**: a request acts for its own user; linking and merging lose no
  search they looked at, and leave behind only what was written around them.
* **API server**: rates and caps hold whatever overlaps; refreshes keep their
  cooldown but for those that overlap and an entry that a sweep erased; the
  bell swallows nothing; a destructive operation uses up a token of its admin.

## 2. Modules

| module | models | state | extended by |
|---|---|---|---|
| `AlertKeys` | what is claimed: (chat, search, listing) | - | `AlertStream`, `DedupClaims` |
| `Infra` | a budget of failed calls and crashes | `faults` | `NotifierWorker`, `IngestDelivery` |
| `AlertStream` | Redis stream and consumer group, as used | log, read position, owner, idle time and count per message, trimmed prefix | `NotifierWorker`, `IngestDelivery` |
| `DedupClaims` | `ClaimNew`, `ReleaseClaim` | `seen` | `NotifierWorker`, `IngestDelivery` |
| `NotifierWorker` | `broker.Consumer` with the hooks of `cmd/notifier` | per worker: program counter, context, XPENDING snapshot, batch in memory | `AlertPipeline` |
| `IngestDelivery` | `claimAndDeliver` and `InstantDelivery` | per request: context, search, listings claimed | `AlertPipeline` |
| `AlertPipeline` | all of the above running together | - | `MCAlertPipeline`, `AlertPipelineProofs` |
| `SchedulerCycle` | `fetchAndMatch` from the fetched listings to the flush of prices | matches, listings in hand per search, staged prices, `price_history` | `MCSchedulerCycle`, `SchedulerCycleProofs` |
| `DigestQueue` | interval digest of one user, any channel | `pending_digest`, last flush, the flush under way | `MessageDelivery` |
| `Channels` | `MultiNotifier`, Telegram and web push for one user, subscriptions | channel, subscriptions, the call under way: chunk, attempt, answers | `MessageDelivery` |
| `MessageDelivery` | interval digests, daily digests and alerts through the channels | the message, clock, last daily digest | `MessageProofs` |
| `CircuitBreaker`, `CachingFetcher` | one fetcher each | state, failures, probing; entries and their order of use | `FetchChain` |
| `FetchChain` | concurrent callers through both | per caller: where it is, key, what it found | `FeedProofs` |
| `EnrichRateLimiter` | `AdaptiveRateLimiter` and its worker loop | delay, cooldown, window, counters, clock distances | `MCEnrichRateLimiter`, `EnrichProofs` |
| `EnrichQueue` | publishing, backfill, purge, `EnrichConsumer` and `Worker.Process` | Redis stream and set, rows and their missing details, attempts | `MCEnrichQueue`, `EnrichProofs` |
| `ListingStore` | rows and claims under cycle, sweep, push, refresh, retention and the user | `listing_history`, `seen_listings`, bookmarks; of a cycle its feeds, what it has yet to claim, to save and to release | `MCListingStore`, `FeedProofs` |
| `ListingMatch` | the five texts of the match (percolator, rejections, filter, two of SQL) | - | `ListingFlow` |
| `MarketScore` | market view, cohorts, deal and fitness score, in thousandths | - | `ListingFlow` |
| `ListingFlow` | a listing through cycle, push or instant search: match, complete, score, store | row, claims, alerts, answer page | `MCListingFlow`, `MessageProofs` |
| `BotWizard` | wizard, commands and chat mutexes of one chat, with the API's `createSearch` beside them | session, searches, what each goroutine is at | `MCBotWizard`, `BotWizardProofs` |
| `WebIdentity` | uid cache, `tryUpsertChannelUser`, deletion | `users`, cache, requests at work | `Accounts` |
| `Accounts` | requests of web users, links, moves, backfill, activity, extension tokens | links, searches, kept rows, tokens, the moves under way | `MCAccounts`, `AccountsProofs` |
| `AccountBook` | abstract: what may happen to a search | the searches' filters, what each merge saw of them | `Accounts` (INSTANCE) |
| `RateLimits` | five kinds of token buckets, refill, sweeps | buckets, clock | `ApiRequests` |
| `ApiRequests` | the middleware chain and the bot's `rateLimited` | requests at work | `UserLists` |
| `UserLists` | bookmarks, hidden listings, history, the bell, in API and bot | the lists, the client's page | `AdminOps` |
| `AdminOps` | confirm tokens, purge, reset, deletions, vacuum | outstanding token per admin | `ApiServer` |
| `ApiServer` | all of these with instant search, refresh and its sweep | fetch slots, cooldowns | `MCApiServer`, `ApiServerProofs` |

**Grain.** A step is a call to Redis, PostgreSQL or a notifier, or a critical
section; between two steps anything else may happen. A failed call of which the
caller does not know whether it took effect is two outcomes. `SchedulerCycle` is
coarser: a loop over one search's listings is one step with a set of failing
calls, because only the ingest handler runs beside it and it touches single keys.
In `ListingStore` each claim, each batch a cycle saves and each release is a step
that may fail, and the process may die between any two; a push is one step, as it
saves whatever it claims again the next time. `ListingFlow` takes a whole path
as one step, as it is about the order within a path. In `BotWizard`, `WebIdentity`,
`Accounts` and the API server a step is one statement of a handler, also inside
the transaction of a link or a backfill, which runs at READ COMMITTED: its own
changes are seen when it commits, but each statement finds what others have
committed by then. A sweep of the refresh cooldowns is three steps: it starts,
judges the entry it ranged over, and deletes the key.

**History variables** (`forfeited`, `repeatable`, `told`, `lost`, `shadowed`,
`unsettled`, ...) record causes and deliveries; no guard reads them.

**Mutated forms.** Definitions such as `TakenByAnyone` or `NotifyFailAcked` are
plausible bugs; they are used only to show that a property would notice them.

**Abstractions.**
* `ListingFlow` follows one search, so its row has no `search_id`. In the code an
  upsert overwrites that column (`listings.go:43-44`, 463): with overlapping
  searches a row leaves the list of the search that alerted it for that of the
  search saved last, and `AlertIsListed` says nothing of that. `ListingStore` has
  the column, and what a sweep or a refresh makes of it.
* A request matches one search; a listing is a token. A message is whether it
  carries tokens (a batch) or not (a price drop) and whether it is malformed.
* A notify call is atomic with five outcomes, one of them an error after (part
  of) the message was shown, which is how chunks of a Telegram message and
  several channels appear.
* The drain's time limit is a fault at any point of the drain. Alerts that do
  not parse are not modelled: only this code writes the stream.
* Age is a flag: a row or claim is old when its retention time has passed.
* Cycle: the prefill and the pipeline's lookup find the same details; a pair
  that a user hid is not matched; the pairs are matched in any order, the code
  goes listing by listing; a blocked user stays active, as
  `ReactivateUsersWithSearches` makes him at the next cycle; digest and instant
  delivery are both "handed over". The history may hold any price at the start.
* A message in `Channels` is the lengths of its parts between separator lines,
  with a newline every `LineLen`. One call to a notifier is under way at a time;
  pauses between sends and backoff times are left out, the number of retries is
  not. A message that is cut off by a crash may or may not arrive.
* `MessageDelivery` follows one kind of message per behaviour: a cycle sends its
  digests one after the other, and a worker's alerts share only the channel with
  them. `NotifierWorker` keeps its atomic notify call, whose five outcomes are
  those that a call of `Channels` ends with. The daily digest's clock is in
  steps of 15 minutes; a day of the instance is short.
* The digest's database and application share one clock; `created_at` is set at
  the start of an INSERT and seen at its commit.
* The limiter's jitter takes its extremes and zero.
* Entries of the enrichment stream come from a pool and are reused when nobody
  refers to them, so publishing is not bounded.
* Floating-point scores are thousandths; square root, x^0.7 and the logistic
  curve are monotone tables given as constants.
* The bell's filter is the set of rows whose search asks for them, which the
  environment changes; one account (`Owner`) is modelled, other users only take
  tokens and rate.
* A behaviour of the API server serves one workload: a set of routes, clients
  and users that meet in shared state.

## 3. Runs

| run | instance | checks |
|---|---|---|
| `claims` | 1 worker, 2 requests, 2 listings, 2 alerts, batch limit 1, stream of 1, all outcomes, 1 fault | `NoSilentLoss`, `NoUncausedRepeat`, `LedgerTruthful` |
| `workers` | 2 workers of which one may stay away, 1 alert, 1 shutdown, 1 fault, fair | `RetryBound`, `AttemptBound`, `SettledForGood`, `EveryClaimResolved`, `EveryAlertSettles` |
| `cycle` | 2 users, 3 searches, 1 listing, prices 0, 1, 2, 4, recorded before: 0 or 4, 2 cycles, 1 fault | `ClaimAccounted`, `AlertedStaysClaimed`, `RepeatedDropHasCause`, `NoDropSwallowed` |
| `digest` | module `MessageDelivery`: 2 items (one of two listings), limit 1, 2 browsers, 1 mishap in a digest's life, else 2; 2 days of 4 steps; alerts of up to 3 listings; fair | `NothingLost`, `RepeatsExplained`, `SentWhole`, `EveryItemLeaves` |
| `fetch` | 2 callers, 2 keys, 1 cache entry, threshold 2, fair | `OneProbe`, `CacheConsistent`, `Recovers` |
| `limiter` | 6 challenges, coarse clock, fair | `CooldownRespected`, `PanicNeedsEarlyWake`, `BackoffRecovers` |
| `enrich` | 2 listings, 1 worker, stream of 1, backfill limit 1, 2 retries, 2 attempts, 1 fault, fair | `PendingAccounted`, `BacklogSound` |
| `listings` | 2 searches with feeds of their own, 1 listing, budget 1, failures and crashes without bound, fair | `VisibleOrExcused`, `RemovalsHeld`, `ServedKept` |
| `matching` | every listing with up to two oddities, every search with a wish or two, 2 steps | `MatchersAgree`, `AlertHonoursSearch`, `CheaperNeverWorse` |
| `wizard` | any stored session, 2 updates at once, 3 searches, limit 2, 2 years and prices | `AnswersComplete`, `OneSearchPerSummary`, `ConfirmSound` |
| `accounts` | 2 uids, 2 web ids, 1 chat, 2 requests, 2 searches, 1 event, 1 fault | `IdentityHeld`, `SeenTogether`, `NoSearchLost` |
| `server` | 11 workloads of 2 to 4 requests, 2 at a time, clock to 4 | `LimitsHeld`, `ListsHeld`, `NoticeNotSwallowed`, `ConfirmedOnce` |

What the newer ones show:

* `digest`: `NothingLost` and `EveryItemLeaves` hold with the channels in place of
  an atomic send, and the two ways a channel breaks the code's promise show up as
  causes: a push that reached no browser counts as sent (`skipped`), and a digest
  longer than a push may carry never leaves (`TooLongToPush`). `RepeatsExplained`
  gives the cause of every repeat: an item after a flush not seen to end, a
  photo followed by its text after a lost answer, a second daily digest on a day
  whose first was not written down. `SentWhole` covers the cutting and packing
  of chunks, among alerts with a listing that leaves no room for the separator,
  and the fan-out to browsers.

* `enrich`: the pending set and the stream are changed by separate calls, so a
  token may stay in the set with nothing behind it; `PendingAccounted` lists
  every way it does. `BacklogSound` is two promises. `BacklogServed`: the backfill
  asks for the newest `BackfillLimit` (30) due listings and publishes those not in
  the pending set, so a due listing gets its turn unless its token leaked, the
  stream stays above the watermark, or a limit's worth of newer due listings stands
  before it, because they keep coming or because their own tokens leaked; with a
  limit of one, TLC finds a listing starved by one leaked neighbour when that
  cause is left out. `BodyAttemptsKept`: the reset that one listing's page causes
  never reaches another that only lacks a body type. The first listing of the
  instance meets everything that may happen to a request; the second is asked for
  by backfills alone, its page comes whole, and no call fails while it is there
  (`MCEnrichQueue`).
* `listings`: a cycle claims its matches one by one, chooses what to deliver, saves
  it in batches and gives claims back, while pushes, refreshes, sweeps and retention
  go on. `VisibleOrExcused` names every cause by which a claimed listing on
  sale is without a row, which no later cycle repairs; besides deletions these are
  a claim whose answer was lost, a crash between claim and save, a release that
  failed after a failed save, and the unsaved row of a price drop. Leave any of
  these out and TLC finds a listing lost without a cause. `ServedKept` joins
  retention of claims, retention of pushed rows, and the promise that while the
  extension keeps pushing, a listing comes back whatever removed it.
* `matching` compares the texts of the match over all listings and searches of
  the instance, and the three paths over what a feed left out.
* `wizard` starts from every session the table may hold, so each pair of updates
  meets each state. Two updates are enough: the wizard keeps nothing else.
* `accounts` has a refinement, `NoSearchLost`: under the mapping that takes each
  search to its filters and each move under way to what it saw of them, every
  behaviour of `Accounts` is one of `AccountBook`, in which a search disappears
  only by request, next to an equal one, or because it was written to the web id
  after the move's look, whose DELETE takes it unseen. `SeenTogether` excuses
  what was written to the web id around or after the link, by a request or the
  bot, and what the move then left there. Pushes of an extension are redirected
  to the linked chat like any other request.
* `server`: `LimitsHeld` (no window lets more through than burst and refill;
  refreshes within the cooldown overlapped, or a sweep that had judged an older
  entry erased the one that would have stopped the second), `ListsHeld` (a cap is exceeded by
  no more than the handlers at work; the pages a total promises reach all of the
  list), `NoticeNotSwallowed`, and `ConfirmedOnce` (a purge or reset used up a
  token that was minted for the same admin, was not used and had not expired).

Some hazards end in a state the code cannot avoid; there the property records the
outcome as a cause and shows that nothing else leads to it, but does not report
it: claims stranded by a cancelled context (`forfeited`, in `NoSilentLoss` and
`EveryClaimResolved`), a release after a failed save that frees another's claim
(`regiven`, in `AlertedStaysClaimed`), two confirmations after a swept mutex or a
lost reset (in `OneSearchPerSummary` and `ConfirmSound`), an account deleted under
a request (`gone`, in `IdentityHeld`), listings the bell's mark passes over
(`passed`, in `NoticeNotSwallowed`), a search or a kept listing written during a
move (`late`), a listing lost between claim and save (`excused`, in
`VisibleOrExcused`), a cooldown erased by a sweep (`erased`, in `LimitsHeld`).
Two hazards lie outside what their property judges: `CacheConsistent` is about
the entries, not about the error that a stale answer hides from the breaker;
`BackoffRecovers` assumes that waits and successes are now and then close enough.

**Why the bounds are enough.** Two of whatever competes (workers, requests,
callers, overlapping searches) plus a bystander (a second user) make every race
of the code possible. One fault already reaches each error path, where faults are
bounded (`listings` has no bound, as there one listing may be lost by two failures
in turn). Batch limit, stream length, cache size and
retry limit are set so low that each is exceeded. Two cycles suffice because a
cycle leaves only claims and prices behind; the first starts with no recorded
price or with the highest, from which all swings are reached.
In `server` the clock runs past each refill, cooldown and expiry, and every cap is
one or two, so the last free place is contested. In `matching` bounds of searches
and values of listings lie below, at and above each other; two oddities and two
wishes reach each pair of clauses. In `digest` the lengths of listings lie below, at and
above what a chunk holds, alone and with a separator, and a digest of one item
of two listings is above what a push may carry. In `accounts` one event (a delete, a link,
a backfill, a restart) falls between any two statements of two requests, and
theirs between any two of its own.
In `cycle` one listing keeps the instance small, so a batch over its limit is
checked in `claims`, not there; the proofs have no such bound.

**Deadlock** is not checked where the number of ingests, cycles, updates,
requests or days is bounded (`CHECK_DEADLOCK FALSE`), after which nothing need happen.
The other runs check it.

**Fairness.**
* `AlertPipeline`: a worker in `Stable` and a request under way take their next
  step, and pending messages age. Workers are supervised processes with a
  polling loop; nothing is assumed of the others, nor of faults.
* `FetchChain`: a caller goes on, the cooldown ends, callers come back (the
  scheduler polls), and, strongly, the source now and then answers; without the
  last no breaker could close.
* `EnrichRateLimiter`: the worker goes on, and waits are now and then short
  enough and successes frequent enough to fall in one window. Both are random:
  the jitter is drawn anew for each wait. With delays near the window a success
  that opens a new window never shortens the delay, so without this the property
  fails; that is a weakness of the code, not of the model.
* `MessageDelivery`: inserts end, time passes, a flush and a call to a channel go
  on (each has a timeout), and a due flush is started again and again while a
  search is active (the cycle calls `processDigests` each time); strongly, as the
  user may switch and pause. Nothing is assumed of the user: that he is reachable
  in the end is a hypothesis of `EveryItemLeaves`.
* `EnrichQueue`: a publishing under way goes on, messages age, the worker handles
  what it holds; reads, scans and the backfill are strongly fair, as each is
  polled whether or not others interfere. The bounds that `MCEnrichQueue` puts on the
  second listing leave each of these actions another way to go on.
* `ListingStore`: with the extension as the source (`server_fetch` off) it pushes
  all it finds again and again, as its timer does. Nothing is assumed of cycles.

## 4. Proofs

All theorems hold for every value of the constants, from the named `ASSUME`s
alone: finite sets where the code has them, limits that are positive, score
tables that start and end where their curves do, with x^0.7 growing
(`ScoreConstants`; TLC evaluates it on the tables of the run).

* `AlertPipelineProofs`: `TypeCorrect` from `Shape` (whatever a worker or the
  group knows of was read from the log); `SettledStaysSettled`, that no XCLAIM,
  read or restart revives an acked message; `RetriesBounded`, for which the
  bound is strengthened to count the workers that hold a stale snapshot of a
  message: each can add one delivery, and gives up its right by doing so;
  `NoListingLost`, where `NoSilentLoss` is strengthened by who carries a claim
  through the dead-letter hook: keys given back, keys kept.
  `RepeatsHaveCause` from three
  facts, claims are exclusive, a claim is in one open message, and a message is
  shown once (`SpecSole`). For the last, `Sole` follows a message that still has
  a listing without a recorded cause: one worker at most has it, and once it was
  shown, nobody may show it again, as it is acked or about to be.
  `LedgerIsTruthful`: a row "dead_lettered" also says that nobody will show the
  message any more. `AttemptsBounded`: a message in memory counts as an attempt
  already, and so does a worker that is told to stop and has yet to drain.
* `SchedulerCycleProofs`: `CycleTypeCorrect`, `ClaimsAccountedFor`,
  `OneMessage`, `AlertedKeysStayClaimed`. `ClaimAccounted` alone is not
  inductive: a cycle could end with listings in hand. `Progress` adds that a
  search with something in hand is still waiting or being delivered, and that
  its drops go before its batch. For the other two: what is in hand is counted
  as delivered to its user, and the cycle holds the claim of each new listing.
  `RepeatedDropsHaveCause` and `NoDropIsSwallowed` are about prices: a drop
  somebody was told of is written, staged until the flush, or among the
  `unsettled`; whoever was matched with a cheaper listing is owed the drop, also
  when it was filed under another search of the same user.
* `FeedProofs`, of the fetchers: `BreakerTripsOnlyAfterThreshold` (`failures` is reset only
  by what closes the breaker), `OneProbeAtATime` (a probe in flight keeps
  `probing` set unless a caller admitted earlier cleared it), and
  `CacheStaysConsistent`: the order of use has each key once, which each of
  touch, store and the two evictions keeps. That needs what `Kept`, the
  order without some keys, makes of a sequence: proved by induction on its length.
  Of the listing store: `StoreStaysTyped`, where `StoreInv` adds to the types
  that what pushes retire is charged to the budget.
  `LiveListingsVisibleOrExcused`: `VisibleOrExcused` is inductive with the
  types and `Wanted`, that what a cycle holds is what searches want. A listing in
  the hands of a cycle is `UnderWay`; `VisibleMatched` goes through the cycle's
  steps: what it claims and does not choose was claimed before, or the answer was
  lost; what it chose it saves, excuses or gives back. Each other writer is shown
  to delete only what it excuses. `BookmarksAndBudgetHeld` is an action
  property, from the guard of each statement that deletes.
  `ClaimsKeptWhileServed` and `RowsKeptWhilePushed` from `ServedFresh`: nothing
  served since claims, or rows, last aged is old.
* `EnrichProofs`, of the limiter: `CooldownKeptWithoutEarlyWake` and
  `NoPanicWithoutEarlyWake`; a cooldown that runs was counted unless a success
  came inside it. Of the queue: `MarksAccountedFor`; `PendingAccounted` is inductive with
  the shapes of entries and workers, so the proof shows call by call that each
  failure between stream, group and set leaves a recorded leak or nothing.
  `BodyAttemptsNeverReset`: a step counts one attempt, after a reset that spares
  listings which lack only a body type.
* `MessageProofs`, of the digest: `NoDigestItemLost`; the snapshot, the rows not yet
  visible and those over the limit cover everything up to the cutoff.
  `RepeatedItemHasCause`; what a user was shown is either gone from the queue, in
  the flush under way, or marked as from a flush not seen to end.
  `DeliveryImplementsQueue`: each step of `MessageDelivery` is a step of
  `DigestQueue` or leaves its variables alone, so its specification is an
  abstract one that any channel may be put under; `DeliveryLosesNoItem` carries
  the two invariants over. `RepeatsAreExplained` adds photos and daily digests:
  `CallOutcomes` sums up what a step of a call may do; a text follows a photo
  only behind a lost answer; a user due for a daily digest had none today that
  was written down, so a day with one is written down, under way, or among the
  `unwritten`.
  `SentIsWhole` is about `splitMessage` first, for texts of any length: the
  pieces of a cut text add up to it (`CutUp`, from where each starts), a message
  is a sequence of atoms of non-decreasing parts (`AreAtoms`), and what
  `PackAtom` has packed of the first atoms fits, adds up to them and keeps their
  order (`Packed`); each by induction on numbers, as sums and
  packing are folds. `SentInv` then follows the call: before the next chunk all
  earlier ones were shown, so a call that returns nil showed all, and a digest
  skips items only where browsers are concerned.
  Of a listing on its way: `FlowHeld` is the inductive invariant `FlowInv`
  (shapes, sums of the counters, alerts honoured and listed), whose largest parts
  are what a push, a cycle and an upsert make of a listing, field by field.
  `OneMatchFiveTexts` compares the texts bound by bound. `CheaperIsNotWorse` goes
  through the score's pieces: on each side of each seam a lower price adds no
  less, with rounding down at each division, and at the seams the pieces meet;
  medians, mileage and age cancel, as they do not depend on the price.
* `ApiServerProofs`, all properties of the run `server`:
  `OperationsConfirmedOnce`, through the whole server:
  `TokenInv` follows each confirm token and says it is in one place, with the
  request that minted it, in the store, with the request that consumed it, or
  in an operation performed; and that in each of these places it is for that
  administrator and not replaced. Every handler that is not about tokens is
  shown to be `Quiet`: it moves at most one request, not to where a token is.
  `BellSwallowsNothing`: what the client shows of the bell was shown, unless its
  page was full, and every row not newer than the mark was shown or passed.
  `LimitsAreHeld`: `RateInv` says of each bucket that what it holds is no more
  than its grants and their times leave; a bucket that is swept has been idle
  long enough to be full, which is the assumption on `Idle` that guests do not
  meet. `RefreshesSpaced`: `Known` says that each refresh is a cooldown ago, or
  still in `refreshMu`, or followed by one whose entry a sweep erased, which
  `SweepJudges` and `SweepEvicts` show of a sweep that deletes by what it had
  judged before; so a request let in knew only such ones. `ListsStayWhole`: `Fits` says that a list and the handlers which
  counted it below its cap and have not inserted yet stay within cap and
  requests; that the pages cover a list follows from division with remainder,
  for lists of any length.
* `AccountsProofs`, all properties of the run `accounts`: `RowsMove` sums up what
  a step may do to searches and to the moves under way (one is added, some are
  deleted, a move looks, drops, commits or is rolled back), from which
  `AccountsLoseNoSearch` is the refinement of `AccountBook`: whatever is written
  between its statements, a row that a move drops was not there when it looked, or
  one alike was at the chat, which stays or goes at somebody's wish
  (`CommitKeeps`). `OwnedTogether` takes searches and kept rows apart
  (`RowsTogetherStep`, `KeptTogetherStep`); a move takes all it finds at the web
  id, so only what was written around it or later can be there. For `IdentityIsHeld`,
  `WhoInv` says that each id in the cache or a request belongs to its uid, and
  each id that a token, a bot's chat or a link names has an account, or was
  deleted in the meantime; an account changes hands only so. `RoomInv` counts
  the live browser tokens of an account with the requests about to store one:
  at the cap `RevokeOldestExtTokens` leaves fewer than the cap (`NewestFew`),
  and then only those requests, and calls that failed, can exceed it.

* `BotWizardProofs`, all properties of the run `wizard`: for
  `AnswersAreComplete`, `WizardInv` follows the answers from the session through
  what a goroutine loaded and is about to save, handler by handler; a button
  whose state is checked finds the answers of that state, and those that are not
  checked save states that need none. `LockInv` says that, while no entry in use
  was swept, a chat's handlers hold or wait for the entry's mutex and one holds
  it; `/watch`, `/cancel` and `/edit`, which take no lock, never save the state
  `confirm`, so no summary is shown while another is being written
  (`ShownInv`). `OneSearchEach`: `OwedInv` says that a session still at
  `confirm` owes its search or is being reset by the holder of the lock.
  `ConfirmIsSound` adds `LimitInv`, that who is about to insert counted less
  than the limit, and that the others of its kind are locked out meanwhile.

`LeastExists` and `SetInduction` in `FeedProofs`, `MessageProofs` and `ApiServerProofs`
prove induction from the least element of a set of numbers
(`WellFoundedInduction`), so lemmas on recursive functions such as `Kept` and
`TotalPages` need none of the library's theorems that take an operator.

Some theorems state what no run lists: `RepeatedItemHasCause` is the first
conjunct of `RepeatsExplained`, `RefreshesSpaced` one of `LimitsHeld`,
`BodyAttemptsNeverReset` one of `BacklogSound`, `ClaimsKeptWhileServed` and
`RowsKeptWhilePushed` two of `ServedKept`, `DeliveryImplementsQueue` a
refinement; six are inductive invariants that say more than the run's
properties, or follow from one: `TypeCorrect`, `CycleTypeCorrect`, `OneMessage`,
`BreakerTripsOnlyAfterThreshold`, `StoreStaysTyped` and `FlowHeld`.

What the proofs changed in the models: the argument for `NoUncausedRepeat`
failed where an XCLAIM whose answer was lost gives a message to a worker that
is told to stop, and its drain delivers what another worker still holds;
`StartDrain` now records those keys as repeatable, and TLC finds the behaviour
without it. `Kept` in `CachingFetcher` and `UserLists` is a recursive function
where `SelectSeq` was, of which nothing could be proved; `RequestConstants` says that
the requests are a finite set, `WizardConstants` the same of the goroutines,
without which a new mutex need not exist. `Accounts` starts from any stored rows its tables
may hold (`StoredConstants`), and its histories know of what was found: a link
to an account that is gone, a search at a linked web id.
`AlertIsListed` was false as first stated: a row that already knows a field keeps
it when the listing lacks it, and the list filters by it; `NothingOlder` now names
that case. `IsListing`, `IsSearch` and `IsCohort` say what the matching and the
score are about, in place of the run's sets; the curves are tables with
assumptions, the sums `SumFunction` and the first refusal a minimum, where
recursive operators had been. `SentWhole` as first stated, every chunk within
the limit, needs listings shorter than any code makes sure of; it now says which
chunk may exceed the limit and by how much (`Fits`: the separator in front of a
later part that leaves no room for it), and the run has such a part. Searches
and listings of `ListingStore` are finite sets.

Every invariant that a run checks is stated by a theorem. Only model-checked:
liveness under fairness, which the prover does not handle (`EveryClaimResolved`,
`EveryAlertSettles`, `EveryItemLeaves`, `Recovers`, `BackoffRecovers`,
`BacklogServed` in `BacklogSound`, `ServedShown` in `ServedKept`).

## 5. Where the code and its comments disagree

`findings` in `PROJECT.json` quotes each comment or document. Four of these
claims are stated in the modules but checked by no run; naming one in the cfg
given makes TLC print the behaviour:

* `OnlyReleaseFailuresLose` (`Cycle.cfg`): a listing deferred for the enrich
  grace window keeps its claim and is never delivered. (It also fails, in longer
  traces, for a listing left to an overlapping search whose km filter then drops
  it.)
* `ImplausibleNeverFires` (`Cycle.cfg`): an implausible price does fire a
  price-drop alert, and as it is never recorded, again in each cycle.
* `ConfirmedDeliveries` (`Digest.cfg`): the digest's cutoff is taken after its
  query, so an item that commits in between is deleted and recorded as sent
  without being sent.
* `EscalationIsDefined` (`Limiter.cfg`): a success and then a challenge inside a
  cooldown make a shift count negative.

The models show more deviations, which the properties name as causes:

* Pipeline: claims are released under the request's own context, so a client
  that goes away strands them; Drain delivers without counting, so restarts can
  exceed `MaxRetries` attempts (`AttemptBound` has the true bound); for a
  blocked recipient the hook gives the claims back, so each ingest publishes the
  batch again; a slow worker's batch is re-claimed by idle time and delivered by
  both.
* Fetching: a success admitted before the breaker opened closes it inside its
  cooldown; the cache under the breaker turns errors into stale successes; the
  limiter's jitter is negative half of the time and cuts cooldowns short.
* Channels: `deliver` reports success when every browser was gone or limited,
  though `notifier.go` says that a recipient without a reachable target must not
  count as delivered; a photo whose answer is lost is followed by its text,
  though the comment says that transient errors are not retried; a failed read
  of the user, or a worker without push keys, sends a web user's message to
  Telegram, whose "chat not found" counts as a blocked bot; a digest longer than
  a push may carry fails at each retry, and grows; `packListingChunks` can exceed
  the limit for a part within a separator's length of it, which hardly any listing
  is (`SentWhole` allows for it).
* Daily digest: a window that spans midnight has two days, so one digest may
  follow another within minutes; one that is written down after midnight takes
  the next day's place.
* Digest and cycle: a digest over its limit shrinks only after a successful
  send; a failed persist releases claims that the km filter had released and the
  ingest handler may have taken (`regiven`).
* Enrichment: a request is published before its row is saved, so a fast worker
  dead-letters it; the purge calls a listing complete that the worker would
  still fetch for its body type; the backlog counts rows without an original
  ownership, which nothing fills; dead-lettering a trimmed entry leaves its token
  in the pending set, and a backfill's window of 30 newer listings, whose tokens
  leaked or which keep coming, starves an older due one (`listings.go:740`).
* Listings: a cycle never saves a claimed listing again, so retention removes its
  row while it is still on the market, which is why `PushedRowsOutliveFeed` is
  about pushes only; a crash between claim and save, a claim whose answer is lost,
  and a release that fails after a failed save (`processing.go:115`) each lose the
  listing for good; a price drop whose save fails keeps its claim; a row carries one
  search, so deleting that search deletes rows other searches matched, and
  bookmarked ones.
* Wizard: an old model keyboard pairs its model with another manufacturer; a
  failed read of the stored answers gives empty ones; restarting an edit loses
  the filters; a resumed wizard does not check the limit, and the API's count
  and insert are not locked against it.
* Accounts: a search committed to the web id between a move's UPDATE and its
  DELETE is deleted with no equal beside it (`users.go:291`, 415);
  a collision of `user_seq` fails a link after its token was consumed;
  a deleted web user's id is given to the next one while a chat is still linked
  to it; the backfill treats searches of one model as equal; extension tokens
  stay with the web id, so that of a browser connected before the link outlives a
  revocation after it (`ext_token.go:194`), while its pushes go to the chat; a blocked user is reactivated by the next cycle.
* Matching: a pushed listing is filtered before its details are filled in and
  never judged by km again; an unknown seller passes the filter but is private
  to the SQL; an update without a score keeps the old one.
* Server: a guest bucket is swept before it has refilled; marking notifications
  seen uses the time of the call, not of the page; the count before a save is
  not locked; the bell ignores filters the cycle applies; a failed refresh
  starts no cooldown; the sweep of the cooldowns can erase the entry of a refresh
  that completed while it looked, so that the next is let in too early
  (`listings.go:728`); the bot's sweep forgets what a bucket gave meanwhile.

## 6. Plan

Done, in this order: the alert pipeline, the fetch chain, the rate limiter, the
digest, the cycle; the enrichment queue, the listing store with its sweep and
retention, the wizard, accounts and linking (with `AccountBook` as their
abstract specification), matching and scoring, the API server, the notification
channels with the digests sent through them. Next:

1. An abstract specification of alerts (a listing is new, queued, shown or given
   up), implemented by `AlertPipeline` and by `SchedulerCycle`; the composition
   of the cycle with the pipeline instead of its atomic `Ingest`.
2. Tiers and the expiry of premium; the scheduler's loop and its triggers.
3. Theorems: the refinement of 1. Every invariant of the runs is proved.

## 7. Not modelled

Parsing and HTTP of the Yad2 client, texts and locales, catalog and price list
(data to the models); the web UI and the extension (clients of the API); vitals,
metrics and statistics; health, telemetry, configuration, logging; commands and benchmarks.
Within modelled parts: the pauses of `throttleChat` and of retries; a panic in an
instant search's fetch, which would keep its slot; edits of a search
(`UpdateSearch`), in particular during a move; that a kept listing written between
a move's statements is deleted with the rest is in `Accounts`, but no property
judges it; `removed_at` in the user's
lists (it is in `ListingStore`); the uid cache that a reset empties (`Accounts`
has the cache, `ApiServer` the reset).
`PROJECT.json` lists every part with its reason.
