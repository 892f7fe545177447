# Verification of the Base discovery service

TLA+ models of the discovery service under `src/`, model-checked with TLC and
partly proved with TLAPS. Paths are relative to `src/src/` unless they begin
with another directory of the repository (`tests/`, `README.md`).

## 1. The system

One Node process (or two: `SERVICE_ROLE=api` and `worker`) discovers trading
pairs on Base. A cron job or `POST /refresh` adds jobs to a BullMQ queue; the
slots of a worker run refreshes; a refresh fetches pairs from the providers,
merges, filters, enriches, ranks and deduplicates them, computes what changed,
emits events, and saves four cache keys. HTTP handlers read the cache, a
WebSocket server forwards the events.

| Component | Code | State | Operations | Talks to |
|---|---|---|---|---|
| Refresh cycle | `queues/DiscoveryQueue.ts`, `workers/DiscoveryWorker.ts`, `services/DiscoveryService.ts`, `discovery/DiscoveryEngine.ts` (saves, `fetchCached`) | jobs in the queue with attempts and stalls; what each slot is doing | add, take, discover, four saves, fallback, retry | queue (Redis), cache, providers |
| Cache | `cache/CacheManager.ts`, `RedisCache.ts`, `FileCache.ts` | four keys (`pairs`, `tokens`, `stats`, `lastUpdate`), each with its own TTL on Redis, a file each otherwise | write, read; a read that fails is null | Redis or the file system |
| Providers | `api/ProviderManager.ts`, `utils/retry.ts`, `api/HttpClient.ts`, `api/providers/` | statistics and a health flag for each provider; requests in flight | fetch from all, fetch with failover, retry, timeout, poll | DexScreener over HTTP |
| Enrichment | `utils/concurrency.ts` | shared index, results | take the next index, answer | CoinGecko over HTTP |
| Pair pipeline | `discovery/ProviderMerger.ts`, `DexStrategyRegistry.ts`, `filters/`, `ranking/RankingEngine.ts`, `utils/deduplicate.ts`, `discovery/TokenAggregator.ts`, `OpportunityDetectionEngine.ts` | none (functions of the reports); the engine keeps `latestOpportunities` | merge, label exchanges, filter, score, rank, deduplicate, aggregate, detect | called by the engine |
| Delta and events | `discovery/DeltaEngine.ts`, `events/DiscoveryEventBus.ts`, the engine's `refresh` | `previousPairs`, `previousTokens`, `latestDelta`, `eventCounts`; the listeners | detect, emit, adopt | listeners: the event stream |
| REST listing | `routes/discovery.ts` | none; the walk of a client | sort, paginate | cache |
| Event stream | `streaming/EventStreamServer.ts` | maps of clients and of subscriptions | upgrade, subscribe, close, broadcast, stop | event bus, clients |
| Life cycle | `server.ts`, `scheduling/DiscoveryScheduler.ts`, `utils/redisClient.ts` | start-up and shutdown in progress | start, signal | all of the above |
| Redis publish/subscribe | `utils/redisPubSub.ts`, `events/RedisDiscoveryBridge.ts` | two connections; counters of messages | publish (awaited by every save but that of the tokens), subscribe | Redis; nothing creates the bridge |
| Opportunity score | `ranking/MarketOpportunityScore.ts` | none | score, classify | nothing imports it |
| Security clients, other workers, GeckoTerminal, configuration, metrics | see `PROJECT.json` | - | - | not wired to the refresh, or pure I/O |

### What is hard about it

* **Two refreshes overlap.** `DEFAULT_WORKER_CONCURRENCY` is 2 and both slots
  share one engine, one provider manager and one cache. Saves interleave key by
  key; deltas may be computed in another order than the pairs were fetched.
* **A payload is four keys.** Readers fetch three of them by separate
  operations while they are replaced; a save can fail, or the process die,
  between two of them; each key expires on its own.
* **The file backend writes in place**: a truncation first, the text later.
* **Nothing is cancelled.** A provider attempt that timed out goes on with its
  HTTP retries beside the attempts that follow; a rejected mapper call leaves
  the other workers running; two signals start two shutdowns.
* **Attempts are nested**: queue attempts and stalls, manager retries, HTTP
  retries, each with a bound of its own.
* **Listeners are called synchronously**: one that throws ends the refresh
  between two of its events. A WebSocket message can bring that about.
* **Saves await their announcements** on a connection that may be lost, refuse
  or never open; a message whose answer is lost is sent again.
* **Pages are cut by position** from a list that refreshes replace meanwhile.

### What makes each part correct

| Component | Properties |
|---|---|
| Refresh cycle, cache | a reader is never given something older than a refresh that had completed when it asked; a fallback serves a readable cache; no job is lost or held twice; every job settles; the stamp is a commit record |
| Providers | nobody is given up before every retry; responses are genuine, once each and in order; counters agree with what happened; a call settles if no provider ever answers |
| Enrichment | every input once, every result in its own place, the call settles |
| Pipeline, listing | nothing lost or doubled from the providers' reports to the pages a client reads, which are in the order the code sorts by and never empty; tokens and opportunities agree with the pairs; while the list changes, what keeps its place is served and nothing is skipped but what a refresh took away |
| Delta and events | no pair is adopted unannounced; the kept delta leads from the old snapshot to the adopted one; the event counters follow what listeners have had |
| Publish/subscribe | no message precedes what it announces; the counter agrees with what was published; no refresh is held up |
| Opportunity score | a better pair scores no lower; the weights add up |
| Stream, life cycle | an open client gets what it wants unless one that connected before it breaks the broadcast; a departed client disturbs nobody; a shutdown leaves no job behind and ends |

The hazards, each at its line and with the property that covers it, are listed
in `PROJECT.json`.

## 2. The modules

| Module | Models | State and actions |
|---|---|---|
| `RefreshCycle` | queue, worker slots, saves on either backend, fallback, concurrent readers, expiry, crash | `pc` is the line a slot awaits: `discover`, one of the four keys, `saved` (the results are complete, the message of the stamp and BullMQ's completion are still awaited), `fallback`. `Return` ends the job. `SetRedis` is one `RedisCache.write`; `OpenFile` and `FillFile` are the halves of `FileCache.write`; `FailedWrite` is what a rejected write leaves: what was there, the whole new text, or on files after the open an empty or a torn one. A cache entry is the number of the run that wrote it and whether it can be parsed. |
| `ResultStore` | what the refresh cycle promises to readers: refreshes begin and end, readers are given results that are not superseded | no jobs, slots, saves, backends or faults. The abstract specification. |
| `RefreshCycleProofs` | theorems about the refresh cycle, and the proof that it implements `ResultStore` | `ImplementsResultStore` in `RefreshCycle` is the mapping: a reader is a slot in its fallback or an API client, what it holds are the answers it has had. |
| `MapWithConcurrency` | `mapWithConcurrency` in full | The inputs are chosen in `Init`, none to `MaxInputs`. `TakeNext` is the code between two awaits; `Answer` and `Reject` are a mapper promise settling; `Resolve` is `Promise.all`. |
| `MapWithConcurrencyProofs` | theorems about it | |
| `ProviderManager` | `fetchPairsFromAll`, `fetchPairsWithFailover`, retries, race against the timer, HTTP retries of every attempt, statistics, polling | `request[c][p][a]` is the HTTP side of attempt `a`; it lives on after `Timeout(c)`. `Awaited` tells whether the call still listens to it. `Error` is `fetchPairs` rejecting, `RecordFailure` what the manager makes of the last one. |
| `ProviderManagerProofs` | theorems about it | |
| `DeltaEngine` | `detect` with its thresholds, as functions | percentages are compared without division; `Each` is a loop that pushes. |
| `DiscoveryEvents` | the uninterrupted stretch of `refresh` from ranking to adopting the snapshot, twice at once | `Compute` is the whole stretch; `ListenerThrows` ends it at any event; `Emit` is what both do to listeners and counters. Extends `DeltaEngine`. |
| `DiscoveryEventsProofs` | theorems about both, by induction over the sequences | |
| `PairPipeline` | merge, exchange labels, filters, score, ranking, deduplication, tokens, opportunities, as functions | `Collect` is the `Map` each of these steps fills in order, `Filtered` and `StableSort` are those of arrays. |
| `Catalogue` | refreshes that replace the catalogue while a client walks through the pages | `Refresh` applies the pipeline; `Response` is the route's answer, `NextPage` a client asking for one page after the other (there is no such client in the repository); `steady` remembers which positions have kept their item, `due` what no refresh took out of the unread part. Extends `PairPipeline`. |
| `CatalogueProofs` | theorems about both, by induction over the sequences | |
| `PubSub` | `publishRedisMessage` as the saves and the bridge call it, on one shared connection | `Connect` is the call up to `connect()`; `Take` and `Answered` are Redis publishing and the answer's arrival; `Ready`, `ConnectFails`, `Lose`, `Reconnect` are ioredis. |
| `PubSubProofs` | theorems about it | |
| `OpportunityScore` | `MarketOpportunityScore` in full, as functions, with theorems | shares are whole numbers of their natural units, the two logarithms are constants. |
| `Server` | start-up, both signals' shutdowns, jobs in hand, the event stream and its clients | `boot` and `shutdown[h]` are the step that is awaited; `Reached` is how far the loop of `broadcast` comes; `SocketError` is the `error` event of a socket on which nobody listens. |
| `ServerProofs` | theorems about it | |
| `MCRefreshCycle`, `MCProviderManager`, `MCDiscoveryEvents`, `MCCatalogue` | instances for TLC: symmetry, or the enumerated inputs | |

How they compose: `RefreshCycle` treats discovery as one step that succeeds or
fails. What is inside it is modelled by `ProviderManager` (where the pairs come
from, and that the call settles), `MapWithConcurrency` (enrichment),
`PairPipeline` (what is made of them) and `DiscoveryEvents` (delta and events;
a throwing listener is one of the ways `DiscoverFails` happens). `Server`
takes refreshes as jobs that end. `Catalogue` takes a save as atomic:
`RefreshCycle` is where saves fail and interleave. It leaves out the message that
follows a save: `PubSub` shows that the message comes after the write and that
awaiting it ends.

Definitions called "Mutant of X" in a comment are variants of X with a plausible
bug; no specification uses them. Each shows that a property can fail.

### Modelling decisions

* A refresh's result is identified by the number of its run, in the order in
  which runs begin. `older` records which runs were over before which began, so
  "stale" has a meaning although overlapping runs are not ordered.
* Redis: a SET or GET is atomic; a SET whose answer is lost rejects although it
  took place. GETs of one reader are answered in the order they were issued.
  Files: reads in any order, an open truncates, and a text filled in over
  another's can keep the tail of a longer one.
* A crash ends all slots of the worker process; the API process and its
  readers go on. The queue finds the active jobs stalled, puts them back, and
  fails those that had stalled before (`maxStalledCount` 1).
* A provider may answer, fail or stay silent at any moment. All requests that
  time-outs have left behind stay in the state.
* An address, of a pair or of a token, is its lower-case form; a field tells two
  spellings of it apart, so that comparing addresses as they are written is a
  mistake the runs can see (`deduplicateSpelled`, `aggregateSpelled`). Prices, names and log texts are left out. Scores are computed
  in thousandths, with the code's weights and bounds.
* A message to the event stream may hold anything for `eventTypes`. A list or a
  string has `includes()` and stands for the types it includes; anything else is
  `Unusable`.
* While nothing is cached a listing answers 500 (`DiscoveryService.ts:31-45`
  throws), so a client of `Catalogue` gets no page before the first refresh.

## 3. The runs

| Run | Configuration | What it asks | Instance |
|---|---|---|---|
| `refresh_overlap` | `MCRefreshOverlap.cfg` | do fallbacks serve the cache, do reads respect completed refreshes, is every job held once, is it all an implementation of `ResultStore`, with retries, a crash, an expiry or a failed read anywhere | Redis, 2 slots, 2 jobs, 2 attempts, 1 fault |
| `refresh_file` | `MCRefreshFile.cfg` | do reads respect completed refreshes on the file backend | 2 slots, 2 jobs, 1 API reader |
| `refresh_serial` | `MCRefreshSerial.cfg` | is the stamp a commit record, does every job settle | Redis, 1 slot, 2 jobs, 2 attempts, 2 faults |
| `refresh_torn_file` | `MCRefreshTornFile.cfg` | can completed refreshes be read back (no) | files, 2 slots, 2 jobs, no fault |
| `map_concurrency` | `MCMap.cfg` | each input once, results in place, the call settles | 0 to 6 inputs, 3 workers, rejections |
| `providers` | `MCProviders.cfg` | are all retries made, are counters exact, are responses genuine despite late answers, do calls settle | 2 calls (a refresh, a failover), 2 providers, 1 retry, 1 HTTP retry or poll |
| `providers_unhealthy` | `MCProvidersUnhealthy.cfg` | are unhealthy providers skipped (no) | 1 call, 1 provider, 1 poll |
| `events` | `MCEvents.cfg` | are pairs announced before they are adopted, does the delta lead from snapshot to snapshot, do counters follow the listeners | 2 slots, 3 refreshes, 12 snapshots of 2 pools below, at and above the thresholds |
| `pubsub` | `MCPubSub.cfg` | does a message follow its write, what do counter and subscribers see of a connection that comes and goes, do saves settle | 2 slots, 2 events, 3 retries, 2 lost connections |
| `catalogue` | `MCCatalogue.cfg` | from reports to pages: ranked, unique, complete, tokens and opportunities in agreement; is every page the one asked for and none empty, and is nothing skipped or displaced but by a refresh that moved it | 2 refreshes, 76 feeds, 4 limits, 3 sortings of the pairs and the tokens |
| `catalogue_by_date` | `MCCatalogueByDate.cfg` | are pairs by `lastUpdated` in the order of their dates (no) | the same feeds and limits, the one sorting |
| `server` | `MCServer.cfg` | is every subscriber served, do departed clients leave no trace, is a shutdown graceful and does it end | 2 signals, 2 clients, 2 event types, 3 jobs in 2 slots, 1 event |

Every passing run goes through its whole state space. `refresh_file` does not
check the refinement: with it the run takes twice as long, `refresh_overlap`
checks it on Redis, and the theorem `Refines` covers both backends.

### Bounds, and why they are enough

* `MaxFaults` (crashes, expiries and failed reads together): one fault at any
  point of two overlapping refreshes, or two in a serial run, so that a job
  stalls twice, or loses an attempt and stalls. Failed saves and failed
  discoveries are not counted and may happen whenever there is a job.
* Two slots are the default of the code; two jobs with retries give two runs
  that overlap and others before and after them, which is what
  `ReadsRespectCompletion` needs to fail. For more slots, jobs and readers it
  is proved, as most bounds below are: see section 4.
* One retry of the manager and one of HTTP give an attempt that was given up, is
  still retrying, and answers during the next attempt or the next provider's.
  `MaxBackground` 1: one HTTP retry or one round of polling, at any point of both
  calls; neither does more than prolong a request or set the health flag. Two
  calls of a refresh overlap as a refresh and a failover do, until the failover
  ends at its first success; the theorems cover any calls and methods.
* `MaxRuns` 3 in `events`: a snapshot, an overlapping pair of refreshes.
  `MaxEvents` 1 in `server`: the properties speak of single emissions, which
  may come at any moment. `MaxJobs` 3 is one more than the slots.
* In `pubsub`, `MaxRetries` is the code's 3; two losses let a message that was
  sent again be lost again, and attempts to connect fail without a bound.
* `MaxInputs` 6 with three workers: no input, fewer inputs than workers, as
  many, and two rounds of them.
* The limits of `catalogue` are 2, 1000 (cut down to 500), 0 (raised to 1) and one that is
  no number; `MaxOpportunities` is 2 instead of 10 so that the cut is
  reached; thresholds and weights are the code's.

### Fairness

* `RefreshCycle`: a slot with something to do does it. Provider calls time out
  (`CallsSettle`), Redis and file operations resolve or reject, an idle worker
  polls. Nothing is assumed of enqueuing, faults or readers.
* `ProviderManager`: timers fire. Nothing is assumed of providers.
* `MapWithConcurrency`: the mapper settles; `CoinGeckoClient` has an HTTP
  timeout and `enrichPair` catches its errors.
* `PubSub`: writes settle, ioredis' timers fire and its attempts to connect end
  (`connectTimeout` 10 s), and on a connection that lasts Redis answers. No
  attempt need ever succeed.
* `Catalogue` and `DiscoveryEvents`: none; their properties are safety properties.
* `Server`: awaited closes settle, jobs end (`JobsSettle`), and a socket the
  server has closed ends when `ws` gives up waiting. Nothing is assumed of
  clients, signals or start-up.

### Divergences that runs show

* `refresh_torn_file`: README.md:104 says that results are persisted to files;
  two overlapping `FileCache.write`s of one key can leave a text no read parses
  although both refreshes completed.
* `providers_unhealthy`: the comment at `ProviderManager.ts:65` says unhealthy
  providers are skipped; the loop never looks at the flag.
* `catalogue_by_date`: `tests/api-pagination.test.ts:107` expects pairs sorted by
  `lastUpdated` to be in the order of their dates; `sortPairs`
  (`routes/discovery.ts:44`) subtracts the strings, gets NaN and leaves the order
  as it is. `WalkComplete` therefore states, for this one sort key, the order of
  the cache, and for the others the order asked for.

### Divergences seen, without a run

* On the file backend a fallback can find a key empty because the other slot
  has just truncated its file, and fails with every key cached
  (`tests/fallback.test.ts:20`). `FallbackServesCached` is checked for Redis, and
  proved for Redis and for a single slot.
* The routes have an engine of their own, which never refreshes, so
  `GET /discovery/delta` and `/opportunities` never show the worker's.
* A malformed frame ends the process: `ws` emits `error` on the socket, and
  `EventStreamServer.ts:41-58` listens for `message` and `close` only. Jobs in
  hand are then left to the stall check; `GracefulExit` exempts this case and the
  port already taken (`crashed`) and says so.
* `limit=1x` passes the schema, whose regular expression is not anchored, and
  gives an empty page with `pages: null`. `limit=0` passes too and is clamped to
  1 (`routes/discovery.ts:84`), without which the number of pages is infinite.
* `EventStreamServer.start` with its port taken ends the process with an
  unhandled `error` event instead of the warning of `server.ts:61`.
* `types/Events.ts:79` calls it "Volume spiked"; a fall in volume is announced
  as `VOLUME_SPIKE` too (`DiscoveryEngine.ts:144`).
* After the first message `publishRedisMessage` connects a connected client and
  drops every message until the connection is lost (`OneMessagePerConnection`);
  `discoveryEventsPublished` counts the dropped ones too
  (`RedisDiscoveryBridge.ts:43-44`). `subscribeRedisChannels` passes a callback
  that ioredis calls with the reply to SUBSCRIBE and not with messages.
* `TokenAggregator.ts:30`, `:46`: a quote token gets the price of the base token.
* `MarketOpportunityScore.ts:51` and `:61` name 0.5 for a liquidity of 50k and
  0.2 for a volume of 1k; the logarithms give 0.63 and 0.35. Risk weighs so
  little that a deep and traded pair is a high opportunity at any risk
  (`HighWhateverTheRisk`).
* `DiscoveryWorker` creates a BullMQ `QueueScheduler`, which recent versions of
  BullMQ do not export; `Server` lets the worker's start fail, `RefreshCycle`
  models a worker that started.

## 4. The proofs

`tlapm` proves, for every value of the constants that satisfies the assumptions
(named `ASSUME`s of the module the theorem is about, or hypotheses of the
theorem):

| Theorem | Statement | Assumes |
|---|---|---|
| `RefreshCycleProofs!TypeCorrect` | `Spec => []TypeOK` | nothing |
| `RefreshCycleProofs!ReadsCorrect` | `Spec => []ReadsRespectCompletion` | nothing |
| `RefreshCycleProofs!JobsCorrect` | `Spec => []JobsHeldOnce` | `QueueAssumption` |
| `RefreshCycleProofs!FallbackCorrect` | `Spec => []FallbackServesCached` | Redis or a single slot (`NoTornRead`) |
| `RefreshCycleProofs!StampCorrect` | `Spec => []StampCommits` | a single slot (`OneSlot`), either backend |
| `RefreshCycleProofs!Refines` | `Spec => ImplementsResultStore` | nothing |
| `PubSubProofs!TypeCorrect` | `Spec => []TypeOK` | `CallerAssumption`, `LimitAssumption` |
| `PubSubProofs!AnnouncementsFollow` | `Spec => []AnnouncedAfterWritten` | the same |
| `PubSubProofs!CountsCorrect` | `Spec => []CountedWerePublished` | the same |
| `PubSubProofs!OneEach` | `Spec => []OneMessagePerConnection` | the same |
| `ProviderManagerProofs!TypeCorrect` | `Spec => []TypeOK` | `CountAssumption`, `CallAssumption`, `MethodAssumption` |
| `ProviderManagerProofs!GivenUpCorrect` | `Spec => []GivenUpAfterAllRetries` | the same |
| `ProviderManagerProofs!ResponsesCorrect` | `Spec => []ResponsesGenuine` | the same |
| `ProviderManagerProofs!CountersCorrect` | `Spec => []CountersExact` | the same |
| `MapWithConcurrencyProofs!TypeCorrect` | `Spec => []TypeOK` | `SizeAssumption`, `ConcurrencyAssumption` |
| `MapWithConcurrencyProofs!OnceCorrect` | `Spec => []MappedOnce` | the same |
| `MapWithConcurrencyProofs!CompleteCorrect` | `Spec => []ResolvedComplete` | the same |
| `DiscoveryEventsProofs!TypeCorrect` | `Spec => []TypeOK` | `RunAssumption`, `SnapshotAssumption` |
| `DiscoveryEventsProofs!AdoptionCorrect` | `Spec => []AnnouncedBeforeAdopted` | the same |
| `DiscoveryEventsProofs!CountsCorrect` | `Spec => []CountsFollowEvents` | the same |
| `DiscoveryEventsProofs!DeltaCorrect` | `Spec => DeltaLeadsToSnapshot` | the same |
| `CatalogueProofs!TypeCorrect` | `Spec => []TypeOK` | `ThresholdAssumption`, `KeepAssumption`, `FeedAssumption`, `LimitAssumption`, `ViewAssumption`, `RefreshAssumption` |
| `CatalogueProofs!RankingCorrect` | `Spec => []RankedUnique` | the same |
| `CatalogueProofs!NothingLostCorrect` | `Spec => []NothingLost` | the same |
| `CatalogueProofs!TokensCorrect` | `Spec => []TokensReflectPairs` | the same |
| `CatalogueProofs!OpportunitiesCorrect` | `Spec => []OpportunitiesAreTop` | the same |
| `CatalogueProofs!PagesCorrect` | `Spec => []WalkComplete` | the same |
| `CatalogueProofs!FilledCorrect` | `Spec => []PagesFilled` | the same |
| `CatalogueProofs!NoneSkippedCorrect` | `Spec => []NoneSkipped` | the same |
| `CatalogueProofs!SteadyCorrect` | `Spec => []SteadyServed` | the same |
| `ServerProofs!TypeCorrect` | `Spec => []TypeOK` | `WorkerAssumption`, `BoundAssumption`, `ClientAssumption` |
| `ServerProofs!ExitCorrect` | `Spec => []GracefulExit` | the same |
| `ServerProofs!ServedCorrect` | `Spec => SubscribersServed` | the same |
| `ServerProofs!ThrowsCorrect` | `Spec => ThrowsOnlyWhileConnected` | the same |
| `OpportunityScore!ScoreInRange` | every score is in 5 .. 100 without clamping | `IsCurve` of both logarithms |
| `OpportunityScore!BetterScoresNoLower` | no worse in any metric, no lower in score | the same |
| `OpportunityScore!NoHighWithoutLiquidity` | no high opportunity below 1000 of liquidity | the same |
| `OpportunityScore!HighWhateverTheRisk` | a high opportunity above both upper thresholds | the same |

So the refresh cycle may have any number of slots, readers, jobs, attempts and
faults on either backend, the manager any number of calls, providers and
retries, a feed any length. The assumptions say little else than that counts
are numbers and that names of different kinds differ. `FeedAssumption` types a
report; `SnapshotAssumption` says that a snapshot is made of sequences;
`CallAssumption` and `ClientAssumption` make calls and clients finitely many, as
they are counted.

**Reads.** `ReadsRespectCompletion` is not inductive: it says nothing of the
cache a read will look into. `IInv` adds

* `RunsInProgress`: runs in progress have distinct numbers and are not over;
* `OlderIsPast`: only runs that are over are older than anything, completed
  runs are over, and runs that are over have old numbers;
* `CacheCurrent`: no readable key is older than a completed run, nor, for the
  keys it has saved so far, than a run in progress;
* `ReadsCurrent`: the same for what readers hold, against the runs that had
  completed when they began.

The step that matters is a save. Whoever overwrites a key is a run in progress,
and a run in progress is older than nobody (`FreshRun`), so each write keeps
`CacheCurrent`; the last save turns the clause about runs in progress into the
clause about completed runs. A failed save, an expiry or a crash never makes an
entry older: it only makes it unreadable.

**Jobs, fallback, stamp.** `JobsHeldOnce` needs only that a job which is still to
be enqueued has all its attempts left (`JobsInv`). For the fallback, `FallbackInv`
says that the keys are readable as long as a fallback that began with a readable
cache is under way; that is what a second slot breaks on files, so the theorem
has `NoTornRead` as its hypothesis. For the stamp, `StampInv` adds that the run
in progress is younger than all it finds and that the keys it has saved so far
are its own or unreadable; with two slots neither holds.

**Refinement.** `Refines` says that a step of the refresh cycle is a step of
`ResultStore` or changes nothing there. The invariant it needs beside `IInv` is
small: runs in progress, and the runs that wrote what the cache holds, have
begun (`Started`). Each action then has its counterpart: `Discover` is `Begin`,
the last save is `Complete` (`Return` and the queue's part change nothing there), a failure is `FallBack` or the end of a run, an
answered read is `Give`, where `ReadsCurrent` supplies that the result is not
superseded, and a crash is `Die`.

**Publish/subscribe.** That a message follows its write is nearly inductive: a
call of a slot is about the key it is saving, which it has written
(`CallsSettled`). The two counts need sets: messages that Redis has published or
may still publish number at most one for each connection that was ready
(`OnePerLoss`), which holds because no message is sent for a second call
(`NeverTwice`); and the counter is at most the number of the published messages
whose calls are over (`CountedSettled`).

**Providers.** Calls meet in the statistics only, so the invariant is one
predicate of a single call, `Sound`, over where it is, its provider and attempt,
its responses and its requests. A step of a call keeps `Sound` for it and leaves
the others alone; what a late request does (`Progressed`) keeps it for whatever
call the request belongs to. `CountersExact` is then a matter of cardinalities:
a call that gets over a provider adds one element to one of two sets
(`CountOne`).

**Server.** `MapOfClients` says that the map of the event stream has every open
client once and nobody whose connection has ended, `Forgotten` that an unusable
subscription goes with its connection, and `WorkerInStep` that a shutdown is
beyond the worker only when it is closed or was not there to be closed.

**Events.** `Each`, of which all changes and events are made, concatenates
sequences with a recursive function. `ConcatElements` proves what its elements
are by induction over a set of numbers (`SetInduction`), and the lemmas about
the seven parts of a delta and about the events follow. A pair is adopted in
the step that emits its `NEW_PAIR`, or was adopted before; the pools of the old
snapshot without the removed and with the new ones are those of the new
snapshot (`DeltaCorrect`). For the counters, `Numbers` types them and
`RefreshesAccounted` says that refreshes cut short have been started; a refresh
that a listener ends extends the choice of `CountsFollowEvents` by the event it
was ended at (`AllButOneCounted`).

**Catalogue.** The cached data are functions of the feed, so the invariant is of
two parts: `Cached`, what the pipeline makes of any feed, and `Walk`, what a
client has had.

* Merging, filtering, deduplication, tokens and their sums are loops, written
  as recursive functions. `Recursion` shows that each of them exists with a
  value after every item, and what holds after every item is proved by
  `ItemInduction`. Deduplication keeps the first of each address at its place,
  which is ranked before whatever it replaces could be; merging lowers no
  figure, and a score grows with its figures (`Scores`); a token's sums are
  those of its pairs, one occurrence at a time (`Sums`).
* Sorting is not recursive: an item's place is one more than the number of
  those ahead of it. `Places` shows that these numbers are all different and
  hence all the places there are, so that sorting permutes the list, and that
  the order is the one asked for.
* `Walked` says, of the list as it now is, that before its next page `n` the
  client has had `(n - 1) * limit` items; that the places which have kept their
  address were served with it; and, as long as the list has not changed, that it
  has had a beginning of it. `PageStep` shows that the next page continues this,
  with the cut at the end of the list and the number of pages rounded up.
  `RefreshedList` shows that a refresh that replaces the list keeps it.
  `PageFilled` is the arithmetic of `FilledCorrect`: page `n` begins before the
  end of the list whenever `n` is no more than the number of pages, which needs
  the clamp. `Owed` is the invariant of `NoneSkippedCorrect`: what is due was had
  or stands where the next page begins or later.
* `PagesCorrect` assumes a limit that is a number. By score, liquidity and volume
  the pages are in the order asked for; by `lastUpdated` they are in the order
  of the cache, which is all the code does.

**Score.** Everything is linear arithmetic over the five shares, which the
lemmas bound (`Shares`) and order, one by one. Of the logarithms nothing is used
but `IsCurve`: their values between the thresholds are in 0 .. 1000 and grow.
Metrics are whole numbers and shares between the thresholds are rounded to
thousandths, which may shift a score that lies at a rounding edge by a point;
the theorems hold for any curve, so also for the rounded ones.

**Map.** `IInv` adds that the indices below the counter are exactly those that
were mapped once (`Taken`), that each of them has its result in place or a
worker that still has it (`Placed`), and that a worker that returned found the
counter at the end (`Exhausted`). The number of inputs is a variable that no
step changes, and the sets made of it are the same after a step (`SameSize`).

**Only model-checked.** Liveness (`JobsSettle`, `CallsSettle`, `Settles`,
`ShutdownExits`, `SavesSettle`), which needs fairness and `ENABLED`,
and the three divergences, which are counterexamples. The provers cannot
instantiate a theorem that takes an operator, so there is no general induction
over data: each recursive function has its induction written out over a set of
numbers, as above.

## 5. What is not modelled

* Cron timing, `getCacheAgeMs`, `isFresh`, `hasCache`.
* A Redis server that restarts and loses jobs; a job the queue takes for stalled
  while its slot still runs (its lock, `lockDuration` 300 s, is renewed).
* Files so large that `fs.writeFile` writes them in several chunks.
* The receiving side of publish/subscribe: its callback is ioredis' reply
  callback, so no message reaches a handler; nothing creates the bridge and
  nothing calls `closeRedisPubSub`.
* In `PubSub`, an attempt to connect that fails after the TCP connection was
  made: ioredis may then keep a waiting command for more attempts than
  `MaxRetries`.
* The security clients, stubs that answer null to every question; the workers
  that only log their jobs; GeckoTerminal, which is not registered; metrics and
  logs: counters and I/O without a decision.
* A page limit that is no whole number: the schema lets `limit=2.5` through, and
  `slice` then cuts at the rounded-down places. `Limits` holds whole numbers
  and the limit that is no number at all.
* Latency averages, `lastError`, prices, enrichment data.

## 6. Plan

Order: the refresh cycle first, since all readers depend on it; then what its
single step "discover" stands for; then the process around it; then what the
cycle promises (`ResultStore`) and how it announces its saves. Done so far: all
modules above, and the proofs of section 4, which cover every invariant and
every action property of the passing runs.

What could still be proved: bounds that today only type invariants state (how
many HTTP requests a call can have outstanding), and the steps of the liveness
arguments that are safety properties, such as a measure of a job that every
attempt lowers.

What could still be added to the models: `FileCache` in chunks, with writers and
readers of one file by offset, refining the two-step writes of `RefreshCycle`;
`ProviderManager` behind the step "discover" of `RefreshCycle`, so that the
timeouts bound a refresh (today the fairness of `RefreshCycle` takes
`CallsSettle` for granted); and page limits that are no whole numbers.
