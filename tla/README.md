# Sentinel Gateway: a TLA+ verification project

Sentinel Gateway (`src/gateway/`) is an API gateway in Python: it rate-limits
every request with a registry written in C++ (`src/native/`, with a Python
twin), forwards it through a circuit breaker to a Python or a Java service, and
after the response was sent it updates features, refits and consults an
anomaly detector, counts, stores and explains the request.  This directory holds the TLA+
models of that code, the TLC configurations that check them, and proofs checked
by TLAPS.  Paths below are relative to `src/`.

Parse with `tlasany M.tla`, check with `tlc -workers 2 -config X.cfg M`, prove
with `tlapm M.tla`.

## 1. The system

Three kinds of thread meet in one process:

* the **event loop**: every request's coroutine (limit, route, forward), and the
  `maintenance_loop` coroutine;
* the **thread pool**: `_observe`, a synchronous background task of each
  response, so that several run at once;
* callers of the native registry that release the interpreter's lock (batches,
  benchmarks).

| Component | Code | State | Operations | Interacts with |
|---|---|---|---|---|
| Limiter registry | `native/src/token_bucket.cpp`, `gateway/ratelimit/python_bucket.py` | striped maps key -> bucket or window, allowed/denied counters | `check`, `check_many`, `evict_idle`, `size`, `reset_stats` | called by Limiter; swept by maintenance |
| Limiter | `gateway/ratelimit/limiter.py` | policy tables, one registry per policy | `add_*_policy`, `resolve`, `check`, `check_batch`, `evict_idle`, `stats` | called by the request path |
| Circuit breaker, proxy | `gateway/proxy.py` | per upstream: state, consecutive failures, `opened_at`; per call: attempt | `allow`, `record`, `forward` | upstream services through httpx |
| Feature extractor | `gateway/anomaly/features.py` | dictionary client -> deque of observations | `observe`, `extract`, `all_vectors`, `forget_idle` | pool threads and maintenance, no lock |
| Anomaly scorer | `gateway/anomaly/scorer.py` | baseline, forest, `_fitted_at`, `_fitted_n`, recent scores of each client | `maybe_fit`, `score`, `forget`, `state` | fed by the extractor, own lock, which `score` takes for its window only |
| Telemetry | `gateway/telemetry.py` | counters, histograms, ring of events | `record`, `incr`, `observe_latency`, `snapshot`, `recent` | pool threads write, `/metrics` reads |
| Event store | `gateway/store.py` | SQLite database, a connection per thread, write mutex | `log_request`, `log_explanation`, `purge_before`, reads | pool threads write, endpoints read |
| Explainer | `gateway/explain/llm.py`, `templates.py` | LRU cache, call counters | `explain`, cache `get`/`put` | pool threads; external provider |
| Application | `gateway/main.py` | all of the above | `gateway`, `_observe`, `maintenance_loop`, endpoints | everything |
| Configuration | `gateway/config.py` | read once at start | `upstream_for`, defaults | everything |
| Pricing service | `services/java-service` | two counters | `quote`, `quoteBatch` | upstream |
| Catalog service | `services/python-service/app.py` | fixed catalogue, fault injection | GET handlers | upstream |

What makes each of them correct, and what is hard about it:

* **Request path.** A request is charged before its body is awaited and asks the
  breaker only after that; it may end as a 429, a 404, a 503, an answer, an
  exception or a client that left.  None of the ways that are not the upstream's
  fault may move a breaker, every attempt must have been paid for, and none may
  leave a request behind.
* **Registry.** Over any window a client gets at most a burst plus the refill,
  although buckets are refilled lazily and dropped by a sweep; `retry_after` is
  neither too early nor too late; nobody is shut out; idle keys leave.  With
  callers in parallel, one more thing: the clock is read before the stripe's
  lock.
* **Breaker and proxy.** The breaker is consistent with the answers it was told,
  in whatever order calls overlap; probes are apart; calls that are not
  idempotent go out once; a recovered upstream returns to rotation.  Answers
  arrive to a breaker that has moved on since their call was admitted.
* **Features.** A dictionary that threads share without a lock: a walk of it
  breaks when a client is inserted, two first requests of a client replace each
  other's deque, the sweep deletes what it saw a moment ago; an observation that goes into the one or is in the other is lost.
* **Scorer.** Fits use a population and a clock read before the lock; scores read
  baseline and forest without it, while they are being replaced; a flag has
  to rest on a full window although workers interleave and histories are forgotten.
* **Telemetry.** One event is counted under several holds of a lock, and snapshots
  come in between; a percentile may be reached exactly, by a value on an edge or above the last one.
* **Pricing service.** Arithmetic that wraps, and malformed requests that the
  breaker must not take for a failure of the service.
* **Store, explainer.** Order of the steps of one observation, one of which may
  fail; a cache at its limit; a crash after a commit that was not flushed.

`PROJECT.json` lists these hazards line by line with the properties that cover
them, and the components with what is not modelled.

## 2. Modules

| Module | Models | Used by |
|---|---|---|
| `Proxy` | `CircuitBreaker` and `Proxy.forward`, interleaved over requests and upstreams | `Gateway`, `PricingUpstream` |
| `Gateway` | the request path of `main.py`: identity, limit, route, body, `Proxy`, response, observation | `MCGateway`, `GatewayProofs` (which is also about `Proxy` alone) |
| `RateLimit` | abstract: an allowance that grows at every tick | `Registry` (refinement) |
| `Registry` | token buckets, `check`, `evict_idle` | `MCRegistry`, `RegistryProofs` |
| `SharedLimiter` | token buckets under parallel callers: stripes, stale clock readings, `_ensure_registry` | `MCSharedLimiter`, `SharedLimiterProofs` |
| `SlidingWindow` | the sliding-window counter of one key, with stale clock readings | `MCSlidingWindow`, `SlidingWindowProofs` |
| `Features` | the dictionary of histories under threads | `MCFeatures`, `FeaturesProofs` |
| `Scorer` | `maybe_fit`, `score`, `_sustained` and their callers | `MCScorer`, `MCScorerOwnWindow`, `ScorerProofs` |
| `Histogram` | the latency histogram and its percentiles, as functions | `Telemetry` |
| `Telemetry` | `record` and `snapshot`, lock by lock | `MCTelemetry`, `TelemetryProofs` (which is also about `Histogram`) |
| `Observation` | the end of `_observe`: the store's writes and the explainer, with failures and restarts | `MCObservation`, `ObservationProofs` |
| `Pricing` | what a quote costs in wrapping arithmetic, and the status of each request | `PricingUpstream`, `GatewayProofs` (its last part) |
| `PricingUpstream` | the pricing service behind its breaker: `Proxy` with `Pricing`'s statuses | `MCPricing` |

Definitions named "Mutant of X" beside a definition X are plausible bugs; each
property of a passing run is violated when one of them takes the place of its
original (`PROJECT.json`, "mutants"), which shows that the property depends on
the code.

### Proxy

`state`, `consecutive_failures` are the breaker's fields; `open_age` is
`monotonic() - opened_at` in ticks.  Both saturate at the only value the code
compares them with.  `call[r]` is where request r's coroutine stands: awaiting
the HTTP client, in its backoff sleep, or outside.  The loop gives no other
coroutine a turn in between, and `CircuitBreaker._lock` guards code without an
await, so `ForwardClosed`, `ForwardProbe`, `ForwardRefused`, `Retry`, `Return`,
`Raise` and `Wake` are each the code from one await to the next, the breaker's
update included.  `healthy` is the environment: a healthy upstream answers with a
status below 500, another one may also fail in each of the ways `Failures` has.
`"uncaught"` stands for every exception outside the four that line 190
names; some of those arise on the gateway's side (`PoolTimeout`, `InvalidURL`), so that
it may end a call to a healthy upstream too (`OwnFaults`).  `probe_age`, `call[r].probe` and `lost` (a probe ended in such an exception and nothing has been
recorded since) are history.  The statistic `trips`, headers,
bodies, and the length of a backoff are left out.

### Gateway

`request[r]` is where request r is in the handler: waiting for its body, in `forward()`, or answered with
`_observe` still to run.  The handler gives up the loop in the first two places only, so identification, the
check and the routing are one action (`ArriveLimited`, `ArriveNoRoute`, `ArriveRouted`), and the arrival of the
body is one with the breaker's decision (`Admit`, `Refused`); the attempts, `Answer` and `Fail` are `Proxy`'s actions.
`Disconnect` is a client that left before its body came: `body()` raises, and what was charged stays charged.
`Resolve` and `UpstreamFor` are `Limiter.resolve` and `Config.upstream_for`.

The allowance of an account (a client under a policy) grows at every tick as in `RateLimit`, which `Registry`
implements; so the composition need not carry buckets.  `Gateway` EXTENDS `Proxy` and adds to its actions;
`ImplementsProxy` says that no step of the handler uses a breaker in a way `Proxy` does not have.

### RateLimit, Registry, SlidingWindow

The gateway calls the registry on the event loop's thread through
`check_holding_gil`, so a check or a sweep is one action.  A bucket is its
tokens and its age, `now - last_refill_`.  Ages saturate one tick after
eviction becomes possible.  Tokens and times are integers; the rounding of doubles
is not modelled.  `promise` is the `retry_after` a client holds, counted down by
`Tick`; `window` measures what a client was granted over a window that `Measure`
starts at any moment.

`RateLimit` knows no buckets, clock readings or sweeps.  `Registry` implements it
with `level[c]` mapped to what a check of `c` would find: the refilled bucket, or a
full one when there is none.  This is where lazy refill and eviction are shown to be
invisible.  It needs `PatienceAssumption`: by the time a bucket may be dropped it
is full again.  The configured policies satisfy it (300 s of idleness against at
most 60/10, 30/3, 20/2, 200/50, 5000/1000 seconds).

`SlidingWindow` is one key's counter, because keys share nothing.  Its estimate is
scaled by the window's length and therefore exact.  `check` reads the clock before it has the stripe's
mutex; threads that wait for it have no other state, so the wait is the parameter `lag` of each action, at most
`MaxDelay`.  Unlike the bucket's, `roll` does not clamp a reading older than the window it finds: the overlap is
then more than a whole window, and the model keeps it so.  `window` measures, as in `Registry`, what passed in a stretch that
`Measure` starts at any moment; the stretch has `Span` = `Length` - `MaxDelay` ticks, because a request counted in
one window may get the lock that much later.

### SharedLimiter

The same buckets when callers do overlap: threads on the Python backend, or on the
native entry points that release the interpreter's lock (`bindings.cpp:72-92`).
A section under a mutex is one step, so a check is `Begin` (the lookup without the
lock), `Ensure` (the one under it), `ReadClock`, then `Grant` or `Deny`; a sweep is
`SweepBegin` and one `SweepStripe` for each stripe, in any order.  Time passes in between, and a
reading of the clock is kept as its age, `lag`, at most `MaxDelay`.  A registry is named by
the thread that built it, so that a second one would be seen.  `Elapsed` has the clamp of
`token_bucket.cpp:37`, which only matters here: a check may come with a reading older than
the bucket's own.  One policy with one cost; policies share nothing.  An entry of the map
that is being replaced is not modelled, because `_registries` never replaces one.

### Features

A task is `_observe` of one request: `Get`, `Create`, `Push` are the three dictionary and deque
operations of `observe`, `Collect`, `WalkStep`, `Lose` the walk of `all_vectors`. The interpreter's
lock makes each of them atomic and a switch can fall between any two. `walk` is the dictionary
iterator: it remembers the size it began with and raises when the size differs. The maintenance loop
runs `forget_idle` in steps (`Scan`, `Delete`) and then walks again; `Abandon` is its `except`
clause. A deque is named by the request that created it, so that replaced deques keep existing for
whoever still holds them. CPython may run a comprehension without giving up the interpreter; the
calls of `extract` inside it make a switch possible, and this is the case modelled. The iterator
also counts the items it has still to meet (`left`), and so notices a client that was deleted and
came back at the end. `overlapped` is history: the requests, not yet old, whose `observe()`
overlapped another one of the client or a sweep.

### Scorer

A caller reads the population (`Collect`) and the clock (`ReadClock`) before the
lock; `Decline`, `FitBaseline` and `FitForest` hold it, and a forest takes long enough for others to find the lock
taken.  The wait and the fit together last at most `MaxDelay` ticks.  `score` takes no lock until its end: `Extract`, `Rank` (which
reads the baseline), `Detect` (which reads the forest and the baseline again) and `Sustain` are separate steps, and a fit may
come between any two or be half done.  The model keeps whether a forest exists, the size of the baseline's
population, the age of the last fit, and every client's recent scores, whose median
`TwiceMedian` finds by counting (`Smallest`); what a fit computes and
which number a score is are data, and `_fitted_n` is only reported.  `Sweep` forgets clients nobody is observing.
`MCScorerOwnWindow` adds the history of what was observed since a client was last forgotten.

### Telemetry, Histogram

`Record`, every `Incr`, `ObserveLatency`, `FindUpstream` and `ObserveUpstream` are the
sections of `record` under one lock each.  A snapshot holds `Telemetry._lock` from
`CopyCounters` to `Release` while it reads the upstreams' histograms one by one.
The upstreams' histograms are their numbers of observations.  The overall one is `Histogram`'s: a count for each edge, one for what is above the
last, and the maximum; `took` is the history of the values themselves, against which `Percentile` is measured.
A snapshot takes the histogram's lock once for each percentile; since the property holds of the histogram at
every moment, it holds of what each of these reads finds.

### Observation

Threads of the pool run `main.py:132-142` for scored requests: `LogRequest`, then, if the request was
flagged, `Lookup`, `Answer` or `FallBack`, and `LogExplanation`.  A call of the store holds its write mutex
from the statement to the commit, so it is one action; its failure is another one, after which `_observe`
drops the rest of the task.  `db` is the database as committed, a set of request rows, a set of explanation
rows and the counter behind `AUTOINCREMENT`; `durable` is what a power failure leaves of it
(`synchronous=NORMAL`), brought up to date by `Flush`.

SQLite is external and modelled as the code meets it.  `draft[t]` is what an open transaction on t's connection has
made of the database.  The code never rolls back, so a call that raises may leave one open; from then on the
other connections get "database is locked" although the mutex is free (`CanWrite`), and the thread's next
commit stores the rows of the call that failed.  `Retire` is the thread pool dropping an idle thread with
its connection.  `Purge` is `purge_before`, which is part of the store's interface and is called by
its tests only; the rows it deletes are any, because the timestamps are those of the responses and
not in the order of the ids.

`cache` is the explainer's ordered dictionary, `uses` its history: every shape stored since the start in the order
of last use.  Two threads may both miss a shape and both call the provider.  The offline provider has no state.
Reads, timestamps and the counters of calls and hits are left out.

### Pricing, PricingUpstream

`Pricing` is `PricingEngine` (`UnitPrice`, `VolumeBps`, `TierBps`, `TotalCents`) and the statuses of the
controller and its exception handler (`QuoteStatus`, `LineStatus`, `BatchStatus`).  A long wraps at `Half`, which is
2^63 in the program; `%` and `/` round as Java's do.  `PricingUpstream` puts a service with these statuses, which
never fails, behind `Proxy`'s breaker.  The price plays no part in that run.  TLC's integers have 32 bits, so the
cfg makes `Half` small; the arithmetic is the subject of the last part of `GatewayProofs`, where `Half` is any number as large as needed.

## 3. Runs

Passing runs:

| Run | Instance | Shows |
|---|---|---|
| `gateway` | 1 upstream, 2 requests, 3 paths (one unrouted, one with a policy of its own), a client with a key, threshold 2, reset 1 tick, 1 retry, all failures | types; `BreakerTracksRun`: CLOSED exactly while the run of failures is below the threshold; `RetriesStayInBudget`; `ProbesSpaced`: two probes are a reset interval apart whatever late answers did in between; `HalfOpenHasProbe`: a HALF_OPEN breaker has its probe in flight or has lost it to an exception nothing caught; `OnlyFailuresTrip`; `AttemptsArePaid`: one charge pays for at most `MaxRetries` + 1 attempts; `ImplementsProxy`; `Recovery`; `EveryRequestSettles` |
| `registry` | 2 clients, burst 3, refill 2, costs 1 and 3, idle 2 | types, `WindowBound`, `RetryExact`, refinement of `RateLimit`, `DeniedIsServed`, `IdleForgotten` |
| `shared_limiter` | 2 threads and a sweep, 2 clients on stripes of their own, burst 2, refill 1, idle 3, waits of 1 tick | types with readings out of order; `OneRegistry`: nobody works on a replaced registry; `WindowBound`: a burst plus the refill of the window and of one wait |
| `sliding_window` | limit 4, window of 5 ticks, readings up to 2 ticks old | `NoDoubleBurst`, `RetryHonestWhenCarried`, `DeniedIsServed` |
| `features` | 2 clients, 3 requests, 2 threads, deques of 2 | `LossNeedsOverlap`: only an observation whose `observe()` overlapped another one of its client or a sweep can be lost from the history; `EmptyIsBeingFilled`; `IdleForgotten` |
| `scorer` | 1 followed client, 2 others, 2 workers and maintenance, window 2, interval 2, delay 1 | `FlagIsSustained`: a flag rests on a full, elevated window and such a window is flagged; `BlindScoresAreFew`: a score made of neither baseline nor forest happens at most once per thread; `ForestFitsApart` |
| `telemetry` | 2 recorders, 1 upstream, 3 events, edges 2 and 4, values on the last one and above it | `SharesOfTotal`, `NothingLost`, `PercentilesBound`: a percentile is never below the exact one |
| `observation` | 2 threads, 3 requests, 3 shapes, a cache of 2 | `ExplainsItsRequest`: no explanation of another request or of one that is gone; `StoredOnce`: no request has two rows, those a failed call left in its transaction included; `CacheKeepsRecent`: the cache holds the shapes used last |

Runs that show a disagreement between a text of the repository and the code:

| Run | Text | What the code does |
|---|---|---|
| `proxy_probe_decides` | `proxy.py:14-15` | a probe that ends in an exception other than the four caught ones records nothing: HALF_OPEN for ever |
| `scorer_own_window` | `scorer.py:287-289` | scores outlive the history they came from; a returning client is flagged on its first new score |
| `features_recorded` | `store.py:10-11` | a walk broken by a newcomer drops another request before it is counted or stored |
| `pricing` | `GlobalExceptionHandler.java:9-15` | a batch line whose `itemId` or `quantity` is not a number fails a cast and is answered with 500; enough of them open the breaker of a healthy service |

More disagreements were seen while modelling and have no run of their own: a late success of a call admitted
before the trip closes the breaker with no probe having answered (`DECISIONS.md` D-10: "exactly one probe
decides"); two workers that miss one shape both call the provider (`llm.py:11-12`: "one explanation, not ten");
`llm_timeout_sec` limits each socket operation and not the call (`llm.py:8`: "enforced by the caller"); after a
failed call the two journal modes differ again in spite of the mutex (`store.py:87-89`: "makes the two modes behave identically"),
because the open transaction locks the other connections out; a call
asleep in its backoff when the breaker opens still sends its next attempt
(`config.py:44-45` says the upstream is out of rotation); a failure of a call
older than the probe can reopen the breaker, whose timer then lets a second
probe out beside the first; the sliding window's `retry_after` is too short when
the current window alone carries the overage (`token_bucket.hpp:32`, admitted at
`token_bucket.cpp:129-130`); without a forest the refit interval is not looked at, so that below the forest's
population every observation refits (`scorer.py:143` says "and the interval has elapsed", line 149
tests it only when there is a model); the forest stays in place when the population falls
below its minimum (D-08); a score of 0 may be given to a client ranked before the first fit and scored after it, out of
no deviation at all; with waits for the lock, two bursts fit in a trailing window (`token_bucket.hpp:70-72` has the whole
window, `NoDoubleBurst` what is left of it after the wait); the percentiles of a snapshot come from four separate
holds of the histogram's lock; a client that comes back between the sweep's scan
and its `del` loses the new observation (`features.py:113-117`).

**Bounds.** Thresholds of 2 distinguish "first failure", "trips" and "already
open"; two requests are a probe and a call older than it, or a call in flight and a newcomer, and each may
come again as another; one retry has a first and a last attempt.  The gateway's paths are one that falls to the policy of the caller's tier,
one with a policy (and a cost) of its own, and one no upstream serves; a burst of 2 is enough to be
allowed, to be limited and to be refilled.  A burst of 3 with a refill of 2
makes refill and rounding of `retry_after` interact with clamping, and costs 1 and 3
have the smallest and the largest request.  Window 5 and limit 4 have all fractions of
the carried count, and readings 2 ticks old reach a window before its start.  Two threads and one loop are the three actors any race in `Features`
needs: a walker, one that inserts, one that deletes; three requests fill a deque of two and push the first one out.  In `SharedLimiter` two threads can build a
registry twice and bring readings to one bucket in either order, the two stripes make a sweep
end after it began, and a wait of one tick is enough for a reading to be stale.  In `Observation` a cache
of 2 has a hit that changes the order and a third shape that evicts, and three requests let the row of a
failed call be stored by its thread's next one while another's explanation is on its way.
In `Telemetry` values lie on the last edge, where the bound is tight, and above it; the proof has all others.  In `Scorer` two clients make a baseline and three a
forest, so that every order of cold start, baseline and forest occurs.  Batches have up to two lines with each field a number, something else or missing, and
`MaxLines` 1 lets a batch be too long.  Bounds that are there only for TLC:
`MaxRequests`, `MaxEvents`, `MaxOthers`, `MaxWindow` and `MaxDelay`.  Every counter the
code compares with a threshold saturates exactly there, which changes no comparison.

**Symmetry** is used for workers, recorders, threads, requests and shapes in runs without liveness properties.

**Deadlock** is checked in every run; no model stops.

**Fairness.** `Gateway`: a body arrives or its connection is given up, httpx timeouts end attempts, `asyncio.sleep` returns, background tasks
run and time passes (weak fairness, `GatewayProgress`).  Clients come back, at times when their allowance covers the request, for
a path of each upstream, and not all of them disconnect (strong fairness, `ClientsComeBack`): the limiter and the breaker refuse in
between, and without a client no probe is ever made.  `EveryRequestSettles` needs the first only; `Recovery` both.  `Registry`, `SlidingWindow`: time passes, the maintenance timer fires; for
`DeniedIsServed` the client asks again (and, in `SlidingWindow`, gets the lock without a wait now and then).  `Features`: the maintenance
timer fires and the loop runs; nothing is assumed of the pool's threads or of the clients, of whom the instance has finitely many.  `IdleForgotten` thus says nothing of a stream of new clients that never ends.  No fairness is given to failures, recoveries
or evictions of a particular client.

## 4. Proofs

`GatewayProofs` (its first part is about `Proxy` alone, its last about `Pricing`), `RegistryProofs`, `SlidingWindowProofs`,
`SharedLimiterProofs`, `FeaturesProofs`, `ScorerProofs`, `TelemetryProofs` and `ObservationProofs` hold for all values of the constants that satisfy the modules' named
assumptions.  These are types, the settings' ranges, that the sets of clients, requests, threads, workers, upstreams, statuses and
durations that are counted are finite, that the histogram's edges increase, that a status has no counter of another name,
that `None` is none of them, and the two `PatienceAssumption`s explained above.  Every safety invariant and action
property the passing runs check is a theorem.

* **Proxy.** `CallInv` (types, a call in flight has an upstream, a sleeping call
  has a retry left, only idempotent calls retry) is inductive and gives `TypeCorrect` and
  `RetriesSafe`.  That a sleeping call has a retry left is what bounds `attempt + 1` in `Wake`.
  `BreakerInv` adds that an OPEN breaker opened no earlier than its last probe was
  admitted (`OpenedAfterProbe`): late failures restamp `opened_at`, they never move it back.
  It gives `BreakerTracks` and `ProbesAreSpaced`, for which `BreakerTracksRun` alone is
  too weak.  `HalfOpenIsProbed` assumes nothing about exceptions: the history `lost` says when an uncaught one took the probe, and
`HalfOpenHasProbe` says that this is the only way to be HALF_OPEN without one (`proxy_probe_decides` shows that it happens).

* **Gateway.** `GatewayInv` adds to the types that a request waiting for its body has been routed (`BodyIsRouted`) and that its place in the
  handler and its call agree (`InStep`).  It gives `GatewayTypeCorrect`.  `StepOfProxy` says that with these every
  step of the handler is a step of `Proxy` or leaves it alone; hence `GatewayImplementsProxy`, and with it the theorems
  about `Proxy` hold in the gateway (a corollary states them).  `OnlyFailuresTripIt` goes through what
  a final answer records.  `AttemptsPaid` needs `InStep`: attempts left are counted from the handler's place in one state
  and from the call in the next.
* **Registry.** `TypeCorrect`; `RetryAfterCovers`, a lemma on the rounded quotient;
  `IdleIsFull`, from `PatienceAssumption`; `TouchMoves`, `EvictMoves`, `TickMoves`, which say
  what each operation does to `Level`.  From these: `WindowBounded`, through an invariant that
  adds the level to what was spent (spent + level <= burst + refill * age, which is
  inductive where the bound alone is not); `RetryIsExact`, through an invariant that
  relates a promise's remaining wait to the level at every moment in between;
  and `RegistryImplementsLimit`: initial states map to initial states, every step maps to a
  step of `RateLimit` or leaves it unchanged.

* **SlidingWindow.** Everything is about the counter `check` finds, rolled to a reading that may be older than the
  one it was rolled to before (`Found`).  `Fits`, current * length + previous <= limit * length, says that an admitted request leaves room
  for the window before it.  `BurstsDoNotDouble`: once a request of the stretch has passed, what passed is in the current count, or in the
  current and the previous one if the stretch has seen a roll; it is too short to see two (`StretchInv`).  With the
  previous count at most the limit and one request in the current one at least, `Fits` leaves less than twice the limit (`FewerThanTwice`).
  `RetryIsHonest`: `OpenAt(w, t)` says that one more request would fit when the window is t ticks old; it is true of the moment at which the
  promised wait ends (`RetryOpens`, through the rounded quotient), it stays true as time passes (`StaysOpen`), and every step that
  changes the counter under a promise ends or replaces the promise.  Products of two variables are beyond the SMT solver; two lemmas on them
  (`ProductGrows`, `Distributes`) are all the proofs use.

* **SharedLimiter.** `Placed` (whoever is past the lookup works on the registry in force, and so does
  the sweep) with the types is inductive and gives `TypeCorrect` and `OneRegistryOnly`.
  `WindowBounded` rests on `Worth`, the value of a bucket as of `MaxDelay` ticks ago: valued as of now, a
  grant made with a stale reading may cost less than it gives, because the clamp to the burst hides
  part of it; valued as of the oldest reading in use, a refill never gains (`RefillGainsNothing`), a grant loses
  exactly its cost (`SpendLosesCost`), a dropped bucket was worth a full one (`StaleIsFull`, from
  `PatienceAssumption`) and a tick adds at most `Refill` (`AgingGainsRefill`).  `Budget`, spent + worth <= burst + refill * age,
  is then inductive; worth is never below -`MaxDelay` * `Refill`, which is the extra term of the bound.

* **Features.** Two threads may both find no history and both create one, so a deque in the dictionary need not be the one
  its client's requests were put in.  `OwnerInv` says that a deque belongs for ever to the client of the request that created it: that is the
  client it is filed under, of the tasks about to append to it, and of everything appended so far.  It gives `TrafficIsOwn`;
  `EmptyMeansBeingFilled` is inductive
  with it: whoever creates a deque has still to append to it, whoever appends ends its being empty, and nobody empties one.
  `LossComesFromOverlap` is not inductive: a request may be in the history and about to be replaced.  `Calm` says of a request without an
  overlap what keeps that from happening: before its append it holds the deque of the dictionary; after it everything behind it is newer,
  its client is on no list of stale ones, and whoever is on the way to that history came later and holds the same deque.  A client
  whose last observation is newer than one that is not old is not stale, because observations grow old in their order (`AgeInv`).

* **Scorer.** What a client's window says and the verdict drawn from it change in one step, so `FlagsAreSustained` needs no more of the
  state than its types, and otherwise what a median is: `SmallestIs` (the k-th smallest exists, for a sequence of any
  length), `MedianIs`, `MedianReaches` (a median that reaches the threshold has half of the window reach it) and `MedianStays`.
  `BlindScoresBounded` counts workers: the scores given out of nothing and the workers that ranked without a baseline
  and have not scored yet are together at most `Workers` (`BlindInv`).  Once there is a baseline there always is one, and a score
  is only ever given when there is one, so nobody becomes blind again after the first such score.
  `ForestFitsStayApart` follows from `AgeInv`: unless a forest is being fitted, the age by which callers decide is at most
  `MaxDelay` more than that of the last fit.

* **Observation.** `ExplainsItsRequest` looks at the committed rows only, and is not inductive: a task holds an id for
  several steps, drafts are committed later, and a power failure goes back.  The invariant says of `db`, `durable` and every
  draft that they are sound (explanations are of their requests, no id is above the counter, no two rows share one), and that a
  task's id is its event's wherever that id still exists, in `db` and in the one draft there can be
  (only one thread writes).  Ids never being handed out again is what keeps the last part true across `Purge`.
  It gives `ExplanationsFit`; `OnlyFailuresKeepOthersOut` is a part of it.
  `RequestsStoredOnce` adds that a request is in no version of the database while its task has not come to the insert.
  `CacheIsRecent`: `uses` has each shape once (`Once`) and the cache is its end (`CacheIsEnd`), so that a hit moves the same shape in both
  (`HitKeeps`) and what a put evicts is the first of the cache (`PutKeeps`).

* **Pricing.** The hypothesis `Wide` is what the proofs need of `Half`: that it is at least 4 * 10^18, which 2^63 is.  `PriceInRange`: an item whose number times 733 fits costs between 49.00 and 3498.99, any other never
  more than that (it may cost less than nothing).  `DiscountFloor`: the two discounts leave at least
  63.75 percent.  `NothingElseWraps`: that one product aside, no amount and no product with a rate leaves the range, for every
  item and every quantity of 32 bits; this is what lets `Pricing` write the rest without `Wrapped`.

* **Telemetry.** One event is counted in sections, so nothing about two counters is true of them alone.  `CountInv` adds to every counter the
  recorders that have still to come to it: `requests_total` and whoever is before it make `recorded`, and so do the statuses and the overall
  histogram; limited and forwarded requests together with those that may yet become one or the other (`Pending`) are at most that.  Whoever is before the
  first counter is before all of them, hence `CountersShares`, of every moment.  `ReadInv` carries that over to a snapshot: what it has read is
  not above what there is now, and while it holds the lock `requests_total` is still what it read, although upstreams' histograms
  go on growing.  These give `TypeCorrect`, `SharesBounded` and `NothingIsLost` (nobody is in between).
  `PercentilesAreBounds`: the first i buckets hold exactly the durations that belong there (`LatencyInv`), a duration belongs to the first i
  buckets if and only if it does not pass the i-th edge (`BucketBounds`), and nothing passes the maximum; so where the histogram reaches the
  percentile, enough of the exact durations have been passed too (`QuantileBelow`).
  All of it rests on laws of finite sums: another element, one more somewhere, termwise comparison, terms that are zero
  (`SumRemove`, `SumIncremented`, `SumMonotonic`, `SumSupport`).

The library's induction theorems take an operator as a parameter, which the provers cannot instantiate.  Where a proof needs a least number
(`LeastNatural`) it takes it from `WFMin` and `NatLessThanWellFounded`, which do not.  A sum over a set is defined by the community modules as a
value of a recursive function, chosen to satisfy its equation.  `FoldsExist` and `FoldsAgree` show that there is one for every finite set and that any two agree
where both are defined, and each law is then proved from a smallest set without it (`SmallestSet`).

Only model-checked: all liveness (`EveryRequestSettles`, `Recovery`, `DeniedIsServed`, `IdleForgotten`), which is outside
the prover's reach.

## 5. Not modelled

* The registry's allowed/denied counters, `size` and `reset_stats`; the retry header's rounding (`main.py:237`); sliding-window and Python-backed policies, which
  the configuration never makes.
* Start and stop of the process, the read-only endpoints, the store's reads, the ring of events, the counters of the explainer and of the pricing service.
* Numbers: the features' arithmetic, the baseline, the isolation forest, rounding of doubles.  Observations enter a
  client's history in the order threads run, not in that of their timestamps (`features.py:134`): what follows for the rate is
  arithmetic on doubles, and no claim of the code about it is left to check.
* The catalogue service: fixed data and injected faults; `healthy` and `Failures` cover what it may answer.
* Reading the environment, dashboard, benchmarks, demo traffic, packaging: no behaviour to check, or
  pure input and output.

## 6. Plan

Written in this order; what is there is marked.

1. `Proxy` with proofs (done).
2. `RateLimit`, `Registry` with proofs; `SlidingWindow`, stale readings included with proofs (done).
3. `Scorer` with its unlocked reads and `Features`, with proofs; `Telemetry`, with proofs (done).
4. `SharedLimiter` with proofs (done).
5. `Observation` with proofs (done).  Left: an abstract specification (a log of which a
   restart keeps a prefix and whose explanations have their request) shown to be implemented.
6. `Histogram`, `Pricing`, with proofs (done).
7. `Gateway`, the request path composing limits and proxy, with proofs (done).
