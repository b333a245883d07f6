# ZenGate AI in TLA+

Specifications of the ZenGate AI gateway, of its control plane and of the ADK
pipeline that extends the repository: TLA+ modules translated from the source,
TLC configurations that check them on small instances, and proofs that TLAPS
checks for every instance. Paths below are relative to the repository.

    tlc -workers 2 -config sliding_window.cfg MCSlidingWindow.tla    # one run
    tlapm SlidingWindow_proofs.tla                                   # some proofs

The other modules with proofs are `Metrics_proofs`, `PolicyStore_proofs`,
`SelfHealer_proofs`, `Limiters_proofs`, `TimedParts_proofs`, `Pipeline_proofs` and
`Gateway_proofs`.

## 1. The system

| component | code | state | operations |
|---|---|---|---|
| sliding-window limiter | `internal/ratelimit/limiter.go:76-133`, `scripts/sliding_window.lua` | per client a sorted set in Redis with a TTL; the cached script | `Allow`: read the clock, EVALSHA, on NOSCRIPT reload and retry |
| token bucket | `internal/ratelimit/limiter.go:19-74` | per client tokens and time of last refill, under a mutex | `Allow` |
| fixed window | `pkg/ratelimiter/limiter.go` | a counter in Redis with a TTL | `Allow`, failing open; not used by the gateway |
| metrics collector | `internal/metrics/handler.go` | three maps of atomics under an RWMutex | `RecordRequest`, `RecordRateLimited`, `Snapshot`, `GET /metrics` |
| policy store | `internal/controlplane/client.go`, `handler.go` | policies in etcd; a cache per node | `Start`, watch loop, save, delete, list; `GetMatchingPolicy` for every request, with the tier's default when none fits |
| translator | `internal/ai/translator.go` | none | turns a prompt into a policy and puts it |
| traffic analyzer | `internal/ai/analyzer.go` | history of request rates | samples the metrics; scales all limits in etcd |
| self-healer | `internal/ai/healer.go` | counts of the last interval; `isFailingOver` | samples the metrics; puts a new upstream in etcd |
| reverse proxy | `internal/proxy/handler.go` | the target and the director | forwards; `UpdateTarget` |
| middleware chain | `internal/proxy/middleware.go`, `internal/ratelimit/middleware.go` | the id counter | recovery, id, logging, CORS, auth, limit, metrics |
| main | `cmd/gateway/main.go` | the goroutines | startup, upstream watcher, shutdown |
| ADK pipeline | `adk/agents/orchestrator.py`, `adk/config.py` | `PipelineState`, the workspace, git | agents with retries, test loop, review loop, commit |
| LLM client | `internal/ai/brain.go` | none | `GenerateCompletion`: DeepSeek, then Gemini, within the caller's deadline; canned answers without a key |
| authentication | `internal/auth` | revoked tokens in Redis with TTLs | bearer token, blacklist, parse; `Revoke` |

How they interact. A request runs through the chain on a goroutine of its own
and shares with the others the limiter, the metrics and the policy cache. The
analyzer and the healer read the metrics on tickers, and start goroutines that
ask the LLM and write to etcd. etcd calls back through watches: policies into
every node's cache, `/zengate/upstream` into every node's proxy. Redis runs the
limiter's script atomically, for all nodes at once. main stops the agents, one
after the other, before it drains requests.

What is hard about them, and what makes each part correct:

- *Limiter.* Timestamps are taken on the nodes, before the script runs, so
  scripts run late, out of order and with clocks that disagree; requests under
  different policies share one log; a reply may be lost after the script ran.
  Correct: a bound on what is admitted that survives all this, and no denial
  without cause.
- *Metrics.* Counters are created lazily under two locks, while readers load
  them. Correct: nothing is lost or counted twice, readers never see a counter go
  back, and nobody waits for good.
- *Policies.* Read and watch are two steps; watches close and reopen; several
  writers do not coordinate. Correct: a cache is one past state of the store, it
  does not go back, and it catches up.
- *Lookups.* A request ranges over the cache while the watch loop changes it, and
  the cache trails the store. Correct: what is enforced was stored at some time of
  the lookup, and the default applies only where no policy was there throughout.
- *Scaling.* Every anomaly starts a goroutine that nothing waits for; the fallback
  model shares the first one's deadline. Correct: the goroutines under way are
  bounded, a new level of traffic stops being an anomaly, and an answer is lost only
  to the clock.
- *Revocation.* Lookup and parse are two steps with two clocks; a TTL may run out or
  be replaced. Correct: a token that is revoked for its lifetime stays out.
- *Failover.* Two loops, a goroutine per recovery, an LLM and an etcd that may
  fail, watches per node. Correct: one recovery at a time, nodes agree, a dead
  primary is left.
- *Gateway.* Early returns and panics unwind through layers that keep accounts;
  the shutdown waits for loops that wait for a lock. Correct: every answer is
  accounted for, every request is answered, none gets to the limiter or the upstream
  without a good token, the process ends.
- *Pipeline.* Nested loops with `else`, `continue` and `break`, each call retried,
  one shared workspace. Correct: bounded work, no stale files under test, no way
  to the commit past failing tests.

`PROJECT.json` lists every component with what is not modelled of it, and under
`hazards` what can go wrong in this code that a test would hardly reach, each at
its line.

## 2. The modules

| module | models | notes |
|---|---|---|
| `SlidingWindow` | limiter and script | one action per outcome of each Redis call |
| `SlidingWindow_proofs`, ... | | theorems about the module of that name: see section 4 |
| `TokenBucket`, `FixedWindow`, `Clock` | the two other limiters | |
| `Limiters` | composes them | a process uses one, chosen at startup |
| `TokenCheck` | middleware, validator and blacklist of `internal/auth` | Redis's clock and a node's |
| `Brain` | `GenerateCompletion` | providers are external; time is counted down |
| `Analyzer` | history of rates, 3-sigma rule | integers |
| `Autoscaler` | the ticker and the scaling goroutines | over `Analyzer` and `Brain` |
| `TimedParts` | puts `Limiters`, `TokenCheck` and `Autoscaler` side by side | one of them per behaviour |
| `Metrics` | collector, step by step | implements `MetricCounters` |
| `MetricCounters` | what the collector promises | abstract specification |
| `MetricKeys` | `normalizePath`, `isLikelyID`, keys and labels | operators on token sequences |
| `MeteredRequests` | `Metrics` with the keys of `MetricKeys` | |
| `PolicyHistory` | what etcd holds after a number of writes | operators |
| `PolicyStore` | etcd, caches, watches, writers, lookups | implements `PolicyFollower` |
| `PolicyFollower` | what a node promises of the policies it enforces | abstract specification |
| `SelfHealer` | healer, upstream watchers, proxies' targets | the brain is any answer |
| `Gateway` | chain, proxy, metrics' totals, agents' loops, main | the limiter's verdict is any; the metrics' lock is one bit |
| `RequestIds` | the id counter | loads and stores |
| `Pipeline` | `Pipeline.run`, `_run_with_retry`, `_finalize` | |
| `MC*` | | values of constants for TLC, and symmetry |

State and actions correspond to the code as follows.

**SlidingWindow.** `log[c]` and `expireAt[c]` are the sorted set `zg:rl:<c>` and
its TTL, `clock` is Redis's. An entry is written as the request that made it; its
score is that request's `now`, its member `<<now, Suffix[r]>>` as in
`sliding_window.lua:25`. `Begin` reads the node's clock, which may be `Ahead` of
Redis's; a pending call's timestamp is never older than `Lag` when its script
runs (`Tick` waits for it: a bound on delay and skew together). `Execute`,
`ReplyLost`, `NoScript`, `Reload`, `NoScriptAgain` and `RedisError` are the
branches of `Allow`. `logged` is history.

**TokenBucket, FixedWindow.** `Allow` holds the mutex, and Redis runs the script,
from start to end: one step each. Floats are integers of `1/Unit` token. `Check` is a
call of the fixed window that returns what the script found (`verdict`), `ReplyLost`
one whose `Eval` reports an error after the script ran, which is let through and
counted, `FailOpen` one whose script did not run. In both Redis limiters a command is
sent once: the retries of go-redis after a lost reply, whose number is the library's
default, are left out, and with them a call counted twice.

**Metrics.** `stage[r]` is the map request `r` is at, `pc[r]` where it is in
`getOrCreate...` and `Add`. `writer` is the goroutine that waits for or holds the
write lock: from `Lock()` on new readers wait, as in Go's RWMutex. The order in
which a map is walked is free. `Panic` is `latencyCount[key].Load()` on a missing
key, after which the reader stays in `reading`.

**MetricKeys, MeteredRequests.** A path is a sequence of segments, of which the code
looks at length, digits and hyphens; text is a sequence of tokens, the colon among
them. `CounterKey` and `LatencyKey` are the two `Sprintf` calls of `RecordRequest`,
`Labels` the `SplitN` of the scrape. The instance names the keys; `RequestTypes`
says what the data of requests are (a method and a status have no colon or slash in
them, a segment no slash), and `KeysOfRequests` that the texts of the keys are what
the code computes. They are hypotheses of the theorem about scrapes, and `MCMetrics`
lets TLC evaluate that its requests satisfy them. What is an ID is what `isLikelyID`
takes for one, be it a UUID or a long hyphenated slug, and a segment that is `:id` to
the letter goes with them (`SameRoute`). A scrape cuts `GET:/users/:id:200` at its
first two colons and prints path `/users/` and status `id:200`: that happens to every
path with an ID or another colon. `LinesMeanRequests` asks for right labels only where
there is none.

**PolicyStore.** `history` is the sequence of writes and its length etcd's
revision. `Start` is `Get` and the fill of the cache; `OpenWatch` is the call of
`Watch`, a step of its own; `Deliver` one event; `Stop` the end of the process at
any point. `ScaleRead` and `ScaleWrite` are `executeRateLimitScaling`'s Get and
each of its Puts. `synced` and `gap` are history: which prefix of the writes a
node has seen, and whether it missed one. `Seek` is a request that enters
`GetMatchingPolicy`; `sync.Map.Range` comes by each ID at most once and may see any
mapping the ID had since it began, which is what `offers` collects and `Visit`
chooses from; `Default` is `getDefaultPolicy`. One lookup per start of a node is
modelled; lookups do not change anything another one reads. An ID keeps its path,
method and tier (`Routes`).

**PolicyFollower.** A node follows a revision, has lost a change, runs without
policies, or is down. `Load` takes the newest contents, `Advance` the next, `Lose`
needs a change the node has not shown, `Drift` never goes back to an older version.
`PolicyStore` implements it with `synced` as the revision followed, `gap` as lost,
the phase `static` (a node whose `Start` failed) as without, and the cache as shown.

**Brain, Analyzer, Autoscaler.** `doing[g]` is where goroutine `g` is in
`queryAIAndScale` and `GenerateCompletion`, `left[g]` the time its deadline leaves.
`ProviderAnswers` may come at any moment after the request, `DeepSeekFails` too, or
DeepSeek is silent until the deadline. Gemini, when it works (`works`), answers
within `Latency`. `Elapse` is time: it waits for ticks and deadlines that are due.
`Sample` is a turn of `runLoop` with `analyzeTPS`; `Scale` to `Scaled` is
`executeRateLimitScaling`. A rate is a number of requests per interval, and
`mean + 3 * stdDev` is compared after squaring, without rounding: a rate the code's
floats put exactly on the threshold may fall on either side there.

**TokenCheck.** `LookUp` is `IsRevoked`, `Parse` the rest of `Validate`: a step of
its own, at a time of the node's clock, which may be up to `Behind` late. `goneAt[t]`
is when the key of a revoked token runs out. A `Revoke` that returns an error took
effect before, or does not at all. Nothing in the repository calls `Revoke`, so its
TTL is any. A nil blacklist is one that is never written.

**TimedParts.** These parts and the two simple limiters decide by a clock and share
no state. A behaviour is one of its parts alone; what a product would add is only
interleavings of steps that do not see each other.

**SelfHealer.** `Interval` is one turn of `runLoop` with `evaluateHealth`;
`recovery[n][w]` a run of `queryAIAndRecover`; `Put` is `executeFailover`
followed by the deferred reset; `pending[n]` the events of a node's watch. A Put that
times out takes effect at once (`Put`) or never (`PutFails`). The brain may advise any
value that is not empty, one of `Garbled` too, which `url.Parse` rejects: it is put
and delivered, and each node skips it (`After`). `total` and `failed` are the counts
since the last turn, as the code computes them from two snapshots of
`requests_total`. `Begin` and `Finish` are a request that straddles a failover;
`ClientLeaves` one whose client goes away, which the proxy's error handler counts as a
502 whatever the upstream does; `Elsewhere` one that never goes to the upstream
(health checks, scrapes, the policy API), which `MetricsMiddleware` counts with the
others. `proxied` is history, the requests to the upstream. A recovery starts in the
first worker that is free (`FreeWorker`), for goroutines have no names. The healer's in-memory path for a nil etcd client is left out.

**Gateway.** `Layers` is computed by `Chain` as the code computes it: a loop from
the last middleware to the first, here a recursive function of the index. `pos[r]` and
`dir[r]` say in which layer a request is and whether on the way in, in the proxy,
panicking, or on the way out. `Return` is a layer's code after `next.ServeHTTP`;
`Recover` skips every layer inside the one that recovers. `sent[r]` is the first
status written. `jammed` is the metrics' lock held for good, after `ScrapePanics`;
from then on recording, scraping and the agents' samples wait. (The readers that
still get through until the recording request asks for the write lock are left
out: they only delay the same end.) Handlers panic in the scrape and in the copy of a
body; other handlers and layers have no panic of their own in the model.
`main.go` calls `auth.NewJWTMiddleware`, which the auth package does not have; the
layer modelled is the one it has, `AuthMiddleware`. `context[r]` is what it leaves in a
request's context: the identity under `IdentityKey` (whose text is that of
`UserIdentityCtxKey` in `context.go`, of the same type). The limiter reads
`ClientIDCtxKey`, which `context.go:14` declares and only `WithIdentity` sets, a
function that nothing calls: `Judge` finds no client there and takes "anonymous".

**RequestIds.** `requestIDCounter++` is a load and a store; the id then takes the
time and loads the counter again. Values of the race other than those of some
interleaving of these steps are left out.

**Pipeline.** `stage` is the place in `run`; `tries`, `attempt` and `iteration`
the loop indices. A file is `good` or `bad` for `go test` of its package; an
absent file does no harm. `disk` is the workspace and `index` what git has. The
clean-up before an attempt does not look at what git returns: any `git checkout` may
fail and keep its file, any `git ls-files` fail and have its file deleted
(`Cleaned`). `spoiled` is history, the files this happened to; `CleanSlate` is about
the others.
Wherever the code catches an exception, the model has a step for it.

## 3. What is checked

Every run lists in `PROJECT.json` the properties of its `.cfg` and, for each, a
mutant: a definition changed as a plausible bug would change it, under which TLC
finds the property violated.

| run | instance | shows |
|---|---|---|
| `sliding_window` | 3 calls, 1 client, 2 policies (a short and a long window), `Lag = Ahead = 1`, clock to 6 | `SpanLimit`: no span that leaves `Lag + Ahead` free in every window has more than `Cap` logged requests; `ForgottenOnlyWhenOld`: neither purge nor TTL forgets too early; `NeverDeniedEarly` |
| `limiters` | 2 clients, capacity 2, 4 grants each; 5 calls, limit 2, window 2; clock to 6; 1 check, 2 tokens, 3 TTLs; 3 scaling goroutines, 4 rates, a history of 6 | the bucket grants exactly what `WithinBudget` permits; what the fixed window's script allows stays below twice the limit in any window of time, and denials need a window it filled, lost replies included; a token revoked for its lifetime is not admitted (`RevokedStaysOut`); a level that a tenth of the history has reached is no anomaly (`UsedToLevel`); a working fallback is lost only to the time the first model used (`LostOnlyToTheClock`); scalings overlap twice at most (`OverlapBounded`) |
| `metrics` | 3 requests, two for one route, 2 keys per series, one reader that reads twice | `HeldIsMapped`; a line of a scrape counts exactly the requests of its method, route and status (`LinesMeanRequests`); refinement of `MetricCounters`; totals never go back; everything is recorded unless a scrape panics |
| `policies` | 1 node, 2 policies, 2 scalers, 3 writes, requests that one or both policies fit | a cache without a gap is one past state of etcd; no version goes back, gap or not; limits grow at most as often as scalers ran; what a lookup enforces is true of the store (`LookupTrueOfStore`); nodes in sync converge; refinement of `PolicyFollower` (`FollowsStore`) |
| `healer` | 2 nodes, 1 healer, 2 targets and a value that is no URL, 2 requests per interval, 2 undelivered events | one recovery at a time with its flag; drained nodes agree; a dead primary is left when enough requests go there |
| `gateway` | 2 requests of every kind, 2 clients, 2 agents | only requests with a good token get past the auth layer; counters match the answers; every finished request was answered; the process ends unless the lock is jammed |
| `pipeline` | 2 files, 2 retries, 2 runs | bounded work, clean slate, commit only past the gate, every run ends |
| `shared_log` | 3 calls, 2 policies, perfect clocks | *violation*: a policy's limit is not kept in its window when a client also matches a policy with a shorter one |
| `metrics_wedged` | 2 requests, 1 scrape | *violation*: a scrape that panics with the read lock stops recording for good |
| `watch_gap` | 1 node | *violation*: a watching node may stay on an old policy for good |
| `request_ids` | 2 requests | *violation*: two requests get one id |
| `untested_docs` | 1 file, 1 run | *violation*: DocWriter follows failed tests |

The five violations are disagreements between the code and what its comments and
documents say; `PROJECT.json` quotes each line under `findings`.

**Why the bounds are enough.** `sliding_window`: a limit of at most two, three calls
and two windows are the least with which one call can purge what another has to
count and a third be let in or denied; the clock runs past the longer window.
`limiters`: the code's times are multiples of 5 s, so
that is the unit of the analyzer's part: a deadline of 2, a scaling of 1, a ticker
of 2 that is taken on time (`Jitter = 0`); a third goroutine would be the violation.
Four rates and a history of six (60 in the code) give escalating anomalies, one
after the other, also while the history rotates; `MinHistory` is the code's 5. A
token that expires and one that never does, a TTL shorter than the token's life and
one longer, meet a clock that is one late; one request is enough, for requests do
not see each other. The calls of the fixed window are numbered as they run.
`metrics`: a lost increment needs two creators and a reader, a wedge one of each;
the third request finds the lock taken. `policies`: every interleaving of two
writers with a load, a watch, a gap and a restart takes three writes or fewer: two
scalers that read one policy and both write it back, or a policy that is saved and
deleted while another is put in its place under a lookup.
Nodes do not talk to each other there, so one is enough. `healer`: a second
node is needed for agreement, a second worker to see two recoveries; two pending
events can be reordered, or be a target and a value that is skipped. One healer puts
its values one after the other; to the nodes the Puts of several healers look the
same, and the theorem `NodesAgree` is about any number of healers. With two requests
an interval may have too few, be of proxied requests only, or be half of requests
served elsewhere, which keeps the rate below the limit of 60. `gateway`: a jam needs a scrape and a recording request; all
other accounts are sums over requests. `pipeline`: two values of every loop index
reach the first, the last and the branch between; a second run sees what a first
left. `MaxClock`, `MaxCalls`, `MaxRevision`, `MaxTraffic`, `MaxPending`, `Rounds`,
`MaxRuns`, `MaxMs` and the number of workers are the bounds; each stands in a guard
and is named in its module. Deadlock is checked in
`policies` and `healer`, whose processes can always go on; the others stop when
their bounds are used up or main ends.

**Fairness.** None where only safety is checked. `Metrics`: goroutines that can
run do run; nothing makes a reader start. `PolicyStore`: the watch loop and etcd's
delivery go on. `SelfHealer`: watch, brain (10 s timeout) and etcd (5 s) go on;
strongly fair are an advice for another target and a Put of one, each if it is
possible again and again: without them the LLM may refuse for ever, and the code
promises nothing. No fairness for traffic and ticker: `LeavesDeadPrimary` has as its
premise that again and again an interval ends with enough requests, enough of them to
the upstream (`Telling`). `Gateway`: only the
agents' loops and main; of requests nothing is assumed, the shutdown deadline
(30 s) covers them. `Pipeline`: agent calls (300 s) and go test (60 s) have
timeouts, so `Step` is weakly fair.

## 4. What is proved

`SlidingWindow_proofs` proves, for all requests (finitely many), clients,
policies, limits, windows and clock bounds:

- `TypeCorrect`: `Spec => []TypeOK`.
- `LogsForgetOnlyOld`: `Spec => []ForgottenOnlyWhenOld`, assuming `DistinctSuffixes`.
- `SpanLimitHolds`: `Spec => []SpanLimit`, assuming `DistinctSuffixes`.
- `DeniedOnlyAtLimit`: `Spec => NeverDeniedEarly`.

The argument. `SpanLimit` is not inductive: a script counts what is in the log,
and the bound is about everything that was ever logged. What joins the two is
`ForgottenOnlyWhenOld`: whatever is missing from the log is older than `Span + Lag`
by Redis's clock, so no timestamp that a script can still come with has it in its
span. That, in turn, needs `Timely` (a pending timestamp is within `Lag` and
`Ahead` of the clock, which `Tick` keeps) and `OwnLog` (a log holds only its
client's requests). The inductive invariant is

    IInv == TypeOK /\ Timely /\ OwnLog /\ ForgottenOnlyWhenOld /\ SpanLimit

The step that matters is one run of the script (`RunScriptEffect`,
`ScriptForgetsOld`, `ScriptKeepsSpanLimit`), shared by `Execute` and `ReplyLost`;
all other actions leave the logs alone (`QuietStep`) or move the clock. Counting
is done with the library's facts on finite cardinalities: the requests of a span
are among those the script counts (`RecentIsCounted`), of which there are fewer
than the limit.

`DistinctSuffixes` says that `math.random()` never draws the same number twice.
It is an assumption about Redis, not about this repository; if two requests of the
same millisecond draw the same suffix, the second replaces the first's member and
the log counts one of them. The other assumptions are those of the module
(`FiniteRequests`, `PolicyTypes`, `TimingTypes`, `SpanFits`), which the runs
`sliding_window` and `shared_log` evaluate.

`Metrics_proofs` proves, for all requests, readers, keys and amounts:

- `TypeCorrect`: `Spec => []TypeOK`.
- `HeldCounterIsMapped`: `Spec => []HeldIsMapped`.
- `TotalsOnlyGrow`: `Spec => TotalsNeverGoBack`.
- `ImplementsCounters`: `Spec => CountersImplemented`, the refinement of
  `MetricCounters`.
- `TotalsAreRequests`: `Spec => []Tallied`, assuming that each request adds 1 to its
  total, as `RecordRequest` does: the total of a key is at every moment the number of
  requests that were added under it. It follows from the refinement, one `Count` at
  a time.
- `ScrapedLinesMeanRequests`: `Spec => []LinesMeanRequests`, assuming the same,
  `RequestTypes` and `KeysOfRequests`, for any paths.
- `PanicFreezesMaps`: `Spec => MapsAreGuarded`. Only the one writer maps a counter, and
  only while nobody reads; a scrape that panicked keeps its read lock for good, and
  with it no map changes any more.

The argument. Two facts hold of every step: a counter that is mapped stays where
it is (`StepKeepsTable`, from Create's second look), and no counter is reduced
(`StepGrowsValues`). A request between `getOrCreate...` and `Add` therefore keeps
holding the mapped counter, and what a reader saw stays below what its counter
has (`SeenBelow`). The refinement needs two facts more: a mapped counter was
allocated for the very series and key it is mapped at (`AddressFits`), so that one
`Add` changes one total; and a counter that is not mapped is zero
(`UnmappedIsZero`), so that a `Create` changes none. The inductive invariant is

    IInv == /\ TypeOK /\ StageFits /\ HeldIsMapped /\ AddressFits
            /\ UnmappedIsZero /\ LeftMapped /\ SeenBelow

and the step to `MetricCounters` is `AddCounts` (an `Add` is a `Count`) and
`CreateCountsNothing`; every other action leaves maps, counters and stages alone.
The assumptions are the types of the module's constants, which the runs `metrics`
and `metrics_wedged` evaluate. All of it is about `Spec`, panics included: a
panic stops requests and loses none that was counted.

For `ScrapedLinesMeanRequests` the total of a key is the number of its requests by
`TotalsAreRequests`; what remains is that equal texts mean equal method, route and
status (`OneKeyOneLine`). A text with a separator in it is cut in one way only at the
last one (`LastSeparator`). A status has no colon and a segment no slash, so the
status comes off first and then, by induction along the path, one segment after the
other (`OneTextOneRoute`); two segments come out as one text when they read as IDs or
had one text before (`SameBody`). The converse is `OneRouteOneText`. That the scrape
reads back a path without a colon is `PlainLabels`: it cuts at the first two colons,
and such a key has just two.

`PanicFreezesMaps` rests on `LockFits`: the writer that holds the lock is alone with
it, and only it is past `Lock()`.

`PolicyStore_proofs` proves, for any nodes, policies, limits, scalers and number of
writes:

- `TypeCorrect`: `Spec => []TypeOK`.
- `CachesAreSnapshots`: `Spec => []CacheIsSnapshot`.
- `LookupsAreTrue`: `Spec => []LookupTrueOfStore`.
- `CachesOnlyAdvance`: `Spec => CacheNeverRegresses`.
- `ImplementsFollower`: `Spec => FollowsStore`, the refinement of `PolicyFollower`.
- `GrowthIsBounded`: `Spec => []GrowthBounded`.

What etcd holds is read from its history, so the first lemmas are about `At`: a
later write leaves earlier revisions alone (`AtKept`), and the next write changes
what is under its own ID and nothing else (`AtNext`). Hence one `Deliver` takes a
cache without a gap from one revision's contents to the next (`DeliverAdvances`).
The inductive invariant is

    IInv == /\ TypeOK /\ PhaseFits /\ CacheFits
            /\ CacheIsSnapshot /\ LookupFits /\ LookupTrueOfStore

`PhaseFits` says that a watch without a gap has delivered just what the node has
seen, which `CacheIsSnapshot` does not know by itself. `CacheFits`, no policy is
newer than its watch's position, is what keeps a node *with* a gap from going back.
`LookupFits` is about lookups under way: what `Range` may still meet was stored
since the lookup began, and a fitting ID it passed over was missing at some moment.
In the refinement a step of a node changes what is shown of that node only
(`ShownByStep`), and each of its kinds is one step of `PolicyFollower`
(`NodeStepFollows`). For `GrowthIsBounded` the invariant `GrowthFits` adds the limits
the scalers hold: once scaled they are within the bound too, for the scaler that
read them counted as one more scaling when it did. `tlapm` does not know `^`; the
bound is written with the recursive function `Growth`, and `GrowthLaw` proves its law
of powers, that one scaling more is one factor more.

`SelfHealer_proofs` proves, for any nodes, workers, targets and statuses:

- `TypeCorrect`: `Spec => []TypeOK`.
- `OneRecoveryAtATime`: `Spec => []SingleFlight`.
- `NodesAgree`: `Spec => []DrainedNodesAgree`.

`DrainedNodesAgree` is strengthened to `HeardLast`: the events a node has still to
deliver lead its target to the last failover (`LeadsTo`): the last of them that is a
URL is that failover, or none is and its target is. A delivery takes the head off
(`TailLeads`), a Put appends (`AppendLeads`). `SingleFlight`
counts the workers that are busy; `OneRecovery` says it without cardinalities, with
the flag. That an answer of the brain cannot be mistaken for a worker's state is
part of the assumption `ValuesApart`.

`Limiters_proofs` proves, for any capacity, rate and unit, any limit and window,
clients, calls and clock:

- `BudgetIsKept`: `Spec => []BudgetKept`, and `DenialsAreDue`:
  `Spec => DeniesOnlyOverBudget`.
- `BurstStaysBelowDouble`: `Spec => []BurstBelowDouble`, and
  `DenialsFollowAllowedCalls`: `Spec => DeniedOnlyInFullWindow`.
- `TypesHold`: the types of both.

The budget is a statement about all stretches of granted calls, the bucket only
about now. `BucketInv` balances the two at the last refill: whatever stretch ends
there, the calls in it and the tokens left are covered by a full bucket and the flow
since (`Covered`), and for some stretch exactly so, or the bucket is full
(`Lossless`). The first gives `BudgetIsKept`, the second that a denial was due.
`WindowInv` says that the counter is the number of calls the script has allowed since
the window opened, up to the limit, whether their replies arrived or not (those whose
reply was lost were let through); that a call was allowed at the moment it opened; and that
the stretch of one window's length before that holds fewer than the limit, since it
begins after the call that opened the window before. A burst is a part of that
stretch and of the window: fewer than twice the limit.

`TimedParts_proofs` proves of `TimedParts`, for all the constants of its parts:

- `RevokedTokensStayOut`: `AllSpec => []RevokedStaysOut`. `CheckInv`: the key of a
  banned token outlasts it, and a warned request that is past its lookup got there
  because the key had run out, after the token.
- `AnswersAreLostToTheClock`: `AllSpec => []LostOnlyToTheClock`. `ClockInv`: a
  Gemini that works has not been waited for beyond its latency.
- `OverlapIsBounded`: `AllSpec => []OverlapBounded`, for any deadlines, interval and
  jitter. The goroutines under way began at different ticks, and one that began `n`
  ticks ago has that much less time left: `StartedAt(tick)` assigns the ticks, and
  an assignment that tells goroutines apart bounds how many there are.
- `AnalyzerGetsUsed`: `AllSpec => []UsedToLevel`, for a history of any length and any
  rates. This is Cantelli's inequality for the rule. Take `N` rates of sum `S`,
  `a = N t - S`, by which `t` is above their mean, and `b = a - 9 S`. A rate `x` adds
  `(9 N x + b)^2`, which is never negative and at least `100 a^2` when `x` has reached
  `t` (`SquaresOutweigh`); summed over the prefixes of the history and with a tenth of
  the rates at `t`, that leaves `a^2` within nine variances (`TenthIsNear`).
- `AllTypesHold`: `AllSpec => []AllTypeOK`.

`Pipeline_proofs` proves, for any files, `max_retries` and number of runs:

- `TypeCorrect`: `Spec => []TypeOK`.
- `WorkIsBounded`: `Spec => []WorkBounded`. `WorkFits` gives each stage the results
  it may have by then, from the loop indices.
- `SlateIsClean`: `Spec => []CleanSlate`. `SlateFits` says what the workspace
  may hold before each attempt: up to the first review, what the run has not written
  is as it found it.
- `CommitsArePastTheGate`: `Spec => []CommitPastGate`. `GateFits` says it of every
  stage after the first test loop.

`Gateway_proofs` proves, for any number of requests, clients, agents and statuses of
the upstream:

- `TypeCorrect`: `Spec => []TypeOK`.
- `OnlyKnownRequestsPass`: `Spec => []OnlyBearersPass`.
- `EveryAnswerIsCounted`: `Spec => []CountsMatchAnswers`.
- `EveryRequestIsAnswered`: `Spec => []DoneIsAnswered`.

First, `LayersInOrder`: what `Chain` computes is the sequence of layers one expects,
so that `pos[r]` tells the layer (`LayerAt`). The inductive invariant is

    IInv == /\ ProcessTypes /\ RequestTypes
            /\ \A r \in Requests : Placed(r) /\ Judged(r) /\ Limits(r)
            /\ Tallied

`Placed` says what a request has by the layer it is in; `Judged`, that behind the
auth layer it has a good token and its context the token's bearer; `Limits`, which verdicts go with a
panic and with a 429. `CountsMatchAnswers` speaks only of moments without a request
under way; `Tallied` says at every moment which requests are in the counters: those
that came out of the metrics layer, and those the limiter turned back. A step moves
one request and counts nothing (`QuietStep`), but for `Deny` and `Return` from the
mux, which add that request to the sets that are counted. The module assumes that
`Requests` is finite (`RequestBound`) and that the upstream's statuses are HTTP's
(`StatusCodes`): 0 stands for none.

TLC found these invariants to hold on the instances of section 3, where the ticks of
`StartedAt` are taken from a bounded range. All assumptions on constants are named in
the modules and evaluated in their runs.

`Total`, `Growth` and the flattening of paths are recursive functions over numbers.
What such a function computes is proved by induction: lemma `Inductive` says that a
set of numbers that has 0 and, with each of its numbers, the next one has all of them,
by a least counterexample (`WellFoundedInduction`), and a solution of the recursive
equations is built the same way (`GrowthExists`, `RunningSum`), so that the function
is one.

Only model-checked: liveness (`SyncedConverge`, `LeavesDeadPrimary`,
`StopsUnlessJammed`, `RunsEnd`, `RecordedUnlessPanic`). It needs fairness and ENABLED,
which TLAPS does not reason about. Every invariant and every action property of the
passing runs is a theorem.

## 5. Not modelled

- `internal/brain`: a second LLM client that only its own test imports and whose two
  files declare the same names, so that it does not compile.
- Configuration: environment variables, read once, each with a default; the check for
  an empty upstream cannot fail, as the default takes its place.
- The health endpoint: read-outs, and a connection counter that the program never
  increments.
- Prompts and model selection of the ADK agents, load tests, deployment.

Within the modelled parts: contents of requests and responses, roles and tenants of
an identity, signatures, policies whose ID changes its path or tier, Redis's
eviction, git branches, main's startup, and the cache-only mode for a nil etcd
client, which main never runs in. `internal/auth` as it stands does not compile
(`auth.go` and `context.go` both declare `contextKey` and `FromContext`) and does not
have what main calls (`auth.NewJWTMiddleware`): `TokenCheck` models its validator,
blacklist and middleware, and `Gateway` its middleware in the chain.

Behaviour the models show, that no document of the repository speaks of: a DeepSeek
that hangs uses up the time of the fallback (`brain.go:43-53`); a client that goes
away counts as a failure of the upstream (`proxy/handler.go:53`); a scaler puts back a
policy that was deleted since it read it (`analyzer.go:221`); when one fitting
policy replaces another during a lookup, the lookup may find neither and enforce the
tier's default, although some fitting policy was stored at every moment
(`client.go:132`).

Behaviour the models show, that disagrees with what the repository says, and that no
run is about:

- The labels of a path with an ID: `GET:/users/:id:502` is printed with status
  `id:502`, which the dashboard's `status=~"5.."` (`zengate.json:167`) never matches,
  although the key is called "method:path:status" (`metrics/handler.go:21,88`).
- The failure rate is that of all requests (`healer.go:99`), of which only 500, 502 and
  504 count as failed; "Upstream returns 5xx > 5% in 30s" (`AI_ZenGate.md:3619`) may
  hold without a recovery. `LeavesDeadPrimary` says what is left of it.
- Every request is judged as "anonymous" (`auth/middleware.go:32`), although
  `ClientIDCtxKey` is "required by ratelimit middleware" (`auth/context.go:13`).

## 6. Plan

Done: the limiters, the metrics with their keys, the policy store with lookups and
its abstract specification, failover, the gateway, authentication, the analyzer and
the LLM client, the pipeline; proofs of all safety properties the passing runs check.

Left: a composition of `PolicyStore` and `SlidingWindow`, in which a call's policy is
what its node's cache holds.
