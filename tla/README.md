# torrent-http-proxy in TLA+

torrent-http-proxy is an HTTP proxy that stands between clients and the pods
of a Kubernetes cluster that stream torrent content. For every request it
verifies a token, decides whether the session may have one more request,
finds the pod that is responsible for the torrent, proxies the response (and
reconnects to another pod when the connection breaks), throttles it to the
session's rate, and records a line of statistics.

This directory holds TLA+ modules for the handling of a request and for the
parts of it that are concurrent, time-dependent or fail in stages, TLC configurations that check them on small
instances, and TLAPS proofs for the results that matter most. Paths below are
relative to `services/` of the repository; line numbers are in
`PROJECT.json`, under `map`.

## Inventory

| Component | State | Operations | Interacts with | What is hard about it |
|---|---|---|---|---|
| `SessionLimiter` (session_limiter.go) | map of session states: total, per-path counters and IP windows, per-torrent sets of big files | `Acquire`, its release closure | called by `Web` for every external request; reads `FileSizeCache` | counters are checked and added to separately; session states are deleted while in use |
| `FileSizeCache` (file_size_cache.go) | bounded map file -> size | `Get`, `Set`, `SizeFromHeaders` | fed by `HTTPProxy.modifyResponse` | sizes from responses that are not the file, or only a part of it |
| `HybridBucket` (hybrid_bucket.go) | local tokens, Redis health, one bucket in Redis shared by all proxies | `Wait`, `refillFromRedis`, the Lua script, `probeRedis` | `ThrottledResponseWriter.Write` calls `Wait` | parallel writers of a session, several proxies, calls that time out but still ran, clocks |
| `ClickHouse` (clickhouse.go) | batch of records, two mutexes, a once | `Add`, `store`, `Close` | `Web` adds one record per request | batch read without its mutex, stores that fail or overlap, shutdown |
| `retryTransport`, `retryingReadCloser` (retry_transport.go) | offset, retries, open body | `RoundTrip`, `Read`, `Close` | `ServiceLocation.GetFallback` for the next pod | where to resume, when a loss is really the end |
| `ServiceLocation`, `ProbeChecker`, `EndpointIgnoreList` (service_location.go), `Resolver`, `k8s.Endpoints`, `k8s.NodesStat` | four caches with their own lifetimes | `Get`, `GetFallback` | called per request and per reconnect | answers composed of facts of different ages; integer division of the hash line |
| `HTTPProxy` (http_proxy.go) | cache of reverse proxies | `Get`, redirect following, response hook | resolves with `ServiceLocation`, reads through `retryTransport`, feeds `FileSizeCache` | bodies on every exit of the redirect loop; a proxy found in the cache may be for an earlier location |
| `Web` (web.go) | a gauge | `Serve`, `proxyHTTP` and its deferred calls | composes everything; services call it back | a dozen exits, each with something to give back; nested calls of one session |
| `Claims` (claims.go) | - | `Get` | first check of `Web`; its rules go to the response hook | tokens that expire, or belong to another torrent or address |
| `ResponseWriterInterceptor`, `ThrottledResponseWriter` | status and bytes of a response | `WriteHeader`, `Write` | `Web`'s statistics, `HybridBucket` | what is noted against what is sent |
| `URLParser` (url_parser.go), `ServicesConfig` | names of services | `Parse` | `Web`; a service's input URL is parsed again | file names that look like services |
| `Rules`, `ManifestRewriter` | - | `RewriteManifest` | `HTTPProxy.modifyResponse` | segments at the edge of the grace period, broken playlists |
| speed test (speedtest.go) | - | a stream of zeros | a handler of `Web` | - |
| `k8s.Client`, `AccessHistory`, configuration and main | little or none | - | - | - |

What makes each modelled component correct:

* the limiter gives back exactly what it took, refuses only with reason,
  forgets idle sessions, and keeps to its configured limits;
* the size cache makes a big file look light only where the output of a
  service was filed under the file's key;
* the bucket neither loses nor invents tokens, draws from Redis at no more
  than the rate, and lets every writer go on eventually;
* every statistics record is stored once, and a failure does not stop the
  next store;
* a client gets a gapless prefix of what it asked for, and a clean end only
  with all of it;
* a torrent has one pod, requests do not go to pods that died long ago, and
  "unavailable" is said only for lack of pods;
* whichever way a request leaves the handler, its slot, its place in the gauge
  and its upstream bodies are given back; the statistics say what the client
  got; nobody is refused for what its own chain of services asks for, and a
  request whose client left comes to its end;
* the services of a URL are called one after the other, for the same file;
* of the segments that say how long they are, exactly those of the grace period
  get its token.

`PROJECT.json` lists the hazards behind these, each at its line.

## Modules

| Module | Models | Checked by |
|---|---|---|
| `FileSizeCache` | file_size_cache.go, `captureFileSize` | `MCSessionLimiter` (the limiter reads it and its requests feed it) |
| `SessionLimiter` (extends `FileSizeCache`) | session_limiter.go | `MCSessionLimiter`, `SessionLimiterProofs` |
| `ClickHouse` | clickhouse.go | itself, `ClickHouseProofs` |
| `TokenBucket` | abstract: a shared token bucket | refined by `HybridBucket` (`bucket_prompt`, `RedisIsTokenBucket`) |
| `HybridBucket` | hybrid_bucket.go | `MCHybridBucket`, `HybridBucketProofs` |
| `RetryReader` | retry_transport.go | `MCRetryReader`, `RetryReaderProofs` |
| `Distribution` | the pure part of service_location.go, `NodeStat.IsAllowed` | `MCAlgorithms`, `DistributionProofs`, `AlgorithmProofs` |
| `ServiceLocation` (extends `Distribution`) | the rest of service_location.go, `Endpoints`, `Resolver` | `MCServiceLocation`, `ServiceLocationProofs` (extends `DistributionProofs`) |
| `URLParser` | url_parser.go, the URL in `X-Source-Url` | `MCAlgorithms`, `AlgorithmProofs` |
| `ManifestRewriter` | manifest_rewriter.go, rules.go | `MCAlgorithms`, `AlgorithmProofs` (extends `DistributionProofs`) |
| `Web` | web.go, http_proxy.go, claims.go, speedtest.go, response_writer_interceptor.go, throttled_request_writer.go | `MCWeb`, `WebProofs` |

Definitions whose name has a suffix after an underscore
(`Refuse_KeepsSlot`, `BigFull_OffByOne`) are slips a change of the code might
make. They are not part of any specification; `PROJECT.json` pairs each with
a property that fails when it takes the place of the original.

### SessionLimiter

A request is a goroutine with a program counter; one action is one
mutex-protected block or one atomic access of `Acquire` or of the closure it
returns: `GetSession`, `CheckTotal`, `Classify`, `TryAddBig`, `CheckPath`,
`TrackIP`, `AddTotal`, `AddConc`, then `ReleaseConc`, `ReleaseBig`,
`ReleaseTotal` and `Forget`; `Unwind` is `releaseHash()` after a late refusal.
Session states are objects with addresses, because the map forgets a state
while requests still hold a pointer to it: `sessions` maps a session id to
the current address, `obj` is the pointer a request holds. While a request is
served, `Respond` lets the upstream's headers enter the size cache. A file is
an (infohash, path) pair; extensions, subnets and sizes are reduced to sets
and small numbers. Time is a tick; an entry of the IP window is its age.

`SerialSpec` is the same code when no two calls overlap. It separates what
the limiter promises in isolation from what it keeps under concurrency.

### ClickHouse

`Add` appends and replaces the batch under `mux`, but reads `s.batch` twice
without it. The slice header read at the `go` statement consists of words
read separately, so `LoadArray` and `LoadLen` are two actions in either
order, and backing arrays are kept apart from headers. A store goroutine is a
record in `stores` that goes through `waiting`, `locked`, `inserting` and
one of `leaked`, `failed`, `committed`. With `Reliable = FALSE` every call
to the database may fail. `tableOK` says that the table INSERT names exists: `makeTable`
runs CREATE TABLE IF NOT EXISTS, so after it has failed the table may still be
there from an earlier run. A slice longer than what was written has nil
elements; dereferencing one ends the process (`crashed`).

Several adders may be inside `Add` at once, and `Close` may come at any time.
The history variable `calm` tells the executions apart in which they did not:
no two calls have overlapped so far, and `Close` waited for the stores, as the
repository's test does. What the code promises only to callers who take turns
is stated under `calm`, so one specification and one run serve both.

### TokenBucket and HybridBucket

`HybridBucket` has the buckets of one session (one per proxy), the
goroutines in `Wait`, and the hash in Redis. Time is a tick no longer than
the 100 ms timeout of a call. The first critical section of `Wait` is one
action; `Poll` sends the script, `LuaTokenBucket` runs it (up to `Timeout`
ticks after the caller read its clock, also when the caller has given up),
`Answer` and `CallFails` are its two ends, `Recheck`, `Nap` and `WakeUp` the
rest of the loop, `ProbeSucceeds` the end of `probeRedis`. `ledger` is a
history variable: tokens that came in less those of finished writes.

`TokenBucket` is the promise: clients draw at most `Capacity` at once and
`Rate` per tick. `IdealSpec` instantiates it with the accrued value of the
Redis hash as its tokens and the grants of the script as what clients drew.

### RetryReader

Bytes are offsets of the object. `RoundTrip` chooses any response an upstream
may give to the Range header and decides whether and from where the body can
be resumed. A `Read` is split where the upstream decides what happens next:
`ReadData`, `ReadEOF`, `ReadError`, `Reconnect`, `Reread` (the first read of
the new body, whose result the code returns unchanged). `ConnectionLost` may
happen at any time, also after the last byte. A first 206 starts where
it was asked to, or where its `Content-Range` says, may end early (the server
clamps) and may have an unknown length, with or without `Content-Range`. The
206 of a retry starts at the offset asked for and is assumed to end no earlier
than the first response did, but possibly before the end of the object; a retry
at the end gets a 416. `AllRanges` are the Range headers in question; one may select
no byte, which never gets a 206.

### Distribution and ServiceLocation

`Distribution` translates the interval arithmetic with its integer divisions;
`Sorted` gives the order of the sorted slice by rank, the form the proofs count
with;
`MaxPrefix` and `Scale` are 1048575 and 1000 in the code. `ServiceLocation`
has a request resolve (`Get`, `FetchEndpoints`, `GetKubernetes`, `Probe`),
be served, lose its pod and resolve again (`GetFallback`), with pods that die
and start and an endpoints list that follows them with delay. A cache entry
has an age; `Aged` drops it after its lifetime. The lazymap library is
external: a value is computed by one caller while the others wait, and only
the probe cache keeps errors.

### URLParser

A path is a sequence of tokens: the characters the parser looks for and the
words between them. `ModIndex` is the loop of `extractMod`, `OriginPath` the
one of `Parse`, `SourceURL` the path of the header a service is given. The
reference definition is the other direction: `Compose` in `MCAlgorithms` writes
the URL of a file and a list of services (`Served` adds them one by one), and
the calls the proxy gets for it must give the list back.

### ManifestRewriter

A playlist is a sequence of lines of four kinds; `RewriteLine` is one round of
the loop with its two variables, `RewriteLines` what is known after each round.
The reference definition, `GraceManifest` in `MCAlgorithms`, has no such state:
it gives every line its film time (`FilmTime`) and every segment the last
duration given for it (`DurationAt`). A segment without a readable, positive
duration has 0 there and keeps the primary token, wherever it lies.

### Web

A request is in `pc` at the call it makes next: `Authorize`, `CheckTotal` and
`Admit`, `GetBucket`, `GetProxy`, `RoundTrip`, `FollowRedirect` and `Hop`,
`ModifyResponse` and `ReadManifest`, `Copy`, `Granted` and `Write`. From `Admit`
on every exit, panics included, goes through `Return`, and `RunDeferred` takes
the calls from the stack `defers` one at a time. `ServeOther` and
`ServeSpeedtest` are the handlers that end elsewhere. While a pod works on a
request it may call the proxy back (`CallBack`) with the token of the client,
before it answers or while its body is copied; it does not answer while such a
call is under way. A 101 makes ReverseProxy hijack the connection
(`EndUpgraded`): what goes through it is neither counted nor throttled.

`ClientGone` ends the context of a request. The requests made upstream and
their bodies carry this context, so that every wait for them can end with an
error from then on (`ContextDone`); the wait for the bucket does not watch it.
The steps of a handler are of two kinds: `Unaided` ones wait for nobody, or for
something the context has ended; `Await` and the three other steps of `Step`
depend on pods, on Kubernetes, on the bucket or on the client.

The components with modules of their own appear by what `proxyHTTP` sees of
them. The limiter is one count of the session's requests (that its counters
are exact is `AccountingExact`). It is read (`CheckTotal`, session_limiter.go:312)
before it is raised (`Admit`, 342), so requests that overlap there may exceed
the limit; it may let a request pass at the limit, because a session state that
was dropped from the map counts only a part; and the limits per file, big file
and subnet may refuse a request in `Admit`. The bucket is a wait, the location
any pod or none, retries a body that ends or breaks. A reverse proxy is cached
under host and port (`ProxyKey`).

## Runs

Every run is a `.cfg` of the same name. Runs hold unless marked; *violation* runs
check one sentence of the repository's comments, flags or tests and find an
execution of the code that contradicts it (`findings` in `PROJECT.json`
quotes the sentence and explains the execution).

| Run | Bounds | Shows |
|---|---|---|
| `limiter_accounting` | 3 requests, 1 session, 3 session states, 2 files of one torrent, cache of 1, a service whose output is smaller than the threshold | `SlotAccounting`, `BigCapPerState`, `NoSessionLeak`, `RefusalsJustified`; `LightOnlyByService` for the cache |
| `limiter_serial` | 4 requests, 2 files, 2 subnets, window of one tick, no overlapping calls | `TypeOK`, `IPCapPerState`, `RequestLimits`, `BigFilesLimit` |
| `limiter_orphan` (violation of `BigFilesLimit`) | 3 requests, big files only limited | two session states count big files of one session |
| `clickhouse` | 2 adders, batches of 2, 3 records, failing database, `Close` at any time | `TypeOK`, `BatchBound`; while calls do not overlap, `NoDuplicateRows`, `NothingLost`, `StoresCatchUp` |
| `clickhouse_stuck` (violation of `StoreResolved`) | 2 adders, 3 records | an empty batch handed over by the loser of a race leaves `storeMux` locked |
| `bucket_shared` | 2 writers on a bucket, writes of 1 and 3, capacity 2 | `TypeOK`, `OneProber`, `TokensConserved`, `LocalBounded` |
| `bucket_prompt` | 2 proxies with a writer each | `IdealSpec`: the refinement of `TokenBucket`; `WaitReturns` |
| `retry_all` | object of 4 bytes, all kinds of Range (one that starts at the end included), 2 retries | `TypeOK`, `Contiguous`, `EOFMeansComplete`, `CompleteNeverFails`, `StreamEnds` |
| `algorithms` | 6 pods on 3 nodes, 11 prefixes, every subset; URLs of up to 12 tokens; playlists of up to 5 lines | `EvenPartition`, `ExclusionStaysOnNode`; `ChainPeelsMods`; `GraceExact` |
| `location_fresh` | 2 pods, 2 requests for a torrent | `TypeOK`, `NeverLongDead` |
| `location_tries` | 4 pods on 2 nodes, role, preferred local node, prefixes at both ends and a string that is no hash | `UnavailableJustified` |
| `web` | 2 clients of a session that may have 1 request, a service's call, 2 pods on one host, 1 redirect, 1 write, statuses 101, 206 and 302 | `TypeOK`, `HeldWhileServing`, `RecordedAsSent`, `BodiesClosed`, `RightTarget`, `RefusedForOthers`, `GoneRequestsEnd`, `RequestEnds` |

Why the bounds are enough:

* *Requests.* A request of the limiter is a goroutine that serves one request
  after another, so three of them cover histories of many. Three are needed
  for the orphan: one that keeps an old state, one that empties it, one that
  creates the new one. The limits are 1 and 2, so a third request meets each
  of them; `limiter_serial` has a fourth, so that the limits of 2 per file and
  3 in total are met independently.
* *Addresses* of session states: one per request suffices, since a state
  that nobody points at is free again. `limiter_serial` has one for its one
  session: without overlap no state outlives its entry in the map.
* *Subnets.* The concurrent runs leave the IP window out (`MaxIPs = 0`);
  theorem `IPCapKept` covers it for every interleaving.
* *Batches* of 2 with 3 records: a batch fills, is replaced and filled again
  while its store is under way or has failed, `Close` finds a rest, and growth
  of a full slice happens.
* *Tokens.* Writes of 1 and 3 against a capacity of 2 take the fast path, a
  prefetch with surplus, and several rounds of the loop. Ages saturate where
  more time makes no difference (`MaxAge`), so the clock is unbounded.
* *Retries.* Two retries meet a first, a last and a refused one; a 4-byte
  object has ranges with a start, an end, and both, and one with no byte in it.
* *Ages* of the caches in `ServiceLocation` are in ticks of 30 s, in which
  a location (15 s), a probe result and an ignored address (30 s) live through
  one tick and the endpoints (60 s) through up to two. A resolution takes at
  most two queries of 10 s and three probes of 3 s and so sees at most one
  tick. The rounding makes entries live longer than in the code, never
  shorter.
* *Distribution.* Scale 20 and width 200 divided by 1 to 6 pods on 1 to 3
  nodes round on both levels, as 1048575000 does; pods times nodes stay within
  the scale, as the theorems ask.
* *URLs.* A file of up to three tokens has a tilde, a colon, a question mark
  or a slash anywhere; twelve tokens hold two services with paths and extras,
  or three without. Whether a tilde names a service does not depend on what is
  before it.
* *Playlists* of five lines have two segments with durations and a session
  offset in any place, or the same with a line missing, repeated or unreadable.
* *Web.* With one slot the second client is refused, or both get in between
  the check and the count, and the service's call is made at the limit. The
  profiles of the first client are a good token, one of another torrent and one
  used from another subnet; the second has a rate that does not parse, so that
  its requests take a slot and give it back. Every token may also be refused as
  expired. The two pods are two ports of one host, and resolving may give
  either, or none, while a proxy made for an earlier request is still cached.
  Of upstream statuses one is a success, one a redirect, one an upgrade; errors
  of the proxy itself have their own codes. One redirect is a first and a last
  one: a second is not followed. A write is enough: another repeats the loop.

`CHECK_DEADLOCK FALSE` is set for `ClickHouse`, where the process ends, and
for `RetryReader`, where the response ends. In `MCAlgorithms` a state is an
input, and `Stop` stays at it.

### Fairness

Goroutines that can run do run (weak fairness of a store's, an adder's, a
waiter's and a resolution's next step), calls with a timeout end, and the
clock advances. Nothing forces a request to arrive, a connection to break, a
database call to succeed or fail, a ping to succeed or a pod to recover.

In `Web` only `Unaided` steps are weakly fair: a goroutine that waits for
nobody is scheduled, and a wait whose context is done returns. Nothing else is
assumed, because the code bounds no other wait: the transports set neither a
header nor a read timeout (http_proxy.go:43-49, 57-63), the server none
at all (web.go:467), `Wait` of the bucket does not look at the context, and
theorems about it (`WaitReturns`) are for a writer that has the session to
itself. A pod that never answers keeps the request, its slot and its place in
the gauge for as long as the client stays. `GoneRequestsEnd` says that it does
not keep them longer; it needs no help from pods. `RequestEnds` has the
missing part as its hypothesis: if no request waits for ever, every request
ends. `StreamEnds` likewise assumes, by fairness of `ReadStep`, that a read of
a body returns.
Clients that go away, services that call back and the expiry of a proxy are
not forced to happen.

`bucket_prompt` uses `PromptSpec`: scripts run within the tick in which their
caller read its clock, and a ping succeeds only after all waiters that were in
the polling loop at the time of the failure have left it (`PingsLate`): the
first ping is sent five seconds after the failure, while a round of the loop
takes at most 200 ms. `WaitReturns` speaks of a writer that has the session to
itself from some time on: with several the code promises no order between
them, and one may be overtaken for as long as others come.

### Other divergences from comments, flags and tests

Sentences of the repository that hold only with a qualification, met while
modelling. Each can be seen by changing one line of a configuration, or
follows directly from the action named.

* *`max-conc-total` and `max-conc-per-path` are not exact.* session_limiter.go
  loads `total` at line 312 and adds to it at 342 with no lock in between, so
  overlapping requests are all admitted; line 62 says "max concurrent
  requests per session total". (`limiter_accounting.cfg` with invariant
  `RequestLimits`.)
* *The IP window ends with the session state.* `pathState.ips` is deleted by
  the last release (line 352), so a session that is idle for a moment starts a
  new window; line 68 says "within a 60s window". `IPCapPerState` therefore
  speaks of one session state.
* *Output of a service is recorded as the size of its file.*
  http_proxy.go:127 stores the length of every 200 under the path without its
  modifier (web.go:391), so a short HLS segment makes a big file light;
  file_size_cache.go:49-50 says it "remembers the upstream byte size of
  (infoHash, path) tuples". The runs have such a service; `LightOnlyByService`
  says that this is the only way, and fails without its second alternative.
* *A full cache also evicts when it updates a key it holds*
  (file_size_cache.go:91), where the comment at 53-54 says "on overflow".
* *Concurrent adders lose and duplicate records.* What is appended between the
  hand-over (clickhouse.go:206) and the reset (208) is in neither batch, and two
  adders that find the batch full both hand it over; clickhouse_test.go expects
  each record to be inserted once. `Close` (215) does not wait for stores that
  still wait for the mutex. (`clickhouse.cfg` with `NothingLost` or
  `NoDuplicateRows` stated without `calm`.)
* *`Wait` polls Redis.* The comment at hybrid_bucket.go:93 says "at most one
  Redis call per Write(); sleep for any deficit. No retry loop."; the loop at
  149 calls until the deficit is covered (`Poll`).
* *A late script accrues an interval twice.* hybrid_bucket.go:60 stores the
  caller's clock even when it is behind `last_tick`; the comment at 146-148
  says that the loop "pins total throughput to Redis's accrual rate".
  (`bucket_prompt.cfg` with `SPECIFICATION Spec`: `IdealSpec`.)
* *A burst may exceed the capacity*: a surplus prefetched at line 159 stays
  local while the Redis bucket refills; the comment at 276-277 says "no extra
  burst beyond what the configured rate allows".
* *A resumed slice runs past its end.* retry_transport.go:133 asks for
  `bytes=N-` whatever end the client's range had, or the server chose. No
  property forbids it.
* *A break in the first read of a new body reaches the client* with retries
  left (retry_transport.go:262-267, action `Reread`); the comment at 182-183
  says "transparently reconnects on retryable errors".
* *The same break after the last byte makes a complete response fail*, where
  retry_transport.go:223-225 says of a dirty close at the end that it is EOF.
  `CompleteNeverFails` says that a complete response never fails for want of
  retries or of another pod.
* *Batches wait without bound.* The batch being filled is bounded
  (`BatchBound`), but every store that waits for the mutex keeps the batch it was given
  (clickhouse.go:201-206), and nothing limits how many there are.
* *Upgraded connections pass uncounted.* After a 101 ReverseProxy writes to the
  hijacked connection (response_writer_interceptor.go:58), past the counting of
  bytes and the throttle (`EndUpgraded`).
* *A fallback may leave the node.* When the lost pod was the last of its node,
  service_location.go:342 distributes over the remaining nodes; the comment at
  330-331 says "no extra node validation is needed".
* *An extra may come from a file name.* The variable assigned at
  url_parser.go:85 is not cleared when a tilde turns out to name no service, so
  a service without an extra gets that of a later `~x:y`. `ChainPeelsMods`
  leaves such extras out.
* *`X-Source-Url` holds the decoded path* (web.go:330): a question mark in a
  file name ends the path that the service asks for.
* *A request that panics counts as served.* The deferred call at web.go:275
  finds the interceptor's initial status, 200, and logs "request served
  successfully" (323). No record is stored, as no byte was written.
* *Bytes are counted before they are written*
  (response_writer_interceptor.go:51), so that a write that fails is in the
  statistics; `RecordedAsSent` allows for one.
* *A master playlist loses its session offset line*: manifest_rewriter.go:101-102
  says "they pass through unchanged".
* *A redirect decides whether a body is a playlist*: manifest_rewriter.go:24
  looks at the path of the last request, the one that was redirected to.

## Proofs

The proofs hold for every value of the constants that satisfies the `ASSUME`
of the module (finite sets where sizes are counted, natural-number limits).
Where a theorem needs more, its own `ASSUME` says so and the entry below says
why the code provides it. All safety invariants and action properties of the
passing runs are proved; what TLC alone checks is liveness.

* `SessionLimiterProofs`
  * `TypeCorrect`: `Spec => []TypeOK`. `TypeOK` is inductive; besides types it
    says that a request has arguments and a session state exactly while it is
    inside the limiter.
  * `AccountingExact`: `Spec => []SlotAccounting`. The counters equal the
    cardinalities of the sets of requests that will decrement them. Inductive
    together with `TypeOK` and the fact that `big` is set only where the slot
    has been classified (`Inv`); each action moves one request in or out of one
    set, which lemmas on cardinalities turn into plus or minus one. The
    allocation in `GetSession` needs that nobody points at a free address.
  * `BigCapHolds`: `Spec => []BigCapPerState`, from `Inv` and the check inside
    `TryAddBig`'s critical section.
  * `IPCapKept`: `Spec => []IPCapPerState`. The cap alone is not inductive:
    the counted window (`ips`) and the admitted subnets (`recent`) are two
    records, so the invariant adds that no subnet was admitted more recently
    than it was recorded. Then an admission, which counts after recording,
    bounds the admitted subnets too, and a tick only shrinks both.
  * `NeverSpurious`: `Spec => RefusalsJustified`, an action property. From
    `Inv`: the counter that a check reads is the number of requests that hold
    it, and the one that reads is not yet among them.
  * `MapNeverLeaks`: `Spec => []NoSessionLeak`. That the map is empty when
    nobody is in flight says nothing about a state in between, so the invariant
    (`LeakInv`) says what keeps a mapped state alive (`AllMapped`): a request
    on it will run `Forget`, or requests on it are still being checked and none
    has been admitted yet or recorded its address. Then at most big files are
    refused, for a slot that another of these requests holds, so the last of
    them is admitted. `Owned` says that requests
    on a mapped state are of its session, so that `Forget` deletes the right
    entry, `AsksIPs` that a request reaches the IP check only if there is one.
  * `LightnessExplained`: `Spec => []LightOnlyByService`, whatever services
    answer. The invariant is that a cached size is the file's own or one that a
    service has sent; a file whose size was evicted is taken to be big.
  * `LimitsWhenSerial`, `BigFilesWhenSerial`: `SerialSpec => []RequestLimits`
    and `[]BigFilesLimit`. `SerialInv` says that one call at most is under way
    (`OneCall`), that all requests of a session share one state (`OneState`),
    that the room a check found is still there (`StillRoom`), and that the
    counters are within their limits (`WithinCaps`). With `SlotAccounting` the
    counters are the admitted requests. Under `Spec` both are false, which is
    what `limiter_orphan` and the divergences show.
* `ClickHouseProofs`
  * `BatchBounded`: `Spec => []BatchBound`, about the batch being filled and not
    those that wait to be stored. The bound counts the adders between
    their append and the end of their `Add`, and is inductive together with the
    shape of the arrays: an append makes one more adder busy, an adder leaves
    only after it has seen a batch that is not full or has replaced it.
  * `TypeCorrect`: `Spec => []TypeOK`, which includes mutual exclusion of the
    database section and that a torn header still names an existing array and a
    length within its bounds.
  * `NoDuplicates` and `NothingIsLost`: `Spec => []NoDuplicateRows`,
    `Spec => []NothingLost`. Both rest on `CalmInv`. While `calm`: one call is
    in progress (`OneAtATime`), a batch is handed over before it would grow
    (`NoGrowth`), the header an adder loaded is the current one
    (`HeadersCurrent`), every record was appended once (`EachOnce`), every array
    belongs to one store or to the batch (`Disjoint`), `Close` comes last
    (`CloserLast`), and the rows of the table are those of the committed stores
    (`RowsOfStores`). Whether or not calm, every record is in some array
    (`Covered`) and `Close` starts one store (`CloserTask`). The induction step
    takes calls of `Add` and the steps of stores apart: a store only moves
    records between outcomes, an adder only between batch and store.
* `RetryReaderProofs`
  * `ContiguousDelivery`: `Spec => []Contiguous`. The invariant ties together
    the number of bytes delivered, the position of the open body and the start
    RoundTrip believed in: for a wrapped body the latter is the real start.
  * `TypeCorrect`, `EOFComplete`, `CompleteIsNoFailure`: `TypeOK`,
    `EOFMeansComplete` and `CompleteNeverFails`. `Bounds` adds what is needed about
    the end of the window: what the first response promised (`Promise`: all but
    a slice get everything up to the end), that the open body reaches at least
    so far (`Reach`), how many retries are left (`Budget`), and how the stream
    may have ended (`Ending`).
* `HybridBucketProofs`
  * `TypeCorrect`, `OneProberEach`: `TypeOK` and `OneProber`, inductive together
    with what is known of a call in flight (`CallsSound`): `markUnhealthy`
    starts a prober only on the transition, and only the prober undoes it.
  * `LocalStaysBounded`: `Spec => []LocalBounded`. Nothing in the code caps
    `hb.local`; a burst for each goroutine outside the polling loop does, since
    a goroutine brings at most a burst with it when it leaves.
  * `NoTokenLost`: `Spec => []TokensConserved`. The sum over the waiters of a
    bucket is split at the one that moves, with the module's lemmas on the sum
    of a function over a finite set: empty, one more, one changed, by induction
    over cardinalities.
  * `RedisIsTokenBucket`: `PromptSpec => IdealSpec`, the refinement of
    `TokenBucket`. The script's run is a step of `TokenBucket`, a tick is a
    tick, every other action a stutter. The mapping shows the accrued value of
    the hash; the proof needs that a call's clock is the present one (`Prompt`),
    which `PromptNext` keeps.
* `DistributionProofs`
  * `HashCovers`: for every non-empty set of at most `Scale` pods and every
    prefix but the last, `DistributeByHash` gives a pod of the set. The
    divisions lose less than `n` positions of the line, and the last prefix
    that is asked for is `Scale` away from its end.
  * `NodeHashCovers`: the same of `DistributeByNodeHash` and the pods on allowed
    nodes; with none of these it gives `NoPod`. Both levels lose positions,
    together fewer than there are pods.
  * `HashEven`: each of `n` pods gets the `n`-th part of the prefixes, rounded
    down or up, whatever `n` and `Scale` are. The i-th pod has the prefixes
    whose positions lie between two multiples of the width, and as many
    multiples of `Scale` lie between these.
  * `NodeHashEven`: the same of nodes, however their pods are spread, if nodes
    times pods do not exceed `Scale` (1000 in the code). A node's part ends at
    a rounded multiple of its pods' width; under the hypothesis no prefix lies
    between that end and the end without rounding (`NodeEndExact`). The
    hypothesis is close to the limit of what holds: with the constants of the
    code, 2 nodes of which the first has 515 pods and the other one (2 times 516
    is 1032) are already a cluster whose rounding moves a prefix from one node
    to the other, by direct calculation.
  * `ExclusionKeepsNode`: a torrent stays on its node when a pod is excluded and
    the node has another, and no other torrent moves, under the same
    hypothesis: by `NodeEndExact` neither end of a node's part depends on how
    many pods it has.
  * That `Sorted` enumerates its set is a lemma by induction on cardinality
    (`Scale` is 1000 in the code, and no service has as many pods). Induction
    over numbers is on a set of them (`NatSetInduction`), which needs no
    operator as a parameter.
* `AlgorithmProofs`: the four invariants of `MCAlgorithms`, for every value of
  the constants and so for inputs of any length. A state is an input, so the
  induction over steps (`AlwaysInputs`) only says which inputs there are; the
  work is induction over their elements. The loops are recursive functions, of
  which two lemmas say that there is such a function (`IteratesExist`, for a
  loop given as a function; `StripsExist`, for the services of a path) and that
  what every round keeps holds to the end (`LoopInduction`).
  * `SharesAreEven`, `ExclusionStays`: `EvenPartition` and
    `ExclusionStaysOnNode`, from the theorems above, if pods times nodes do not
    exceed `Scale`.
  * `RewriteIsExact`: `RewriteManifest` equals `GraceManifest` for every
    playlist, list of rules and token; `GraceIsExact`, the run's invariant, is
    an instance. `RewriteFollows` is the loop's invariant: after each line
    `movieTime` is the film time, `pending` the duration that the next line
    would have, and `out` the rewritten lines without session offset.
  * `ChainPeels`: `Spec => []ChainPeelsMods`. `LastModFound` says that
    `extractMod` finds the service that was added last, since what follows a
    tilde does not depend on what is before it and the service's own path names
    none; `ExtractLast` what it makes of it; `OriginOfServed` that the loop of
    `Parse` comes down to the file; `SourceRooted` and `SourceFacts` that a
    service's request, also one cut short at a question mark, is for the same
    torrent. `CallsPeel` puts these together along the chain.
* `ServiceLocationProofs`
  * `TypeCorrect`: `Spec => []TypeOK`, one conjunct per cache.
  * `LocationsStayFresh`: `Spec => NeverLongDead`. The invariant (`Fresh`): an
    "ok" probe result is at least as old as its pod has been down, and a
    location at most `ProbeTTL` younger. No cache renews an entry, so the
    lifetimes add up and no more.
  * `UnavailableForLackOfPods`: `Spec => UnavailableJustified`, if there are no
    more pods than `Scale` and a resolution takes no longer than a pod stays
    ignored. The code provides the latter: two queries of 10 s and three probes
    of 3 s are 29 s, an address is ignored for 30 s. The invariant (`AllTried`)
    says that a resolution has failed no more often than there are pods that
    came to the ignore list since it began, and that the one about to be probed
    was not on it when it was chosen, so that three failures are three pods; the two theorems of `DistributionProofs` say that it then finds one.
* `WebProofs`: all of `Web`'s safety properties, for any number of clients,
  services and pods, any limits and any status codes.
  * The invariant (`Inv`) has three parts. `Local` says of one request which
    deferred calls, which open body and which notes of the interceptor it has
    at each place of the handler; all actions but `Finish` change one request,
    so each has a lemma that only shows `Local` where the request arrives
    (`OneMoves`, `QuietMove`). `ProxiesOK` says that a cached proxy is for the
    address it is cached under; that no two locations have one key is a lemma
    (`KeysDiffer`). `CountsOK` says that the slots and the gauge are
    the cardinalities of the sets of requests that will give them back; only
    `Admit` and the two deferred calls change these sets.
  * From it `TypeCorrect`, `SlotsGivenBack`, `StatisticsRight`, `NoBodyLeaks`
    and `TargetIsResolved` follow at once. Nothing bounds the slots by the
    limit: `TypeOK` has the number of clients there.
  * `RefusalsForOthers`: `Spec => RefusedForOthers`, an action property. By
    `CountsOK` the count that `CheckTotal` read is the number of clients that
    are being served (`RefusedByLimiter`); the request that was refused is a
    client of its own, not one of them, and so are none of its chain.

Only model-checked:

* *Liveness* (`StoresCatchUp`, `WaitReturns`, `StreamEnds`, `GoneRequestsEnd`,
  `RequestEnds`):
  fairness and `ENABLED` are out of the prover's reach.

## Not modelled

* The library lazymap, Redis, ClickHouse, Kubernetes and the upstreams appear
  only by what the code sees of them; they are marked external.
* `HybridBucketPool`: expiry of buckets after five minutes, of the Redis hash,
  and sessions with two different rates, which share a Redis key but not a
  bucket. Rates below one byte per second, which truncate to zero.
* The Environment provider of `ServiceLocation` (one static address), and
  changes of node labels: `NodesStat` is a constant that may fail to load.
* A retry's `Content-Range` is not looked at by the code
  (retry_transport.go:152); `RetryReader` assumes that the pod starts where it
  was asked to and reaches as far as the first one did.
* The errors ReverseProxy reports for a 101 whose protocol the client did not
  ask for.
* Of a token: the signature and expiry, which the JWT library checks, are one
  nondeterministic refusal. Of a request: the headers that are rewritten, log
  lines, metrics other than the gauge, the time to the first byte, and the
  bounds of the speed test's size.
* Reading the YAML file of `ServicesConfig`, `k8s.Client`, the listener of
  `Web`, the configuration and `main`: start-up code and libraries.
* `AccessHistory` is constructed but not used by the handler.

## Plan

1. *Further modules.* The bucket pool with expiry and two rates of one session;
   changes of node labels in `ServiceLocation`.
2. *Further proofs.* How many prefixes change their node in clusters beyond the
   hypothesis of `NodeHashEven`.
