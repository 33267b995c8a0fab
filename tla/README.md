# A TLA+ model of torge

torge is a web framework for Go: an application object with a lifecycle and a
dependency container, a router and middleware, and the services a backend
needs around them (background jobs, realtime events, cache, sessions,
idempotency, rate limits, webhooks). This directory holds TLA+ specifications of
its stateful parts, TLC configurations that check small instances of them, and
proofs, checked by TLAPS, of what holds for every instance.

Every definition is written from the Go source. `PROJECT.json` maps each one to
the lines it stands for, and lists the runs, the hazards each property is aimed
at, the findings, and the theorems.

## 1. The system

### Components

| Component | State it keeps | Operations | Interacts with |
|---|---|---|---|
| **Job manager** `jobs/jobs.go` | handlers, `running`, cancel functions of the current start, a WaitGroup, the workers' goroutines | `Register`, `Dispatch`, `Start`, `Stop`, the worker loop (`work`, `process`) | the queue (calls), handlers and `OnFailure` (callbacks), the lifecycle (`Start`/`Stop` as the last hook) |
| **In-process queue** `jobs/memory.go` | a buffered channel, timers of delayed jobs, dead-letter list, `closed` and `done` | `Enqueue`, `Receive`, `Ack`/`Retry`/`Reject`, `Close`, timer callbacks | the manager's workers and `Dispatch` callers, by the channel and `q.mu` |
| **Application lifecycle** `app.go`, `stream.go` | `state`, `started` hooks, `server`, `stopOnce`, `stopRequest`, `done` | `Start`, `Serve`/`Listen`, `Shutdown`, `Done`, hooks | every component with a hook; `net/http`'s server; streaming requests |
| **Container, modules** `container.go`, `module.go`, `infra.go` | providers, instances, hooks of what it built | `Provide`, `Invoke`, `build`, `closeBuilt`, request scopes | the lifecycle |
| **Router** `router.go`, `route.go`, `group.go` | a trie, frozen at start | add, freeze, match | the request path |
| **Context, responses** `context.go`, `response.go`, ... | one request | read, write, `Before` callbacks | middleware; sessions commit in a `Before` callback |
| **Realtime hub** `realtime/hub.go` | topics, each with a ring of recent events, a sequence number, subscribers with buffered channels | `Publish`, `Subscribe`, unsubscribe, `Close`, eviction | SSE handlers |
| **Redis queue** `contrib/redis/queue.go` | lists ready, processing, dead; sorted set delayed (in Redis) | `Enqueue`, `Receive` with promotion, `Ack`/`Retry`/`Reject`, `RequeueProcessing` | the job manager, in several processes |
| **Rate limiting** `ratelimit/`, `contrib/redis/limiter.go` | one theoretical arrival time per key | `Allow` (GCRA), sweep | middleware |
| **Idempotency** `idempotency/` | one record per key in a cache store | reserve, complete, release | cache store; response capture |
| **Webhooks** `webhook/` | delivery ids seen, in a cache store | verify, replay check | cache store |
| **Cache** `cache/` | LRU list with expiry; flights of `GetOrLoad` | get, set, add, delete, sweep, load | sessions, idempotency, webhooks |
| **Sessions** `session/` | records in a cache store; one request's copy | load, set, regenerate, destroy, commit | cache store; response `Before` |
| **HTTP client** `httpclient/` | one request's attempts | retry loop | remote services |
| **Health** `health.go` | registered checks | evaluate with timeouts | lifecycle state |
| **Database helpers** `sqldb/`, `contrib/pgx`, `contrib/mongo` | pools; a transaction | transaction helpers, ping, close | lifecycle hooks |
| **Errors, negotiation** `errors.go`, `negotiate.go` | none | which status an error gets, who renders it, which offer is chosen | the error boundary of the pipeline |
| **Built-in middleware, response capture** `middleware.go`, `middleware/`, `capture.go`, `stream.go` | the response cache; one response's writers | guards, compression, recording, recovery, logging | every stage wraps the next one and may replace the writer |
| **Binding, validation** `bind.go`, `internal/binding`, `validate/` | plans per type, computed once | filling a typed input, compiling tags, walking a value | typed handlers; start-up refuses broken types |
| **Authentication, policies** `auth/`, `contrib/jwt` | none | authenticators in a chain, `Require` | middleware of groups and routes |
| Configuration, OpenAPI, uploads, net, correlation, tracing, CLI, test helpers | none, or one call's own | pure conversions, I/O | - |

### Which behaviours are hard, and what makes each part correct

* **Jobs.** Workers, timers, dispatchers, `Stop` callers and `Close` share a
  bounded channel; `Enqueue` and the timer callbacks test `closed` under the
  lock and send after the unlock; retries are sent by the very workers that
  drain the channel; the manager may be started again while a `Stop` waits.
  Correct: a job is in one place at a time and never delivered twice; an
  accepted job is not lost while the queue is open, and is settled in the end;
  a handler runs at most as often as its limit; `Stop` waits for its workers,
  does not cancel running jobs before its deadline, and returns.
* **Lifecycle.** `Start`, several `Serve` calls, `Shutdown` from signals and
  from the program, failing start hooks and streams that never end by
  themselves. Correct: components stop once, in reverse order, after the
  requests; a failed start leaves nothing running; `Done` means stopped;
  everybody returns.
* **Container.** Construction, `Invoke`, the freezing of the routes or a start
  hook may fail halfway; requests build values of their own, which a panic may
  leave behind. Correct: dependencies first, no cycles, nothing released before
  what depends on it, and each failure leaves what it may leave.
* **Requests.** An error or a panic meets the response anywhere on its way out:
  before or after the header, under a compressor, a recorder or the writer of
  standard middleware, each of which defers what it writes. Correct: the client
  gets what was decided, once, and the log says so; a cached response is one a
  handler made and anybody may see.
* **Routing, binding, policies.** Backtracking, precedence between a body and
  parameters, and nested policies: each small, each with many cases. Correct
  against a reference definition.
* **Hub.** Slow subscribers, replay from a ring, eviction and re-creation of
  topics, unsubscribing from a topic that was replaced. Correct: each subscriber
  sees consecutive events or is disconnected; replay is exactly what is
  retained and not seen; a channel is closed once.
* **Redis queue.** Crashes between commands, answers lost after the command ran,
  requeueing with live workers. Correct: at least once, no loss.
* **Idempotency, webhooks, sessions, cache.** Read, act, write sequences on a
  shared store with expiry, eviction and failing operations. Correct: at most one
  execution while the record lives, a replay is the response of the same
  request, a destroyed session stays dead, a load is shared.
* **Rate limit.** Numeric edges, and a clock read before the lock is taken.
* **HTTP client.** Retry only what may be repeated, within bounds.

### Plan

Built: all modules of section 2. Proved: every safety property the runs check,
but for two of the application's (section 4). What is left, in this order:

1. The refinement of `JobLedger` by `RedisQueue`, with redelivery allowed by a
   variant of the ledger.
2. Forms, files and uploads in `Binding`; `DeletePrefix` in `CacheStore`.
3. The rest of the proofs about applications: what reaches the client through
   the writers of a response (`OutcomeDelivered`), and the values that typed
   handlers get (`InputBound`).

A question left open about the hub: a new topic evicts at most one idle one, so
after a time with many attached topics the map stays above `WithMaxTopics`
although idle topics remain.

## 2. The modules

| Module | What it is |
|---|---|
| `MemoryQueue` | `jobs/memory.go`: the queue's steps as operators on its variables |
| `JobManager` (EXTENDS `MemoryQueue`) | `jobs/jobs.go` over that queue: the composed system, its properties, and the refinement mapping to the ledger |
| `JobLedger` | abstract specification: what happens to a job, whatever runs underneath |
| `MCJobManager` | constants for the three job runs |
| `JobManagerProofs` | types, `StopWaits`, `CanceledOnlyLate`, `NoDuplicates`, `NothingLost`, `AttemptsWithinLimit`, and that `JobManager` implements `JobLedger` |
| `AppLifecycle`, `MCAppLifecycle` | `app.go`: start, serve, shutdown; constants for its three runs |
| `AppLifecycleProofs` | types, the 5 safety invariants and `StateForward` |
| `Positions`, `ListsProofs` | the places of a list that a condition picks, in order: what `Hub` takes from a ring and `CacheStore` keeps of its list; lemmas about them, about lists and about recursive functions, which the other proofs use |
| `Hub`, `MCHub` | `realtime/hub.go`: the hub and the handlers of `Serve`; constants for its two runs |
| `HubProofs` | types, `AttachedWhileOpen`, `NoGaps`, `RingKeepsLatest`, `ReplayExact`, and that a replay fits its channel |
| `RedisQueue`, `MCRedisQueue` | `contrib/redis/queue.go`: the lists in Redis and the workers of several processes |
| `RedisQueueProofs` | types, `NothingLost`, `DeliveredOncePerAttempt`, `StrandedByFault` |
| `Startup` | `container.go`, `infra.go`, `app.go`, `health.go`: registrations, the graph, construction, hooks, the values of requests |
| `StartupProofs` | types and `ContainerSound` |
| `Router` | `router.go`, `route.go`, `group.go`: registration, the trie's match, redirects, URLs |
| `Writers` | `response.go`, `capture.go`, `middleware/compress.go`: the writers of one response |
| `Negotiation`, `Auth`, `Binding`, `Validation` | `negotiate.go`; `auth/` and `contrib/jwt`; `bind.go` and `internal/binding`; `validate/` |
| `Pipeline` (EXTENDS the six above it) | one request through the stages and back: `app.go`, `middleware.go`, `middleware/`, `errors.go`, `stream.go`, `typed.go` |
| `Application` (EXTENDS `Startup`, `Pipeline`) | the two composed: registration to requests |
| `MCApplication` | 373 small applications, for two runs |
| `ApplicationProofs` | that an application implements `Startup`; `ContainerSound`, `RoutesBest`, `HandlerEntitled`; what the router and policies compute |
| `CacheStore` | `cache/memory.go`: a key-value store with expiry, eviction and failing operations, and the clock |
| `Idempotency`, `Webhook`, `Sessions`, `Flights`, `RateLimit` (EXTEND `CacheStore`) | `idempotency/` under the retries of `httpclient/`; `webhook/`; `session/`; `cache/typed.go`; `ratelimit/` and `contrib/redis/limiter.go` |
| `Stores`, `MCStores` | the five services over one store; constants for its run |
| `StoresProofs` | `DoneOnce`, `SessionGone`, `LoadShared`, `RateBounded` |

Definitions marked "Slip" are versions of the definition below them with a
mistake of the kind a change to the code might make. No specification uses them;
each documents what a property would catch.

### Jobs

*State.* `ch` is the channel, `timers` the delayed jobs whose callback has not
taken `q.mu`, `firing` the callbacks between their unlock and the end of their
select, `failed` the dead-letter list, `closed` the flag together with the
closed `done` channel. `handlers`, `running` are the manager's fields. A
*generation* is one call of `Start`: its two contexts (`recvCanceled`,
`jobCanceled`) and its workers. `pc` and `held` are a worker's position and
delivery; `call` and `callMax` a `Dispatch` call's; `stop`, `stopGen`,
`drained` and `expired` a `Stop` call's. `attempts`, `acked` and `reported` are
history.

*Steps.* A critical section is a step, a select is a step, a handler call is the
two steps "entered" and "returned". `Enqueue` is therefore split in two
(`EnqueueRefused`, `EnqueueDelayed`, `EnqueueAdmitted`; then `SelectSend` or
`SelectDone`), and so are the timer callbacks (`TimerFire`; then `CallbackSend`
or `CallbackDrop`). When several cases of a select are ready Go picks any: so do
the actions. A worker's `Receive` may take a job although its context is
canceled, and a send may succeed on a queue already closed.
`Stop` is four steps: clear `running` and read the cancel functions; cancel
receiving; the goroutine behind `done` sees `wg.Wait` return (`StopDrained`);
return. The last two are apart because a `Start` may come in between.

*Abstractions.* A job is its identity, attempt and limit. Delays are zero or
positive, and time is the order of events. A handler succeeds, fails (error,
panic, timeout) or fails permanently. Each `Stopper` calls `Stop` once and each
job is dispatched once.

*Left out.* Errors of `Receive` other than cancellation (the in-process queue has
none); the panic Go raises if a WaitGroup is reused too early; `Workers < 0`,
which starts nobody.

### Lifecycle

*State.* The fields of `App` that the three functions share, one position per
activity, `srv` for each call's `http.Server`, `once` for `stopOnce` (free, busy,
over: `sync.Once` makes later callers wait), and the requests. `up` and `stops`
say which components run and how often each was stopped. `early`, `missed` and
`forced` record that a shutdown began during `Start`, did not see a server that
was being published, or ran out of time.

*Steps.* `a.started = append(a.started, h)` is not under `a.mu`: its read and its
write are two steps. `runStopHooks` takes the list in one step and calls one
hook per step. Collecting diagnostics, building the container, running invokes
and freezing the routes (`Prepare`) is one step that may fail; it touches none
of this state. `net/http` is modelled by its documented contract.

### Hub

*State.* `topics` is the map: a function whose domain is the names present. Each
topic has its sequence number `next`, the ring (`buf`, `start`) and its
subscribers. `recent` lists names in the order of `lastUse`. A subscriber is one
connection: its channel `ch`, whether that was closed (`shut`, the field
`closed`), the name it asked for, and the position of its handler. `published`,
`seen`, `replays`, `upTo` and `evicted` are history; `seen` also supplies the
`Last-Event-ID` of a later connection.

*Steps.* `Publish`, `Subscribe`, unsubscribe and `Close` hold `h.mu` throughout,
so each is one step, with the eviction, the recording, the sends and the
detaching it does. `Serve` is the steps between: an event taken and written
(`Deliver`), or written in vain (`DeliverFails`), a closed channel seen
(`SeeClosed`), a client gone (`Disconnect`), and the deferred `Unsubscribe`,
which finds its topic by name.

*Abstractions.* An event is its place in the history of its name and its ID: the
number given by `Publish`, or `Custom` for an ID that is no number. A client
sends no ID, 0, or the one it received last on that topic. The options are
chosen in `Init`.

*Left out.* A caller of `Subscribe` that never unsubscribes; custom IDs that are
numbers; `TopicCount`, which only reads.

### Redis queue

*State.* `ready`, `processing`, `delayed` and `dead` are the keys in Redis; `due`
is the part of `delayed` whose score has passed; `garbled` are the jobs whose
payload a worker cannot decode. `pc` and `held` are a worker's, as in
`JobManager`. `handled`, `done` and `requeued` are history.

*Steps.* Every command, script or transaction is one step with an outcome: it
ran, it did not run (`refused`), or it ran and its answer was lost. `Receive` is
`Promote` (the script) and `Move` (`BLMOVE`); a payload that cannot be decoded
takes the two commands `Unfit` and `Bury`. A worker may crash at any point and
come back with nothing in hand. `Requeue` is one `LMOVE` of
`RequeueProcessing`, also while workers are up.

*Left out.* Queue names, the encoding of payloads, `Dead`, which only reads.

### Applications

*State.* `Startup` has what the program registers (`plan`, `infra`, `order`, the
hooks), what was built (`singletons`, `scoped`, `cleanups`), the phase of
`Start`, and history: `calls` of constructors, what is `open`, what was
`released`. `Pipeline` has the routes, one request (`req`, `ctx`) with its
position (`chain`, `at`, `dir`), the error on its way out and the response with
its stack of writers.

`stack` has the calls of the three recursive functions of
the container (`visit` of the cycle search, `singleton`, `resolve`), the
innermost last; `done` and `cycle` are the results of the search. The names of
infrastructure components are the constant `ComponentName`, apart from the types.

Recursive functions need the set they recurse over, which is a constant:
`Nesting` is defined on the policies of the program and gives each a number above
those it is made of (a policy is built of values that exist before it, so there
is no cycle); `Inputs` are the input types, `Validated` the types and `Data` the
values that validation meets.

*Steps.* A registration is a step; so is each call that one of the recursive
functions makes of itself, and its return; and each call of the program's own code
during `Start`: a constructor, a hook, and the Invoke functions with the
freezing of the routes, any of which may fail. `Freeze` compiles the validation
tags, so a broken tag fails there and not among the diagnostics; a duplicate
route name is found when `Start` begins; a handler whose input cannot be bound is
a diagnostic, but its route is inserted. A request moves one stage per step: in,
until one answers or the handler runs, and out, where each stage sees the error
of the one above. A panic unwinds stages until `Recovery`, or leaves
`ServeHTTP`, which then does not run `finish`.

*Pure parts.* Matching, negotiation, binding, validation and policies are
operators that follow the code's own order (the trie's backtracking, the walk of
a plan); the properties compare what a request got with a reference definition:
the best of all matching patterns, the highest quality of a header, the
parameters by name, the rules by their meaning, and a policy as a formula.

*Abstractions.* A path is its segments, a body is the list of who wrote its
pieces, a raw value is its comma-separated parts. The stages every application
has (request ID, security headers, health) are in every chain; the others are
chosen per application. Requests follow one another: what concurrent requests
share is frozen after `Start`, except the response cache, which is a set of
responses that may lapse here; its store is `CacheStore`'s subject. The response
cache is route middleware below the compressor, as docs/guide.md:628-632 has it.
Its key is the path.

*Left out.* Reflection, modules, `Listen`, files other than static ones, forms,
`Group.Version`, `Mount`, hijacking, interim statuses, the texts of pages and
problem documents, the goroutine of a health check that is late.

### Services on a store

*State.* `entries` is the list of `cache.Memory`, most recently used first, each
with its expiry; `now` the clock. A request's place in a middleware is
`serving` (idempotency), `delivering` (webhooks), `visiting` (sessions),
`calling` (loads), `hitting` (limits). `lapses` counts, per key, how often a live
entry expired or was evicted.

*Steps.* Each store operation is a step under its mutex, and may be refused or
lose its answer when the store is remote. Between two of them anything may
happen. The clock moves by `Tick`; `Evict` is the effect of other users of a
store at its limit. In a behaviour one service runs: services never share a key.
Idempotent calls are made by the client of `httpclient`, which retries on a
lost answer while the first request may still be served.

*Left out.* `DeletePrefix`, `Len`, codecs, cookies' attributes, the length of
the client's waits, a Stripe header with neither timestamp nor signature.

## 3. The runs

| Run | Instance | Result |
|---|---|---|
| `job_manager` | 2 jobs under 2 names (limits 2 and 1), 1 worker per start, 2 starts, 2 stops, buffer of 1, zero and positive delays | 497,336 states; the type invariant, 5 safety invariants and the refinement hold |
| `job_manager_live` | 2 jobs, 2 workers, 1 start, 1 stop, positive retry delays, both dispatch delays | 64,638 states; `EventuallySettled`, `StopReturns` hold |
| `job_manager_zero` | 2 jobs, 1 worker, `Backoff` may return 0 | `StopReturns` is violated (finding 1) |
| `app_lifecycle` | 3 hooks (the first without `OnStart`), 2 `Serve` calls, the program's own `Start` and `Shutdown`, 1 stream | 228,436 states; 5 safety invariants, types, `StateForward`, 2 liveness properties hold |
| `app_lifecycle_race` | one `Serve`, one `Shutdown` | `ServeReturnsAlways` is violated (finding 2) |
| `app_lifecycle_early` | the same | `DoneMeansStopped` is violated (finding 3) |
| `hub` | 2 topics, 2 connections, channels of 1 (or of the replay size), replay of 0 or 2, cap of 0 or 1, 3 events on one topic and 1 on the other | 703,966 states; types, 3 safety invariants, `ReplayExact` and `ServeEnds` hold |
| `hub_evicted` | the same, replay of 2, cap of 1 | `ReplayComplete` is violated (finding 4) |
| `redis_queue` | 2 jobs (limits 2 and 1, one possibly undecodable), 2 workers, 2 faults, 1 requeueing, batches of 1 | 230,686 states; types, 3 safety invariants and `EventuallySettled` hold |
| `application` | 373 initial states: every dependency graph over three types in order A, B, C with the listed edges and scopes, replacements, components; 6 route tables, with and without the slash redirect, each asked every path of up to three segments; 7 tables to refuse; 4 applications for responses (one with a compressor inside another, in a standard writer); guards, probes, 6 set-ups of callers (nested policies, `Not` of nothing, a requirement of the whole server) and typed inputs | 524,347 states; types and 6 invariants hold |
| `compress_panic` | the same | `RecoveryResponds` is violated (finding 5) |
| `stores` | 3 keys, 2 entries, 3 moments, 1 fault; per service: two calls of one key with 2 and 1 attempts (same or other request) or an unprotected one; 4 deliveries, by 4 schemes, of 2 events; 3 visits; 3 loads of one key and 1 of another; 4 hits on one key and 1 on another, a burst of 2 and an interval of one moment | 2,366,479 states; the 4 properties hold |

*Why these bounds are enough.* Two jobs and a buffer of one give a full buffer
with a sender waiting, a retry meeting a new dispatch, and a delivery during
either. Two generations with one worker each let a `Start` overlap a waiting
`Stop`; two `Stop` calls give the second that returns at once. Limits of 2 and
"0, meaning one" exercise a retry and the boundary; two names give a job
dispatched before its handler was known. For the lifecycle, two hooks are needed for an order and for a failure after a
success, and a third for an append that writes back a list `Shutdown` has taken
meanwhile, with a start hook after it that fails; two `Serve` calls for one server
that overwrites the other; three sources of `Shutdown` for callers that wait.
For the hub, three events make a ring of two wrap and a channel of one or two
overflow; a second topic under a cap of one evicts the first, also while a
handler has yet to unsubscribe from it; a second connection comes back with an
ID of the first, or reads beside it. For the Redis queue, two faults allow a
lost answer and a crash after it, one requeueing a second delivery beside the
first. Three types are enough for a cycle through a third, a value of a request
below a singleton, and an order; paths of three segments for a backtracking
that has to undo two choices; two exchanges for a cached response. For the
services, three moments pass the reservation (one) and the record (two) while
requests run; a client with two attempts beside another call with the same key
gives a late first request that meets the reservation of a second. Three moments,
a burst of two and an interval of one let a key's arrival time lie in the past, so
that it is swept, or a request decides with a reading a later one overtook.

`CHECK_DEADLOCK` is off for the jobs, the lifecycle and the hub: calls are made a
bounded number of times, and an application that stopped, a manager that
drained, or a hub whose connections have gone really has nothing to do. It is on
for the other runs. The application and the services stutter explicitly once
every request is over, so there it says that no start-up, request or follower of
a flight is stuck.

*Fairness.* Weak fairness of each worker, timer callback, `Stop` call after it
began, of the steps inside `Start`, `Serve` and `Shutdown`, and of the end of
requests: the Go runtime runs what can run, timers fire, and handlers and hooks
return (handlers get a timeout and must honour it; jobs are documented so). A
send and a receive on the buffered channel need no strong fairness in these
instances. Nobody is forced to call `Dispatch`, `Start`, `Stop`, `Close`,
`Serve` or `Shutdown`, no context has to expire, and a stream ends only when
told. For the hub, weak fairness of each handler: it runs when its channel has an
event or is closed, and a write to a client ends. No client has to disconnect,
nobody has to publish or close. For the Redis queue, weak fairness of each worker
that is up (its commands succeed in the end, handlers return) and of time;
nobody has to restart a worker or to call `RequeueProcessing`. The application
and the services have safety properties only, and no fairness.

### What the properties say

* `NoDuplicates`, `NothingLost`: section 1. After `Close`, jobs may be lost in
  the ways `JobLedger` allows: `ImplementsLedger` shows these are the only ones.
* `AttemptsWithinLimit`, `StopWaits`, `CanceledOnlyLate`, `EventuallySettled`,
  `StopReturns`: as in section 1. `StopWaits` speaks of the `Stop` call that
  cleared `running`; one that finds the manager not running returns at once.
* The lifecycle has two windows, which findings 2 and 3 are about: a `Shutdown` that
  begins while `Start` runs (`early`), and one that does not see a server about to
  be published (`missed`). `DependenciesUp` says nothing in the first,
  `HooksOutliveRequests` nothing in either, nor after a drain that was cut off;
  `ServeReturns` leaves out the first, and the servers that were missed.
  `ServeReturnsClean` leaves out the first too, and requests may outlive a `Serve`
  whose server failed, or when one was missed or cut off. The others bind `early`:
  + `StoppedOnce`: a component that `Shutdown` stopped may be stopped once more by
    the undo of a failed `Start` that it overlapped (the append wrote back the list
    it had read before `Shutdown` took it), and never a third time;
  + `DoneLeavesNothing`: only a `Start` that went on beside `Shutdown`, and has not
    failed, may have components up, or leave another state than stopped or failed,
    once `Done` is closed; whatever overlaps, a failed `Start` leaves none;
  + `StateForward`: only such a `Start` stores `running` or `failed` over what
    `Shutdown` stored, and `Shutdown` over `failed`;
  + `ShutdownReturns` has no exception.
* `AttachedWhileOpen`: a channel is open exactly while its subscriber is in the
  topic it asked for; `Publish` does not look at `sub.closed`, so a violation
  would be a panic under `h.mu` or a subscriber nobody serves. `NoGaps`: live
  events come in order, none missing. `RingKeepsLatest`, `ReplayExact`: the
  ring is the latest events, and a client that comes back first gets all of them
  it has not received and none it has, unless its topic was evicted. `ServeEnds`:
  a handler whose subscriber was dropped, or whose hub was closed, returns.
* Redis queue: `NothingLost`; a payload that cannot be decoded is out of every list
  while a worker is between the two commands that remove and bury it, whose errors
  it ignores (queue.go:84), and for good only after a fault (`LostInReceive`);
  `DeliveredOncePerAttempt`: neither lost answers nor crashes deliver twice, only
  `RequeueProcessing` does, once per job moved; `StrandedByFault`: only a fault or
  a requeueing leaves a job in `processing` without a worker;
  `EventuallySettled`: every other job is settled while a worker is up.
* `ContainerSound`: the cycle search is exact; no request value below a
  singleton; constructors run once and in order; releases run in reverse, but for
  a `Start` whose hook failed and for an aborted request; and what is left open.
  As the code has it, a failed `Invoke` or freeze leaves all singletons
  (app.go:445); a failed constructor closes closers but drops `Lifecycle` values; a
  `Start` whose hook failed stops the components it started and leaves open the
  closers and given databases it had not come to; one that fails before it
  constructs leaves what was given. A request that is over leaves none of its
  values, one aborted by a panic leaves them (`ServeHTTP` does not defer
  `finish`), and a stopped application holds nothing but these.
* `OutcomeDelivered`: the status, body and headers decided reach the client
  once, compressed only if it accepts that, and the log agrees. Exempt: panics
  below a compressor (finding 5), and an error whose details cannot be encoded,
  for which `HandleError` writes nothing (the client gets an implicit 200).
* `HandlerEntitled`: no handler runs without the credentials and policies of the
  server, the groups and its route; the first credential that is there decides.
  `ForgetsFailure` names one exempted form: `Any` returns its last
  denial, so `Not(Any(failing, denying))` allows although the comment at
  auth/policy.go:92-97 says failures stay failures.
* `RoutesBest`: see the comment; values with a "/" are out of its reach, `App.URL`
  does not give back a path that leads to the route for them. `InputBound`: a
  body cannot set a parameter, strict inputs refuse what they do not declare, and
  the value meets its rules.
* `CacheHolds`: only a complete 200 to a GET without `Authorization` or cookie,
  which no hook gave a cookie. It says nothing about `Vary` or `Accept`, which
  the middleware does not look at, nor about API keys in other headers, which it
  does not treat as credentials.
* `DoneOnce`: one execution per key, and one more for each lapse of its record
  (expiry of the reservation while the handler runs included) and each success
  that could not be stored; one event per delivery, and one more for each
  delivery checked while another was handled, or when the store failed. A call
  without a key is never repeated.
* `SessionGone`: a destroyed or regenerated ID is dead, unless the store refused
  the removal, or another request had loaded it and stores it again
  (session.go:223).
* `LoadShared`: one load of a key at a time, and again only after a lapse or a
  failed operation; followers of a panicked load get its error.
* `RateBounded`: in every span the rate is kept, each request counted at the reading
  it decided with. `Memory.Allow` reads the clock before its lock, so that reading
  may be late; such requests are counted too, but for those whose key was swept (or
  expired) at a later reading than theirs: to them "keys whose tat is in the past
  are indistinguishable from new keys" (ratelimit.go:148) does not apply, and one
  may be let through beyond the burst. Nor are those counted that the middleware
  lets through because the limiter failed. `Retry-After` is long enough.

### Findings

1. **A zero backoff can block the manager** (`jobs/jobs.go:421`,
   `jobs/memory.go:68`). A worker retries with a context nothing cancels; if
   `Backoff` returns 0 the send blocks on a full buffer. When all workers are
   there, nobody receives, and `Stop` never returns although every handler has.
   `ExponentialBackoff` with a positive base never returns 0.
2. **A shutdown can miss a server** (`app.go:844-852`). Between the state check
   of `Serve` and the publication of `a.server`, a `Shutdown` sees no server,
   stops the components and closes `Done`. `Serve` then starts its server, gets
   back from its own `Shutdown` at once, and waits for ever for a server nobody
   shuts down.
3. **`Done` during `Start`** (`app.go:486`). A `Shutdown` that overlaps `Start`
   closes `Done`; `Start` goes on starting components, stores
   `StateRunning`, and nothing stops them later.
4. **Eviction restarts the numbering** (`realtime/hub.go:388`). A topic created
   again under an evicted name numbers from 1. A client that comes back with an
   ID of the old numbering is not sent retained events with a number up to it,
   though it never received them.
5. **A panic below the compressor** (`middleware/compress.go:66`). `Compress`
   restores the writer after `next(c)`, not by defer. The 500 that `Recovery`
   returns is rendered into the compressor's buffer, which nobody flushes: the
   client gets an empty 200, and the log says 500.

## 4. The proofs

### Jobs

The theorems of `JobManagerProofs` are about `Spec` of
`JobManager`, for every set of jobs, names and
workers, every number of starts and `Stop` calls, every buffer capacity and
attempt limits. The only assumptions are the two named `ASSUME`s
(`CapacityAssumption`, `ManagerAssumption`), which say what kind of value each
constant is; TLC evaluates them in every job run.

The inductive invariant is a chain, each link using the ones before:

1. `TypeInv` = `TypeOK`, and a worker past `Receive` holds a job (`HoldsJob`),
   and a `Stop` that found the manager running read a real generation
   (`StopReads`). `TypeOK` alone is not inductive: a worker step reads
   `held[g].id`. Gives `TypeCorrect`.
2. `StopInv`: generations not yet begun have no workers, those of a drained
   `Stop` have all exited and stay so, `recvCanceled` precedes exit. It is
   needed because `wg` counts all generations: `AllExited` is seen at one moment
   and `Stop` returns at a later one, with a `Start` perhaps in between. Gives
   `StopWaitsForWorkers`, `StopIsGraceful`.
3. `PlaceInv` = `NoDuplicates` and `NothingLost`, inductive together given
   `TypeInv`: a step moves one job from one place to the next, so one lemma about
   taking a job up, one about releasing it, and one about keeping it cover the
   worker's eleven steps (`PlaceTake`, `PlaceRelease`, `PlaceKeep`). Gives
   `DeliveredOnce`, `AcceptedIsKept`.
4. `AttemptInv` ties the history `attempts[j]` to the attempt number in the job
   that travels: not yet tried where it waits (`Fresh`), tried where it is
   handled (`Tried`). Gives `AttemptsAreBounded`.

The refinement (`ManagerImplementsLedger`) rests on links 1 and 3. `LedgerStatus`
is a `CASE` over where a job is; since `NoDuplicates` makes the places exclude
each other, it equals `StatusNow`, which reads five facts about the job. A step
that leaves these facts of a job alone leaves its status (`Stays`), so each
action is looked at for the one job it moves: it is one move of the ledger, or
none. `Close` is the exception: it loses all delayed jobs at once, which is the
ledger's loss of a set.

### Lifecycle

The theorems of `AppLifecycleProofs` hold for every number of hooks, with and
without `OnStart`, every set of `Serve` calls, `Shutdown` callers and requests;
`LifecycleAssumption` says what kind of value each constant is and that the
callers have different names.

`LifecycleInv` has two halves. What holds in every state are the types and three
facts that keep them: `NextFits` (Start's index is within the hooks it reads, so
no append goes past the last), `OnceFits` (who is inside `stopOnce`, and that
`done` is closed when it is over) and `ServersFit` (a server accepts requests only
after its publication, and is shut down only by a `Shutdown` that took it). The
other half holds unless `early`: `StateFits` ties the state to the places of `Start`
and `Shutdown`; `StartHooksFit` and `StopHooksFit` say for each place which hooks
are up and which the lists `started`, `undo` and `closing` still hold: always the
first ones in start order, none of them stopped before; `DrainFits` says what a
shutdown that has passed the servers relies on: unless one was missed, no other
server is left, and unless it was forced, no request. Gives
`LifecycleTypeCorrect`, `LifecycleDependenciesUp`, `LifecycleHooksOutlive`,
`LifecycleServeClean`.

`OverlapInv` is what holds also under `early`, where the lists need not be the first
hooks. No list holds a hook twice, and all that `started` holds is below the index
of `Start` (`ListsFit`: the write of an append writes what was read, whether or not
`Shutdown` has emptied the list meanwhile); whatever is up is in a list that will
stop it, or about to be appended (`UpListed`); each of the two that stop hooks,
`Shutdown` and the undo, takes its list once, so a hook is stopped at most once by
each (`StopsCounted`); and `failed`, once stored, is overwritten by `Shutdown` only
(`FailedStays`). Gives `LifecycleStoppedOnce` and `LifecycleDoneClean`;
`LifecycleForward` follows from which place stores which state. The exceptions of
the theorems are those of the properties, listed in section 3.

### Hub

The theorems of `HubProofs` hold for every set of topics and subscribers, every
replay and channel size, every cap and any number of events; `HubAssumption`
says what kind of value each constant is.

1. `AttachInv` = `AttachedWhileOpen` and `Shape` (each topic has a set of
   subscribers, and a connection not yet made has no closed channel). Two lemmas
   say what creating a topic (`TopicLockedKeeps`: eviction takes only topics
   without subscribers) and detaching (`DetachedRemoves`) do to who is attached;
   each action is one of these or leaves the topics alone. Gives
   `NeverSendsOnClosed`.
2. `StreamInv` adds `NoGaps`, `ChannelsFit` and `StreamShape`: rings no longer
   than `replay`, and no more replay events in a channel than events. `NoGaps`
   needs `AttachInv`, since `Publish` sends to the subscribers of the topic of
   that name, and `NoGaps` speaks of those who asked for it. Gives
   `LiveWithoutGaps`, and `ReplayFits`: `Subscribe`, which sends the replay
   under `h.mu`, never blocks.
3. `ReplayInv` adds the types, and of each ring that it is
   read from `start` as the latest events in order (`Ring`): a write goes to the
   next free place, or over the oldest, and either way the rest moves up by one.
   `NumberInv` says that an event's ID, unless it is a custom one, is its
   position in the topic's history as long as the topic was not evicted, in the ring, in the channels
   and at the clients; so a client's last ID, where the code compares numbers,
   says what it has. What `Subscribe` picks is exactly what is newer
   (`Positions`; the n-th picked place is found by counting the places below it,
   with the pigeonhole theorem for finite sets instead of an induction). Gives
   `HubTypeCorrect`, `RingIsLatest`, `ReplayIsExact`.

### Redis queue

The theorems of `RedisQueueProofs` are about `Spec` of `RedisQueue`, for every set
of jobs and workers, every attempt limit, batch size and number of faults and
requeueings; `RedisAssumption` says what kind of value each constant is.

`QueueInv` = `TypeOK`, `HeldFits`, `Counted` and `NothingLost`, inductive together.
`HeldFits` is what the settling relies on: a job about to be acknowledged was
handled, one about to be retried has an attempt left (without it `TypeOK` is not
inductive), and one about to be taken out of `processing` unhandled cannot be
decoded. Such a job passes into the hands of the worker that buries it, and stays
there until it is buried or a fault is counted (`StaysLost`). The lemmas about
`LREM` carry the argument: taking a payload out of `processing` leaves every
other one in it (`LRemKeeps`), so a step may only lose the job it is about, and
each puts that one elsewhere in the same command. There is one lemma per action;
the outcomes of a command need no cases of their own. Gives
`RedisTypeCorrect`, `RedisLosesNothing`.

`DeliveryInv` counts. For an attempt of a job, `Owed` adds up the times it was
handled, the payloads of this or an earlier attempt that wait in `ready` or
`delayed`, and the workers that hold an earlier attempt and may still retry it:
each of these can become one more call of the attempt. The sum is never more than
the dispatches of the job (one at most) and its requeueings. Each step moves one
unit from one summand to another: promotion from `delayed` to `ready`, `BLMOVE`
from `ready` to a call or to a worker that may retry, `Retry` from that worker to
`delayed`; a lost answer or a crash takes one away. `processing` is not a
summand: only `RequeueProcessing` reads it, and it pays for what it moves.
`Carried` says that, until something fails or is requeued, a payload has no more
copies in `processing` than workers that will take one out. Both were checked by
TLC on the instance of `redis_queue` before they were proved. The set of workers
may be infinite; that only finitely many hold something is part of the
invariant. Gives `RedisDeliversOnce`, `RedisStrandsByFault`.

### Services on a store

The theorems of `StoresProofs` hold for every set of keys, calls, attempts,
deliveries, requests and failures, every size of the store and all times to live,
rates and bursts. The proofs use of the store only `Effect`: after an operation
that stores some items and deletes some keys, every other live key is still live
or a lapse of it was counted, and nothing else was stored. This is shown once of
the operations of the LRU list (`StoreNextEffect`), with eviction, expiry, the
janitor and failures.

1. *Debts* (`DoneOnce`, `LoadShared`). What happened for a key (requests that
   took effect, deliveries handled, loads) is paid for by what excuses it
   (lapses, results that could not be stored, deliveries that crossed, failed
   operations), all but one; and that one is free only while the key is live or
   somebody is about to make it so (`IdemDebt`, `HookDebt`, `FlightDebt`). A
   request that finds the key absent therefore finds every earlier one paid. The
   counts include those still at work, since the excuse may come before they end.
   `IdemAnswers` and `FlightSound` add that what is stored or returned is the
   result of a request, or a load, of that key.
2. *Rates* (`RateBounded`). `LimitInv` is a potential: what a key was let through
   with readings from a moment on, in intervals, has moved its theoretical arrival
   time that far beyond the moment, or it was dropped at a reading that far beyond;
   and the law never moves it further than a burst beyond a request's own reading.
   A late reading sees a burst that is nearer, so it is counted like any other
   (`Counted`).
3. *Sessions* (`SessionGone`). An ID is removed when it is not live and no
   request that could still store it has it, those undone by a refused removal
   excepted (`Removed`). It stays so, because a step stores only an ID that its
   request holds, or a fresh one. That a fresh one exists is counted: each request
   issues one at most (`SessionTyped`).

`StoresInv` says of the service in use its own invariant, and of the others that
they are as they began. Its assumptions on the constants were made explicit for
the proofs: the loads and hits are of keys of the store and `None` is no caller
(`FlightAssumption`, `RateAssumption`); an accepted delivery has an event key
(`WebhookAssumption`: its ID, or else the text whose signature was accepted); and there are
at least as many possible session IDs as requests (`SessionAssumption`;
`newID`, session/session.go:245, draws 32 random bytes and is taken never to
repeat one). Gives `EffectsAreOnce`, `LoadsAreShared`, `RateIsBounded`,
`SessionsStayGone`.

### The container and the start

The theorems of `StartupProofs` are about `StartupSpec`, for every set of types,
every plan of registrations and every list of components. `StartupAssumption`
says what kind of value each constant is, and what `App.supply` and `register`
guarantee of a provider: a ready-made value has no parameters and is a singleton.
`Report` and `Begin` may add any diagnostics, so what the routes contribute is
covered.

`StartupInv` goes along the phases of `Start`:

1. *The calls.* `CallsNested`: each type on `stack` is below those it is called
   for, so a recursion that meets a type again has found a cycle. `SearchSound`:
   what is `done` was done after everything it depends on; so when all types
   are, the order of `done` shows that none is below itself, and the cycle
   reported, being a piece of the stack, is a real one. `Validated`: everything
   after the search has a graph that is complete, without a cycle, and without a
   use of the wrong scope (`Clean`).
2. *Construction.* The singletons are closed under what they depend on, and so
   are they together with the values of a request (`SingletonsClosed`, `Scoping`);
   what is on the stack is not among them. Constructors are therefore called
   after those of everything below, and a singleton's once (`Building`).
3. *Releases.* No hook belongs to something below what an earlier hook belongs to
   (`HooksSound`), nor does a cleanup of a request (`Scoping`): whoever goes
   through these lists backwards closes nothing that something still open stands
   on. Whatever is open is in a list that will close it: the hooks, those
   started, or the request's cleanups (`Owned`); the exceptions are those of the
   property (`Forsaken`).

`Below` is the least set closed under dependencies; what the steps need of it
(`BelowLeast`, `BelowClosed`, `BelowTransitive`, and that it stays within a set that
is closed) is proved once over an order given as a parameter. The minimum that
`FirstLeft` chooses exists because the naturals are well founded. TLC checked
`StartupInv` on all states of the instance of `application` before it was
proved. Gives `StartupTyped` and `ContainerSafety`.

### Applications

The theorems of `ApplicationProofs` are about `ApplicationSpec`, for every set of
servers with any middleware in any order, any table of routes in any nesting of
groups, any policies, keys, tokens and requests. The assumptions say what kind of
value each constant is and, beyond that: a policy is made of policies below it, and
`Not` of one; an authenticator returns no empty principal (`AuthAssumption`);
patterns and paths are nonempty sequences of segments (`PipelineAssumption`); a
registered route is not the absence of one (`ApplicationAssumption`).

*What the container promises.* Each step of an application is one of `StartupNext`
or leaves the container alone (`StepIsStartup`), so `ApplicationSpec` implements
`StartupSpec` (`ApplicationIsStartup`), and `ContainerSound` carries over.

*Recursive functions.* What the code computes by recursion is a recursive function
here, `f[x \in S] == ... f[y] ...`, and a `CHOOSE` to the prover. `Recursion` shows
once that such a function exists and satisfies its equation if every call is on an
argument of smaller rank: the functions that satisfy it up to a rank agree, and
there is one for each. `RankInduction` proves by the least counterexample what
then holds of all arguments. Both take sets where an induction theorem of the
library would take an operator.

*Policies.* `PoliciesSound`: along `Nesting`, a policy that allows holds in
three-valued logic unless an `Any` in it dropped a failure, and one that denies
or fails does so there too, with the same exception.

*The router.* `FindsBest`, by `NodeBest`: from every node of the trie, the match is the
best of the routes that pass through the node and cover the rest of the path,
by induction on how much of the path is left. Literal before parameter before
wildcard is the order `Beats` compares in, and two routes that both cover a path
and beat each other nowhere would have one shape, which `Conflict` refuses.
`UrlBack`: the values of a route's parameters, put back into its pattern, are the
path.

*The request.* `StepIsDeed` looks at every action of the pipeline once and
says which of a few deeds it is, as far as callers and routes are concerned: the
request goes on unchanged (`Onward`), is turned away (`Away`), is identified
(`KnownBy`), allowed (`AllowedBy`), dispatched (`Route`), or handled (`Handled_`). The
first two invariants need only these.

1. `RoutingInv`: the table is sound, names are unique once `Start` went through,
   and from dispatch on the context holds what the lookup gave. `RoutesBest` is not
   inductive: it speaks of the table as it is now, so the invariant has to say that
   registration is over before a request arrives. Gives `RoutedBest`.
2. `CallInv`: while a request is on its way in, it has passed the first `at - 1`
   stages of its whole chain (the server's, then those of the groups and the route,
   which dispatch appends), and whoever the context names is proved and allowed by
   each of these (a policy that forgets a failure, `ForgetsFailure`, allows without
   holding). `HandlerEntitled` speaks of the moment of the handler and of all
   stages at once, so it needs this for every prefix; a stage that is passed leaves
   what was known before it (`Behind`), since only one that finds no user sets one.
   Middleware marks its own stage of the chain on the way in (a compressor that is
   at work, a cache that records); `ChainOK` says nothing else changes. Gives
   `HandlersEntitled`.

3. `WritersInv`, for `CacheHolds` and the request's half of `ApplicationTypeOK`.
   `CacheHolds` speaks of what is stored, and holds because of what every writer
   under the recorder, and the recorder itself, have seen by then. `StackedBy` says
   which writer belongs to which stage: those at work on the way in and out are, in
   order, the writers of the stages behind the request. `Frontier` says how far
   what was said has come: there is a layer `g` (none, or a compressor that still
   holds the response) above which every layer has passed status and body on, while
   all below it are fresh. `WriteHeader`, `Write`, `Flush` and the closing of a
   compressor each move `g` or leave it (`Good` and the lemmas after it, by
   induction from the outermost layer down). `Coherent` ties this to `meant`, what
   the program said; `Change` lists the ten things a step can do to the response, the
   chain and the cache, and `StepChanges` finds each action among them. Two things
   the invariant must not claim: after a panic the writers of the stages it passed
   stay where they are, so only their number is bounded from below; and once recovery
   has turned one into an error, the remaining stages are built in and cover nothing
   (`OpenBy`, which `Opened_` gives: recovery comes before all middleware). Gives
   `CacheShares` and, with `PendingInv` and `StartupTyped`, `ApplicationTyped`.

TLC checked all three on all states of `application`, where covers are nested and
panics recovered.

### Model-checked only

* The liveness properties `EventuallySettled` (of both queues), `StopReturns`,
  `ShutdownReturns`, `ServeReturns` and `ServeEnds`: they need fairness and
  `ENABLED`, which are out of the prover's reach.
* Of applications: `OutcomeDelivered` and `InputBound`. The first needs, beyond
  `WritersInv`, what is on the wire once a compressor above it is closed, and that
  later stages keep the headers of earlier ones; the second what the recursions of
  `Binding` and `Validation` compute for every value.
* The findings, which are single behaviours.

## 5. Not modelled

`PROJECT.json` lists every component with its status and the reason. In short:
configuration, OpenAPI, uploads, network helpers and correlation are conversions
of one call without shared state; the transaction helpers of the database
adapters commit or roll back inside one call of `database/sql`, and the rest is
I/O; tracing only observes; the command-line tool, examples, test helpers and benchmarks are not part of the running system.
