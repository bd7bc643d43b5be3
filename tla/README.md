# Verification of the Commvault exporter

TLA+ models of `commvault-exporter`, a Go process that polls a Commvault
CommServe in the background and serves the results to Prometheus. TLC checks
the models on small instances; TLAPS proves theorems about them for every value
of their constants.

    tlc -workers 2 -config ExporterSched.cfg MCExporter
    tlapm ExporterProofs.tla

Each configuration belongs to the MC module it is named after (`ExporterOnce.cfg`
to `MCExporter`, and so on). `PROJECT.json` lists the runs, the source lines of
every definition, the hazards with the properties that watch them, and for each
property a mutant of the model that breaks it.

## Inventory

| part | source | state | operations | module |
|---|---|---|---|---|
| refresh scheduler | `internal/collector/exporter.go` | scheduler context, cycles, module states, gauges | `Start`, `Stop`, `RefreshOnce`, `refreshModules`, `schedulerLoop`, `runModule` | `Exporter` |
| API session | `internal/commvault/client.go` | token, login lock, request slots | `EnsureLogin`, `login`, `do`, `doAuthenticated`, `doOnce`, the `Get*` calls | `Client` |
| snapshot cache, scrape | `exporter.go`, `cache.go`, `data_metrics.go` | module and subcollector snapshots | `runModule`, `runSubcollector`, `Collect`, `cacheStatus`, freshness | `Publication`, `SnapshotCache` |
| paged inventories | `client.go` | none between calls | `GetVMs`, `GetJobs` | `Paging` |
| errors and retries | `client.go`, `exporter.go` | the time of a module's next attempt | `do`, `IsTransient`, `RetryAfter`, `parseRetryAfter`, `waitRetry`, `retryDelay`, `runModule` | `Retry` |
| library detail pool | `modules.go` | a job channel, a result slice | `collectLibraries` | `Libraries` |
| event aggregation | `modules.go` | none | `aggregateStorageEvents` | not modelled: one pass over a list |
| metric mapping | `modules.go`, `data_metrics.go` | none | `collect*` | not modelled: straight-line formatting |
| configuration | `internal/config/config.go`, `main.go` | none | precedence of flags, environment and defaults, label validation | `Settings` |
| process lifecycle | `main.go` | the HTTP server, the signal channel, the exit code | `run`, `shutdownServer` | `Lifecycle` |
| HTTP endpoints | `main.go`, `exporter.go` | none | `/readyz`, `/debug/cache`, `/metrics` | `/readyz` in `Exporter` and `Lifecycle`, `cache_ready` and `/metrics` in `Publication` |
| response types, API metrics | `types.go`, `metrics.go` | counters | JSON decoding | not modelled: no control |

How they interact. `main.run` builds the client and the exporter and calls
`Start`. The scheduler starts one goroutine per enabled module; each repeats a
one-module cycle (`refreshModules`), whose run (`runModule`) calls a `collect*`
function, which calls the shared client. The client logs in when it has no
token, sends requests through four slots, and retries. A run's result goes to
the module state, the snapshot maps and the gauges, all under `cacheMu`.
Prometheus scrapes concurrently. `RefreshOnce` runs a cycle over all modules
beside the scheduler. `Stop` and signals cancel the scheduler context.

What is hard about it. Cycles overlap, and each sets process-wide gauges when it
ends. A module's worker and `RefreshOnce` compete for the module lock, and the
worker sleeps on a time the other may change. `Start`, `Stop` and cancellation
race. Calls share a token that any of them may find rejected while another is
replacing it; login needs a slot of the same pool the rejected call used.
Requests fail, time out, are rejected or are told to come back later, and the
errors of several requests are joined before anybody decides when to try again.
Signals arrive before, during and after the shutdown, while handlers are still
being served.

What makes each part correct:

* scheduler: every due module is refreshed until cancellation, never before it
  is due; gauges say what the module states say; stopping is final;
* session: slots never leak, concurrent calls share one login, an expired token
  costs no call its data, no valid token is thrown away, every call returns;
* cache and scrape: a scrape sees only complete, immutable snapshots that are
  not too old, and one failing subcollector does not affect its siblings;
* paging: a result is complete or an error; library pool: each library is
  fetched once, and any failure keeps the old snapshot;
* errors and retries: nobody is asked before the time they named (a 401 that
  the client meets with a login excepted), permanent errors are never hurried,
  delays grow to the interval and never overflow;
* configuration: the process runs with what it was given, and refuses the rest;
* lifecycle: every signal ends the process, on every path the scheduler is
  stopped first, and exit code 0 means a clean end.

## The models

In every module one action is one critical section, or one stretch of code
between two points at which another goroutine or the server can be observed. The
code's locks are what makes these stretches atomic; where it reads or writes
without a lock (a scrape's vectors, a worker's timer) there are several actions.

### Exporter

`exporter.go`, the part that decides when what runs. Actors are the enabled
modules' goroutines and the `RefreshOnce` calls; both run cycles.

| model | code |
|---|---|
| `Start`, `Stop`, `CancelParent` | `Start` with `startOnce`, `Stop`, the signal context of `main.run` |
| `CallRefreshOnce` | `RefreshOnce` takes `refreshMu` |
| `WorkerCheck`, `Arm`, `TimerFires`, `WorkerExit` | the loop of a goroutine of `schedulerLoop`: `ctx.Err()`, the read of `NextAttempt`, the `select` |
| `BeginCycle`, `EndCycle` | the two critical sections of `refreshModules`, with `up`, `activeCycles` and the next-attempt gauge |
| `StartRun`, `RunSucceeds`, `RunFails` | the two critical sections of `runModule`, under the module's lock |
| `LoopEnd` | `workers.Wait()` and `setNextAttempt(time.Time{})` |
| `Backoff`, `RetryDelays` | `retryDelay`, its jitter as a set of delays |

`BeginCycle` includes the start of the cycle's goroutines. Left out: counters and
durations that are only reported, and repeated `Stop` calls, which change
nothing. A run may fail whenever it likes, which covers deadlines and every
other cause; it may not succeed when its context was done before it began.
Readiness (`Ready`) is the condition of `/readyz`.

`PollSchedule` is the abstract specification: every module is polled on its own,
never before it is due, and due again one interval after a success, or between
one unit and one interval (or the server's `Retry-After`) after a failure.
`Exporter` without `RefreshOnce` calls implements it.

### Client

`client.go`, one `Get*` call per goroutine. `EnsureLogin`, `ReadToken`,
`AcquireSlot`, `GetSucceeds`, `GetFails`, `GetRejected`, `LoginSucceeds`,
`LoginFails`, `Retry` and `Cancelled` follow a call through `EnsureLogin`,
`login`, `do`, `doAuthenticated` and `doOnce`; `page` is the loop of a paged
call. The server is external: `Answer`, `AnswerLogin` and `Revoke`. It answers
401 only to a request whose token is not valid, and may revoke any token at any
time. Bodies, headers, the exact backoff and the exported `Login`, which nothing
calls, are left out.

### Publication

From a run to a scrape: `runModule` and `runSubcollector` as writers of vectors,
`Collect` and `cacheStatus` as readers. A module's data come in parts, fetched
one after the other into vectors of their own (`VectorOf`); `SubSucceeds` and
`RunSucceeds` publish a reference to the vector. `Capture` is `Collect` up to
`cacheMu.Unlock()`, after which `ReadStatus` and `ReadVector` read gauges and
vectors one by one. `Ask` and `Tell` are the two halves of a handler that reads
the clock before it waits for the lock. `StaleAt`, `Required` and `CacheReady`
are the freshness policy.

All vectors of a part count as one, and a part's content is the number of rows
written. A part's end and the beginning of the next one are one action: nothing
else happens in between. Runs are the scheduler's; the only status gauge kept is
`collector_cache_stale`, since the age, timestamp and `up` gauges are written in
the same critical sections. A configuration with no enabled module is excluded.

`SnapshotCache` is the abstract specification: a scrape shows, as of one moment,
the latest complete result of each dataset that is not too old.

### Libraries

`collectLibraries`: `InventoryReturns` fills and closes the channel and starts
the workers, `Take` is a receive, `Fetched` the end of `GetLibraryDetails`,
`Done` the end of the `range` loop, `Collect` what follows `workers.Wait()`. The
loop that writes metrics holds a lock nobody else wants at that time and is one
action. `Cancel` is the deadline or the end of the scheduler: details asked for
after it fail at once.

### Paging

`GetVMs` and `GetJobs` as one loop over offsets. The server's inventory changes
between the pages: records appear at any place and disappear. It answers with
the requested number of records unless it has fewer, and may or may not report a
total.

### Retry

What a failed request does, in time: one module's worker runs its datasets one
after the other, the login after a 401 and the client's own retry inside a
request, the module's next attempt after the run.

| model | code |
|---|---|
| `Send`, `Wakes`, `ContextDone` | `doOnce` sends, `waitRetry` ends by its timer or by the context |
| `Succeeds`, `Rejected`, `Breaks` | an answer, an answer with an error status and its `Retry-After`, no usable answer |
| `Unauthorized`, `LoggedIn`, `LoginFails` | the loop of `doAuthenticated`: the first 401 of an attempt, the GET sent again after `EnsureLogin`, the error of a login, also of the one each `Get*` call begins with |
| `MayRetry`, `RetryLater`, `AfterError` | the condition and the delay of the one retry in `do` |
| `IsTransient`, `JoinPermanent`, `JoinAfter` | `IsTransient` and `RetryAfter`, folded over the joined errors of a run |
| `ParseRetryAfter` | `parseRetryAfter` |
| `BeginRun`, `RunSucceeds`, `RunFails`, `EndRun`, `Delays` | `runModule`'s plan |
| `Backoff`, `Doubled`, `Jittered`, `RetryDelays` | `retryDelay` with the width of a `time.Duration` |

Errors are named by their cause, the tree of wrapped and joined errors by what
the two functions fold over it. Durations wrap at `MaxDuration`; times do not,
as in Go. The clock may pass between any two steps: the code may be slow, and a
request may be answered late or not at all. `notBefore`, `refused`, `hopeless`,
`quiet` and `paused` are history: what the servers asked for and what the run
met, written down independently of what the code makes of it. The worker has its
module to itself, as in `main`; the token it shares with the other modules, so
that any `Get*` call may find itself without one and log in. A login is one
place: how its POST is sent is `Client`, and when, the properties do not say,
which are about GETs. Cancellation of the scheduler is left to `Exporter`.

### Settings and Lifecycle

`Settings` has the configuration as operators over an invocation (flags and
environment): `First` and `Choose` are the precedence rules, `ParseLabels` and
`MergeLabels` the custom labels, `Refused` the errors that end `run` before
anything is started, `Registers` whether Prometheus accepts the descriptions.
Label names are the real ones; URLs, modes and files are not given, good or bad.

`Lifecycle` is `main.run` as a process: the main goroutine, the server's
goroutine, the handlers of `/readyz` and the signals.

| model | code |
|---|---|
| `RejectFlags`, `ShowVersion`, `RefuseSettings`, `Configure`, `Register` | `run` up to `MustRegister` |
| `StartExporter`, `SpawnServer`, `Notify` | `exporter.Start`, the `listenAndServe` goroutine, `signal.Notify` |
| `SelectSignal`, `SelectError` | the `select` on `sigCh` and `errCh` |
| `CancelContext`, `StopExporter`, `Shutdown`, `Drained`, `DrainTimeout` | the shutdown in its order |
| `StopSignals`, `Return` | the deferred calls |
| `Ask`, `Tell` | `ReadyHandler`: `cacheStatus` under `cacheMu`, the status it writes after that |
| `Listens`, `ServerFails`, `ServerCloses`, `Accept`, `Signal` | external: `net/http` and the operating system |

The scheduler is its context and the stopped flag; what it does in between is
`Exporter`. A handler that has found the exporter ready before it was stopped
may still write its 200 while the server drains: `DrainingFindsNoneReady` is
about what handlers find.

## Runs

| run | instance | shows |
|---|---|---|
| `exporter_scheduler` | two modules, no `RefreshOnce`, interval 4, six ticks, `Retry-After` 0 or 3 | implements `PollSchedule`; `up` and the next-attempt gauge are exact (`UpMatchesLatestAttempts`, `GaugeIsEarliest`); a due module is refreshed unless the scheduler is cancelled; cancellation ends every worker and clears the gauge for good |
| `exporter_refresh_once` | two modules beside a `RefreshOnce` call, two ticks, with fairness | with overlapping cycles: `up` is never left at 1 over a failed module, the gauge is 0 while any cycle is open, a module has a plan exactly when it has a result and no run, no live scheduler after `Stop`, readiness never returns; `RefreshOnce` returns |
| `client_session` | two calls of two pages, one slot, three tokens, with fairness | slots are accounted for, logins shared, one expired token costs no call its data, no valid token is dropped, every call returns |
| `client_login_replayed` | two calls, two slots, two tokens | violated, see below |
| `publication` | a module with two parts, two runs, two scrapes, one probe, three ticks | failing parts cost their siblings nothing, a module counts as fresh only with all its parts, published vectors are frozen, scrapes implement `SnapshotCache` |
| `publication_ready_not_served` | the same module, one scrape | violated, see below |
| `libraries` | up to six libraries, four workers, cancellation | complete or a failure that names what is missing; the call returns |
| `paging` | up to six records, pages of two | a call misses no record that stayed, unless one already read was removed, and repeats none unless one was inserted among those read |
| `retry` | two datasets, interval 5, deadline 4, timeout 2, four-bit durations, credentials, nine ticks | no GET before the time its server named, no fast retry after a permanent error, exponential delays up to the interval, no delay lost to overflow; the module is planned as `PollSchedule` promises |
| `retry_after_401_ignored` | the same, six ticks | violated, see below |
| `lifecycle` | invocations odd in a few things at a time, two requests, two signals, with fairness | the process runs with what it was given, refuses bad numbers, stops the scheduler on every path, finds nobody ready while it drains, exits with 0 only after a clean drain, and ends |
| `lifecycle_label_panics` | one label of each name the code knows | violated, see below |

Why the bounds are enough. The races of the scheduler are between two cycles
over one module (a worker and `RefreshOnce`) and between two modules' cycles:
two modules and one call have both. Two ticks let a module fail, wait and run
again while the call is open; the six of `exporter_scheduler` let it back off to
the cap. With a single slot a login competes for it with the other call's
requests, and a call that kept its own would block for ever; three tokens allow
two revocations, one more than a call must survive. Two runs per part let a scrape hold a vector
while the next is written, and `MaxStale = 1` with three ticks lets data expire.
Six libraries over four workers make workers take a second index; six records in
pages of two give exact multiples, short pages and three pages. In `retry` one
dataset's `Retry-After` must survive the sibling's error, the delays 1, 2, 5
double once and then meet the cap, and doubling 4 would already overflow: four
failures in a row show it, and nine ticks have room for them; a
second is two units, so that of the headers one fits the client's retry, one
outlasts the interval, one overflows, one is negative and one is a date that
passes. Two signals are one to ask for the end and one that finds the process
leaving or the channel full; two requests are one that hangs and one that is
answered. Deadlock is checked everywhere but in `Publication`, where runs and
time run out; in the others, end states have an explicit stuttering step.

Fairness. `Exporter`: the clock, the workers' steps, the cycles and the end of
the loop are weakly fair: the Go runtime runs every goroutine, and a run ends
because its requests have deadlines. A run that waits for a module's lock gets
it, as `sync.Mutex` does not starve a waiter. Nobody has to call `Start`, `Stop`
or `RefreshOnce`, or to cancel. `Client`: each call's steps, which includes that
the server answers or the transport times out; revocation and cancellation are
not forced. `Libraries`: each worker and the collector; the HTTP client's
timeout ends a request. `Lifecycle`: the main goroutine only, whose drain has a
timer; nothing is assumed of the server, of handlers, which may hang, or of
signals. `Retry`, `Paging` and `Publication` are checked for safety only.

## What is proved

TLAPS proves these for all values of the constants, from the named assumptions in
the modules (finite sets of actors, positive bounds, parts that belong to one
module, and invocations whose label lists and numbers are well typed).

* `ExporterProofs`. The inductive invariant is `TypeOK`, `CyclesCounted`
  (`activeCycles` is the number of actors in a cycle: needed to know that it
  never drops below zero, and that the gauge may be set exactly when no cycle is
  open), `CycleShape` (pending and running modules belong to an open cycle's
  names) and `LocksExclusive` (one run per module). From it follow `TypeCorrect`,
  `GaugeZero`, `UpJustified`, `AttemptsPlanned`, `StopIsFinal` and
  `ReadyIsLostForGood`, and `SchedulerStaysDown`: a scheduler that has wound down
  stays so under the `RefreshOnce` calls that are still open or yet to come, the
  safety half of `SchedulerWindsDown`.

  Without `RefreshOnce`, as `main` runs it, `Exporter` implements `PollSchedule`
  (`SchedulerImplementsSchedule`). Besides the invariant above this needs that an
  actor runs its own module only, and that a worker about to run is entitled to:
  its module's next attempt is due or unset. Then `UpIsExact` and `GaugeIsExact`,
  which do not hold with `RefreshOnce`: by `ResultsKept` a cycle's failure is
  still the module's latest result when the cycle ends, so that ending it sets
  `up` to what the modules say; by `GaugePlanned` the gauge is the earliest plan,
  and no plan changes while it names a time.
* `ClientProofs`. The invariant joins `TypeOK`, `SlotsAccounted` (free slots and
  calls in a slot add up), `LoginsShared`, and two facts about the server's
  answers: tokens in use were issued, and a 401 is on its way only for a token no
  longer valid. The last is why `TokensAreKept` holds: a late 401 cannot cost
  the client a newer token. Also `TypeCorrect`, `SlotsNeverLeak`, `LoginsAreShared`.
  `ExpirySurvived` adds `Excuses`: once a call has been refused for a token,
  whatever token the client has or gets next is newer than some revoked one
  (`Renewed`), so a second 401 of that call, or of one that read no token at all,
  takes a second revoked token (`Two`).

  Two theorems hold the safety half of `CallsReturn`. `NoCallIsStuck`: until all
  calls are over one of them can take its next step, so the login lock, the slots
  and the answers never form a circle of waiting calls; it rests on
  `SlotsAccounted` (who holds a slot is not waiting for one) and on `Answered`
  (the login lock is held by a call that logs in, and a call that looks at an
  answer has one it can handle).
  `CallsWearOut`: `Work`, what is left of a call by its place, its attempts and
  its pages, shrinks with every step of the call and never grows with another's.
  `CallsReturn` needs besides only that calls which can move do: the fairness.
* `PublicationProofs`. `Counts` (typing, and how often each part was fetched
  given where its run stands) gives `TypeCorrect` and `SiblingsFetched`. `VInv`
  adds that what is published is complete, that every fetch is ahead of what is
  published, and that what scrapes captured was published: so the vector being
  written is nobody's (`VectorsFrozen`), and each step of a scrape maps to a step
  or a stutter of `SnapshotCache` (`ScrapesImplementCache`). `Timely` relates
  publication times to the start of runs (`FreshnessEarned`).
* `LibrariesProofs`. `OnePlaceEach`, `CompleteOrFailed` and `Waited` (workers
  run only while the collector waits, the last one leaves a drained channel)
  are inductive together.
* `PagingProofs`. The properties are not inductive: `Distinct` adds that what is
  still to be read was not read yet, `Ahead` that every record that stayed is
  either read or still to be read. Insertions push records away from the part
  read and removals pull them into it, hence the names of the two exceptions.

* `RetryProofs`. `Shape` bounds the attempts of a dataset; `Patience` says, by
  where the run stands, what servers may still be waiting for: nothing of the
  datasets to come, no more than the joined `Retry-After` of those that are done.
  The lemmas show that no parsed header overflows and that its delay covers what
  the server asked for (`SecondsFit`, `AskedIsCovered`), for any width. From it
  `TypeCorrect`, `ServersAreHeard` (about `RetryAfterHeeded`, which leaves out
  what a 401 asks for) and `PermanentErrorsWait`.

  `FailuresPause` proves `FailuresBackOff` for any number of failures in a row.
  Its invariant is `PausesAddUp`: the pauses so far, with the one under way, cover
  the backoff of the failures so far. It needs what the recursive functions of the
  model compute (`BackoffIs`, `BackoffTimeIs`, `BackoffGrows`) and what jitter
  leaves of a delay (`JitterBounds`); `RetryDelayBounds` joins them: after any
  number of failures the delay is positive, no longer than the interval and at
  least four fifths of the doubled one. With the same lemmas every step maps to a
  step or a stutter of `PollSchedule` (`RetryImplementsSchedule`). All three assume
  `JitterFits`: twelve tenths of the interval fit a duration, which is so for
  intervals below 243 years. The code does not check it, and
  `JitterFitsOrOverflows` shows that it cannot be weakened: of any longer
  interval jitter can make a delay that is not positive.
* `LifecycleProofs`. `Phases` ties the place of the main goroutine to the
  scheduler and the server, `Asked` what exit code 0 will mean to what has
  happened so far. From them `TypeCorrect`, `SchedulerStopped`, `ExitIsClean` and
  `NoneFoundReadyInDrain`. `SettingsAreGiven` proves `SettingsAsGiven` for label
  lists of any length and any numbers: `ParsedLabels` says what one list gives,
  `MergedAsOne` that the lists of the environment and the command line, parsed
  apart and merged, give what the one behind the other would, and `Accepted` that
  nothing starts with settings that `Refused` stops. The safety half of `RunEnds`
  is `SignalsAreHeard` (a signal that has come and has not killed the process
  waits in `sigCh` for main) and `MainGoesOn` (main passes through at most twelve
  stages, never back).
* `Induction` holds what these need of induction over the numbers: every set of
  numbers has a least element and every set closed under successor is all of them
  (`LeastElement`, `SetInduction`, from the library's fact that `<` is well
  founded), a function that iterates a step exists (`IterationExists`, behind
  what recursive functions compute), and a bounded set of indices has a greatest
  (`GreatestIndex`, behind the last pair of a label).

Model-checked only: the liveness properties (`DueModulesAreRefreshed`,
`SchedulerWindsDown`, `RefreshOnceReturns`, `CallsReturn`, `CollectReturns`,
`RunEnds`), which are out of the prover's reach as they need fairness and
ENABLED. Every invariant and action property of the passing runs, and every
refinement, is a theorem.

## Findings

1. A Login POST can be replayed by the transient retry, which `client.go` and
   `README.md` of the exporter rule out: the login after a 401 fails transiently,
   its error is returned as the GET's, and the GET with its login is tried again
   (`client_login_replayed`).
2. Module freshness is not conservative: it is stamped at the end of a run, the
   parts at their own publication. Until a later run succeeds, `cache_ready` is
   still true while parts published early in the run have already expired
   (`publication_ready_not_served`).
3. `reservedCustomLabelNames` lacks `creator`, `client_group` and
   `subcollector`. A custom label of such a name passes validation and the
   registration of the exporter panics, instead of `run` returning 1 with the
   error that other reserved names get (`lifecycle_label_panics`).
4. The `Retry-After` of a 401 is not respected: `doOnce` parses it, but
   `doAuthenticated` drops the error, logs in and sends the GET again at once
   (`retry_after_401_ignored`). The exporter's `README.md` says of GETs that
   `Retry-After` is respected. That of every other error is (`RetryAfterHeeded`).

Five more things worth knowing. With a `RefreshOnce` beside the scheduler, `up`
may be 0 although every module's latest attempt succeeded: a cycle that saw a
failure clears `up` when it ends, even if another cycle has run that module again
with success since. That is why `UpMatchesLatestAttempts` is checked without such
calls, which `main` never makes; with them `UpIsJustified` holds. With them also,
workers keep the timers they armed, so the next-attempt gauge may name a time at
which no worker wakes. A paged call trusts the server's page size: a server
without totals, or with pages shorter than requested, ends the loop after one
page, and the truncated inventory counts as complete. A name that does not resolve for now counts as permanent: `net.DNSError`
usually wraps no error, and `IsTransient` follows `Unwrap` to its nil before it
asks `Temporary`, so such a failure waits for the whole interval. Jitter of a
delay beyond some 243 years overflows, which no sensible interval reaches.

## Not modelled

* Event aggregation (`aggregateStorageEvents`): one pass over a response that
  keeps a count and the latest event per key; no state between calls, and the
  repository's table tests reach its cases.
* Metric mapping (`collect*` beyond their calls, errors and order): rows become
  labelled gauges, formatting without control.
* Response types and API metrics (`types.go`, `metrics.go`): field declarations
  and request counters.
* `/debug/cache`, routing and JSON encoding of the endpoints: pure output.
* `Client.Login`, which nothing calls, and what the server does about page sizes
  it does not like.
