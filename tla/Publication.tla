---------------------------- MODULE Publication ----------------------------
(***************************************************************************)
(* From a module's run to a scrape: runModule, runSubcollector, Collect    *)
(* and cacheStatus of internal/collector.                                  *)
(*                                                                         *)
(* A module's data come in parts: a module without subcollectors has one   *)
(* part, itself; the parts of the others are fetched one after the other.  *)
(* The vectors a part is written to are reached by reference from its      *)
(* snapshot, and scrapes read them after releasing cacheMu.                *)
(*                                                                         *)
(* Runs are the scheduler's.  The vectors of one part count as one vector, *)
(* their content is the number of rows written, and a part is complete     *)
(* when it has Rows of them; what a fetch returns and why it fails is left *)
(* out.                                                                    *)
(***************************************************************************)
EXTENDS Integers, Sequences

CONSTANTS
  Modules,   \* the enabled modules
  Core,      \* coreModuleNames
  Parts,     \* the parts of each module, in the order they are fetched
  Scrapers,  \* concurrent scrapes, one each
  Probes,    \* concurrent requests to /readyz and /debug/cache, one each
  Rows,      \* rows of a complete part
  MaxStale,  \* cfg.MaxStale
  MaxRuns,   \* bound: runs of each module
  MaxTime    \* bound: the clock stops here

Count(m) == Len(Parts[m])
Part(m, i) == Parts[m][i]
PartsOf(m) == {Part(m, i) : i \in 1..Count(m)}
Datasets == UNION {PartsOf(m) : m \in Modules}

(* With no module enabled nothing is fetched or served.                    *)
ASSUME ModulesAssumption ==
  /\ Modules # {}
  /\ \A m \in Modules : Parts[m] \in Seq(Datasets) /\ Parts[m] # <<>>
ASSUME PartsAssumption ==   \* a dataset is one part of one module
  \A m, n \in Modules : \A i \in 1..Count(m), j \in 1..Count(n) :
    Part(m, i) = Part(n, j) => m = n /\ i = j
ASSUME BoundsAssumption ==
  /\ Rows \in Nat \ {0} /\ MaxStale \in Nat
  /\ MaxRuns \in Nat \ {0} /\ MaxTime \in Nat \ {0}

Never == 0   \* time.Time{}: the clock starts at 1

(* Every fetch of a dataset has vectors of its own. *)
Vectors == Datasets \X (0..MaxRuns)

VARIABLES
  now,      \* e.now()
  stage,    \* a module's run: "idle", "fetch", "finish" or "closing"
  part,     \* index of the part being fetched
  begun,    \* runModule's start
  hurt,     \* a part of the run failed
  runs,     \* how often each dataset was fetched
  rows,     \* content of each vector
  vector,   \* the vector of each dataset's snapshot
  time,     \* moduleSnapshot.Published of each dataset's snapshot
  pub,      \* Published of the module's own snapshot
  since,    \* start of the run that published it
  stale,    \* modules whose collector_cache_stale gauge is 1
  scrape,   \* "idle" or "open"
  list,     \* collectors a scrape has yet to read: <<dataset, vector>>
  seen,     \* what it has read: <<dataset, result>>
  status,   \* the collector_cache_stale gauges it has read
  asked     \* time at which a probe's handler called e.now()

runVars == <<stage, part, begun, hurt, runs, rows>>
snapVars == <<vector, time, pub, since>>
scrapeVars == <<scrape, list, seen, status>>
vars == <<now, runVars, snapVars, stale, scrapeVars, asked>>

-----------------------------------------------------------------------------
(* Helpers *)

Plain(m) == Parts[m] = <<m>>   \* no subcollectors
Dataset(m) == Part(m, part[m])

(* runSubcollector writes to new vectors. *)
VectorShared(m) == <<Part(m, 1), runs[Part(m, 1)]>>   \* mutant: the module's
VectorOf(m) == <<Dataset(m), runs[Dataset(m)]>>

Complete(m) == rows[VectorOf(m)] = Rows

(* What Collect serves at time t. *)
Served(t) == {k \in Datasets : time[k] # Never /\ t - time[k] <= MaxStale}

(* updateDynamicCacheMetricsLocked: modules stale at time t. *)
StaleAt(t) == {m \in Modules : pub[m] = Never \/ t - pub[m] > MaxStale}

Required == IF Core \cap Modules # {} THEN Core \cap Modules ELSE Modules

(* cache_ready: the oldest required snapshot is not stale. *)
CacheReady(t) == Required \cap StaleAt(t) = {}

(* The result a reader finds in a vector: 0 if there is none yet, -1 if    *)
(* it is not a complete result of the dataset.                             *)
ResultIn(k, v) == IF v[2] = 0 THEN 0
                  ELSE IF v[1] = k /\ rows[v] = Rows THEN v[2] ELSE -1

-----------------------------------------------------------------------------
Init ==
  /\ now = 1
  /\ stage = [m \in Modules |-> "idle"]
  /\ part = [m \in Modules |-> 1]
  /\ begun = [m \in Modules |-> Never]
  /\ hurt = [m \in Modules |-> FALSE]
  /\ runs = [k \in Datasets |-> 0]
  /\ rows = [v \in Vectors |-> 0]
  /\ vector = [k \in Datasets |-> <<k, 0>>]
  /\ time = [k \in Datasets |-> Never]
  /\ pub = [m \in Modules |-> Never]
  /\ since = [m \in Modules |-> Never]
  /\ stale = {}
  /\ scrape = [s \in Scrapers |-> "idle"]
  /\ list = [s \in Scrapers |-> {}]
  /\ seen = [s \in Scrapers |-> {}]
  /\ status = [s \in Scrapers |-> {}]
  /\ asked = [p \in Probes |-> Never]

Tick ==
  /\ now < MaxTime
  /\ now' = now + 1
  /\ UNCHANGED <<runVars, snapVars, stale, scrapeVars, asked>>

(* runModule takes the module lock and calls the collect function. *)
BeginRun(m) ==
  /\ stage[m] = "idle"
  /\ runs[Part(m, 1)] < MaxRuns
  /\ stage' = [stage EXCEPT ![m] = "fetch"]
  /\ begun' = [begun EXCEPT ![m] = now]
  /\ runs' = [runs EXCEPT ![Part(m, 1)] = @ + 1]
  /\ UNCHANGED <<now, part, hurt, rows, snapVars, stale, scrapeVars, asked>>

(* mutant: rows are written after the last one *)
WriteOn(m) ==
  /\ stage[m] = "fetch"
  /\ rows' = [rows EXCEPT ![VectorOf(m)] = @ + 1]
  /\ UNCHANGED <<now, stage, part, begun, hurt, runs, snapVars, stale,
                 scrapeVars, asked>>

(* The collect function fills its vectors without holding e.cacheMu: the   *)
(* cacheMu it locks is its worker's.                                       *)
WriteRow(m) ==
  /\ stage[m] = "fetch"
  /\ ~Complete(m)
  /\ rows' = [rows EXCEPT ![VectorOf(m)] = @ + 1]
  /\ UNCHANGED <<now, stage, part, begun, hurt, runs, snapVars, stale,
                 scrapeVars, asked>>

(* runModule returns; its local variables are gone. *)
Leave(m, label) ==
  /\ stage' = [stage EXCEPT ![m] = label]
  /\ part' = [part EXCEPT ![m] = 1]
  /\ begun' = [begun EXCEPT ![m] = Never]
  /\ hurt' = [hurt EXCEPT ![m] = FALSE]

(* On to the next part, or back to runModule after the last. *)
NextPart(m) ==
  IF part[m] < Count(m)
  THEN /\ part' = [part EXCEPT ![m] = @ + 1]
       /\ runs' = [runs EXCEPT ![Part(m, part[m] + 1)] = @ + 1]
       /\ UNCHANGED stage
  ELSE /\ stage' = [stage EXCEPT ![m] = "finish"]
       /\ UNCHANGED <<part, runs>>

(* runSubcollector after fn returned nil: the subcollector is published.   *)
SubSucceeds(m) ==
  /\ stage[m] = "fetch" /\ ~Plain(m)
  /\ Complete(m)
  /\ vector' = [vector EXCEPT ![Dataset(m)] = VectorOf(m)]
  /\ time' = [time EXCEPT ![Dataset(m)] = now]
  /\ NextPart(m)
  /\ UNCHANGED <<now, begun, hurt, rows, pub, since, stale, scrapeVars, asked>>

(* mutant: the error of a subcollector is logged and forgotten *)
SubErrorLost(m) ==
  /\ stage[m] = "fetch" /\ ~Plain(m)
  /\ NextPart(m)
  /\ UNCHANGED <<now, begun, hurt, rows, snapVars, stale, scrapeVars, asked>>

(* mutant: the first error ends the run *)
SubErrorEndsRun(m) ==
  /\ stage[m] = "fetch" /\ ~Plain(m)
  /\ hurt' = [hurt EXCEPT ![m] = TRUE]
  /\ stage' = [stage EXCEPT ![m] = "finish"]
  /\ UNCHANGED <<now, part, begun, runs, rows, snapVars, stale, scrapeVars, asked>>

(* runSubcollector after fn failed: its snapshot stays, its siblings run.  *)
SubFails(m) ==
  /\ stage[m] = "fetch" /\ ~Plain(m)
  /\ hurt' = [hurt EXCEPT ![m] = TRUE]
  /\ NextPart(m)
  /\ UNCHANGED <<now, begun, rows, snapVars, stale, scrapeVars, asked>>

(* runModule after the collect function returned nil. *)
RunSucceeds(m) ==
  /\ IF Plain(m)
     THEN /\ stage[m] = "fetch" /\ Complete(m)
          /\ vector' = [vector EXCEPT ![m] = VectorOf(m)]
          /\ time' = [time EXCEPT ![m] = now]
     ELSE /\ stage[m] = "finish" /\ ~hurt[m]
          /\ UNCHANGED <<vector, time>>
  /\ pub' = [pub EXCEPT ![m] = now]
  /\ since' = [since EXCEPT ![m] = begun[m]]
  /\ Leave(m, "closing")
  /\ UNCHANGED <<now, runs, rows, stale, scrapeVars, asked>>

(* runModule after it failed: nothing is published, and the failed cycle   *)
(* leaves the freshness gauges alone.                                      *)
RunFails(m) ==
  /\ IF Plain(m) THEN stage[m] = "fetch" ELSE stage[m] = "finish" /\ hurt[m]
  /\ Leave(m, "idle")
  /\ UNCHANGED <<now, runs, rows, snapVars, stale, scrapeVars, asked>>

(* The end of a successful cycle updates the freshness gauges. *)
CloseCycle(m) ==
  /\ stage[m] = "closing"
  /\ stage' = [stage EXCEPT ![m] = "idle"]
  /\ stale' = StaleAt(now)
  /\ UNCHANGED <<now, part, begun, hurt, runs, rows, snapVars, scrapeVars, asked>>

(* Collect up to cacheMu.Unlock(). *)
Capture(s) ==
  /\ scrape[s] = "idle"
  /\ scrape' = [scrape EXCEPT ![s] = "open"]
  /\ stale' = StaleAt(now)
  /\ list' = [list EXCEPT ![s] = {<<k, vector[k]>> : k \in Served(now)}]
  /\ UNCHANGED <<now, runVars, snapVars, seen, status, asked>>

(* Collect after it: the status gauges are read first, one by one. *)
ReadStatus(s, m) ==
  /\ scrape[s] = "open"
  /\ m \notin {g[1] : g \in status[s]}
  /\ status' = [status EXCEPT ![s] = @ \cup {<<m, IF m \in stale THEN 1 ELSE 0>>}]
  /\ UNCHANGED <<now, runVars, snapVars, stale, scrape, list, seen, asked>>

(* mutant: the scrape looks the snapshot up again *)
ReadCurrent(s) ==
  /\ {g[1] : g \in status[s]} = Modules
  /\ \E c \in list[s] :
       /\ seen' = [seen EXCEPT ![s] = @ \cup {<<c[1], ResultIn(c[1], vector[c[1]])>>}]
       /\ list' = [list EXCEPT ![s] = @ \ {c}]
  /\ UNCHANGED <<now, runVars, snapVars, stale, scrape, status, asked>>

(* Then the captured vectors, as they are by now. *)
ReadVector(s) ==
  /\ {g[1] : g \in status[s]} = Modules
  /\ \E c \in list[s] :
       /\ seen' = [seen EXCEPT ![s] = @ \cup {<<c[1], ResultIn(c[1], c[2])>>}]
       /\ list' = [list EXCEPT ![s] = @ \ {c}]
  /\ UNCHANGED <<now, runVars, snapVars, stale, scrape, status, asked>>

(* ReadyHandler and DebugCacheHandler read the clock, then wait for        *)
(* cacheMu.                                                                *)
Ask(p) ==
  /\ asked[p] = Never
  /\ asked' = [asked EXCEPT ![p] = now]
  /\ UNCHANGED <<now, runVars, snapVars, stale, scrapeVars>>

(* cacheStatus updates the gauges as of the time it was given. *)
Tell(p) ==
  /\ asked[p] # Never
  /\ stale' = StaleAt(asked[p])
  /\ asked' = [asked EXCEPT ![p] = Never]
  /\ UNCHANGED <<now, runVars, snapVars, scrapeVars>>

Next ==
  \/ Tick
  \/ \E m \in Modules :
       \/ BeginRun(m) \/ WriteRow(m) \/ SubSucceeds(m) \/ SubFails(m)
       \/ RunSucceeds(m) \/ RunFails(m) \/ CloseCycle(m)
  \/ \E s \in Scrapers :
       Capture(s) \/ ReadVector(s) \/ \E m \in Modules : ReadStatus(s, m)
  \/ \E p \in Probes : Ask(p) \/ Tell(p)

Spec == Init /\ [][Next]_vars

-----------------------------------------------------------------------------
(* Properties *)

TypeOK ==
  /\ now \in Nat \ {0}
  /\ stage \in [Modules -> {"idle", "fetch", "finish", "closing"}]
  /\ part \in [Modules -> Nat] /\ \A m \in Modules : part[m] \in 1..Count(m)
  /\ begun \in [Modules -> Nat]
  /\ hurt \in [Modules -> BOOLEAN]
  /\ runs \in [Datasets -> 0..MaxRuns]
  /\ rows \in [Vectors -> 0..Rows]
  /\ vector \in [Datasets -> Vectors]
  /\ time \in [Datasets -> Nat]
  /\ pub \in [Modules -> Nat]
  /\ since \in [Modules -> Nat]
  /\ stale \subseteq Modules
  /\ scrape \in [Scrapers -> {"idle", "open"}]
  /\ list \in [Scrapers -> SUBSET (Datasets \X Vectors)]
  /\ seen \in [Scrapers -> SUBSET (Datasets \X ({-1} \cup Nat))]
  /\ status \in [Scrapers -> SUBSET (Modules \X {0, 1})]
  /\ asked \in [Probes -> Nat]

(* A vector that a snapshot or an open scrape refers to is complete, holds *)
(* its dataset, and no run is writing to it (runSubcollector: reports must *)
(* "never mutate another report's published snapshot").                    *)
PublishedVectorsFrozen ==
  /\ \A k \in Datasets : time[k] # Never => ResultIn(k, vector[k]) > 0
  /\ \A s \in Scrapers : \A c \in list[s] : ResultIn(c[1], c[2]) > 0
  /\ \A m \in Modules : stage[m] = "fetch" =>
       /\ VectorOf(m) \notin {vector[k] : k \in Datasets}
       /\ \A s \in Scrapers : VectorOf(m) \notin {c[2] : c \in list[s]}

(* A failing subcollector does not keep its siblings from being fetched:   *)
(* between runs each part of a module has been fetched equally often.      *)
SiblingsFetchedEqually ==
  \A m \in Modules : stage[m] \in {"idle", "closing"} =>
    \A k \in PartsOf(m) : runs[k] = runs[Part(m, 1)]

(* A module counts as refreshed only if every part of it was: the data of  *)
(* each part are as new as the run that the module's freshness comes from. *)
PartsAsFreshAsTheirRun ==
  \A m \in Modules : pub[m] # Never =>
    \A k \in PartsOf(m) : time[k] >= since[m] /\ time[k] <= now

(* What a scrape shows, looked up at the moment it releases cacheMu.       *)
View(s) == seen[s] \cup {<<c[1], ResultIn(c[1], c[2])>> : c \in list[s]}

Cache == INSTANCE SnapshotCache
           WITH MaxAge <- MaxStale, Results <- 1..MaxRuns, since <- time,
                result <- [k \in Datasets |-> ResultIn(k, vector[k])],
                view <- [s \in Scrapers |-> View(s)]

(* Scrapes are atomic although they read after unlocking: the exporter     *)
(* implements a cache of complete results with a maximum age.              *)
ScrapesAreAtomic == Cache!CacheSpec

(* cache_ready promises that every required module's data are served       *)
(* (README: module freshness "remains conservative").                      *)
ReadyMeansServed ==
  CacheReady(now) => \A m \in Required : PartsOf(m) \subseteq Served(now)

=============================================================================
