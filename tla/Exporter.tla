------------------------------ MODULE Exporter ------------------------------
(***************************************************************************)
(* The refresh scheduler of internal/collector/exporter.go: one goroutine  *)
(* per enabled module repeats a cycle over that module, and RefreshOnce    *)
(* runs a cycle over every module.  Cycles overlap.  A module's lock keeps *)
(* its runs apart; cacheMu makes each critical section below one action.   *)
(*                                                                         *)
(* A run (the call fn(ctx) of runModule, which talks to Commvault) may     *)
(* succeed or fail whenever it likes: request errors, expired deadlines    *)
(* and partial failures are all "fails".                                   *)
(***************************************************************************)
EXTENDS Integers, FiniteSets

CONSTANTS
  Modules,          \* the enabled modules
  Calls,            \* RefreshOnce calls, each made at most once
  RefreshInterval,  \* cfg.RefreshInterval
  RetryBase,        \* retryBase, the first transient retry delay
  RetryAfters,      \* delays a server may ask for, 0 when it asks for none
  MaxTime           \* bound: the clock stops here

ASSUME ActorsAssumption ==
  /\ Modules # {}
  /\ IsFiniteSet(Modules)
  /\ IsFiniteSet(Calls)
  /\ Modules \cap Calls = {}

ASSUME TimesAssumption ==
  /\ RefreshInterval \in Nat \ {0}
  /\ RetryBase \in Nat \ {0}
  /\ RetryAfters \subseteq Nat
  /\ 0 \in RetryAfters
  /\ MaxTime \in Nat \ {0}

Actors == Modules \cup Calls

Never == 0   \* time.Time{}: the clock starts at 1

VARIABLES
  now,           \* e.now()
  started,       \* startOnce has fired
  stopped,       \* e.stopped
  parentDone,    \* the context given to Start is cancelled
  ctx,           \* schedulerContext: "nil", "live" or "done"
  loop,          \* schedulerLoop: "none", "running" or "ended"
  pc,            \* where each scheduler goroutine and each call stands
  timer,         \* the attempt time a scheduler goroutine armed its timer for
  pending,       \* modules of an actor's cycle still waiting for their lock
  running,       \* modules whose lock an actor holds
  doomed,        \* running modules whose context was done when they began
  failed,        \* an actor's open cycle holds a failed result
  next,          \* moduleState.NextAttempt
  succeeded,     \* modules with LastSuccess set
  erred,         \* modules with LastError set
  consecutive,   \* moduleState.ConsecutiveErrors
  activeCycles,  \* e.activeCycles, the value behind refresh_in_progress
  gauge,         \* e.nextAttempt, the value of the next-attempt gauge
  up             \* the up gauge

clockVars == <<now, started, stopped, parentDone>>
schedVars == <<ctx, loop, timer>>
cycleVars == <<pending, running, doomed, failed>>
stateVars == <<next, succeeded, erred, consecutive>>
gaugeVars == <<activeCycles, gauge, up>>
vars == <<clockVars, schedVars, pc, cycleVars, stateVars, gaugeVars>>

-----------------------------------------------------------------------------
(* Helpers *)

Larger(a, b) == IF a >= b THEN a ELSE b
Smaller(a, b) == IF a <= b THEN a ELSE b

(* The exponential part of retryDelay after n consecutive failures. *)
Backoff[n \in Nat] ==
  IF n <= 1 THEN RetryBase
  ELSE LET d == Backoff[n - 1]
       IN  IF d >= RefreshInterval THEN d
           ELSE IF d >= RefreshInterval \div 2 THEN RefreshInterval
           ELSE 2 * d

(* What retryDelay may return: jittered by 20 percent, capped again. *)
RetryDelays(n) ==
  LET base == Smaller(Backoff[n], RefreshInterval)
  IN  {d \in 1..RefreshInterval : 8 * base <= 10 * d /\ 10 * d <= 12 * base}

(* The modules refreshModules is asked for. *)
Names(a) == IF a \in Modules THEN {a} ELSE Modules

InFlight(m) == \E a \in Actors : m \in running[a]

(* A run can take its module's lock when no other run holds it.            *)
LockIgnored(m) == TRUE   \* mutant: runs of a module overlap
LockFree(m) == ~InFlight(m)

Ready == ~stopped /\ ctx # "done"

(* updateUpLocked. *)
AllLatestSucceeded == Modules \subseteq succeeded /\ erred = {}

(* The up gauge at the end of a cycle. *)
UpFromCycle(a) == ~failed[a]   \* mutant: only this cycle's results count
UpAfter(a) == ~failed[a] /\ AllLatestSucceeded

(* mutant: planned attempts show while other cycles are open *)
NextAttemptEarly(cycles, stop) ==
  LET planned == {next[m] : m \in Modules} \ {Never}
  IN  IF ~stop /\ ctx # "done" /\ planned # {}
      THEN {t \in planned : \A u \in planned : t <= u}
      ELSE {Never}

(* mutant: the latest attempt instead of the earliest *)
NextAttemptLatest(cycles, stop) ==
  LET planned == {next[m] : m \in Modules} \ {Never}
  IN  IF cycles = 0 /\ ~stop /\ ctx # "done" /\ planned # {}
      THEN {t \in planned : \A u \in planned : t >= u}
      ELSE {Never}

(* updateNextAttemptLocked: the earliest planned attempt, if any is due. *)
NextAttempt(cycles, stop) ==
  LET planned == {next[m] : m \in Modules} \ {Never}
  IN  IF cycles = 0 /\ ~stop /\ ctx # "done" /\ planned # {}
      THEN {t \in planned : \A u \in planned : t <= u}
      ELSE {Never}

Goto(a, label) == pc' = [pc EXCEPT ![a] = label]

-----------------------------------------------------------------------------
Init ==
  /\ now = 1
  /\ started = FALSE /\ stopped = FALSE /\ parentDone = FALSE
  /\ ctx = "nil" /\ loop = "none"
  /\ pc = [a \in Actors |-> IF a \in Modules THEN "unborn" ELSE "idle"]
  /\ timer = [m \in Modules |-> Never]
  /\ pending = [a \in Actors |-> {}]
  /\ running = [a \in Actors |-> {}]
  /\ doomed = {}
  /\ failed = [a \in Actors |-> FALSE]
  /\ next = [m \in Modules |-> Never]
  /\ succeeded = {} /\ erred = {}
  /\ consecutive = [m \in Modules |-> 0]
  /\ activeCycles = 0
  /\ gauge = Never
  /\ up = FALSE

Tick ==
  /\ now < MaxTime
  /\ now' = now + 1
  /\ UNCHANGED <<started, stopped, parentDone, schedVars, pc, cycleVars,
                 stateVars, gaugeVars>>

CancelParent ==
  /\ ~parentDone
  /\ parentDone' = TRUE
  /\ ctx' = IF ctx = "live" THEN "done" ELSE ctx
  /\ UNCHANGED <<now, started, stopped, loop, timer, pc, cycleVars, stateVars,
                 gaugeVars>>

(* mutant: a Start that loses the race with Stop still spawns the loop *)
StartAnyway ==
  /\ ~started
  /\ started' = TRUE
  /\ ctx' = IF parentDone THEN "done" ELSE "live"
  /\ loop' = "running"
  /\ pc' = [a \in Actors |-> IF a \in Modules THEN "check" ELSE pc[a]]
  /\ UNCHANGED <<now, stopped, parentDone, timer, cycleVars, stateVars,
                 gaugeVars>>

(* mutant: Start revives a stopped exporter *)
StartRevives ==
  /\ ~started
  /\ started' = TRUE /\ stopped' = FALSE
  /\ ctx' = IF parentDone THEN "done" ELSE "live"
  /\ loop' = "running"
  /\ pc' = [a \in Actors |-> IF a \in Modules THEN "check" ELSE pc[a]]
  /\ UNCHANGED <<now, parentDone, timer, cycleVars, stateVars, gaugeVars>>

(* Start: startOnce lets the body run once; a stopped exporter gets no loop. *)
Start ==
  /\ ~started
  /\ started' = TRUE
  /\ IF stopped
     THEN UNCHANGED <<ctx, loop, pc>>
     ELSE /\ ctx' = IF parentDone THEN "done" ELSE "live"
          /\ loop' = "running"
          /\ pc' = [a \in Actors |-> IF a \in Modules THEN "check" ELSE pc[a]]
  /\ UNCHANGED <<now, stopped, parentDone, timer, cycleVars, stateVars,
                 gaugeVars>>

(* Stop: only the first call changes anything. *)
Stop ==
  /\ ~stopped
  /\ stopped' = TRUE
  /\ gauge' \in NextAttempt(activeCycles, TRUE)
  /\ ctx' = IF ctx = "live" THEN "done" ELSE ctx
  /\ UNCHANGED <<now, started, parentDone, loop, timer, pc, cycleVars,
                 stateVars, activeCycles, up>>

(* RefreshOnce takes refreshMu before it begins its cycle. *)
CallRefreshOnce(c) ==
  /\ pc[c] = "idle"
  /\ \A d \in Calls : pc[d] \notin {"begin", "cycle"}
  /\ Goto(c, "begin")
  /\ UNCHANGED <<clockVars, schedVars, cycleVars, stateVars, gaugeVars>>

(* mutant: the goroutine gives up once its module has failed *)
WorkerGivesUp(m) ==
  /\ pc[m] = "check"
  /\ Goto(m, IF ctx = "live" /\ m \notin erred THEN "begin" ELSE "exited")
  /\ UNCHANGED <<clockVars, schedVars, cycleVars, stateVars, gaugeVars>>

(* for ctx.Err() == nil *)
WorkerCheck(m) ==
  /\ pc[m] = "check"
  /\ Goto(m, IF ctx = "live" THEN "begin" ELSE "exited")
  /\ UNCHANGED <<clockVars, schedVars, cycleVars, stateVars, gaugeVars>>

(* mutant: activeCycles is not incremented *)
BeginCycleUncounted(a) ==
  /\ pc[a] = "begin"
  /\ gauge' = Never
  /\ pending' = [pending EXCEPT ![a] = Names(a)]
  /\ Goto(a, "cycle")
  /\ UNCHANGED <<clockVars, schedVars, running, doomed, failed, stateVars,
                 activeCycles, up>>

(* The first critical section of refreshModules, and its goroutines. *)
BeginCycle(a) ==
  /\ pc[a] = "begin"
  /\ activeCycles' = activeCycles + 1
  /\ gauge' = Never
  /\ pending' = [pending EXCEPT ![a] = Names(a)]
  /\ Goto(a, "cycle")
  /\ UNCHANGED <<clockVars, schedVars, running, doomed, failed, stateVars, up>>

(* runModule up to fn(ctx): takes the module's lock.  A worker's run that   *)
(* begins on a cancelled context cannot succeed: every module sends at     *)
(* least one request and do() refuses to.                                  *)
StartRun(a, m) ==
  /\ m \in pending[a]
  /\ LockFree(m)
  /\ pending' = [pending EXCEPT ![a] = @ \ {m}]
  /\ running' = [running EXCEPT ![a] = @ \cup {m}]
  /\ doomed' = IF a \in Modules /\ ctx = "done" THEN doomed \cup {m} ELSE doomed
  /\ next' = [next EXCEPT ![m] = Never]
  /\ UNCHANGED <<clockVars, schedVars, pc, failed, succeeded, erred,
                 consecutive, gaugeVars>>

(* runModule after fn(ctx) returned nil. *)
RunSucceeds(a, m) ==
  /\ m \in running[a]
  /\ m \notin doomed
  /\ running' = [running EXCEPT ![a] = @ \ {m}]
  /\ consecutive' = [consecutive EXCEPT ![m] = 0]
  /\ next' = [next EXCEPT ![m] = now + RefreshInterval]
  /\ succeeded' = succeeded \cup {m}
  /\ erred' = erred \ {m}
  /\ UNCHANGED <<clockVars, schedVars, pc, pending, doomed, failed, gaugeVars>>

(* runModule after fn(ctx) returned an error; cancellation is permanent.    *)
RunFails(a, m) ==
  /\ m \in running[a]
  /\ \E transient \in BOOLEAN, ra \in RetryAfters :
       /\ m \in doomed => ~transient /\ ra = 0
       /\ \E d \in IF transient THEN RetryDelays(consecutive[m] + 1)
                                ELSE {RefreshInterval} :
            next' = [next EXCEPT ![m] = now + Larger(d, ra)]
  /\ running' = [running EXCEPT ![a] = @ \ {m}]
  /\ failed' = [failed EXCEPT ![a] = TRUE]
  /\ consecutive' = [consecutive EXCEPT ![m] = @ + 1]
  /\ erred' = erred \cup {m}
  /\ doomed' = doomed \ {m}
  /\ UNCHANGED <<clockVars, schedVars, pc, pending, succeeded, gaugeVars>>

(* mutant: a failed run's goroutine never reports to the cycle *)
EndCycleIfAllWell(a) ==
  /\ pc[a] = "cycle" /\ ~failed[a]
  /\ pending[a] = {} /\ running[a] = {}
  /\ activeCycles' = activeCycles - 1
  /\ gauge' \in NextAttempt(activeCycles - 1, stopped)
  /\ up' = UpAfter(a)
  /\ Goto(a, IF a \in Modules THEN "arm" ELSE "returned")
  /\ UNCHANGED <<clockVars, schedVars, pending, running, doomed, failed,
                 stateVars>>

(* refreshModules after wg.Wait(); failed is its local variable. *)
EndCycle(a) ==
  /\ pc[a] = "cycle"
  /\ pending[a] = {} /\ running[a] = {}
  /\ activeCycles' = activeCycles - 1
  /\ gauge' \in NextAttempt(activeCycles - 1, stopped)
  /\ up' = UpAfter(a)
  /\ failed' = [failed EXCEPT ![a] = FALSE]
  /\ Goto(a, IF a \in Modules THEN "arm" ELSE "returned")
  /\ UNCHANGED <<clockVars, schedVars, pending, running, doomed, stateVars>>

(* The goroutine reads NextAttempt under cacheMu and arms its timer. *)
Arm(m) ==
  /\ pc[m] = "arm"
  /\ timer' = [timer EXCEPT ![m] = next[m]]
  /\ Goto(m, "wait")
  /\ UNCHANGED <<clockVars, ctx, loop, cycleVars, stateVars, gaugeVars>>

(* mutant: the timer fires one time unit early *)
TimerFiresEarly(m) ==
  /\ pc[m] = "wait"
  /\ now + 1 >= timer[m]
  /\ timer' = [timer EXCEPT ![m] = Never]
  /\ Goto(m, "check")
  /\ UNCHANGED <<clockVars, ctx, loop, cycleVars, stateVars, gaugeVars>>

TimerFires(m) ==
  /\ pc[m] = "wait"
  /\ now >= timer[m]
  /\ timer' = [timer EXCEPT ![m] = Never]
  /\ Goto(m, "check")
  /\ UNCHANGED <<clockVars, ctx, loop, cycleVars, stateVars, gaugeVars>>

WorkerExit(m) ==
  /\ pc[m] = "wait"
  /\ ctx = "done"
  /\ timer' = [timer EXCEPT ![m] = Never]
  /\ Goto(m, "exited")
  /\ UNCHANGED <<clockVars, ctx, loop, cycleVars, stateVars, gaugeVars>>

(* mutant: the gauge keeps naming an attempt nobody will make *)
LoopEndQuietly ==
  /\ loop = "running"
  /\ \A m \in Modules : pc[m] = "exited"
  /\ loop' = "ended"
  /\ UNCHANGED <<clockVars, ctx, timer, pc, cycleVars, stateVars, gaugeVars>>

LoopEnd ==
  /\ loop = "running"
  /\ \A m \in Modules : pc[m] = "exited"
  /\ loop' = "ended"
  /\ gauge' = Never
  /\ UNCHANGED <<clockVars, ctx, timer, pc, cycleVars, stateVars,
                 activeCycles, up>>

(* Not a step of the program: the end of a bounded history, so that any    *)
(* other state without a successor is reported as a deadlock.              *)
Terminated ==
  /\ now = MaxTime /\ started /\ stopped /\ parentDone
  /\ loop # "running"
  /\ \A c \in Calls : pc[c] = "returned"
  /\ UNCHANGED vars

Worker(m) ==
  WorkerCheck(m) \/ Arm(m) \/ TimerFires(m) \/ WorkerExit(m)

Cycle(a) ==
  \/ BeginCycle(a)
  \/ EndCycle(a)
  \/ \E m \in Modules : StartRun(a, m) \/ RunSucceeds(a, m) \/ RunFails(a, m)

Next ==
  \/ Tick \/ CancelParent \/ Start \/ Stop \/ LoopEnd \/ Terminated
  \/ \E c \in Calls : CallRefreshOnce(c)
  \/ \E m \in Modules : Worker(m)
  \/ \E a \in Actors : Cycle(a)

Spec == Init /\ [][Next]_vars

(* The scheduler's own steps are goroutines that the runtime keeps running; *)
(* a run ends because its requests have deadlines.  Nothing makes anybody   *)
(* call Start, Stop or RefreshOnce, or cancel the parent context.           *)
Fairness ==
  /\ WF_vars(Tick)
  /\ WF_vars(LoopEnd)
  /\ \A m \in Modules : WF_vars(Worker(m))
  /\ \A a \in Actors : WF_vars(Cycle(a))

FairSpec == Spec /\ Fairness

-----------------------------------------------------------------------------
(* Properties *)

Places == {"unborn", "check", "arm", "wait", "exited",   \* workers
           "idle", "returned",                           \* calls
           "begin", "cycle"}                             \* both

(* Every variable keeps its shape; activeCycles never drops below zero.    *)
TypeOK ==
  /\ now \in Nat \ {0}
  /\ started \in BOOLEAN /\ stopped \in BOOLEAN /\ parentDone \in BOOLEAN
  /\ ctx \in {"nil", "live", "done"}
  /\ loop \in {"none", "running", "ended"}
  /\ pc \in [Actors -> Places]
  /\ timer \in [Modules -> Nat]
  /\ pending \in [Actors -> SUBSET Modules]
  /\ running \in [Actors -> SUBSET Modules]
  /\ doomed \subseteq Modules
  /\ failed \in [Actors -> BOOLEAN]
  /\ next \in [Modules -> Nat]
  /\ succeeded \subseteq Modules /\ erred \subseteq Modules
  /\ consecutive \in [Modules -> Nat]
  /\ activeCycles \in Nat
  /\ gauge \in Nat
  /\ up \in BOOLEAN

OpenCycles == {a \in Actors : pc[a] = "cycle"}

(* While up is 1 every enabled module has succeeded, and a module whose    *)
(* latest attempt failed belongs to an open cycle that is about to clear   *)
(* up: overlapping cycles never leave up at 1 over a failed module.        *)
UpIsJustified ==
  up => /\ Modules \subseteq succeeded
        /\ erred # {} => \E a \in OpenCycles : failed[a]

(* Once no cycle is open, up says exactly whether every module's latest    *)
(* attempt succeeded (the help text of the up gauge).                      *)
UpMatchesLatestAttempts == OpenCycles = {} => up = AllLatestSucceeded

(* NextAttempt is unset exactly while a run is in flight or before the     *)
(* module's first result, whoever runs it: what schedulerLoop reads and    *)
(* updateNextAttemptLocked publishes is then the latest run's plan.        *)
NextAttemptDiscipline ==
  \A m \in Modules :
    next[m] # Never <=> m \in succeeded \cup erred /\ ~InFlight(m)

(* activeCycles counts the open cycles, and the next-attempt gauge is 0    *)
(* while any of them is open and after Stop.                               *)
GaugeZeroWhileRefreshing ==
  /\ activeCycles = Cardinality(OpenCycles)
  /\ activeCycles > 0 \/ stopped => gauge = Never

(* When the gauge names a time while the scheduler is live, that is the    *)
(* earliest time a worker will make its next attempt.                      *)
GaugeIsEarliest ==
  gauge # Never /\ ctx = "live" =>
    /\ \E m \in Modules : gauge = IF pc[m] = "wait" THEN timer[m] ELSE next[m]
    /\ \A m \in Modules : pc[m] = "wait" => timer[m] >= gauge

(* However Start, Stop and the parent's cancellation race, a stopped       *)
(* exporter has no live scheduler.                                         *)
NoSchedulerAfterStop == stopped => ctx # "live"

(* Readiness, once lost, never comes back.                                 *)
ReadyNeverReturns == [][~Ready => ~Ready']_vars

(* The scheduler alone implements the polling schedule users are promised. *)
Schedule == INSTANCE PollSchedule
              WITH Interval <- RefreshInterval, Demands <- RetryAfters,
                   busy <- UNION {running[a] : a \in Actors}, due <- next

ImplementsSchedule == Schedule!Spec

(* A worker whose timer is due runs its module again unless the scheduler  *)
(* is cancelled, whatever the other modules do.                            *)
DueModulesAreRefreshed ==
  \A m \in Modules :
    pc[m] = "wait" /\ timer[m] <= MaxTime ~> m \in running[m] \/ ctx = "done"

(* Once cancelled, the scheduler winds down for good: every worker exits   *)
(* and the next-attempt gauge stays 0.                                     *)
SchedulerWindsDown ==
  ctx = "done" ~>
    [](loop = "ended" /\ gauge = Never /\ \A m \in Modules : pc[m] = "exited")

(* RefreshOnce returns, with the scheduler running beside it.              *)
RefreshOnceReturns == \A c \in Calls : pc[c] = "begin" ~> pc[c] = "returned"

=============================================================================
