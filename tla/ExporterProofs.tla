--------------------------- MODULE ExporterProofs ---------------------------
(***************************************************************************)
(* Proofs about Exporter, for every set of modules and RefreshOnce calls   *)
(* and every choice of the time constants.                                 *)
(***************************************************************************)
EXTENDS Exporter, FiniteSetTheorems, TLAPS

(* activeCycles is the number of open cycles. *)
CyclesCounted == activeCycles = Cardinality(OpenCycles)

(* Only an open cycle waits for locks, holds them or remembers a failure,  *)
(* and no worker exists before Start.                                      *)
CycleShape ==
  /\ ~started => ctx = "nil" /\ \A m \in Modules : pc[m] = "unborn"
  /\ \A a \in Actors :
       pending[a] # {} \/ running[a] # {} \/ failed[a] => pc[a] = "cycle"

(* A module's lock has one holder. *)
LocksExclusive ==
  \A a, b \in Actors : a # b => running[a] \cap running[b] = {}

-----------------------------------------------------------------------------
(* The values the helpers may take. *)

LEMMA NextAttemptIsTime ==
  ASSUME next \in [Modules -> Nat], NEW cycles, NEW stop
  PROVE  NextAttempt(cycles, stop) \subseteq Nat
BY DEF NextAttempt, Never

LEMMA RetryDelaysInRange ==
  ASSUME NEW n
  PROVE  RetryDelays(n) \subseteq 1..RefreshInterval
BY DEF RetryDelays

(* A failed run is planned again between one time unit and the refresh     *)
(* interval from now, or when the server asked for it if that is later.    *)
LEMMA FailurePlans ==
  ASSUME NEW a, NEW m, RunFails(a, m)
  PROVE  \E d \in 1..RefreshInterval, ra \in RetryAfters :
           next' = [next EXCEPT ![m] = now + Larger(d, ra)]
<1>1. PICK transient \in BOOLEAN, ra \in RetryAfters :
        \E d \in IF transient THEN RetryDelays(consecutive[m] + 1)
                              ELSE {RefreshInterval} :
          next' = [next EXCEPT ![m] = now + Larger(d, ra)]
  BY DEF RunFails
<1>2. RefreshInterval \in 1..RefreshInterval
  BY TimesAssumption
<1>3. (IF transient THEN RetryDelays(consecutive[m] + 1) ELSE {RefreshInterval})
        \subseteq 1..RefreshInterval
  BY <1>2, RetryDelaysInRange
<1> QED
  BY <1>1, <1>3

LEMMA ActorsFinite == IsFiniteSet(Actors) /\ IsFiniteSet(OpenCycles)
<1>1. IsFiniteSet(Actors)
  BY ActorsAssumption, FS_Union DEF Actors
<1>2. OpenCycles \subseteq Actors
  BY DEF OpenCycles
<1> QED
  BY <1>1, <1>2, FS_Subset

-----------------------------------------------------------------------------
(* Opening and closing a cycle keep activeCycles the number of open ones.  *)

LEMMA OpeningCounts ==
  ASSUME TypeOK, CyclesCounted, NEW a \in Actors, BeginCycle(a)
  PROVE  CyclesCounted'
<1>1. OpenCycles' = OpenCycles \cup {a} /\ a \notin OpenCycles
  BY DEF TypeOK, BeginCycle, Goto, OpenCycles
<1> QED
  BY <1>1, ActorsFinite, FS_AddElement DEF CyclesCounted, BeginCycle

LEMMA ClosingCounts ==
  ASSUME TypeOK, CyclesCounted, NEW a \in Actors, EndCycle(a)
  PROVE  CyclesCounted' /\ activeCycles - 1 \in Nat
<1>1. OpenCycles' = OpenCycles \ {a} /\ a \in OpenCycles
  BY DEF TypeOK, EndCycle, Goto, OpenCycles
<1>2. Cardinality(OpenCycles') = activeCycles - 1
  BY <1>1, ActorsFinite, FS_RemoveElement DEF CyclesCounted
<1>3. IsFiniteSet(OpenCycles')
  BY <1>1, ActorsFinite, FS_RemoveElement
<1> QED
  BY <1>2, <1>3, FS_CardinalityType DEF CyclesCounted, EndCycle

-----------------------------------------------------------------------------
(* Type correctness. *)

LEMMA TypeInit == Init => TypeOK /\ CyclesCounted
<1> SUFFICES ASSUME Init PROVE TypeOK /\ CyclesCounted
  OBVIOUS
<1>1. OpenCycles = {}
  BY DEF Init, OpenCycles
<1>2. CyclesCounted
  BY <1>1, FS_EmptySet DEF Init, CyclesCounted
<1>3. pc \in [Actors -> Places]
  BY DEF Init, Places
<1>4. pending \in [Actors -> SUBSET Modules] /\ running \in [Actors -> SUBSET Modules]
  BY DEF Init
<1>5. /\ timer \in [Modules -> Nat] /\ next \in [Modules -> Nat]
      /\ consecutive \in [Modules -> Nat] /\ failed \in [Actors -> BOOLEAN]
  BY DEF Init, Never
<1>6. TypeOK
  <2>1. now \in Nat \ {0} /\ activeCycles \in Nat /\ gauge \in Nat
    BY DEF Init, Never
  <2>2. /\ started \in BOOLEAN /\ stopped \in BOOLEAN
        /\ parentDone \in BOOLEAN /\ up \in BOOLEAN
    BY DEF Init, Never
  <2>3. ctx \in {"nil", "live", "done"} /\ loop \in {"none", "running", "ended"}
    BY DEF Init, Never
  <2>4. doomed \subseteq Modules /\ succeeded \subseteq Modules /\ erred \subseteq Modules
    BY DEF Init, Never
  <2> QED
    BY <1>3, <1>4, <1>5, <2>1, <2>2, <2>3, <2>4 DEF TypeOK
<1> QED
  BY <1>2, <1>6

LEMMA TypeStep == TypeOK /\ CyclesCounted /\ [Next]_vars => TypeOK'
<1> SUFFICES ASSUME TypeOK, CyclesCounted, [Next]_vars
             PROVE  TypeOK'
  OBVIOUS
<1> USE DEF TypeOK, clockVars, schedVars, cycleVars, stateVars, gaugeVars, Goto
<1>1. CASE Tick
  BY <1>1 DEF Tick
<1>2. CASE CancelParent
  BY <1>2 DEF CancelParent
<1>3. CASE Start
  BY <1>3 DEF Start, Places
<1>4. CASE Stop
  BY <1>4, NextAttemptIsTime DEF Stop
<1>5. CASE LoopEnd
  BY <1>5 DEF LoopEnd, Never
<1>6. CASE Terminated
  BY <1>6 DEF Terminated, vars
<1>7. ASSUME NEW c \in Calls, CallRefreshOnce(c)
      PROVE  TypeOK'
  BY <1>7 DEF CallRefreshOnce, Places
<1>8. ASSUME NEW m \in Modules, Worker(m)
      PROVE  TypeOK'
  <2>1. CASE WorkerCheck(m)
    BY <2>1 DEF WorkerCheck, Places
  <2>2. CASE Arm(m)
    BY <2>2 DEF Arm, Places
  <2>3. CASE TimerFires(m)
    BY <2>3 DEF TimerFires, Places, Never
  <2>4. CASE WorkerExit(m)
    BY <2>4 DEF WorkerExit, Places, Never
  <2> QED
    BY <1>8, <2>1, <2>2, <2>3, <2>4 DEF Worker
<1>9. ASSUME NEW a \in Actors, Cycle(a)
      PROVE  TypeOK'
  <2>1. CASE BeginCycle(a)
    BY <2>1 DEF BeginCycle, Places, Never, Names
  <2>2. CASE EndCycle(a)
    <3>1. activeCycles' \in Nat
      BY <2>2, ClosingCounts DEF EndCycle
    <3>2. gauge' \in Nat
      BY <2>2, NextAttemptIsTime DEF EndCycle
    <3>3. up' \in BOOLEAN
      BY <2>2 DEF EndCycle, UpAfter
    <3> QED
      BY <2>2, <3>1, <3>2, <3>3 DEF EndCycle, Places
  <2>3. ASSUME NEW m \in Modules, StartRun(a, m)
        PROVE  TypeOK'
    BY <2>3 DEF StartRun, Never
  <2>4. ASSUME NEW m \in Modules, RunSucceeds(a, m)
        PROVE  TypeOK'
    BY <2>4, TimesAssumption DEF RunSucceeds
  <2>5. ASSUME NEW m \in Modules, RunFails(a, m)
        PROVE  TypeOK'
    <3>1. next' \in [Modules -> Nat]
      BY <2>5, FailurePlans, TimesAssumption DEF Larger
    <3> QED
      BY <2>5, <3>1 DEF RunFails
  <2> QED
    BY <1>9, <2>1, <2>2, <2>3, <2>4, <2>5 DEF Cycle
<1>10. CASE UNCHANGED vars
  BY <1>10 DEF vars
<1> QED
  BY <1>1, <1>2, <1>3, <1>4, <1>5, <1>6, <1>7, <1>8, <1>9, <1>10 DEF Next

(* The number of open cycles is what activeCycles says.  Start creates the *)
(* workers, so it needs to know that none had an open cycle before.        *)
LEMMA CountStep ==
  TypeOK /\ CyclesCounted /\ CycleShape /\ [Next]_vars => CyclesCounted'
<1> SUFFICES ASSUME TypeOK, CyclesCounted, CycleShape, [Next]_vars
             PROVE  CyclesCounted'
  OBVIOUS
<1>same. ASSUME UNCHANGED activeCycles, OpenCycles' = OpenCycles
         PROVE  CyclesCounted'
  BY <1>same DEF CyclesCounted
<1>1. ASSUME UNCHANGED <<activeCycles, pc>>
      PROVE  CyclesCounted'
  BY <1>1, <1>same DEF OpenCycles
<1>2. ASSUME Tick \/ CancelParent \/ Stop \/ LoopEnd \/ Terminated
      PROVE  CyclesCounted'
  BY <1>1, <1>2 DEF Tick, CancelParent, Stop, LoopEnd, Terminated, vars, gaugeVars
<1>3. CASE Start
  BY <1>3, <1>same DEF Start, OpenCycles, CycleShape, TypeOK, gaugeVars, Actors
<1>4. ASSUME NEW c \in Calls, CallRefreshOnce(c)
      PROVE  CyclesCounted'
  BY <1>4, <1>same DEF CallRefreshOnce, Goto, OpenCycles, TypeOK, gaugeVars
<1>5. ASSUME NEW m \in Modules, Worker(m)
      PROVE  CyclesCounted'
  BY <1>5, <1>same DEF Worker, WorkerCheck, Arm, TimerFires, WorkerExit, Goto,
                       OpenCycles, TypeOK, gaugeVars
<1>6. ASSUME NEW a \in Actors, Cycle(a)
      PROVE  CyclesCounted'
  <2>1. ASSUME NEW m \in Modules, StartRun(a, m) \/ RunSucceeds(a, m) \/ RunFails(a, m)
        PROVE  CyclesCounted'
    BY <2>1, <1>1 DEF StartRun, RunSucceeds, RunFails, gaugeVars
  <2> QED
    BY <1>6, <2>1, OpeningCounts, ClosingCounts DEF Cycle
<1>7. CASE UNCHANGED vars
  BY <1>7, <1>1 DEF vars, gaugeVars
<1> QED
  BY <1>2, <1>3, <1>4, <1>5, <1>6, <1>7 DEF Next

-----------------------------------------------------------------------------
(* The shape of cycles and the module locks. *)

LEMMA ShapeStep == TypeOK /\ CycleShape /\ [Next]_vars => CycleShape'
<1> SUFFICES ASSUME TypeOK, CycleShape, [Next]_vars
             PROVE  CycleShape'
  OBVIOUS
<1> USE DEF TypeOK, CycleShape, Goto, clockVars, schedVars, cycleVars
<1>1. ASSUME Tick \/ CancelParent \/ Stop \/ LoopEnd \/ Terminated
      PROVE  CycleShape'
  BY <1>1 DEF Tick, CancelParent, Stop, LoopEnd, Terminated, vars
<1>6. CASE Start
  BY <1>6 DEF Start, Actors
<1>2. ASSUME NEW c \in Calls, CallRefreshOnce(c)
      PROVE  CycleShape'
  BY <1>2, ActorsAssumption DEF CallRefreshOnce, Actors
<1>3. ASSUME NEW m \in Modules, Worker(m)
      PROVE  CycleShape'
  BY <1>3 DEF Worker, WorkerCheck, Arm, TimerFires, WorkerExit, Actors
<1>4. ASSUME NEW a \in Actors, Cycle(a)
      PROVE  CycleShape'
  <2>1. CASE BeginCycle(a)
    BY <2>1 DEF BeginCycle, Actors
  <2>2. CASE EndCycle(a)
    BY <2>2 DEF EndCycle, Actors
  <2>3. ASSUME NEW m \in Modules, StartRun(a, m)
        PROVE  CycleShape'
    BY <2>3 DEF StartRun
  <2>4. ASSUME NEW m \in Modules, RunSucceeds(a, m)
        PROVE  CycleShape'
    BY <2>4 DEF RunSucceeds
  <2>5. ASSUME NEW m \in Modules, RunFails(a, m)
        PROVE  CycleShape'
    BY <2>5 DEF RunFails
  <2> QED
    BY <1>4, <2>1, <2>2, <2>3, <2>4, <2>5 DEF Cycle
<1>5. CASE UNCHANGED vars
  BY <1>5 DEF vars
<1> QED
  BY <1>1, <1>2, <1>3, <1>4, <1>5, <1>6 DEF Next

LEMMA LocksStep == TypeOK /\ LocksExclusive /\ [Next]_vars => LocksExclusive'
<1> SUFFICES ASSUME TypeOK, LocksExclusive, [Next]_vars
             PROVE  LocksExclusive'
  OBVIOUS
<1> USE DEF LocksExclusive
<1>1. ASSUME NEW a \in Actors, NEW m \in Modules, StartRun(a, m)
      PROVE  LocksExclusive'
  BY <1>1 DEF StartRun, LockFree, InFlight, TypeOK
<1>2. ASSUME NEW a \in Actors, NEW m \in Modules, RunSucceeds(a, m) \/ RunFails(a, m)
      PROVE  LocksExclusive'
  BY <1>2 DEF RunSucceeds, RunFails, TypeOK
<1>3. CASE UNCHANGED running
  BY <1>3
<1> QED
  BY <1>1, <1>2, <1>3
  DEF Next, Worker, Cycle, Tick, CancelParent, Start, Stop, LoopEnd, Terminated,
      CallRefreshOnce, WorkerCheck, Arm, TimerFires, WorkerExit, BeginCycle,
      EndCycle, vars, cycleVars

-----------------------------------------------------------------------------
(* The inductive invariant the theorems rest on. *)

IInv == TypeOK /\ CyclesCounted /\ CycleShape /\ LocksExclusive

LEMMA IInvHolds == Spec => []IInv
<1>1. Init => IInv
  <2>1. Init => CycleShape /\ LocksExclusive
    BY DEF Init, CycleShape, LocksExclusive, Actors
  <2> QED
    BY <2>1, TypeInit DEF IInv
<1>2. IInv /\ [Next]_vars => IInv'
  BY TypeStep, CountStep, ShapeStep, LocksStep DEF IInv
<1> QED
  BY <1>1, <1>2, PTL DEF Spec

(* Every reachable state of the scheduler is well typed; in particular     *)
(* activeCycles is decremented no more often than it was incremented.      *)
THEOREM TypeCorrect == Spec => []TypeOK
<1>1. IInv => TypeOK
  BY DEF IInv
<1> QED
  BY <1>1, IInvHolds, PTL

-----------------------------------------------------------------------------
(* Claims of the next-attempt gauge, readiness and shutdown. *)

LEMMA GaugeStep ==
  IInv /\ GaugeZeroWhileRefreshing /\ IInv' /\ [Next]_vars => GaugeZeroWhileRefreshing'
<1> SUFFICES ASSUME IInv, GaugeZeroWhileRefreshing, IInv', [Next]_vars
             PROVE  GaugeZeroWhileRefreshing'
  OBVIOUS
<1> DEFINE Withheld == activeCycles > 0 \/ stopped => gauge = Never
<1> SUFFICES Withheld'
  BY DEF GaugeZeroWhileRefreshing, IInv, CyclesCounted
<1>0. Withheld /\ activeCycles \in Nat /\ activeCycles' \in Nat
  BY DEF GaugeZeroWhileRefreshing, IInv, TypeOK
<1>1. CASE Stop
  <2>1. gauge' = Never
    BY <1>1 DEF Stop, NextAttempt
  <2> QED
    BY <2>1 DEF Never
<1>2. ASSUME NEW a \in Actors, EndCycle(a)
      PROVE  Withheld'
  <2>1. activeCycles' = activeCycles - 1 /\ stopped' = stopped
    BY <1>2 DEF EndCycle, clockVars
  <2>2. activeCycles - 1 # 0 \/ stopped => gauge' = Never
    BY <1>2 DEF EndCycle, NextAttempt
  <2> QED
    BY <1>0, <2>1, <2>2 DEF Never
<1>3. CASE gauge' = Never
  BY <1>3 DEF Never
<1>4. CASE UNCHANGED <<gauge, activeCycles, stopped>>
  BY <1>4, <1>0 DEF Never
<1> HIDE DEF Withheld
<1> QED
  BY <1>1, <1>2, <1>3, <1>4
  DEF Next, Worker, Cycle, Tick, CancelParent, Start, LoopEnd, Terminated,
      CallRefreshOnce, WorkerCheck, Arm, TimerFires, WorkerExit, BeginCycle,
      StartRun, RunSucceeds, RunFails, vars, clockVars, gaugeVars

(* The next-attempt gauge is 0 while any cycle is open and after Stop, and *)
(* activeCycles is the number of open cycles, however cycles overlap.      *)
THEOREM GaugeZero == Spec => []GaugeZeroWhileRefreshing
<1>1. Init => GaugeZeroWhileRefreshing
  BY TypeInit DEF Init, GaugeZeroWhileRefreshing, CyclesCounted
<1> QED
  BY <1>1, GaugeStep, IInvHolds, PTL DEF Spec

(* No race of Start, Stop and cancellation leaves a stopped exporter with  *)
(* a live scheduler.                                                       *)
THEOREM StopIsFinal == Spec => []NoSchedulerAfterStop
<1>1. Init => NoSchedulerAfterStop
  BY DEF Init, NoSchedulerAfterStop
<1>2. NoSchedulerAfterStop /\ [Next]_vars => NoSchedulerAfterStop'
  BY DEF NoSchedulerAfterStop, Next, Worker, Cycle, Tick, CancelParent, Start,
      Stop, LoopEnd, Terminated, CallRefreshOnce, WorkerCheck, Arm, TimerFires,
      WorkerExit, BeginCycle, EndCycle, StartRun, RunSucceeds, RunFails, vars,
      clockVars, schedVars
<1> QED
  BY <1>1, <1>2, PTL DEF Spec

(* Readiness, once lost, is never regained. *)
THEOREM ReadyIsLostForGood == Spec => ReadyNeverReturns
<1>1. ASSUME IInv, [Next]_vars, ~Ready
      PROVE  ~Ready'
  <2> USE DEF Ready
  <2>1. CASE Start
    <3>1. stopped' = stopped /\ (stopped => ctx' = ctx) /\ ctx = "nil"
      BY <1>1, <2>1 DEF IInv, CycleShape, Start
    <3> QED
      BY <1>1, <3>1
  <2>2. CASE Stop
    BY <2>2 DEF Stop
  <2>3. CASE CancelParent
    BY <1>1, <2>3 DEF CancelParent
  <2>4. CASE UNCHANGED <<stopped, ctx>>
    BY <1>1, <2>4
  <2> QED
    BY <1>1, <2>1, <2>2, <2>3, <2>4
    DEF Next, Worker, Cycle, Tick, LoopEnd, Terminated, CallRefreshOnce,
        WorkerCheck, Arm, TimerFires, WorkerExit, BeginCycle, EndCycle, StartRun,
        RunSucceeds, RunFails, vars, clockVars, schedVars
<1> QED
  <2>1. IInv /\ [Next]_vars => [~Ready => ~Ready']_vars
    BY <1>1
  <2> QED
    BY <2>1, IInvHolds, PTL DEF Spec, ReadyNeverReturns

-----------------------------------------------------------------------------
(* The up gauge and the planned attempts. *)

LEMMA UpStep == IInv /\ UpIsJustified /\ [Next]_vars => UpIsJustified'
<1> SUFFICES ASSUME IInv, UpIsJustified, [Next]_vars, up'
             PROVE  /\ Modules \subseteq succeeded'
                    /\ erred' # {} => \E a \in OpenCycles' : failed'[a]
  BY DEF UpIsJustified
<1> USE DEF IInv, TypeOK, CycleShape, UpIsJustified, OpenCycles, Goto
<1>1. ASSUME Tick \/ CancelParent \/ Stop \/ LoopEnd \/ Terminated
      PROVE  /\ Modules \subseteq succeeded'
             /\ erred' # {} => \E a \in OpenCycles' : failed'[a]
  BY <1>1 DEF Tick, CancelParent, Stop, LoopEnd, Terminated, vars, cycleVars,
              stateVars, gaugeVars
<1>8. CASE Start
  <2>1. \A a \in OpenCycles : a \in OpenCycles'
    BY <1>8 DEF Start, Actors
  <2> QED
    BY <1>8, <2>1 DEF Start, cycleVars, stateVars, gaugeVars
<1>2. ASSUME (\E c \in Calls : CallRefreshOnce(c)) \/ (\E m \in Modules : Worker(m))
      PROVE  /\ Modules \subseteq succeeded'
             /\ erred' # {} => \E a \in OpenCycles' : failed'[a]
  BY <1>2 DEF CallRefreshOnce, Worker, WorkerCheck, Arm, TimerFires, WorkerExit,
              cycleVars, stateVars, gaugeVars
<1>3. ASSUME NEW a \in Actors, BeginCycle(a)
      PROVE  /\ Modules \subseteq succeeded'
             /\ erred' # {} => \E b \in OpenCycles' : failed'[b]
  BY <1>3 DEF BeginCycle, stateVars
<1>4. ASSUME NEW a \in Actors, EndCycle(a)
      PROVE  Modules \subseteq succeeded' /\ erred' = {}
  BY <1>4 DEF EndCycle, UpAfter, AllLatestSucceeded, stateVars
<1>5. ASSUME NEW a \in Actors, NEW m \in Modules, StartRun(a, m) \/ RunSucceeds(a, m)
      PROVE  /\ Modules \subseteq succeeded'
             /\ erred' # {} => \E b \in OpenCycles' : failed'[b]
  BY <1>5 DEF StartRun, RunSucceeds, gaugeVars
<1>6. ASSUME NEW a \in Actors, NEW m \in Modules, RunFails(a, m)
      PROVE  Modules \subseteq succeeded' /\ a \in OpenCycles' /\ failed'[a]
  BY <1>6 DEF RunFails, gaugeVars
<1>7. CASE UNCHANGED vars
  BY <1>7 DEF vars, cycleVars, stateVars, gaugeVars
<1> QED
  BY <1>1, <1>2, <1>3, <1>4, <1>5, <1>6, <1>7, <1>8 DEF Next, Cycle

(* up = 1 means every enabled module has succeeded, and none of the latest *)
(* attempts failed unless the cycle that saw the failure is still open.    *)
THEOREM UpJustified == Spec => []UpIsJustified
<1>1. Init => UpIsJustified
  BY DEF Init, UpIsJustified
<1> QED
  BY <1>1, UpStep, IInvHolds, PTL DEF Spec

LEMMA PlanStep ==
  IInv /\ NextAttemptDiscipline /\ [Next]_vars => NextAttemptDiscipline'
<1> SUFFICES ASSUME IInv, NextAttemptDiscipline, [Next]_vars
             PROVE  NextAttemptDiscipline'
  OBVIOUS
<1> USE DEF IInv, TypeOK, NextAttemptDiscipline, InFlight, LockFree, Never
<1>1. ASSUME NEW a \in Actors, NEW m \in Modules, StartRun(a, m)
      PROVE  NextAttemptDiscipline'
  BY <1>1 DEF StartRun
<1>2. ASSUME NEW a \in Actors, NEW m \in Modules, RunSucceeds(a, m) \/ RunFails(a, m)
      PROVE  NextAttemptDiscipline'
  <2>1. \A b \in Actors : m \notin running'[b]
    BY <1>2 DEF RunSucceeds, RunFails, LocksExclusive
  <2>2. next'[m] # Never
    <3>1. CASE RunSucceeds(a, m)
      BY <3>1, TimesAssumption DEF RunSucceeds
    <3>2. CASE RunFails(a, m)
      BY <3>2, FailurePlans, TimesAssumption DEF Larger
    <3> QED
      BY <1>2, <3>1, <3>2
  <2>3. m \in succeeded' \cup erred'
    BY <1>2 DEF RunSucceeds, RunFails
  <2>4. ASSUME NEW n \in Modules, n # m
        PROVE  /\ next'[n] = next[n]
               /\ n \in succeeded' \cup erred' <=> n \in succeeded \cup erred
               /\ \A b \in Actors : n \in running'[b] <=> n \in running[b]
    BY <1>2, <2>4 DEF RunSucceeds, RunFails
  <2> QED
    BY <2>1, <2>2, <2>3, <2>4
<1>3. CASE UNCHANGED <<running, next, succeeded, erred>>
  BY <1>3
<1> QED
  BY <1>1, <1>2, <1>3
  DEF Next, Worker, Cycle, Tick, CancelParent, Start, Stop, LoopEnd, Terminated,
      CallRefreshOnce, WorkerCheck, Arm, TimerFires, WorkerExit, BeginCycle,
      EndCycle, vars, cycleVars, stateVars

(* A module has a planned attempt exactly when it has a result and no run  *)
(* of it is in flight, whoever runs it.                                    *)
THEOREM AttemptsPlanned == Spec => []NextAttemptDiscipline
<1>1. Init => NextAttemptDiscipline
  BY DEF Init, NextAttemptDiscipline, Never
<1> QED
  BY <1>1, PlanStep, IInvHolds, PTL DEF Spec

-----------------------------------------------------------------------------
(* A scheduler that has wound down. *)
WoundDown ==
  /\ ctx = "done" /\ loop = "ended" /\ gauge = Never
  /\ \A m \in Modules : pc[m] = "exited"

(* It stays so: no worker comes back, and the cycles of RefreshOnce calls  *)
(* that are still open or yet to come leave the next-attempt gauge at 0.   *)
StaysDown == [][WoundDown => WoundDown']_vars

THEOREM SchedulerStaysDown == Spec => StaysDown
<1>1. IInv /\ [Next]_vars => [WoundDown => WoundDown']_vars
  <2> SUFFICES ASSUME IInv, Next, WoundDown PROVE WoundDown'
    BY DEF vars
  <2>0. /\ pc \in [Actors -> Places] /\ Modules \subseteq Actors
        /\ \A m \in Modules : pc[m] = "exited"
    BY DEF IInv, TypeOK, Actors, WoundDown
  <2> USE DEF WoundDown, clockVars, schedVars, cycleVars, stateVars, gaugeVars
  <2>1. CASE Tick \/ CancelParent \/ LoopEnd \/ Terminated
    BY <2>1 DEF Tick, CancelParent, LoopEnd, Terminated, vars
  <2>2. CASE Start
    BY <2>2 DEF Start, IInv, TypeOK, CycleShape
  <2>3. CASE Stop
    BY <2>3 DEF Stop, NextAttempt
  <2>4. ASSUME NEW c \in Calls, CallRefreshOnce(c) PROVE WoundDown'
    BY <2>0, <2>4 DEF CallRefreshOnce, Goto
  <2>5. ASSUME NEW m \in Modules, Worker(m) PROVE WoundDown'
    BY <2>5 DEF Worker, WorkerCheck, Arm, TimerFires, WorkerExit
  <2>6. ASSUME NEW a \in Actors, BeginCycle(a) \/ EndCycle(a) PROVE WoundDown'
    <3>1. a \notin Modules
      BY <2>6 DEF BeginCycle, EndCycle
    <3> QED
      BY <2>0, <2>6, <3>1 DEF BeginCycle, EndCycle, NextAttempt, Goto
  <2>7. ASSUME NEW a \in Actors, NEW m \in Modules,
               StartRun(a, m) \/ RunSucceeds(a, m) \/ RunFails(a, m)
        PROVE  WoundDown'
    BY <2>7 DEF StartRun, RunSucceeds, RunFails
  <2> QED
    BY <2>1, <2>2, <2>3, <2>4, <2>5, <2>6, <2>7 DEF Next, Cycle
<1> QED
  BY <1>1, IInvHolds, PTL DEF Spec, StaysDown

-----------------------------------------------------------------------------
(* The scheduler without RefreshOnce calls, as main runs it: it implements *)
(* PollSchedule (every module is polled on its own, never before it is     *)
(* due), and the up and next-attempt gauges are exact.                     *)

(* A worker's cycle is about its own module. *)
OwnModuleOnly ==
  \A m \in Modules :
    pending[m] \subseteq {m} /\ running[m] \subseteq {m} /\ pending[m] \cap running[m] = {}

(* From the moment its timer fires until it takes the module's lock a      *)
(* worker is entitled to run; while it waits, its timer holds the plan.    *)
WorkersEntitled ==
  \A m \in Modules :
    /\ pc[m] \in {"unborn", "check", "begin"} \/ m \in pending[m] => now >= next[m]
    /\ pc[m] = "wait" => timer[m] = next[m]

SInv == IInv /\ OwnModuleOnly /\ WorkersEntitled

busy == UNION {running[a] : a \in Actors}

LEMMA BusyMembers == \A m : m \in busy <=> \E a \in Actors : m \in running[a]
BY DEF busy

LEMMA SInvInit == ASSUME Calls = {} PROVE Init => OwnModuleOnly /\ WorkersEntitled
BY DEF Init, OwnModuleOnly, WorkersEntitled, Actors, Never

LEMMA SInvStep ==
  ASSUME Calls = {}, SInv, [Next]_vars
  PROVE  OwnModuleOnly' /\ WorkersEntitled'
<1> USE DEF SInv, OwnModuleOnly, WorkersEntitled, Goto
<1>0. TypeOK /\ CycleShape /\ Actors = Modules
  BY DEF IInv, Actors
<1>1. CASE Tick
  BY <1>0, <1>1 DEF Tick, TypeOK, schedVars, cycleVars, stateVars
<1>2. ASSUME CancelParent \/ Stop \/ LoopEnd \/ Terminated
      PROVE  OwnModuleOnly' /\ WorkersEntitled'
  BY <1>2 DEF CancelParent, Stop, LoopEnd, Terminated, vars, clockVars, schedVars,
              cycleVars, stateVars
<1>3. CASE Start
  BY <1>0, <1>3 DEF Start, TypeOK, CycleShape, cycleVars, stateVars
<1>4. ASSUME NEW m \in Modules, Worker(m)
      PROVE  OwnModuleOnly' /\ WorkersEntitled'
  <2> USE <1>0 DEF TypeOK, clockVars, schedVars, cycleVars, stateVars
  <2>1. CASE WorkerCheck(m)
    BY <2>1 DEF WorkerCheck
  <2>2. CASE Arm(m)
    BY <2>2 DEF Arm
  <2>3. CASE TimerFires(m)
    BY <2>3 DEF TimerFires
  <2>4. CASE WorkerExit(m)
    BY <2>4 DEF WorkerExit
  <2> QED
    BY <1>4, <2>1, <2>2, <2>3, <2>4 DEF Worker
<1>5. ASSUME NEW a \in Modules, Cycle(a)
      PROVE  OwnModuleOnly' /\ WorkersEntitled'
  <2> USE <1>0 DEF TypeOK, CycleShape, clockVars, schedVars, stateVars
  <2>1. CASE BeginCycle(a)
    BY <2>1 DEF BeginCycle, Names
  <2>2. CASE EndCycle(a)
    BY <2>2 DEF EndCycle
  <2>3. ASSUME NEW m \in Modules, StartRun(a, m)
        PROVE  OwnModuleOnly' /\ WorkersEntitled'
    BY <2>3 DEF StartRun, Never
  <2>4. ASSUME NEW m \in Modules, RunSucceeds(a, m) \/ RunFails(a, m)
        PROVE  OwnModuleOnly' /\ WorkersEntitled'
    <3>1. m = a /\ pc[a] = "cycle" /\ a \notin pending[a]
      BY <2>4 DEF RunSucceeds, RunFails
    <3>2. \A n \in Modules : n # a => next'[n] = next[n]
      BY <2>4, <3>1 DEF RunSucceeds, RunFails
    <3> QED
      BY <2>4, <3>1, <3>2 DEF RunSucceeds, RunFails
  <2> QED
    BY <1>5, <2>1, <2>2, <2>3, <2>4 DEF Cycle
<1>6. CASE UNCHANGED vars
  BY <1>6 DEF vars, clockVars, schedVars, cycleVars, stateVars
<1> QED
  BY <1>0, <1>1, <1>2, <1>3, <1>4, <1>5, <1>6 DEF Next

(* Every step is a step of the schedule or leaves it alone. *)
LEMMA StepImplements ==
  ASSUME Calls = {}, SInv, [Next]_vars
  PROVE  [Schedule!ScheduleNext]_(Schedule!scheduleVars)
<1> USE DEF Schedule!scheduleVars
<1>0. TypeOK /\ LocksExclusive /\ OwnModuleOnly /\ WorkersEntitled /\ Actors = Modules
  BY DEF SInv, IInv, Actors
<1>1. CASE Tick
  BY <1>1 DEF Tick, cycleVars, stateVars, Schedule!ScheduleNext, Schedule!Pass
<1>2. ASSUME NEW a \in Modules, NEW m \in Modules, StartRun(a, m)
      PROVE  Schedule!Poll(m)
  <2>1. a = m /\ now >= next[m]
    BY <1>0, <1>2 DEF StartRun, OwnModuleOnly, WorkersEntitled
  <2>2. m \notin busy
    BY <1>0, <1>2, BusyMembers DEF StartRun, LockFree, InFlight
  <2>3. busy' = busy \cup {m}
    BY <1>0, <1>2 DEF StartRun, TypeOK, busy
  <2> QED
    BY <1>2, <2>1, <2>2, <2>3
    DEF StartRun, Schedule!Poll, Never, clockVars, busy
<1>3. ASSUME NEW a \in Modules, NEW m \in Modules, RunSucceeds(a, m) \/ RunFails(a, m)
      PROVE  Schedule!Answer(m)
  <2>1. m \in busy
    BY <1>0, <1>3, BusyMembers DEF RunSucceeds, RunFails
  <2>2. busy' = busy \ {m}
    BY <1>0, <1>3 DEF RunSucceeds, RunFails, TypeOK, LocksExclusive, busy
  <2>3. now' = now
    BY <1>3 DEF RunSucceeds, RunFails, clockVars
  <2>4. CASE RunSucceeds(a, m)
    BY <2>1, <2>2, <2>3, <2>4 DEF RunSucceeds, Schedule!Answer, busy
  <2>5. CASE RunFails(a, m)
    <3>1. PICK d \in 1..RefreshInterval, ra \in RetryAfters :
            next' = [next EXCEPT ![m] = now + Larger(d, ra)]
      BY <2>5, FailurePlans
    <3>2. Larger(d, ra) = IF ra > d THEN ra ELSE d
      BY TimesAssumption DEF Larger
    <3>3. \E wait \in 1..RefreshInterval, demand \in RetryAfters :
            next' = [next EXCEPT ![m] = now + IF demand > wait THEN demand ELSE wait]
      BY <3>1, <3>2
    <3> QED
      BY <2>1, <2>2, <2>3, <3>3 DEF Schedule!Answer, busy
  <2> QED
    BY <1>3, <2>4, <2>5
<1>4. CASE UNCHANGED <<now, running, next>>
  BY <1>4
<1> QED
  BY <1>0, <1>1, <1>2, <1>3, <1>4
  DEF Next, Worker, Cycle, CancelParent, Start, Stop, LoopEnd, Terminated,
      WorkerCheck, Arm, TimerFires, WorkerExit, BeginCycle, EndCycle, vars,
      clockVars, cycleVars, stateVars, Schedule!ScheduleNext

(* With no RefreshOnce call in the picture, the goroutines, locks, timers  *)
(* and cycles of the scheduler implement the polling schedule.             *)
THEOREM SchedulerImplementsSchedule ==
  ASSUME Calls = {}
  PROVE  Spec => ImplementsSchedule
<1>1. Init => SInv
  <2>1. Init => IInv
    <3>1. Init => CycleShape /\ LocksExclusive
      BY DEF Init, CycleShape, LocksExclusive, Actors
    <3> QED
      BY <3>1, TypeInit DEF IInv
  <2> QED
    BY <2>1, SInvInit DEF SInv
<1>2. SInv /\ [Next]_vars => SInv'
  BY SInvStep, TypeStep, CountStep, ShapeStep, LocksStep DEF SInv, IInv
<1>3. Init => Schedule!ScheduleInit
  BY DEF Init, Schedule!ScheduleInit, Never, Actors
<1>4. SInv /\ [Next]_vars => [Schedule!ScheduleNext]_(Schedule!scheduleVars)
  BY StepImplements
<1> QED
  BY <1>1, <1>2, <1>3, <1>4, PTL DEF Spec, ImplementsSchedule, Schedule!Spec

-----------------------------------------------------------------------------
(* The gauges of a scheduler that has its modules to itself. *)

(* A failure stays with its cycle until that ends, and a worker that has   *)
(* been through a cycle has a result.                                      *)
ResultsKept ==
  \A m \in Modules :
    /\ failed[m] => m \in erred /\ pending[m] = {} /\ running[m] = {}
    /\ \/ pc[m] \in {"arm", "wait"}
       \/ pc[m] = "cycle" /\ pending[m] = {} /\ running[m] = {}
       => m \in succeeded \cup erred

(* The gauge names the earliest of the planned attempts. *)
GaugePlanned ==
  gauge # Never => /\ \E m \in Modules : gauge = next[m]
                   /\ \A m \in Modules : next[m] = Never \/ gauge <= next[m]

LEMMA ResultsStep ==
  ASSUME Calls = {}, SInv, ResultsKept, [Next]_vars
  PROVE  ResultsKept'
<1> USE DEF ResultsKept, Goto
<1>0. TypeOK /\ CycleShape /\ OwnModuleOnly /\ Actors = Modules
  BY DEF SInv, IInv, Actors
<1>1. ASSUME Tick \/ CancelParent \/ Stop \/ LoopEnd \/ Terminated
      PROVE  ResultsKept'
  BY <1>1 DEF Tick, CancelParent, Stop, LoopEnd, Terminated, vars, clockVars,
              schedVars, cycleVars, stateVars
<1>2. CASE Start
  BY <1>0, <1>2 DEF Start, TypeOK, CycleShape, cycleVars, stateVars
<1>3. ASSUME NEW m \in Modules, Worker(m)
      PROVE  ResultsKept'
  <2>1. pc[m] \in {"check", "arm", "wait"}
    BY <1>3 DEF Worker, WorkerCheck, Arm, TimerFires, WorkerExit
  <2>2. \/ pc'[m] \in {"begin", "exited", "check"}
        \/ pc'[m] = "wait" /\ pc[m] = "arm"
    BY <1>0, <1>3 DEF Worker, WorkerCheck, Arm, TimerFires, WorkerExit, TypeOK
  <2>3. /\ \A n \in Modules : n # m => pc'[n] = pc[n]
        /\ UNCHANGED <<failed, pending, running, succeeded, erred>>
    BY <1>0, <1>3 DEF Worker, WorkerCheck, Arm, TimerFires, WorkerExit, TypeOK,
                      cycleVars, stateVars
  <2> QED
    BY <2>1, <2>2, <2>3
<1>4. ASSUME NEW a \in Modules, BeginCycle(a)
      PROVE  ResultsKept'
  <2>1. a \in pending'[a] /\ ~failed[a]
    BY <1>0, <1>4 DEF BeginCycle, TypeOK, CycleShape, Names
  <2>2. /\ \A n \in Modules : n # a => pc'[n] = pc[n] /\ pending'[n] = pending[n]
        /\ pc'[a] = "cycle"
        /\ UNCHANGED <<failed, running, succeeded, erred>>
    BY <1>0, <1>4 DEF BeginCycle, TypeOK, stateVars
  <2> QED
    BY <2>1, <2>2
<1>5. ASSUME NEW a \in Modules, EndCycle(a)
      PROVE  ResultsKept'
  BY <1>0, <1>5 DEF EndCycle, TypeOK, stateVars
<1>6. ASSUME NEW a \in Modules, NEW m \in Modules, StartRun(a, m)
      PROVE  ResultsKept'
  BY <1>0, <1>6 DEF StartRun, TypeOK
<1>7. ASSUME NEW a \in Modules, NEW m \in Modules, RunSucceeds(a, m) \/ RunFails(a, m)
      PROVE  ResultsKept'
  <2>1. /\ m = a /\ ~failed[a] /\ running[a] = {a} /\ pending[a] = {}
        /\ pc[a] = "cycle"
    BY <1>0, <1>7 DEF RunSucceeds, RunFails, OwnModuleOnly, CycleShape
  <2>2. /\ failed'[a] => a \in erred'
        /\ a \in succeeded' \cup erred'
        /\ pending'[a] = {} /\ running'[a] = {}
    BY <1>0, <1>7, <2>1 DEF RunSucceeds, RunFails, TypeOK
  <2>3. \A n \in Modules : n # a =>
          /\ failed'[n] = failed[n] /\ pending'[n] = pending[n]
          /\ running'[n] = running[n] /\ pc'[n] = pc[n]
          /\ n \in erred' <=> n \in erred
          /\ n \in succeeded \cup erred => n \in succeeded' \cup erred'
    BY <1>0, <1>7, <2>1 DEF RunSucceeds, RunFails, TypeOK
  <2> QED
    BY <2>2, <2>3
<1>8. CASE UNCHANGED vars
  BY <1>8 DEF vars, cycleVars, stateVars
<1> QED
  BY <1>0, <1>1, <1>2, <1>3, <1>4, <1>5, <1>6, <1>7, <1>8 DEF Next, Cycle

(* A cycle that ends has every failure of its modules in erred: it sets up *)
(* to what the modules say, and nothing changes that while none is open.   *)
LEMMA UpMatchesStep ==
  ASSUME Calls = {}, SInv, ResultsKept, UpMatchesLatestAttempts, [Next]_vars
  PROVE  UpMatchesLatestAttempts'
<1> USE DEF UpMatchesLatestAttempts, AllLatestSucceeded, OpenCycles
<1>0. TypeOK /\ CycleShape /\ Actors = Modules
  BY DEF SInv, IInv, Actors
<1>1. ASSUME NEW a \in Modules, EndCycle(a)
      PROVE  up' = AllLatestSucceeded'
  BY <1>0, <1>1 DEF EndCycle, UpAfter, ResultsKept, stateVars
<1>2. ASSUME NEW a \in Modules,
             \/ BeginCycle(a)
             \/ \E m \in Modules : StartRun(a, m) \/ RunSucceeds(a, m) \/ RunFails(a, m)
      PROVE  OpenCycles' # {}
  BY <1>0, <1>2 DEF BeginCycle, StartRun, RunSucceeds, RunFails, TypeOK, CycleShape, Goto
<1>3. ASSUME UNCHANGED <<up, succeeded, erred>>,
             \A a \in Actors : pc[a] = "cycle" => pc'[a] = "cycle"
      PROVE  UpMatchesLatestAttempts'
  BY <1>3
<1>4. ASSUME \/ Tick \/ CancelParent \/ Stop \/ LoopEnd \/ Terminated \/ UNCHANGED vars
             \/ Start \/ \E m \in Modules : Worker(m)
      PROVE  /\ UNCHANGED <<up, succeeded, erred>>
             /\ \A a \in Actors : pc[a] = "cycle" => pc'[a] = "cycle"
  BY <1>0, <1>4
  DEF Tick, CancelParent, Stop, LoopEnd, Terminated, Start, Worker, WorkerCheck, Arm,
      TimerFires, WorkerExit, Goto, TypeOK, CycleShape, vars, schedVars, cycleVars,
      stateVars, gaugeVars
<1> QED
  BY <1>0, <1>1, <1>2, <1>3, <1>4 DEF Next, Cycle

(* The gauge names a time only while no cycle is open, and no plan changes *)
(* then.                                                                   *)
LEMMA GaugePlannedStep ==
  ASSUME Calls = {}, SInv, GaugeZeroWhileRefreshing, GaugePlanned, [Next]_vars
  PROVE  GaugePlanned'
<1> USE DEF GaugePlanned
<1>0. TypeOK /\ CyclesCounted /\ CycleShape /\ Actors = Modules
  BY DEF SInv, IInv, Actors
<1>1. ASSUME NEW cycles, NEW stop, gauge' \in NextAttempt(cycles, stop),
             UNCHANGED next
      PROVE  GaugePlanned'
  BY <1>1 DEF NextAttempt
<1>2. ASSUME NEW a \in Modules, NEW m \in Modules,
             StartRun(a, m) \/ RunSucceeds(a, m) \/ RunFails(a, m)
      PROVE  gauge' = Never
  <2>1. a \in OpenCycles
    BY <1>0, <1>2 DEF StartRun, RunSucceeds, RunFails, CycleShape, OpenCycles
  <2>2. activeCycles > 0
    BY <1>0, <2>1, ActorsFinite, FS_EmptySet, FS_CardinalityType
    DEF CyclesCounted
  <2> QED
    BY <1>2, <2>2 DEF StartRun, RunSucceeds, RunFails, gaugeVars, GaugeZeroWhileRefreshing
<1>3. ASSUME NEW a \in Modules, BeginCycle(a)
      PROVE  gauge' = Never
  BY <1>3 DEF BeginCycle
<1>4. ASSUME NEW a \in Modules, EndCycle(a)
      PROVE  GaugePlanned'
  BY <1>1, <1>4 DEF EndCycle, stateVars
<1>5. CASE Stop
  BY <1>1, <1>5 DEF Stop, stateVars
<1>6. CASE LoopEnd
  BY <1>6 DEF LoopEnd
<1>7. CASE UNCHANGED <<next, gauge>>
  BY <1>7
<1> QED
  BY <1>0, <1>2, <1>3, <1>4, <1>5, <1>6, <1>7
  DEF Next, Worker, Cycle, Tick, CancelParent, Start, Terminated, WorkerCheck, Arm,
      TimerFires, WorkerExit, vars, stateVars, gaugeVars

LEMMA SInvHolds == ASSUME Calls = {} PROVE Spec => [](SInv /\ ResultsKept)
<1>1. Init => SInv /\ ResultsKept
  <2>1. Init => CycleShape /\ LocksExclusive
    BY DEF Init, CycleShape, LocksExclusive, Actors
  <2>2. Init => ResultsKept
    BY DEF Init, ResultsKept, Actors
  <2> QED
    BY <2>1, <2>2, TypeInit, SInvInit DEF SInv, IInv
<1>2. SInv /\ ResultsKept /\ [Next]_vars => SInv' /\ ResultsKept'
  BY SInvStep, ResultsStep, TypeStep, CountStep, ShapeStep, LocksStep DEF SInv, IInv
<1> QED
  BY <1>1, <1>2, PTL DEF Spec

(* Without RefreshOnce calls up is exact whenever no cycle is open: it     *)
(* says whether every module's latest attempt succeeded.                   *)
THEOREM UpIsExact ==
  ASSUME Calls = {}
  PROVE  Spec => []UpMatchesLatestAttempts
<1>1. Init => UpMatchesLatestAttempts
  BY ActorsAssumption DEF Init, UpMatchesLatestAttempts, AllLatestSucceeded
<1>2. SInv /\ ResultsKept /\ UpMatchesLatestAttempts /\ [Next]_vars
        => UpMatchesLatestAttempts'
  BY UpMatchesStep
<1> QED
  BY <1>1, <1>2, SInvHolds, PTL DEF Spec

(* Without RefreshOnce calls the next-attempt gauge, when it names a time, *)
(* names the earliest at which a worker will wake.                         *)
THEOREM GaugeIsExact ==
  ASSUME Calls = {}
  PROVE  Spec => []GaugeIsEarliest
<1>1. Init => GaugePlanned
  BY DEF Init, GaugePlanned
<1>2. SInv /\ GaugeZeroWhileRefreshing /\ GaugePlanned /\ [Next]_vars => GaugePlanned'
  BY GaugePlannedStep
<1>3. Spec => []GaugePlanned
  BY <1>1, <1>2, SInvHolds, GaugeZero, PTL DEF Spec
<1>4. ASSUME SInv, ResultsKept, GaugeZeroWhileRefreshing, NextAttemptDiscipline,
             GaugePlanned
      PROVE  GaugeIsEarliest
  <2> SUFFICES ASSUME gauge # Never
               PROVE  /\ \E m \in Modules :
                           gauge = IF pc[m] = "wait" THEN timer[m] ELSE next[m]
                      /\ \A m \in Modules : pc[m] = "wait" => timer[m] >= gauge
    BY DEF GaugeIsEarliest
  <2>0. TypeOK /\ CyclesCounted /\ CycleShape /\ WorkersEntitled /\ Actors = Modules
    BY <1>4 DEF SInv, IInv, Actors
  <2>1. OpenCycles = {}
    BY <1>4, <2>0, ActorsFinite, FS_EmptySet, FS_CardinalityType
    DEF CyclesCounted, GaugeZeroWhileRefreshing
  <2>2. \A m \in Modules : ~InFlight(m)
    BY <2>0, <2>1 DEF CycleShape, OpenCycles, InFlight
  <2>3. \A m \in Modules : pc[m] = "wait" => timer[m] = next[m] /\ next[m] # Never
    BY <1>4, <2>0, <2>2 DEF WorkersEntitled, ResultsKept, NextAttemptDiscipline
  <2>4. PICK m \in Modules : gauge = next[m]
    BY <1>4 DEF GaugePlanned
  <2>5. gauge = IF pc[m] = "wait" THEN timer[m] ELSE next[m]
    BY <2>3, <2>4
  <2>6. ASSUME NEW n \in Modules, pc[n] = "wait"
        PROVE  timer[n] >= gauge
    BY <1>4, <2>0, <2>3, <2>6 DEF GaugePlanned, TypeOK
  <2> QED
    BY <2>5, <2>6
<1> QED
  BY <1>3, <1>4, SInvHolds, GaugeZero, AttemptsPlanned, PTL

=============================================================================
