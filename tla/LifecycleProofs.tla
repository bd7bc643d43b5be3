-------------------------- MODULE LifecycleProofs --------------------------
(* Theorems about Lifecycle, for any invocations, requests and number of   *)
(* signals.                                                                *)
EXTENDS Lifecycle, Induction, TLAPS

(* Where the main goroutine stands tells how far start and shutdown are.   *)
Phases ==
  /\ main \in {"configure", "register"} => sched = "none"
  /\ main \in {"unwind", "return"} => sched # "none"
  /\ main \in {"spawn", "notify", "select", "cancel"} => sched = "live"
  /\ main \in {"stop", "shutdown"} => sched = "cancelled"
  /\ main = "shutdown" => stopped
  /\ closing => main \in {"drain", "unwind", "return"} \cup Ended
  /\ main \in {"drain"} => closing
  /\ closing => stopped /\ sched = "cancelled"
  /\ errCh = "closed" => closing

(* What an exit code of 0 will mean once run returns. *)
Asked ==
  /\ sigCh > 0 => sent > 0
  /\ main \in {"cancel", "stop", "shutdown", "drain"} => sent > 0
  /\ main \in {"unwind", "return"} => code \in {0, 1}
  /\ main \in {"unwind", "return", "exited"} /\ code = 0 /\ sched # "none" =>
       closing /\ sent > 0 /\ Open = {}

IInv == TypeOK /\ Phases /\ Asked /\ NoSchedulerOutlivesRun

LEMMA InitIInv == Init => IInv
<1> SUFFICES ASSUME Init PROVE IInv
  OBVIOUS
<1>1. TypeOK
  <2>1. handler \in [Requests -> {"none", "open", "fit", "unfit", "ready", "unready"}]
    BY DEF Init
  <2>2. sent \in 0..MaxSignals
    BY SignalsAssumption DEF Init, SignalsAssumption
  <2> QED BY <2>1, <2>2 DEF Init, TypeOK, Places, NoCode
<1>2. Phases /\ NoSchedulerOutlivesRun
  BY DEF Init, Phases, NoSchedulerOutlivesRun, Ended
<1>3. Asked
  BY DEF Init, Asked
<1> QED BY <1>1, <1>2, <1>3 DEF IInv

(* A step of the main goroutine keeps the invariant. *)
LEMMA MainIInv == IInv /\ Main => IInv'
<1> SUFFICES ASSUME IInv, Main PROVE IInv'
  OBVIOUS
<1> USE SignalsAssumption
    DEF IInv, TypeOK, Phases, Asked, NoSchedulerOutlivesRun, Places, Ended,
        SignalsAssumption, NoCode, Open, exporterVars, serverVars, signalVars, Exit
<1>1. CASE RejectFlags BY <1>1 DEF RejectFlags
<1>2. CASE ShowVersion BY <1>2 DEF ShowVersion
<1>3. CASE RefuseSettings BY <1>3 DEF RefuseSettings
<1>4. CASE Configure BY <1>4 DEF Configure
<1>5. CASE Register BY <1>5 DEF Register
<1>6. CASE StartExporter BY <1>6 DEF StartExporter
<1>7. CASE SpawnServer BY <1>7 DEF SpawnServer
<1>8. CASE Notify BY <1>8 DEF Notify
<1>9. CASE SelectSignal BY <1>9 DEF SelectSignal
<1>10. CASE SelectError BY <1>10 DEF SelectError
<1>11. CASE CancelContext BY <1>11 DEF CancelContext
<1>12. CASE StopExporter BY <1>12 DEF StopExporter
<1>13. CASE Shutdown BY <1>13 DEF Shutdown
<1>14. CASE Drained BY <1>14 DEF Drained
<1>15. CASE DrainTimeout BY <1>15 DEF DrainTimeout
<1>16. CASE StopSignals BY <1>16 DEF StopSignals
<1>17. CASE Return BY <1>17 DEF Return
<1> QED
  BY <1>1, <1>2, <1>3, <1>4, <1>5, <1>6, <1>7, <1>8, <1>9, <1>10, <1>11, <1>12,
     <1>13, <1>14, <1>15, <1>16, <1>17 DEF Main

(* So does every other step: a request is accepted only before Shutdown. *)
LEMMA NextIInv == IInv /\ [Next]_vars => IInv'
<1> SUFFICES ASSUME IInv, [Next]_vars PROVE IInv'
  OBVIOUS
<1>1. CASE Main BY <1>1, MainIInv
<1> USE SignalsAssumption
    DEF IInv, TypeOK, Phases, Asked, NoSchedulerOutlivesRun, Places, Ended, Alive,
        SignalsAssumption, NoCode, Open, exporterVars, serverVars, signalVars
<1>2. CASE Listens BY <1>2 DEF Listens
<1>3. CASE ServerFails BY <1>3 DEF ServerFails
<1>4. CASE ServerCloses BY <1>4 DEF ServerCloses
<1>5. CASE Signal BY <1>5 DEF Signal
<1>6. ASSUME NEW q \in Requests, Accept(q) PROVE IInv'
  BY <1>6 DEF Accept
<1>7. ASSUME NEW q \in Requests, Ask(q) \/ Tell(q) PROVE IInv'
  <2>1. handler' \in [Requests -> {"none", "open", "fit", "unfit", "ready", "unready"}]
    BY <1>7 DEF Ask, Tell
  <2>2. Open' \subseteq Open
    BY <1>7 DEF Ask, Tell
  <2> QED BY <1>7, <2>1, <2>2 DEF Ask, Tell
<1>8. CASE UNCHANGED vars BY <1>8 DEF vars
<1> QED
  BY <1>1, <1>2, <1>3, <1>4, <1>5, <1>6, <1>7, <1>8 DEF Next, Gone

LEMMA Invariant == Spec => []IInv
<1>1. Init => IInv BY InitIInv
<1>2. IInv /\ [Next]_vars => IInv' BY NextIInv
<1> QED BY <1>1, <1>2, PTL DEF Spec

(* Every reachable state is well typed; sigCh never overflows.             *)
THEOREM TypeCorrect == Spec => []TypeOK
<1>1. IInv => TypeOK BY DEF IInv
<1> QED BY <1>1, Invariant, PTL

(* On every path run returns the scheduler is cancelled and the exporter   *)
(* stopped: early returns come before Start, all others run the defers.    *)
THEOREM SchedulerStopped == Spec => []NoSchedulerOutlivesRun
<1>1. IInv => NoSchedulerOutlivesRun BY DEF IInv
<1> QED BY <1>1, Invariant, PTL

(* Exit code 0 of a serving process: a signal came, no request was cut.    *)
THEOREM ExitIsClean == Spec => []CleanExit
<1>1. IInv => CleanExit BY DEF IInv, Asked, CleanExit
<1> QED BY <1>1, Invariant, PTL

(* Once the server is being shut down no handler finds the exporter ready: *)
(* the requests that get a 200 are those whose handlers looked before.     *)
THEOREM NoneFoundReadyInDrain == Spec => DrainingFindsNoneReady
<1> DEFINE Step == closing => ToldReady' \subseteq ToldReady
<1>1. IInv /\ [Next]_vars => [Step]_vars
  <2> SUFFICES ASSUME IInv, Next, closing PROVE ToldReady' \subseteq ToldReady
    BY DEF vars
  <2>1. CASE Main
    BY <2>1 DEF ToldReady, Main, RejectFlags, ShowVersion, RefuseSettings, Configure,
       Register, StartExporter, SpawnServer, Notify, SelectSignal, SelectError,
       CancelContext, StopExporter, Shutdown, Drained, DrainTimeout, StopSignals, Return
  <2>2. CASE Listens \/ ServerFails \/ ServerCloses \/ Signal \/ Gone
    BY <2>2 DEF ToldReady, Listens, ServerFails, ServerCloses, Signal, Gone, vars
  <2>3. ASSUME NEW q \in Requests, Accept(q) PROVE FALSE
    BY <2>3 DEF Accept
  <2>4. ASSUME NEW q \in Requests, Ask(q) PROVE ToldReady' \subseteq ToldReady
    <3>1. ~Ready BY DEF Ready, IInv, Phases
    <3>2. handler' = [handler EXCEPT ![q] = "unfit"] BY <2>4, <3>1 DEF Ask
    <3> QED BY <3>2 DEF ToldReady, IInv, TypeOK
  <2>5. ASSUME NEW q \in Requests, Tell(q) PROVE ToldReady' \subseteq ToldReady
    BY <2>5 DEF Tell, ToldReady, IInv, TypeOK
  <2> QED BY <2>1, <2>2, <2>3, <2>4, <2>5 DEF Next
<1>2. Spec => [][Step]_vars
  BY <1>1, Invariant, PTL DEF Spec
<1> QED BY <1>2 DEF DrainingFindsNoneReady

-----------------------------------------------------------------------------
(* The pairs of a list that name a label, and the names. *)
Proper(pairs) == {i \in DOMAIN pairs : pairs[i].assigns /\ pairs[i].key # ""}
Named(pairs) == {pairs[i].key : i \in Proper(pairs)}

(* i is the last pair of its name. *)
LastPair(pairs, i) ==
  /\ i \in Proper(pairs)
  /\ \A j \in Proper(pairs) : pairs[j].key = pairs[i].key => j <= i

(* The labels that a list of pairs gives. *)
Gives(pairs, labels) ==
  /\ DOMAIN labels = Named(pairs)
  /\ \A k \in Named(pairs) : \E i \in Proper(pairs) :
       pairs[i].key = k /\ LastPair(pairs, i) /\ labels[k] = pairs[i].value

(* all is the list e of m pairs followed by the list f of n pairs. *)
Joined(e, m, f, n, all) ==
  /\ m \in Nat /\ DOMAIN e = 1..m
  /\ n \in Nat /\ DOMAIN f = 1..n
  /\ DOMAIN all = 1..(m + n)
  /\ \A i \in 1..m : all[i] = e[i]
  /\ \A i \in 1..n : all[m + i] = f[i]

(* Of the pairs with one name there is a last one: its value is parsed.    *)
LEMMA ParsedLabels ==
  ASSUME NEW pairs \in Seq(LabelPairs)
  PROVE  Gives(pairs, ParseLabels(pairs))
<1> DEFINE Kept == Proper(pairs)
           IsLast(k, i) == pairs[i].key = k /\ \A j \in Kept : pairs[j].key = k => j <= i
           LastOf(k) == CHOOSE i \in Kept : IsLast(k, i)
<1>1. ParseLabels(pairs) = [k \in Named(pairs) |-> pairs[LastOf(k)].value]
  BY DEF ParseLabels, Named, Proper
<1>2. ASSUME NEW k \in Named(pairs)
      PROVE  \E i \in Kept : IsLast(k, i)
  <2> DEFINE T == {i \in Kept : pairs[i].key = k}
  <2>1. Len(pairs) \in Nat /\ DOMAIN pairs = 1..Len(pairs)
    OBVIOUS
  <2>2. T \in SUBSET (1..Len(pairs)) /\ T # {}
    BY <2>1 DEF Named, Proper
  <2> HIDE DEF T
  <2>3. PICK i \in T : \A j \in T : j <= i
    BY <2>1, <2>2, GreatestIndex
  <2> QED
    BY <2>3 DEF T
<1>3. ASSUME NEW k \in Named(pairs)
      PROVE  LastOf(k) \in Kept /\ IsLast(k, LastOf(k))
  <2>1. \E i \in Kept : IsLast(k, i)
    BY <1>2
  <2> HIDE DEF Kept, IsLast
  <2> QED
    BY <2>1
<1> HIDE DEF LastOf
<1> QED
  BY <1>1, <1>3 DEF Gives, LastPair

LEMMA ConcatenationJoins ==
  ASSUME NEW e \in Seq(LabelPairs), NEW f \in Seq(LabelPairs)
  PROVE  Joined(e, Len(e), f, Len(f), e \o f)
BY DEF Joined

(* The index of a pair in the joined list tells which list it is from.     *)
LEMMA JoinedPairs ==
  ASSUME NEW e, NEW m, NEW f, NEW n, NEW all, Joined(e, m, f, n, all)
  PROVE  /\ \A i \in Proper(e) : i \in Proper(all) /\ i <= m /\ all[i] = e[i]
         /\ \A i \in Proper(f) : m + i \in Proper(all) /\ all[m + i] = f[i]
         /\ \A i \in Proper(all) :
              \/ i \in Proper(e)
              \/ i - m \in Proper(f) /\ m + (i - m) = i
<1>0. /\ m \in Nat /\ DOMAIN e = 1..m /\ n \in Nat /\ DOMAIN f = 1..n
      /\ DOMAIN all = 1..(m + n)
  BY DEF Joined
<1>1. ASSUME NEW i \in Proper(e)
      PROVE  i \in Proper(all) /\ i <= m /\ all[i] = e[i]
  <2>1. i \in 1..m
    BY <1>0 DEF Proper
  <2>2. all[i] = e[i]
    BY <2>1 DEF Joined
  <2>3. i \in DOMAIN all /\ i <= m
    BY <1>0, <2>1
  <2> QED
    BY <2>2, <2>3 DEF Proper
<1>2. ASSUME NEW i \in Proper(f)
      PROVE  m + i \in Proper(all) /\ all[m + i] = f[i]
  <2>1. i \in 1..n
    BY <1>0 DEF Proper
  <2>2. all[m + i] = f[i]
    BY <2>1 DEF Joined
  <2>3. m + i \in DOMAIN all
    BY <1>0, <2>1
  <2> QED
    BY <2>2, <2>3 DEF Proper
<1>3. ASSUME NEW i \in Proper(all)
      PROVE  i \in Proper(e) \/ (i - m \in Proper(f) /\ m + (i - m) = i)
  <2>1. i \in 1..(m + n)
    BY <1>0 DEF Proper
  <2>2. CASE i \in 1..m
    <3>1. all[i] = e[i] /\ i \in DOMAIN e
      BY <1>0, <2>2 DEF Joined
    <3> QED
      BY <3>1 DEF Proper
  <2>3. CASE i \notin 1..m
    <3>1. i - m \in 1..n /\ m + (i - m) = i
      BY <1>0, <2>1, <2>3
    <3>2. all[m + (i - m)] = f[i - m]
      BY <3>1 DEF Joined
    <3> QED
      BY <1>0, <3>1, <3>2 DEF Proper
  <2> QED
    BY <2>2, <2>3
<1> QED
  BY <1>1, <1>2, <1>3

(* Merged key by key, the lists are read as one: the flag's pairs last.    *)
LEMMA MergedAsOne ==
  ASSUME NEW e, NEW m, NEW f, NEW n, NEW all, Joined(e, m, f, n, all),
         NEW env, NEW flag, Gives(e, env), Gives(f, flag)
  PROVE  /\ DOMAIN MergeLabels(env, flag) = Named(all)
         /\ \A i \in Proper(all) :
              \/ MergeLabels(env, flag)[all[i].key] = all[i].value
              \/ \E j \in Proper(all) : j > i /\ all[j].key = all[i].key
<1> DEFINE labels == MergeLabels(env, flag)
<1>1. /\ m \in Nat /\ Proper(e) \subseteq Nat /\ Proper(f) \subseteq Nat
      /\ Proper(all) \subseteq Nat
  <2>1. /\ m \in Nat /\ DOMAIN e = 1..m /\ n \in Nat /\ DOMAIN f = 1..n
        /\ DOMAIN all = 1..(m + n)
    BY DEF Joined
  <2>2. DOMAIN e \subseteq Nat /\ DOMAIN f \subseteq Nat /\ DOMAIN all \subseteq Nat
    BY <2>1
  <2> QED
    BY <2>1, <2>2 DEF Proper
<1>2. Named(all) = Named(e) \cup Named(f)
  <2>1. ASSUME NEW i \in Proper(e) PROVE e[i].key \in Named(all)
    BY JoinedPairs DEF Named
  <2>2. ASSUME NEW i \in Proper(f) PROVE f[i].key \in Named(all)
    BY JoinedPairs DEF Named
  <2>3. ASSUME NEW i \in Proper(all) PROVE all[i].key \in Named(e) \cup Named(f)
    <3>1. CASE i \in Proper(e)
      BY <3>1, JoinedPairs DEF Named
    <3>2. CASE i - m \in Proper(f) /\ m + (i - m) = i
      <4>1. all[m + (i - m)] = f[i - m]
        BY <3>2, JoinedPairs
      <4> QED
        BY <3>2, <4>1 DEF Named
    <3> QED
      BY <3>1, <3>2, JoinedPairs
  <2> QED
    BY <2>1, <2>2, <2>3 DEF Named
<1>3. /\ DOMAIN labels = Named(all)
      /\ \A k \in Named(all) : labels[k] = IF k \in Named(f) THEN flag[k] ELSE env[k]
  <2>1. DOMAIN env = Named(e) /\ DOMAIN flag = Named(f)
    BY DEF Gives
  <2> QED
    BY <1>2, <2>1 DEF MergeLabels
<1> HIDE DEF labels
<1>4. ASSUME NEW i \in Proper(all)
      PROVE  \/ labels[all[i].key] = all[i].value
             \/ \E j \in Proper(all) : j > i /\ all[j].key = all[i].key
  <2> DEFINE k == all[i].key
  <2>1. k \in Named(all) /\ i \in Nat
    BY <1>1 DEF Named
  <2>2. CASE k \in Named(f)
    <3>1. PICK l \in Proper(f) :
            f[l].key = k /\ LastPair(f, l) /\ flag[k] = f[l].value
      BY <2>2 DEF Gives
    <3>2. m + l \in Proper(all) /\ all[m + l] = f[l]
      BY JoinedPairs
    <3>3. labels[k] = f[l].value
      BY <1>3, <2>1, <2>2, <3>1
    <3>4. i <= m + l
      <4>1. CASE i \in Proper(e)
        <5>1. i <= m
          BY <4>1, JoinedPairs
        <5> QED
          BY <1>1, <2>1, <5>1
      <4>2. CASE i - m \in Proper(f) /\ m + (i - m) = i
        <5>1. all[m + (i - m)] = f[i - m]
          BY <4>2, JoinedPairs
        <5>2. i - m <= l
          BY <3>1, <4>2, <5>1 DEF LastPair
        <5> QED
          BY <1>1, <2>1, <5>2
      <4> QED
        BY <4>1, <4>2, JoinedPairs
    <3>5. i = m + l \/ m + l > i
      BY <1>1, <2>1, <3>4
    <3> QED
      BY <3>1, <3>2, <3>3, <3>5
  <2>3. CASE k \notin Named(f)
    <3>1. i \in Proper(e) /\ all[i] = e[i]
      <4>1. CASE i - m \in Proper(f) /\ m + (i - m) = i
        <5>1. all[m + (i - m)] = f[i - m]
          BY <4>1, JoinedPairs
        <5> QED
          BY <2>3, <4>1, <5>1 DEF Named
      <4> QED
        BY <4>1, JoinedPairs
    <3>2. PICK l \in Proper(e) :
            e[l].key = k /\ LastPair(e, l) /\ env[k] = e[l].value
      BY <3>1 DEF Gives, Named
    <3>3. l \in Proper(all) /\ all[l] = e[l]
      BY JoinedPairs
    <3>4. labels[k] = e[l].value
      BY <1>3, <2>1, <2>3, <3>2
    <3>5. i <= l
      BY <3>1, <3>2 DEF LastPair
    <3>6. i = l \/ l > i
      BY <1>1, <2>1, <3>5
    <3> QED
      BY <3>2, <3>3, <3>4, <3>6
  <2> QED
    BY <2>2, <2>3
<1> QED
  BY <1>3, <1>4 DEF labels

(* A number that is not rejected is positive. *)
LEMMA ChosenIsPositive ==
  ASSUME NEW flag \in Int, NEW env \in NumberVariables, NEW default \in Nat,
         Choose(flag, env, default) # Rejected
  PROVE  Choose(flag, env, default) > 0
BY DEF Choose, Rejected, NumberVariables

-----------------------------------------------------------------------------
(* Once the settings are accepted nothing changes them. *)
Accepted ==
  /\ inv \in Invocations
  /\ main \in {"register", "start"} => ~Refused(inv)

LEMMA AcceptedStep == IInv /\ Accepted /\ [Next]_vars => Accepted'
<1> SUFFICES ASSUME IInv, Accepted, [Next]_vars PROVE Accepted'
  OBVIOUS
<1>1. inv' = inv
  BY DEF Next, Main, RejectFlags, ShowVersion, RefuseSettings, Configure, Register,
     StartExporter, SpawnServer, Notify, SelectSignal, SelectError, CancelContext,
     StopExporter, Shutdown, Drained, DrainTimeout, StopSignals, Return, Listens,
     ServerFails, ServerCloses, Signal, Gone, Accept, Ask, Tell, vars
<1>2. main' \in {"register", "start"} => Configure \/ Register \/ main' = main
  BY DEF Next, Main, Exit, RejectFlags, ShowVersion, RefuseSettings,
     StartExporter, SpawnServer, Notify, SelectSignal, SelectError, CancelContext,
     StopExporter, Shutdown, Drained, DrainTimeout, StopSignals, Return, Listens,
     ServerFails, ServerCloses, Signal, Gone, Accept, Ask, Tell, vars
<1>3. Configure => ~Refused(inv)
  BY DEF Configure
<1>4. Register => main = "register"
  BY DEF Register
<1> QED
  BY <1>1, <1>2, <1>3, <1>4 DEF Accepted

(* Flags, environment and defaults combine as documented, for all label    *)
(* lists and numbers: the last pair of a name wins, the command line's     *)
(* after the environment's, and nothing starts with a number below one.    *)
THEOREM SettingsAreGiven == Spec => []SettingsAsGiven
<1>1. Init => Accepted
  BY DEF Init, Accepted
<1>2. IInv /\ Accepted /\ [Next]_vars => Accepted'
  BY AcceptedStep
<1>3. Accepted => SettingsAsGiven
  <2> SUFFICES ASSUME Accepted, main = "start" PROVE SettingsAsGiven
    BY DEF SettingsAsGiven
  <2> DEFINE config == Configuration(inv)
             pairs == inv.labels.env \o inv.labels.flag
  <2>1. /\ inv.labels.env \in Seq(LabelPairs) /\ inv.labels.flag \in Seq(LabelPairs)
        /\ \A n \in Numbers :
             inv.numbers[n].flag \in Int /\ inv.numbers[n].env \in NumberVariables
    BY InvocationsAssumption DEF Accepted, InvocationsAssumption
  <2>2. /\ config.labels = MergeLabels(ParseLabels(inv.labels.env),
                                       ParseLabels(inv.labels.flag))
        /\ \A n \in Numbers : config.numbers[n] =
             Choose(inv.numbers[n].flag, inv.numbers[n].env, Defaults[n])
    BY DEF Configuration
  <2>3. \A n \in Numbers : config.numbers[n] # Rejected
    BY DEF Accepted, Refused
  <2> HIDE DEF config
  <2>4. ASSUME NEW n \in Numbers PROVE config.numbers[n] > 0
    <3>1. Defaults[n] \in Nat
      BY DefaultsAssumption DEF DefaultsAssumption
    <3> QED
      BY <2>1, <2>2, <2>3, <3>1, ChosenIsPositive
  <2>5. /\ DOMAIN config.labels = Named(pairs)
        /\ \A i \in Proper(pairs) :
             \/ config.labels[pairs[i].key] = pairs[i].value
             \/ \E j \in Proper(pairs) : j > i /\ pairs[j].key = pairs[i].key
    <3>1. Joined(inv.labels.env, Len(inv.labels.env), inv.labels.flag,
                 Len(inv.labels.flag), pairs)
      BY <2>1, ConcatenationJoins
    <3>2. /\ Gives(inv.labels.env, ParseLabels(inv.labels.env))
          /\ Gives(inv.labels.flag, ParseLabels(inv.labels.flag))
      BY <2>1, ParsedLabels
    <3> HIDE DEF pairs
    <3> QED
      BY <2>2, <3>1, <3>2, MergedAsOne
  <2> QED
    BY <2>4, <2>5 DEF SettingsAsGiven, Named, Proper, config
<1> QED
  BY <1>1, <1>2, <1>3, Invariant, PTL DEF Spec

-----------------------------------------------------------------------------
(* Why run ends: a signal is never lost before the main goroutine looks,   *)
(* and it never goes back.                                                 *)

Stage ==
  [ configure |-> 1, register |-> 2, start |-> 3, spawn |-> 4, notify |-> 5,
    select |-> 6, cancel |-> 7, stop |-> 8, shutdown |-> 9, drain |-> 10,
    unwind |-> 11, return |-> 12, exited |-> 13, killed |-> 13, panicked |-> 13 ]

(* A signal that has come kills the process or waits in sigCh. *)
SignalsWait ==
  /\ main \in {"configure", "register", "start", "spawn", "notify"} =>
       ~notified /\ sent = 0
  /\ main = "select" => notified
  /\ main = "select" /\ sent > 0 => sigCh > 0

LEMMA SignalsWaitStep == IInv /\ SignalsWait /\ [Next]_vars => SignalsWait'
<1> SUFFICES ASSUME IInv, SignalsWait, [Next]_vars PROVE SignalsWait'
  OBVIOUS
<1>0. sent \in Nat
  BY SignalsAssumption DEF IInv, TypeOK, SignalsAssumption
<1> USE <1>0 DEF SignalsWait, signalVars
<1>1. CASE Main
  BY <1>1 DEF Main, RejectFlags, ShowVersion, RefuseSettings, Configure, Register,
     StartExporter, SpawnServer, Notify, SelectSignal, SelectError, CancelContext,
     StopExporter, Shutdown, Drained, DrainTimeout, StopSignals, Return, Exit
<1>2. CASE Listens \/ ServerFails \/ ServerCloses \/ UNCHANGED vars
  BY <1>2 DEF Listens, ServerFails, ServerCloses, vars
<1>3. CASE Signal
  BY <1>3 DEF Signal, Alive, Ended
<1>4. ASSUME NEW q \in Requests, Accept(q) \/ Ask(q) \/ Tell(q)
      PROVE  SignalsWait'
  BY <1>4 DEF Accept, Ask, Tell
<1> QED
  BY <1>1, <1>2, <1>3, <1>4 DEF Next, Gone

(* A main goroutine that waits finds every signal that has come, however   *)
(* early: one that comes before it is notified has ended the process.      *)
SignalsHeard == main = "select" /\ sent > 0 => sigCh > 0

THEOREM SignalsAreHeard == Spec => []SignalsHeard
<1>1. Init => SignalsWait
  BY DEF Init, SignalsWait
<1>2. IInv /\ SignalsWait /\ [Next]_vars => SignalsWait'
  BY SignalsWaitStep
<1>3. SignalsWait => SignalsHeard
  BY DEF SignalsWait, SignalsHeard
<1> QED
  BY <1>1, <1>2, <1>3, Invariant, PTL DEF Spec

(* Every step of main is one of at most twelve towards the end of the      *)
(* process, and no other step but a deadly signal moves it.                *)
MainAdvances == [][main' # main => Stage[main'] > Stage[main]]_vars

THEOREM MainGoesOn == Spec => MainAdvances
<1>1. IInv /\ [Next]_vars => [main' # main => Stage[main'] > Stage[main]]_vars
  <2> SUFFICES ASSUME IInv, Next, main' # main
               PROVE  Stage[main'] > Stage[main]
    BY DEF vars
  <2>1. CASE Main
    BY <2>1 DEF Main, RejectFlags, ShowVersion, RefuseSettings, Configure, Register,
       StartExporter, SpawnServer, Notify, SelectSignal, SelectError, CancelContext,
       StopExporter, Shutdown, Drained, DrainTimeout, StopSignals, Return, Exit, Stage
  <2>2. CASE Signal
    BY <2>2 DEF Signal, IInv, TypeOK, Places, Alive, Ended, Stage
  <2>3. UNCHANGED main \/ Main \/ Signal
    BY DEF Next, Listens, ServerFails, ServerCloses, Gone, Accept, Ask, Tell, vars
  <2> QED
    BY <2>1, <2>2, <2>3
<1> QED
  BY <1>1, Invariant, PTL DEF Spec, MainAdvances

=============================================================================
