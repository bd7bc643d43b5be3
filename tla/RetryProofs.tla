---------------------------- MODULE RetryProofs ----------------------------
(* Theorems about Retry, for any durations, headers and number of datasets. *)
EXTENDS Retry, Induction, TLAPS

(* The attempts of a dataset, and a run that has met no error. *)
Shape ==
  /\ place \in {"wait", "send", "sleep"} => attempt \in 0..1
  /\ place = "sent" => at <= now
  /\ failed = FALSE => after = 0
  /\ hopeless => permanent

(* Where a run stands tells what the server may still ask for: nothing of  *)
(* the datasets to come, no more than after of those that are done.        *)
Patience ==
  /\ place = "wait" => next >= quiet /\ \A d \in 1..Datasets : next >= notBefore[d]
  /\ place # "wait" => now >= quiet
  /\ place \in {"send", "sent", "login", "sleep"} =>
       \A d \in 1..Datasets : d > item => notBefore[d] <= now
  /\ place \in {"send", "login"} => notBefore[item] <= now
  /\ place \in {"sent", "sleep"} => notBefore[item] <= at
  /\ place \in {"send", "sent", "login", "sleep", "end"} =>
       \A d \in 1..Datasets : d < item \/ place = "end" => notBefore[d] <= now + after

(* Twelve tenths of the interval are still a duration: true of intervals   *)
(* below 243 years.                                                        *)
JitterFits == 12 * RefreshInterval < 10 * (MaxDuration + 1)

(* What is still to wait counts: the pauses so far and the one that runs   *)
(* cover the backoff of all failures in a row.                             *)
PausesAddUp ==
  /\ place = "wait" =>
       10 * (paused + Larger(next - now, 0)) >= BackoffTime[consecutive]
  /\ place # "wait" => 10 * paused >= BackoffTime[consecutive]

IInv == TypeOK /\ Shape /\ Patience /\ (place = "sent" => at >= quiet)

-----------------------------------------------------------------------------
LEMMA WrapInRange ==
  ASSUME NEW x \in 0..MaxDuration
  PROVE  Wrap(x) = x
<1> DEFINE w == 2 * (MaxDuration + 1)
           y == x + MaxDuration + 1
<1>1. MaxDuration \in Nat BY ConstantsAssumption DEF ConstantsAssumption
<1>2. w \in Nat \ {0} /\ y \in 0..(w - 1) BY <1>1
<1>3. \A a \in Nat, b \in Nat \ {0} : a < b => a % b = a
  OBVIOUS
<1> HIDE DEF w, y
<1>4. y % w = y BY <1>2, <1>3
<1> QED BY <1>1, <1>4 DEF Wrap, w, y

LEMMA WrapIsInt ==
  ASSUME NEW x \in Int
  PROVE  Wrap(x) \in Int
<1>1. MaxDuration \in Nat BY ConstantsAssumption DEF ConstantsAssumption
<1> QED BY <1>1 DEF Wrap

LEMMA SecondsFit ==
  ASSUME NEW v \in Nat \ {0}
  PROVE  v <= MaxDuration \div Second <=> v * Second <= MaxDuration
<1>1. MaxDuration \in Nat /\ Second \in Nat \ {0}
  BY ConstantsAssumption DEF ConstantsAssumption
<1>2. \A m \in Nat, s \in Nat \ {0} : v <= m \div s <=> v * s <= m
  OBVIOUS
<1> QED BY <1>1, <1>2

(* A header's delay is a duration, and covers what the server asked for.   *)
LEMMA ParsedInRange ==
  ASSUME NEW h \in Headers, now \in Nat
  PROVE  ParseRetryAfter(h) \in 0..MaxDuration
<1>0. MaxDuration \in Nat /\ Second \in Nat \ {0}
  BY ConstantsAssumption DEF ConstantsAssumption
<1>1. h.value \in Int /\ h.kind \in HeaderKinds
  BY ConstantsAssumption DEF ConstantsAssumption
<1>2. ASSUME h.kind = "seconds", h.value > 0, h.value <= MaxDuration \div Second
      PROVE  Wrap(h.value * Second) \in 0..MaxDuration
  <2>1. h.value * Second \in 0..MaxDuration
    BY <1>0, <1>1, <1>2, SecondsFit
  <2> QED BY <2>1, WrapInRange
<1>3. Larger(Smaller(h.value - now, MaxDuration), 0) \in 0..MaxDuration
  BY <1>0, <1>1 DEF Larger, Smaller
<1> QED BY <1>0, <1>1, <1>2, <1>3 DEF ParseRetryAfter

LEMMA AskedIsCovered ==
  ASSUME NEW h \in Headers, now \in Nat
  PROVE  AskedUntil(h) \in Int /\ AskedUntil(h) <= now + ParseRetryAfter(h)
<1>0. MaxDuration \in Nat /\ Second \in Nat \ {0}
  BY ConstantsAssumption DEF ConstantsAssumption
<1>1. h.value \in Int
  BY ConstantsAssumption DEF ConstantsAssumption
<1>2. CASE h.kind = "date"
  BY <1>0, <1>1, <1>2 DEF AskedUntil, ParseRetryAfter, Larger, Smaller
<1>3. CASE h.kind = "seconds" /\ h.value > 0 /\ h.value * Second <= MaxDuration
  <2>1. h.value <= MaxDuration \div Second
    BY <1>0, <1>1, <1>3, SecondsFit
  <2>2. h.value * Second \in 0..MaxDuration
    BY <1>0, <1>1, <1>3
  <2>3. ParseRetryAfter(h) = h.value * Second
    BY <1>3, <2>1, <2>2, WrapInRange DEF ParseRetryAfter
  <2>4. AskedUntil(h) = now + h.value * Second
    BY <1>3 DEF AskedUntil
  <2> HIDE DEF ParseRetryAfter
  <2> QED BY <2>2, <2>3, <2>4
<1>4. CASE ~(h.kind = "date") /\ ~(h.kind = "seconds" /\ h.value > 0 /\ h.value * Second <= MaxDuration)
  <2>1. AskedUntil(h) = now BY <1>4 DEF AskedUntil
  <2>2. ParseRetryAfter(h) \in 0..MaxDuration BY ParsedInRange
  <2> QED BY <1>0, <2>1, <2>2
<1> QED BY <1>2, <1>3, <1>4

(* Whatever the backoff computes, a delay is a number. *)
LEMMA DelaysAreInts == \A d \in Delays : d \in Int
<1>0. MaxDuration \in Nat /\ RefreshInterval \in Int
  BY ConstantsAssumption DEF ConstantsAssumption
<1>1. ASSUME NEW b, NEW d \in Jittered(b) PROVE d \in Int
  <2>1. PICK j \in -2 * MaxDuration..2 * MaxDuration : d = Wrap(j)
    BY <1>1 DEF Jittered
  <2> QED BY <1>0, <2>1, WrapIsInt
<1>2. ASSUME NEW n, NEW d \in RetryDelays(n) PROVE d \in Int
  BY <1>0, <1>1, <1>2 DEF RetryDelays, Smaller
<1> QED BY <1>0, <1>2 DEF Delays

-----------------------------------------------------------------------------
LEMMA InitIInv == Init => IInv
<1> SUFFICES ASSUME Init PROVE IInv
  OBVIOUS
<1> USE ConstantsAssumption DEF ConstantsAssumption, Init, Never
<1>1. TypeOK
  <2>1. notBefore \in [1..Datasets -> Int] BY DEF Init
  <2>2. failed \in BOOLEAN /\ permanent \in BOOLEAN /\ hopeless \in BOOLEAN
    BY DEF Init
  <2>3. item \in 1..Datasets /\ after \in 0..MaxDuration
    BY DEF Init
  <2>4. /\ reauth \in BOOLEAN
        /\ refused \in Int
    <3>1. reauth \in BOOLEAN BY DEF Init
    <3>2. refused \in Int BY DEF Init
    <3> QED BY <3>1, <3>2
  <2>5. /\ now \in Nat \ {0} /\ next \in Nat /\ consecutive \in Nat /\ deadline \in Nat
        /\ at \in Nat /\ attempt \in 0..2 /\ quiet \in Nat /\ paused \in Nat
        /\ place = "wait"
    BY DEF Init
  <2> QED BY <2>1, <2>2, <2>3, <2>4, <2>5 DEF TypeOK
<1>2. Shape /\ Patience BY DEF Shape, Patience
<1> QED BY <1>1, <1>2 DEF IInv

(* The end of a dataset, in the three ways it comes about. *)
LEMMA NextDatasetKeeps ==
  ASSUME IInv, NextDataset, place \in {"send", "sent", "login", "sleep"}, now' = now,
         after' \in 0..MaxDuration, after' >= after,
         notBefore' \in [1..Datasets -> Int],
         \A d \in 1..Datasets : d # item => notBefore'[d] = notBefore[d],
         notBefore'[item] <= now + after',
         UNCHANGED <<next, consecutive, deadline, quiet>>
  PROVE  /\ place' \in {"send", "end"} /\ item' \in 1..Datasets
         /\ attempt' = 0 /\ at' = 0 /\ reauth' = FALSE /\ refused' = 0
         /\ Patience'
<1> USE DEF NextDataset, Never
<1>1. item \in 1..Datasets /\ now \in Nat /\ after \in 0..MaxDuration /\ quiet \in Nat
  BY DEF IInv, TypeOK
<1>2. Datasets \in Nat /\ MaxDuration \in Nat
  BY ConstantsAssumption DEF ConstantsAssumption
<1>3. notBefore \in [1..Datasets -> Int]
  BY DEF IInv, TypeOK
<1>4. \A d \in 1..Datasets : d > item => notBefore[d] <= now
  BY DEF IInv, Patience
<1>5. \A d \in 1..Datasets : d < item => notBefore[d] <= now + after
  BY DEF IInv, Patience
<1>6. now >= quiet
  BY DEF IInv, Patience
<1>7. \A d \in 1..Datasets : d <= item => notBefore'[d] <= now + after'
  <2> SUFFICES ASSUME NEW d \in 1..Datasets, d <= item
               PROVE  notBefore'[d] <= now + after'
    OBVIOUS
  <2>1. CASE d = item BY <2>1
  <2>2. CASE d # item
    <3>1. notBefore'[d] = notBefore[d] BY <2>2
    <3>2. notBefore[d] <= now + after BY <1>1, <1>2, <1>5, <2>2
    <3>3. notBefore[d] \in Int BY <1>3
    <3> QED BY <1>1, <3>1, <3>2, <3>3
  <2> QED BY <2>1, <2>2
<1>8. CASE item < Datasets
  <2>1. /\ place' = "send" /\ item' = item + 1 /\ attempt' = 0 /\ at' = 0
        /\ reauth' = FALSE /\ refused' = 0
    BY <1>8
  <2>2. \A d \in 1..Datasets : d >= item' => notBefore'[d] <= now
    BY <1>1, <1>2, <1>4, <2>1
  <2>3. \A d \in 1..Datasets : d < item' => notBefore'[d] <= now + after'
    BY <1>1, <1>2, <1>7, <2>1
  <2>4. item' \in 1..Datasets BY <1>1, <1>2, <1>8, <2>1
  <2>5. Patience'
    BY <1>1, <1>2, <1>6, <2>1, <2>2, <2>3, <2>4 DEF Patience
  <2> QED BY <2>1, <2>4, <2>5
<1>9. CASE ~(item < Datasets)
  <2>1. /\ place' = "end" /\ item' = item /\ attempt' = 0 /\ at' = 0
        /\ reauth' = FALSE /\ refused' = 0
    BY <1>9
  <2>2. \A d \in 1..Datasets : notBefore'[d] <= now + after'
    BY <1>1, <1>2, <1>7, <1>9
  <2>3. Patience'
    BY <1>6, <2>1, <2>2 DEF Patience
  <2> QED BY <1>1, <2>1, <2>3
<1> QED BY <1>8, <1>9

(* The error of a dataset joins those of the others: after only grows.     *)
LEMMA DatasetFailsKeeps ==
  ASSUME IInv, NEW cause \in Causes, NEW ra \in 0..MaxDuration, DatasetFails(cause, ra),
         place \in {"send", "sent", "login", "sleep"}, now' = now,
         notBefore' \in [1..Datasets -> Int],
         \A d \in 1..Datasets : d # item => notBefore'[d] = notBefore[d],
         notBefore'[item] <= now + ra,
         UNCHANGED <<next, consecutive, deadline, quiet, paused>>
  PROVE  IInv'
<1>1. after' \in 0..MaxDuration /\ after' >= after /\ after' >= ra
  <2>1. after \in 0..MaxDuration /\ MaxDuration \in Nat
    BY ConstantsAssumption DEF IInv, TypeOK, ConstantsAssumption
  <2> QED BY <2>1 DEF DatasetFails, JoinAfter, Larger
<1>2. notBefore'[item] <= now + after'
  <2>1. item \in 1..Datasets /\ now \in Nat /\ MaxDuration \in Nat
    BY ConstantsAssumption DEF IInv, TypeOK, ConstantsAssumption
  <2>2. notBefore'[item] \in Int BY <2>1
  <2> QED BY <1>1, <2>1, <2>2
<1>3. /\ place' \in {"send", "end"} /\ item' \in 1..Datasets
      /\ attempt' = 0 /\ at' = 0 /\ reauth' = FALSE /\ refused' = 0
      /\ Patience'
  <2>1. NextDataset BY DEF DatasetFails
  <2> QED BY <1>1, <1>2, <2>1, NextDatasetKeeps
<1>4. failed' = TRUE /\ permanent' \in BOOLEAN /\ hopeless' \in BOOLEAN
  BY DEF DatasetFails, JoinPermanent, IInv, TypeOK
<1>5. hopeless' => permanent'
  BY DEF DatasetFails, JoinPermanent, IsTransient, HopelessCauses, IInv, Shape
<1>6. TypeOK'
  <2>1. reauth' \in BOOLEAN /\ place' \notin {"sent", "sleep"}
    BY <1>3
  <2>2. refused' \in Int
    BY <1>3
  <2>3. attempt' \in 0..2 /\ at' \in Nat
    BY <1>3
  <2> QED BY <1>1, <1>3, <1>4, <2>1, <2>2, <2>3 DEF IInv, TypeOK
<1>7. Shape'
  BY <1>3, <1>4, <1>5 DEF Shape
<1> QED BY <1>3, <1>6, <1>7 DEF IInv

(* A retry is due before the deadline, and not before the server is ready. *)
LEMMA RetryLaterKeeps ==
  ASSUME IInv, NEW cause \in Causes, NEW ra \in 0..MaxDuration, MayRetry(cause, ra),
         RetryLater(ra), place \in {"sent", "login"}, now' = now,
         notBefore' \in [1..Datasets -> Int],
         \A d \in 1..Datasets : d # item => notBefore'[d] = notBefore[d],
         notBefore'[item] <= now + ra,
         UNCHANGED <<next, consecutive, deadline, quiet, paused>>
  PROVE  IInv'
<1>1. /\ item \in 1..Datasets /\ now \in Nat /\ after \in 0..MaxDuration
      /\ deadline \in Nat /\ attempt \in 0..2
  BY DEF IInv, TypeOK
<1>2. MaxDuration \in Nat /\ ClientDelay \in Nat /\ Datasets \in Nat
  BY ConstantsAssumption DEF ConstantsAssumption
<1>3. /\ place' = "sleep" /\ at' = now + Larger(ClientDelay, ra)
      /\ reauth' = FALSE /\ refused' = 0
      /\ UNCHANGED <<item, attempt, failed, permanent, after, hopeless>>
  BY DEF RetryLater, errVars, Never
<1>4. Larger(ClientDelay, ra) \in Nat /\ Larger(ClientDelay, ra) >= ra
  BY <1>2 DEF Larger
<1>5. at' \in Nat /\ at' < deadline /\ attempt \in 0..1
  <2>1. attempt < 2 /\ deadline - now > Larger(ClientDelay, ra)
    BY DEF MayRetry
  <2> HIDE DEF Larger
  <2> QED BY <1>1, <1>3, <1>4, <2>1
<1>6. notBefore'[item] <= at'
  <2>1. notBefore'[item] \in Int BY <1>1
  <2> HIDE DEF Larger
  <2> QED BY <1>1, <1>2, <1>3, <1>4, <2>1
<1>7. TypeOK'
  <2>1. reauth' \in BOOLEAN BY <1>3
  <2>2. refused' \in Int BY <1>3
  <2> QED BY <1>3, <1>5, <2>1, <2>2 DEF IInv, TypeOK
<1>8. Shape' BY <1>3, <1>5 DEF IInv, Shape
<1>9. Patience'
  <2>1. /\ now >= quiet
        /\ \A d \in 1..Datasets : d > item => notBefore[d] <= now
        /\ \A d \in 1..Datasets : d < item => notBefore[d] <= now + after
    BY DEF IInv, Patience
  <2>2. \A d \in 1..Datasets : d > item \/ d < item => notBefore'[d] = notBefore[d]
    BY <1>1
  <2> QED BY <1>3, <1>6, <2>1, <2>2 DEF Patience
<1> QED BY <1>3, <1>7, <1>8, <1>9 DEF IInv

(* After an error, with or without an answer. *)
LEMMA AfterErrorKeeps ==
  ASSUME IInv, NEW cause \in Causes, NEW ra \in 0..MaxDuration, AfterError(cause, ra),
         place \in {"sent", "login"}, now' = now,
         notBefore' \in [1..Datasets -> Int],
         \A d \in 1..Datasets : d # item => notBefore'[d] = notBefore[d],
         notBefore'[item] <= now + ra,
         UNCHANGED <<next, consecutive, deadline, quiet, paused>>
  PROVE  IInv'
<1>1. CASE MayRetry(cause, ra)
  <2>1. RetryLater(ra) BY <1>1 DEF AfterError
  <2> QED BY <1>1, <2>1, RetryLaterKeeps
<1>2. CASE ~MayRetry(cause, ra)
  <2>1. DatasetFails(cause, ra) BY <1>2 DEF AfterError
  <2> QED BY <2>1, DatasetFailsKeeps
<1> QED BY <1>1, <1>2

-----------------------------------------------------------------------------
LEMMA TickIInv == IInv /\ Tick => IInv'
<1> SUFFICES ASSUME IInv, Tick PROVE IInv'
  OBVIOUS
<1> USE DEF Tick, runVars, errVars
<1>1. /\ now \in Nat /\ quiet \in Nat /\ after \in 0..MaxDuration /\ at \in Nat
      /\ item \in 1..Datasets /\ notBefore \in [1..Datasets -> Int] /\ paused \in Nat
  BY DEF IInv, TypeOK
<1>2. now' = now + 1 /\ now' \in Nat \ {0} /\ paused' \in Nat
  BY <1>1
<1>3. TypeOK' BY <1>2 DEF IInv, TypeOK
<1>4. Shape' BY <1>1, <1>2 DEF IInv, Shape
<1>5. Patience'
  <2>1. now' >= quiet' \/ place' = "wait" BY <1>1, <1>2 DEF IInv, Patience
  <2>2. \A d \in 1..Datasets : notBefore[d] <= now => notBefore[d] <= now'
    BY <1>1, <1>2
  <2>3. MaxDuration \in Nat BY ConstantsAssumption DEF ConstantsAssumption
  <2>4. \A d \in 1..Datasets : notBefore[d] <= now + after => notBefore[d] <= now' + after
    BY <1>1, <1>2, <2>3
  <2>5. UNCHANGED <<place, next, item, at, after, notBefore, quiet>>
    OBVIOUS
  <2> HIDE DEF Tick
  <2> QED BY <1>1, <2>1, <2>2, <2>4, <2>5 DEF IInv, Patience
<1> QED BY <1>3, <1>4, <1>5 DEF IInv

LEMMA BeginRunIInv == IInv /\ BeginRun => IInv'
<1> SUFFICES ASSUME IInv, BeginRun PROVE IInv'
  OBVIOUS
<1> USE DEF BeginRun, Never, errVars, historyVars
<1>1. /\ now \in Nat /\ next \in Nat /\ after \in 0..MaxDuration
      /\ notBefore \in [1..Datasets -> Int] /\ item \in 1..Datasets
  BY DEF IInv, TypeOK
<1>2. RefreshTimeout \in Nat /\ MaxDuration \in Nat
  BY ConstantsAssumption DEF ConstantsAssumption
<1>3. now >= quiet /\ \A d \in 1..Datasets : notBefore[d] <= now
  <2>1. /\ now >= next /\ next >= quiet /\ \A d \in 1..Datasets : next >= notBefore[d]
        /\ quiet \in Nat
    BY DEF IInv, Patience, TypeOK
  <2> QED BY <1>1, <2>1
<1>4. deadline' \in Nat /\ next' \in Nat /\ place' = "send"
  BY <1>1, <1>2
<1>5. TypeOK' BY <1>4 DEF IInv, TypeOK
<1>6. Shape' BY DEF IInv, Shape
<1>7. \A d \in 1..Datasets : notBefore[d] <= now + after
  BY <1>1, <1>2, <1>3
<1>8. UNCHANGED <<now, item, after, notBefore, quiet>>
  OBVIOUS
<1> HIDE DEF BeginRun
<1>9. Patience' BY <1>1, <1>3, <1>4, <1>7, <1>8 DEF Patience
<1> QED BY <1>4, <1>5, <1>6, <1>9 DEF IInv

LEMMA SendIInv == IInv /\ Send => IInv'
<1> SUFFICES ASSUME IInv, Send PROVE IInv'
  OBVIOUS
<1> USE DEF Send, errVars, historyVars
<1>1. TypeOK' BY DEF IInv, TypeOK, Shape
<1>2. Shape'
  <2>1. failed = FALSE => after = 0 BY DEF IInv, Shape
  <2>2. hopeless => permanent BY DEF IInv, Shape
  <2>3. now \in Nat BY DEF IInv, TypeOK
  <2> QED BY <2>1, <2>2, <2>3 DEF Shape
<1>3. Patience' /\ (place' = "sent" => at' >= quiet') BY DEF IInv, Patience
<1> QED BY <1>1, <1>2, <1>3 DEF IInv

LEMMA WakesIInv == IInv /\ Wakes => IInv'
<1> SUFFICES ASSUME IInv, Wakes PROVE IInv'
  OBVIOUS
<1> USE DEF Wakes, runVars, errVars, historyVars
<1>1. TypeOK' BY DEF IInv, TypeOK
<1>2. Shape' BY DEF IInv, Shape
<1>3. notBefore[item] <= now
  BY DEF IInv, Patience, TypeOK
<1>4. Patience' BY <1>3 DEF IInv, Patience
<1> QED BY <1>1, <1>2, <1>4 DEF IInv

LEMMA ContextDoneIInv == IInv /\ ContextDone => IInv'
<1> SUFFICES ASSUME IInv, ContextDone PROVE IInv'
  OBVIOUS
<1>1. /\ now \in Nat /\ at \in Nat /\ deadline \in Nat /\ item \in 1..Datasets
      /\ notBefore \in [1..Datasets -> Int]
  BY DEF IInv, TypeOK
<1>2. notBefore[item] <= now
  <2>1. CASE place = "send" BY <2>1 DEF IInv, Patience
  <2>2. CASE place = "sleep"
    <3>1. notBefore[item] <= at /\ at < deadline /\ deadline <= now
      BY <2>2 DEF IInv, Patience, TypeOK, ContextDone
    <3>2. notBefore[item] \in Int BY <1>1
    <3> QED BY <1>1, <3>1, <3>2
  <2> QED BY <2>1, <2>2 DEF ContextDone
<1>3. "timeout" \in Causes /\ 0 \in 0..MaxDuration
  BY ConstantsAssumption DEF Causes, ConstantsAssumption
<1>4. DatasetFails("timeout", 0) /\ place \in {"send", "sent", "login", "sleep"}
  BY DEF ContextDone
<1>5. UNCHANGED <<now, next, consecutive, deadline, notBefore, quiet, paused>>
  BY DEF ContextDone
<1>6. notBefore'[item] <= now + 0
  BY <1>1, <1>2, <1>5
<1> QED BY <1>1, <1>3, <1>4, <1>5, <1>6, DatasetFailsKeeps

LEMMA AnswersIInv ==
  ASSUME IInv, NEW cause \in Causes,
         Succeeds \/ Breaks(cause) \/ (\E h \in Headers : Rejected(cause, h))
  PROVE  IInv'
<1>1. /\ now \in Nat /\ at \in Nat /\ item \in 1..Datasets
      /\ notBefore \in [1..Datasets -> Int] /\ after \in 0..MaxDuration
  BY DEF IInv, TypeOK
<1>2. MaxDuration \in Nat
  BY ConstantsAssumption DEF ConstantsAssumption
<1>3. place = "sent" /\ place \in {"sent", "login"}
  BY DEF Succeeds, Breaks, Rejected
<1>4. notBefore[item] <= now
  <2>1. notBefore[item] <= at /\ at <= now BY <1>3 DEF IInv, Patience, Shape
  <2>2. notBefore[item] \in Int BY <1>1
  <2> QED BY <1>1, <2>1, <2>2
<1>5. CASE Succeeds
  <2>1. /\ NextDataset
        /\ notBefore' = [notBefore EXCEPT ![item] = 0]
        /\ UNCHANGED <<now, next, consecutive, deadline, errVars, hopeless, quiet, paused>>
    BY <1>5 DEF Succeeds, Never
  <2>2. UNCHANGED <<failed, permanent, after>>
    BY <2>1 DEF errVars
  <2>3. /\ notBefore' \in [1..Datasets -> Int]
        /\ \A d \in 1..Datasets : d # item => notBefore'[d] = notBefore[d]
        /\ notBefore'[item] = 0
    BY <1>1, <2>1
  <2>4. after' \in 0..MaxDuration /\ after' >= after /\ notBefore'[item] <= now + after'
    BY <1>1, <1>2, <2>2, <2>3
  <2>5. /\ place' \in {"send", "end"} /\ item' \in 1..Datasets
        /\ attempt' = 0 /\ at' = 0 /\ Patience'
        /\ reauth' = FALSE /\ refused' = 0
    BY <1>3, <2>1, <2>3, <2>4, NextDatasetKeeps
  <2>6. TypeOK'
    <3>1. reauth' \in BOOLEAN /\ place' \notin {"sent", "sleep"}
      BY <2>5
    <3>2. refused' \in Int
      BY <2>5
    <3>3. attempt' \in 0..2 /\ at' \in Nat
      BY <2>5
    <3> QED BY <2>1, <2>2, <2>3, <2>4, <2>5, <3>1, <3>2, <3>3 DEF IInv, TypeOK
  <2>7. Shape'
    <3>1. (failed' = FALSE => after' = 0) /\ (hopeless' => permanent')
      BY <2>1, <2>2 DEF IInv, Shape
    <3> QED BY <2>5, <3>1 DEF Shape
  <2> QED BY <2>5, <2>6, <2>7 DEF IInv
<1>6. CASE Breaks(cause)
  <2>1. /\ AfterError(cause, 0)
        /\ UNCHANGED <<now, next, consecutive, deadline, notBefore, quiet, paused>>
    BY <1>6 DEF Breaks
  <2>2. notBefore'[item] <= now + 0 /\ 0 \in 0..MaxDuration
    BY <1>1, <1>2, <1>4, <2>1
  <2> QED BY <1>1, <1>3, <2>1, <2>2, AfterErrorKeeps
<1>7. ASSUME NEW h \in Headers, Rejected(cause, h) PROVE IInv'
  <2>1. /\ AfterError(cause, ParseRetryAfter(h))
        /\ notBefore' = [notBefore EXCEPT ![item] = AskedUntil(h)]
        /\ UNCHANGED <<now, next, consecutive, deadline, quiet, paused>>
    BY <1>7 DEF Rejected
  <2>2. ParseRetryAfter(h) \in 0..MaxDuration
    BY <1>1, ParsedInRange
  <2>3. AskedUntil(h) \in Int /\ AskedUntil(h) <= now + ParseRetryAfter(h)
    BY <1>1, AskedIsCovered
  <2>4. /\ notBefore' \in [1..Datasets -> Int]
        /\ \A d \in 1..Datasets : d # item => notBefore'[d] = notBefore[d]
        /\ notBefore'[item] = AskedUntil(h)
    BY <1>1, <2>1, <2>3
  <2>5. notBefore'[item] <= now + ParseRetryAfter(h)
    BY <2>3, <2>4
  <2> QED BY <1>3, <2>1, <2>2, <2>4, <2>5, AfterErrorKeeps
<1> QED BY <1>5, <1>6, <1>7

(* A 401 of an attempt, and the login after it. *)
LEMMA UnauthorizedIInv ==
  ASSUME IInv, NEW h \in Headers, Unauthorized(h)
  PROVE  IInv'
<1> USE DEF Never
<1>1. /\ now \in Nat /\ item \in 1..Datasets /\ place = "sent"
      /\ notBefore \in [1..Datasets -> Int]
  BY DEF IInv, TypeOK, Unauthorized
<1>2. /\ place' = "login" /\ notBefore' = [notBefore EXCEPT ![item] = 0]
      /\ refused' = AskedUntil(h) /\ at' = 0
      /\ UNCHANGED <<now, next, consecutive, deadline, item, attempt, reauth,
                    failed, permanent, after, hopeless, quiet, paused>>
  BY DEF Unauthorized, errVars
<1>3. AskedUntil(h) \in Int
  BY <1>1, AskedIsCovered
<1>4. /\ notBefore' \in [1..Datasets -> Int] /\ notBefore'[item] = 0
      /\ \A d \in 1..Datasets : d # item => notBefore'[d] = notBefore[d]
  BY <1>1, <1>2
<1>5. TypeOK' BY <1>2, <1>3, <1>4 DEF IInv, TypeOK
<1>6. Shape' BY <1>1, <1>2 DEF IInv, Shape
<1>7. Patience'
  <2>1. /\ now >= quiet
        /\ \A d \in 1..Datasets : d > item => notBefore[d] <= now
        /\ \A d \in 1..Datasets : d < item => notBefore[d] <= now + after
    BY <1>1 DEF IInv, Patience
  <2>2. \A d \in 1..Datasets : d > item \/ d < item => notBefore'[d] = notBefore[d]
    BY <1>1, <1>4
  <2>3. notBefore'[item] <= now BY <1>1, <1>4
  <2> QED BY <1>2, <2>1, <2>2, <2>3 DEF Patience
<1> QED BY <1>2, <1>5, <1>6, <1>7 DEF IInv

LEMMA LoggedInIInv == IInv /\ LoggedIn => IInv'
<1> SUFFICES ASSUME IInv, LoggedIn PROVE IInv'
  OBVIOUS
<1> USE DEF LoggedIn, errVars, historyVars
<1>1. TypeOK' BY DEF IInv, TypeOK
<1>2. Shape'
  <2>1. now \in Nat BY DEF IInv, TypeOK
  <2> QED BY <2>1 DEF IInv, Shape
<1>3. Patience' /\ (place' = "sent" => at' >= quiet') BY DEF IInv, Patience
<1> QED BY <1>1, <1>2, <1>3 DEF IInv

LEMMA LoginFailsIInv ==
  ASSUME IInv, NEW cause \in Causes, NEW ra \in RetryAfters, LoginFails(cause, ra)
  PROVE  IInv'
<1>1. /\ now \in Nat /\ item \in 1..Datasets
      /\ notBefore \in [1..Datasets -> Int]
  BY DEF IInv, TypeOK
<1>2. MaxDuration \in Nat
  BY ConstantsAssumption DEF ConstantsAssumption
<1>3. ra \in 0..MaxDuration
  BY <1>1, <1>2, ParsedInRange DEF RetryAfters
<1>4. UNCHANGED <<now, next, consecutive, deadline, notBefore, quiet, paused>>
  BY DEF LoginFails
<1>5. place \in {"send", "login"}
  BY DEF LoginFails
<1>6. notBefore[item] <= now
  BY <1>5 DEF IInv, Patience
<1>7. notBefore'[item] <= now + ra
  <2>1. notBefore[item] \in Int BY <1>1
  <2> QED BY <1>1, <1>2, <1>3, <1>4, <1>6, <2>1
<1>8. CASE place = "send" /\ DatasetFails(cause, ra)
  BY <1>1, <1>3, <1>4, <1>7, <1>8, DatasetFailsKeeps
<1>9. CASE place = "login" /\ AfterError(cause, ra)
  BY <1>1, <1>3, <1>4, <1>7, <1>9, AfterErrorKeeps
<1> QED BY <1>8, <1>9 DEF LoginFails

LEMMA RunEndsIInv == IInv /\ (RunSucceeds \/ RunFails) => IInv'
<1> SUFFICES ASSUME IInv, RunSucceeds \/ RunFails PROVE IInv'
  OBVIOUS
<1>1. /\ now \in Nat \ {0} /\ consecutive \in Nat /\ after \in 0..MaxDuration
      /\ quiet \in Nat /\ notBefore \in [1..Datasets -> Int]
  BY DEF IInv, TypeOK
<1>2. MaxDuration \in Nat /\ RefreshInterval \in Nat
  BY ConstantsAssumption DEF ConstantsAssumption
<1>3. place = "end" /\ place' = "wait"
  BY DEF RunSucceeds, RunFails, EndRun
<1>4. /\ deadline' = 0 /\ item' = 1 /\ attempt' = 0 /\ at' = 0
      /\ reauth' = FALSE /\ refused' = 0
      /\ failed' = FALSE /\ permanent' = FALSE /\ after' = 0 /\ hopeless' = FALSE
  BY DEF RunSucceeds, RunFails, EndRun, Never
<1>5. /\ item' \in 1..Datasets /\ after' \in 0..MaxDuration
      /\ failed' \in BOOLEAN /\ permanent' \in BOOLEAN /\ hopeless' \in BOOLEAN
      /\ reauth' \in BOOLEAN /\ refused' \in Int
  <2>1. /\ failed' \in BOOLEAN /\ permanent' \in BOOLEAN /\ hopeless' \in BOOLEAN
        /\ reauth' \in BOOLEAN
    BY <1>4
  <2>2. item' \in 1..Datasets /\ after' \in 0..MaxDuration /\ refused' \in Int
    BY <1>2, <1>4, ConstantsAssumption DEF ConstantsAssumption
  <2> QED BY <2>1, <2>2
<1>6. Shape' BY <1>3, <1>4 DEF Shape
<1>7. now >= quiet /\ \A d \in 1..Datasets : notBefore[d] <= now + after
  BY <1>3 DEF IInv, Patience
<1>8. CASE RunSucceeds
  <2>1. /\ next' = now + RefreshInterval /\ consecutive' = 0 /\ paused' = 0
        /\ UNCHANGED <<now, notBefore, quiet>>
        /\ ~failed
    BY <1>8 DEF RunSucceeds, EndRun
  <2>2. after = 0
    BY <2>1 DEF IInv, Shape, TypeOK
  <2>3. TypeOK'
    <3>1. next' \in Nat BY <1>1, <1>2, <2>1
    <3>2. now' \in Nat \ {0} /\ quiet' \in Nat /\ notBefore' \in [1..Datasets -> Int]
      BY <1>1, <2>1
    <3> QED BY <1>3, <1>4, <1>5, <2>1, <3>1, <3>2 DEF TypeOK
  <2>4. \A d \in 1..Datasets : next' >= notBefore'[d]
    BY <1>1, <1>2, <1>7, <2>1, <2>2
  <2>5. Patience'
    BY <1>1, <1>2, <1>3, <1>7, <2>1, <2>4 DEF Patience
  <2> QED BY <1>3, <1>6, <2>3, <2>5 DEF IInv
<1>9. CASE RunFails
  <2>1. PICK d \in Delays : next' = now + Larger(d, after)
    BY <1>9 DEF RunFails, EndRun
  <2>2. /\ consecutive' = consecutive + 1
        /\ quiet' = IF hopeless THEN now + RefreshInterval ELSE quiet
        /\ UNCHANGED <<now, notBefore, paused>>
    BY <1>9 DEF RunFails, EndRun
  <2>3. d \in Int
    BY DelaysAreInts
  <2>4. next' \in Nat /\ next' >= now + after /\ next' >= now + d
    BY <1>1, <1>2, <2>1, <2>3 DEF Larger
  <2>5. hopeless => d = RefreshInterval
    BY DEF IInv, Shape, Delays
  <2>6. quiet' \in Nat /\ next' >= quiet'
    BY <1>1, <1>2, <1>7, <2>2, <2>3, <2>4, <2>5
  <2>7. \A i \in 1..Datasets : next' >= notBefore'[i]
    BY <1>1, <1>2, <1>7, <2>2, <2>4
  <2>8. TypeOK'
    <3>1. now' \in Nat \ {0} /\ consecutive' \in Nat /\ notBefore' \in [1..Datasets -> Int]
      BY <1>1, <2>2
    <3>2. paused' \in Nat BY <2>2 DEF IInv, TypeOK
    <3> QED BY <1>3, <1>4, <1>5, <2>4, <2>6, <3>1, <3>2 DEF TypeOK
  <2>9. Patience' BY <1>3, <2>6, <2>7 DEF Patience
  <2> QED BY <1>3, <1>6, <2>8, <2>9 DEF IInv
<1> QED BY <1>8, <1>9

LEMMA IInvHolds == Spec => []IInv
<1>1. ASSUME IInv, [Next]_vars PROVE IInv'
  <2>1. CASE UNCHANGED vars
    BY <1>1, <2>1
    DEF vars, runVars, errVars, historyVars, IInv, TypeOK, Shape, Patience
  <2>2. CASE Succeeds
    <3>1. "timeout" \in Causes BY DEF Causes
    <3> QED BY <1>1, <2>2, <3>1, AnswersIInv
  <2>3. ASSUME NEW cause \in Causes,
               Breaks(cause) \/ (\E h \in Headers : Rejected(cause, h))
        PROVE  IInv'
    BY <1>1, <2>3, AnswersIInv
  <2>4. ASSUME NEW h \in Headers, Unauthorized(h) PROVE IInv'
    BY <1>1, <2>4, UnauthorizedIInv
  <2>5. ASSUME NEW cause \in Causes, NEW ra \in RetryAfters, LoginFails(cause, ra)
        PROVE  IInv'
    BY <1>1, <2>5, LoginFailsIInv
  <2> QED
    BY <1>1, <2>1, <2>2, <2>3, <2>4, <2>5, TickIInv, BeginRunIInv, SendIInv,
       WakesIInv, ContextDoneIInv, LoggedInIInv, RunEndsIInv DEF Next, Terminated
<1> QED BY <1>1, InitIInv, PTL DEF Spec

-----------------------------------------------------------------------------
(* Every reachable state is well typed: no Retry-After is negative or      *)
(* overflows, whatever the headers, and no request is sent or planned for  *)
(* after the run's deadline.                                               *)
THEOREM TypeCorrect == Spec => []TypeOK
<1>1. IInv => TypeOK BY DEF IInv
<1> QED BY <1>1, IInvHolds, PTL

(* No GET is sent before the time its server asked for with the last       *)
(* Retry-After, that of a 401 followed by a login excepted: not by the     *)
(* request that do or doAuthenticated sends again, not by the next run.    *)
THEOREM ServersAreHeard == Spec => []RetryAfterHeeded
<1>1. IInv => RetryAfterHeeded
  <2>1. ASSUME TypeOK, Patience, place = "sent" PROVE at >= notBefore[item]
    <3>1. notBefore[item] <= at /\ notBefore[item] \in Int /\ at \in Nat
      BY <2>1 DEF TypeOK, Patience
    <3> QED BY <3>1
  <2> QED BY <2>1 DEF IInv, RetryAfterHeeded
<1> QED BY <1>1, IInvHolds, PTL

(* A run with a permanent error is followed by a whole interval of quiet.  *)
THEOREM PermanentErrorsWait == Spec => []PermanentNotHurried
<1>1. IInv => PermanentNotHurried BY DEF IInv, PermanentNotHurried
<1> QED BY <1>1, IInvHolds, PTL

-----------------------------------------------------------------------------
(* What the recursive functions compute. *)

LEMMA BackoffIs ==
  /\ Backoff \in [Nat -> Int]
  /\ Backoff[1] = RetryBase
  /\ \A n \in Nat \ {0} :
       Backoff[n + 1] = IF Backoff[n] < RefreshInterval THEN Doubled(Backoff[n])
                        ELSE Backoff[n]
<1> DEFINE Grown(d) == IF d < RefreshInterval THEN Doubled(d) ELSE d
           step == [n \in Nat |-> [d \in Int |-> IF n = 0 THEN RetryBase ELSE Grown(d)]]
           IsBackoff(g) ==
             g = [n \in Nat |-> IF n <= 1 THEN RetryBase
                                ELSE IF g[n - 1] < RefreshInterval
                                THEN Doubled(g[n - 1]) ELSE g[n - 1]]
<1>1. RetryBase \in Int /\ RefreshInterval \in Int /\ \A d \in Int : Grown(d) \in Int
  <2>1. /\ RetryBase \in Int /\ RefreshInterval \in Int /\ MaxDuration \in Nat
    BY ConstantsAssumption DEF ConstantsAssumption
  <2>2. ASSUME NEW d \in Int PROVE Grown(d) \in Int
    <3>1. 2 * d \in Int
      OBVIOUS
    <3>2. Wrap(2 * d) \in Int
      BY <3>1, WrapIsInt
    <3>3. Doubled(d) \in Int
      BY <2>1, <3>2 DEF Doubled
    <3> QED
      BY <3>3
  <2> HIDE DEF Grown
  <2> QED
    BY <2>1, <2>2
<1>2. step \in [Nat -> [Int -> Int]]
  BY <1>1
<1>3. PICK g \in [Nat -> Int] :
        g[0] = RetryBase /\ \A n \in Nat : g[n + 1] = step[n][g[n]]
  <2> HIDE DEF step
  <2>1. \E g : Iterates(Int, RetryBase, step, g)
    BY <1>1, <1>2, IterationExists, Zenon
  <2> QED
    BY <2>1 DEF Iterates
<1>4. \A n \in Nat : g[n + 1] = IF n = 0 THEN RetryBase ELSE Grown(g[n])
  BY <1>3
<1>5. IsBackoff(g)
  <2> SUFFICES ASSUME NEW n \in Nat
               PROVE  g[n] = IF n <= 1 THEN RetryBase ELSE Grown(g[n - 1])
    BY <1>3
  <2>1. CASE n = 0
    BY <1>3, <2>1
  <2>2. CASE n # 0
    <3>1. n - 1 \in Nat /\ (n - 1) + 1 = n /\ (n <= 1 <=> n - 1 = 0)
      BY <2>2
    <3>2. g[n] = IF n - 1 = 0 THEN RetryBase ELSE Grown(g[n - 1])
      BY <1>4, <3>1
    <3> HIDE DEF Grown
    <3> QED
      BY <3>1, <3>2
  <2> QED
    BY <2>1, <2>2
<1>6. IsBackoff(Backoff)
  <2>1. Backoff = CHOOSE f : IsBackoff(f)
    BY Zenon DEF Backoff
  <2> HIDE DEF IsBackoff
  <2> QED
    BY <1>5, <2>1
<1>7. \A n \in Nat : Backoff[n] = IF n <= 1 THEN RetryBase ELSE Grown(Backoff[n - 1])
  BY <1>6
<1>8. Backoff[0] = RetryBase /\ Backoff[1] = RetryBase
  BY <1>7
<1>9. \A n \in Nat \ {0} : Backoff[n + 1] = Grown(Backoff[n])
  <2> SUFFICES ASSUME NEW n \in Nat \ {0} PROVE Backoff[n + 1] = Grown(Backoff[n])
    OBVIOUS
  <2>1. n + 1 \in Nat /\ ~(n + 1 <= 1) /\ (n + 1) - 1 = n
    OBVIOUS
  <2> HIDE DEF Grown
  <2> QED
    BY <1>7, <2>1
<1>10. \A n \in Nat : Backoff[n] \in Int
  <2> DEFINE T == { n \in Nat : Backoff[n] \in Int /\ Backoff[n + 1] \in Int }
  <2>1. 0 \in T
    BY <1>1, <1>8
  <2>2. ASSUME NEW n \in Nat, n \in T PROVE n + 1 \in T
    <3>1. n + 1 \in Nat \ {0} /\ Backoff[n + 1] \in Int
      BY <2>2
    <3>2. Backoff[(n + 1) + 1] = Grown(Backoff[n + 1])
      BY <1>9, <3>1
    <3>3. Grown(Backoff[n + 1]) \in Int
      BY <1>1, <3>1
    <3> QED
      BY <3>1, <3>2, <3>3
  <2>3. Nat \subseteq T
    <3> HIDE DEF T
    <3> QED
      BY <2>1, <2>2, SetInduction
  <2> QED
    BY <2>3
<1>11. Backoff \in [Nat -> Int]
  <2>1. Backoff = [n \in Nat |-> Backoff[n]]
    BY <1>6
  <2> QED
    BY <1>10, <2>1
<1> QED
  BY <1>8, <1>9, <1>11

LEMMA PowerOfTwoIs ==
  /\ PowerOfTwo \in [Nat -> Nat \ {0}]
  /\ PowerOfTwo[0] = 1
  /\ \A n \in Nat : PowerOfTwo[n + 1] = 2 * PowerOfTwo[n]
<1> DEFINE step == [n \in Nat |-> [x \in Nat \ {0} |-> 2 * x]]
           IsPower(g) == g = [n \in Nat |-> IF n = 0 THEN 1 ELSE 2 * g[n - 1]]
<1>1. step \in [Nat -> [Nat \ {0} -> Nat \ {0}]] /\ 1 \in Nat \ {0}
  OBVIOUS
<1>2. PICK g : Iterates(Nat \ {0}, 1, step, g)
  <2> HIDE DEF step
  <2> QED
    BY <1>1, IterationExists, Zenon
<1>3. g \in [Nat -> Nat \ {0}] /\ g[0] = 1 /\ \A n \in Nat : g[n + 1] = 2 * g[n]
  BY <1>2 DEF Iterates
<1>4. IsPower(g)
  <2> SUFFICES ASSUME NEW n \in Nat
               PROVE  g[n] = IF n = 0 THEN 1 ELSE 2 * g[n - 1]
    BY <1>3
  <2>1. CASE n # 0
    <3>1. n - 1 \in Nat /\ (n - 1) + 1 = n
      BY <2>1
    <3> QED
      BY <1>3, <2>1, <3>1
  <2> QED
    BY <1>3, <2>1
<1>5. IsPower(PowerOfTwo)
  <2>1. PowerOfTwo = CHOOSE f : IsPower(f)
    BY Zenon DEF PowerOfTwo
  <2> HIDE DEF IsPower
  <2> QED
    BY <1>4, <2>1
<1>6. PowerOfTwo[0] = 1
  BY <1>5
<1>7. ASSUME NEW n \in Nat PROVE PowerOfTwo[n + 1] = 2 * PowerOfTwo[n]
  <2>1. n + 1 \in Nat /\ n + 1 # 0 /\ (n + 1) - 1 = n
    OBVIOUS
  <2> QED
    BY <1>5, <2>1
<1>8. \A n \in Nat : PowerOfTwo[n] \in Nat \ {0}
  <2> DEFINE T == { n \in Nat : PowerOfTwo[n] \in Nat \ {0} }
  <2>1. 0 \in T /\ \A n \in Nat : n \in T => n + 1 \in T
    BY <1>6, <1>7
  <2>2. Nat \subseteq T
    <3> HIDE DEF T
    <3> QED
      BY <2>1, SetInduction
  <2> QED
    BY <2>2
<1> QED
  BY <1>5, <1>6, <1>7, <1>8

LEMMA BackoffTimeIs ==
  /\ BackoffTime \in [Nat -> Nat]
  /\ BackoffTime[0] = 0
  /\ \A n \in Nat :
       BackoffTime[n + 1] =
         BackoffTime[n] + 8 * Smaller(RetryBase * PowerOfTwo[n], RefreshInterval)
<1> DEFINE Wait(n) == 8 * Smaller(RetryBase * PowerOfTwo[n], RefreshInterval)
           step == [n \in Nat |-> [x \in Nat |-> x + Wait(n)]]
           IsTime(g) == g = [n \in Nat |-> IF n = 0 THEN 0 ELSE g[n - 1] + Wait(n - 1)]
<1>1. \A n \in Nat : Wait(n) \in Nat
  <2> SUFFICES ASSUME NEW n \in Nat PROVE Wait(n) \in Nat
    OBVIOUS
  <2>1. RetryBase \in Nat /\ RefreshInterval \in Nat /\ PowerOfTwo[n] \in Nat
    BY ConstantsAssumption, PowerOfTwoIs DEF ConstantsAssumption
  <2>2. RetryBase * PowerOfTwo[n] \in Nat
    BY <2>1
  <2> QED
    BY <2>1, <2>2 DEF Smaller
<1> HIDE DEF Wait
<1>2. step \in [Nat -> [Nat -> Nat]] /\ 0 \in Nat
  BY <1>1
<1>3. PICK g : Iterates(Nat, 0, step, g)
  <2> HIDE DEF step
  <2> QED
    BY <1>2, IterationExists, Zenon
<1>4. g \in [Nat -> Nat] /\ g[0] = 0 /\ \A n \in Nat : g[n + 1] = g[n] + Wait(n)
  BY <1>3 DEF Iterates
<1>5. IsTime(g)
  <2> SUFFICES ASSUME NEW n \in Nat
               PROVE  g[n] = IF n = 0 THEN 0 ELSE g[n - 1] + Wait(n - 1)
    BY <1>4
  <2>1. CASE n # 0
    <3>1. n - 1 \in Nat /\ (n - 1) + 1 = n
      BY <2>1
    <3> QED
      BY <1>4, <2>1, <3>1
  <2> QED
    BY <1>4, <2>1
<1>6. IsTime(BackoffTime)
  <2>1. BackoffTime = CHOOSE f : IsTime(f)
    BY Zenon DEF BackoffTime, Wait
  <2> HIDE DEF IsTime
  <2> QED
    BY <1>5, <2>1
<1>7. BackoffTime[0] = 0
  BY <1>6
<1>8. ASSUME NEW n \in Nat PROVE BackoffTime[n + 1] = BackoffTime[n] + Wait(n)
  <2>1. n + 1 \in Nat /\ n + 1 # 0 /\ (n + 1) - 1 = n
    OBVIOUS
  <2> QED
    BY <1>6, <2>1
<1>9. \A n \in Nat : BackoffTime[n] \in Nat
  <2> DEFINE T == { n \in Nat : BackoffTime[n] \in Nat }
  <2>1. 0 \in T
    BY <1>7
  <2>2. ASSUME NEW n \in Nat, n \in T PROVE n + 1 \in T
    <3>1. Wait(n) \in Nat
      BY <1>1
    <3> QED
      BY <1>8, <2>2, <3>1
  <2>3. Nat \subseteq T
    <3> HIDE DEF T
    <3> QED
      BY <2>1, <2>2, SetInduction
  <2> QED
    BY <2>3
<1> QED
  BY <1>6, <1>7, <1>8, <1>9 DEF Wait

(* A failure's backoff is a duration, and at least the reference's delay:  *)
(* doubling neither overflows nor falls behind the power of two.           *)
LEMMA BackoffGrows ==
  ASSUME NEW n \in Nat
  PROVE  /\ Backoff[n + 1] \in 1..MaxDuration
         /\ Smaller(Backoff[n + 1], RefreshInterval)
              >= Smaller(RetryBase * PowerOfTwo[n], RefreshInterval)
<1> DEFINE power(k) == RetryBase * PowerOfTwo[k]
           T == { k \in Nat : /\ Backoff[k + 1] \in 1..MaxDuration
                              /\ Backoff[k + 1] >= power(k)
                                   \/ Backoff[k + 1] >= RefreshInterval }
<1>1. /\ MaxDuration \in Nat \ {0}
      /\ RefreshInterval \in 1..MaxDuration /\ RetryBase \in 1..MaxDuration
  BY ConstantsAssumption DEF ConstantsAssumption
<1>2. \A k \in Nat : power(k) \in Nat /\ power(k + 1) = 2 * power(k)
  <2> SUFFICES ASSUME NEW k \in Nat PROVE power(k) \in Nat /\ power(k + 1) = 2 * power(k)
    OBVIOUS
  <2>1. PowerOfTwo[k] \in Nat /\ PowerOfTwo[k + 1] = 2 * PowerOfTwo[k]
    BY PowerOfTwoIs
  <2>2. RetryBase \in Nat
    BY <1>1
  <2>3. \A a, b \in Nat : a * b \in Nat /\ a * (2 * b) = 2 * (a * b)
    OBVIOUS
  <2> QED
    BY <2>1, <2>2, <2>3
<1>3. power(0) = RetryBase
  BY <1>1, PowerOfTwoIs
<1> HIDE DEF power
<1>4. 0 \in T
  BY <1>1, <1>3, BackoffIs
<1>5. ASSUME NEW k \in Nat, k \in T PROVE k + 1 \in T
  <2> DEFINE b == Backoff[k + 1]
             c == Backoff[(k + 1) + 1]
  <2>1. b \in 1..MaxDuration /\ (b >= power(k) \/ b >= RefreshInterval)
    BY <1>5
  <2>2. c = IF b < RefreshInterval THEN Doubled(b) ELSE b
    <3>1. k + 1 \in Nat \ {0}
      OBVIOUS
    <3> QED
      BY <3>1, BackoffIs
  <2>3. power(k) \in Nat /\ power(k + 1) = 2 * power(k)
    BY <1>2
  <2> HIDE DEF b, c
  <2>4. c \in 1..MaxDuration /\ (c >= power(k + 1) \/ c >= RefreshInterval)
    <3>1. CASE b >= RefreshInterval
      BY <1>1, <2>1, <2>2, <3>1
    <3>2. CASE b < RefreshInterval /\ b >= RefreshInterval \div 2
      <4>1. c = RefreshInterval
        BY <2>2, <3>2 DEF Doubled
      <4> QED
        BY <1>1, <4>1
    <3>3. CASE b < RefreshInterval /\ ~(b >= RefreshInterval \div 2)
      <4>1. 2 * b \in 1..MaxDuration
        BY <1>1, <2>1, <3>3
      <4>2. Wrap(2 * b) = 2 * b
        BY <1>1, <4>1, WrapInRange
      <4>3. c = 2 * b
        BY <2>2, <3>3, <4>2 DEF Doubled
      <4> QED
        BY <1>1, <2>1, <2>3, <3>3, <4>1, <4>3
    <3> QED
      BY <1>1, <2>1, <3>1, <3>2, <3>3
  <2> QED
    BY <2>4 DEF c
<1>6. n \in T
  <2> HIDE DEF T
  <2>1. Nat \subseteq T
    BY <1>4, <1>5, SetInduction
  <2> QED
    BY <2>1
<1>7. power(n) \in Nat
  BY <1>2
<1>8. Smaller(Backoff[n + 1], RefreshInterval) >= Smaller(power(n), RefreshInterval)
  BY <1>1, <1>6, <1>7 DEF Smaller
<1> QED
  BY <1>6, <1>8 DEF power

(* Jitter takes no more than a fifth of a delay, and nothing overflows.    *)
LEMMA JitterBounds ==
  ASSUME JitterFits, NEW d \in 1..RefreshInterval, NEW j \in Jittered(d)
  PROVE  j \in 1..MaxDuration /\ 10 * j >= 8 * d
<1>1. MaxDuration \in Nat \ {0} /\ RefreshInterval \in Nat
  BY ConstantsAssumption DEF ConstantsAssumption
<1>2. PICK k \in -2 * MaxDuration..2 * MaxDuration :
        j = Wrap(k) /\ (10 * k - 8 * d) * (10 * k - 12 * d) <= 0
  BY DEF Jittered
<1>3. k \in Int /\ d \in Nat /\ d >= 1 /\ 12 * d < 10 * (MaxDuration + 1)
  BY <1>1 DEF JitterFits
<1>4. 10 * k - 8 * d >= 0 /\ 10 * k - 12 * d <= 0
  <2> DEFINE x == 10 * k - 8 * d
             y == 10 * k - 12 * d
  <2>1. x \in Int /\ y \in Int /\ x > y /\ x * y <= 0
    BY <1>2, <1>3
  <2> HIDE DEF x, y
  <2>2. x >= 0 /\ y <= 0
    <3>1. \A a, b \in Int : a > 0 /\ b > 0 => a * b > 0
      OBVIOUS
    <3>2. CASE x < 0
      <4>1. (-x) * (-y) > 0
        BY <2>1, <3>1, <3>2
      <4>2. (-x) * (-y) = x * y
        BY <2>1
      <4> QED
        BY <2>1, <4>1, <4>2
    <3>3. CASE y > 0
      BY <2>1, <3>1, <3>3
    <3> QED
      BY <2>1, <3>2, <3>3
  <2> QED
    BY <2>2 DEF x, y
<1>5. k \in 1..MaxDuration
  BY <1>1, <1>3, <1>4
<1>6. j = k
  BY <1>1, <1>2, <1>5, WrapInRange
<1> QED
  BY <1>3, <1>4, <1>5, <1>6

(* JitterFits asks for no more than it must: of a longer interval jitter   *)
(* makes a delay that has passed before it begins.                         *)
THEOREM JitterFitsOrOverflows ==
  JitterFits <=> \A j \in Jittered(RefreshInterval) : j > 0
<1>1. MaxDuration \in Nat \ {0} /\ RefreshInterval \in 1..MaxDuration
  BY ConstantsAssumption DEF ConstantsAssumption
<1>2. ASSUME JitterFits, NEW j \in Jittered(RefreshInterval) PROVE j > 0
  <2>1. RefreshInterval \in 1..RefreshInterval
    BY <1>1
  <2>2. j \in 1..MaxDuration
    BY <1>2, <2>1, JitterBounds
  <2> QED
    BY <1>1, <2>2
<1>3. ASSUME ~JitterFits PROVE \E j \in Jittered(RefreshInterval) : ~(j > 0)
  <2> DEFINE k == MaxDuration + 1
  <2>1. k \in -2 * MaxDuration..2 * MaxDuration
    BY <1>1
  <2>2. 10 * k - 8 * RefreshInterval >= 0 /\ 12 * RefreshInterval - 10 * k >= 0
    BY <1>1, <1>3 DEF JitterFits
  <2>3. (10 * k - 8 * RefreshInterval) * (10 * k - 12 * RefreshInterval) <= 0
    <3> DEFINE x == 10 * k - 8 * RefreshInterval
               y == 12 * RefreshInterval - 10 * k
    <3>1. x \in Nat /\ y \in Nat /\ 10 * k - 12 * RefreshInterval = -y
      BY <1>1, <2>2
    <3>2. \A a, b \in Nat : a * (-b) <= 0
      <4> SUFFICES ASSUME NEW a \in Nat, NEW b \in Nat PROVE a * (-b) <= 0
        OBVIOUS
      <4>1. a * b >= 0 /\ a * (-b) = -(a * b)
        OBVIOUS
      <4> QED
        BY <4>1
    <3> HIDE DEF y
    <3>3. x * (-y) <= 0
      <4> HIDE DEF x
      <4> QED
        BY <3>1, <3>2
    <3> QED
      BY <3>1, <3>3
  <2>4. Wrap(k) \in Jittered(RefreshInterval)
    <3> HIDE DEF k
    <3> QED
      BY <2>1, <2>3 DEF Jittered
  <2>5. Wrap(k) = -k
    <3> DEFINE w == 2 * k
    <3>1. k + MaxDuration + 1 = w /\ 2 * (MaxDuration + 1) = w /\ w \in Nat \ {0}
      BY <1>1
    <3>2. \A n \in Nat \ {0} : n % n = 0
      OBVIOUS
    <3>3. w % w = 0
      <4> HIDE DEF w
      <4> QED
        BY <3>1, <3>2
    <3>4. Wrap(k) = (w % w) - k
      BY <3>1 DEF Wrap
    <3> QED
      BY <1>1, <3>3, <3>4
  <2> QED
    BY <1>1, <2>4, <2>5
<1> QED
  BY <1>2, <1>3

(* The wait after a failure is positive, no longer than the interval, and  *)
(* at least four fifths of the reference's delay.                          *)
THEOREM RetryDelayBounds ==
  ASSUME JitterFits, NEW n \in Nat, NEW d \in RetryDelays(n + 1)
  PROVE  /\ d \in 1..RefreshInterval
         /\ 10 * d >= 8 * Smaller(RetryBase * PowerOfTwo[n], RefreshInterval)
<1> DEFINE b == Smaller(Backoff[n + 1], RefreshInterval)
           least == Smaller(RetryBase * PowerOfTwo[n], RefreshInterval)
<1>1. MaxDuration \in Nat \ {0} /\ RefreshInterval \in 1..MaxDuration
  BY ConstantsAssumption DEF ConstantsAssumption
<1>2. b \in 1..RefreshInterval /\ b >= least
  <2>1. Backoff[n + 1] \in 1..MaxDuration /\ b >= least
    BY BackoffGrows
  <2> QED
    BY <1>1, <2>1 DEF Smaller
<1>3. PICK j \in Jittered(b) : d = Smaller(j, RefreshInterval)
  BY DEF RetryDelays
<1>4. least \in Int /\ least <= RefreshInterval
  <2>1. RetryBase \in Nat /\ PowerOfTwo[n] \in Nat
    BY ConstantsAssumption, PowerOfTwoIs DEF ConstantsAssumption
  <2>2. RetryBase * PowerOfTwo[n] \in Nat
    BY <2>1
  <2> QED
    BY <1>1, <2>2 DEF Smaller
<1> HIDE DEF b, least
<1>5. j \in 1..MaxDuration /\ 10 * j >= 8 * b
  BY <1>2, JitterBounds
<1>6. 10 * j >= 8 * least
  BY <1>1, <1>2, <1>4, <1>5
<1>7. d \in 1..RefreshInterval /\ 10 * d >= 8 * least
  BY <1>1, <1>3, <1>4, <1>5, <1>6 DEF Smaller
<1> QED
  BY <1>7 DEF least

LEMMA DelayBounds ==
  ASSUME JitterFits, consecutive \in Nat, NEW d \in Delays
  PROVE  /\ d \in 1..RefreshInterval
         /\ 10 * d >= 8 * Smaller(RetryBase * PowerOfTwo[consecutive], RefreshInterval)
<1>1. CASE permanent
  <2> DEFINE power == RetryBase * PowerOfTwo[consecutive]
  <2>1. d = RefreshInterval /\ RefreshInterval \in Nat \ {0}
    BY <1>1, ConstantsAssumption DEF Delays, ConstantsAssumption
  <2>2. power \in Nat
    <3>1. RetryBase \in Nat /\ PowerOfTwo[consecutive] \in Nat
      BY ConstantsAssumption, PowerOfTwoIs DEF ConstantsAssumption
    <3> QED
      BY <3>1
  <2> HIDE DEF power
  <2>3. 10 * d >= 8 * Smaller(power, RefreshInterval)
    BY <2>1, <2>2 DEF Smaller
  <2> QED
    BY <2>1, <2>3 DEF power
<1>2. CASE ~permanent
  <2>1. d \in RetryDelays(consecutive + 1)
    BY <1>2 DEF Delays
  <2> QED
    BY <2>1, RetryDelayBounds
<1> QED
  BY <1>1, <1>2

-----------------------------------------------------------------------------
(* The requests of a run move neither the clock nor the plan.              *)
LEMMA OtherStepsStay ==
  ASSUME [Next]_vars, ~Tick, ~BeginRun, ~RunSucceeds, ~RunFails
  PROVE  /\ UNCHANGED <<now, next, consecutive, paused>>
         /\ (place = "wait" <=> place' = "wait")
<1>1. CASE Send \/ Wakes \/ LoggedIn \/ Terminated \/ UNCHANGED vars
  BY <1>1 DEF Send, Wakes, LoggedIn, Terminated, vars, historyVars
<1>2. CASE ContextDone \/ Succeeds
  BY <1>2 DEF ContextDone, Succeeds, DatasetFails, NextDataset
<1>3. ASSUME NEW cause \in Causes,
             Breaks(cause) \/ \E h \in Headers : Rejected(cause, h)
      PROVE  /\ UNCHANGED <<now, next, consecutive, paused>>
             /\ (place = "wait" <=> place' = "wait")
  BY <1>3 DEF Breaks, Rejected, AfterError, RetryLater, DatasetFails, NextDataset
<1>4. ASSUME (\E h \in Headers : Unauthorized(h))
             \/ \E cause \in Causes, ra \in RetryAfters : LoginFails(cause, ra)
      PROVE  /\ UNCHANGED <<now, next, consecutive, paused>>
             /\ (place = "wait" <=> place' = "wait")
  BY <1>4 DEF Unauthorized, LoginFails, AfterError, RetryLater, DatasetFails,
              NextDataset
<1> QED
  BY <1>1, <1>2, <1>3, <1>4 DEF Next

LEMMA PausesStep ==
  ASSUME JitterFits, IInv, PausesAddUp, [Next]_vars
  PROVE  PausesAddUp'
<1>1. now \in Nat /\ next \in Nat /\ paused \in Nat /\ consecutive \in Nat
  BY DEF IInv, TypeOK
<1>2. BackoffTime[consecutive] \in Nat /\ BackoffTime[0] = 0
  BY <1>1, BackoffTimeIs
<1>3. CASE Tick
  <2>1. /\ now' = now + 1
        /\ paused' = IF place = "wait" /\ consecutive > 0 THEN paused + 1 ELSE paused
        /\ UNCHANGED <<place, next, consecutive>>
    BY <1>3 DEF Tick
  <2>2. CASE consecutive = 0
    BY <1>1, <1>2, <2>1, <2>2 DEF PausesAddUp, Larger
  <2>3. CASE consecutive > 0
    BY <1>1, <1>2, <2>1, <2>3 DEF PausesAddUp, Larger
  <2> QED
    BY <1>1, <2>2, <2>3
<1>4. CASE BeginRun
  <2>1. /\ place = "wait" /\ now >= next /\ place' = "send"
        /\ UNCHANGED <<consecutive, paused>>
    BY <1>4 DEF BeginRun, historyVars
  <2> QED
    BY <1>1, <1>2, <2>1 DEF PausesAddUp, Larger
<1>5. CASE RunSucceeds
  <2>1. consecutive' = 0 /\ paused' = 0 /\ place' = "wait"
    BY <1>5 DEF RunSucceeds, EndRun
  <2>2. next' \in Int /\ now' \in Int
    BY <1>1, <1>5, ConstantsAssumption DEF RunSucceeds, ConstantsAssumption
  <2>3. BackoffTime[consecutive'] = 0
    BY <1>2, <2>1
  <2>4. Larger(next' - now', 0) \in Nat
    <3>1. next' - now' \in Int
      BY <2>2
    <3>2. \A x \in Int : Larger(x, 0) \in Nat
      BY DEF Larger
    <3> QED
      BY <3>1, <3>2
  <2>5. 10 * (paused' + Larger(next' - now', 0)) >= 0
    <3> DEFINE left == Larger(next' - now', 0)
    <3> HIDE DEF left
    <3>1. left \in Nat => 10 * (0 + left) >= 0
      OBVIOUS
    <3> QED
      BY <2>1, <2>4, <3>1 DEF left
  <2> QED
    BY <2>1, <2>3, <2>5 DEF PausesAddUp
<1>6. CASE RunFails
  <2>1. PICK d \in Delays : next' = now + Larger(d, after)
    BY <1>6 DEF RunFails, EndRun
  <2>2. /\ place = "end" /\ place' = "wait" /\ consecutive' = consecutive + 1
        /\ UNCHANGED <<now, paused>>
    BY <1>6 DEF RunFails, EndRun
  <2> DEFINE least == Smaller(RetryBase * PowerOfTwo[consecutive], RefreshInterval)
  <2>3. d \in 1..RefreshInterval /\ 10 * d >= 8 * least
    BY <1>1, DelayBounds
  <2>4. /\ BackoffTime[consecutive'] = BackoffTime[consecutive] + 8 * least
        /\ BackoffTime[consecutive'] \in Nat
    <3>1. consecutive' \in Nat
      BY <1>1, <2>2
    <3> QED
      BY <1>1, <2>2, <3>1, BackoffTimeIs
  <2>5. 10 * paused >= BackoffTime[consecutive]
    BY <2>2 DEF PausesAddUp
  <2>6. RefreshInterval \in Nat /\ after \in Int
    BY ConstantsAssumption DEF ConstantsAssumption, IInv, TypeOK
  <2>7. 8 * least \in Int
    BY <1>2, <2>4, <1>1, BackoffTimeIs, ConstantsAssumption, PowerOfTwoIs DEF Smaller, ConstantsAssumption
  <2> HIDE DEF least
  <2>8. next' - now >= d /\ next' - now \in Int
    BY <1>1, <2>1, <2>3, <2>6 DEF Larger
  <2>9. 10 * (paused' + Larger(next' - now', 0)) >= BackoffTime[consecutive']
    BY <1>1, <1>2, <2>2, <2>3, <2>4, <2>5, <2>6, <2>7, <2>8 DEF Larger
  <2> QED
    BY <2>2, <2>9 DEF PausesAddUp
<1>7. CASE UNCHANGED <<now, next, consecutive, paused>>
           /\ (place = "wait" <=> place' = "wait")
  BY <1>7 DEF PausesAddUp
<1>8. CASE ~Tick /\ ~BeginRun /\ ~RunSucceeds /\ ~RunFails
  BY <1>7, <1>8, OtherStepsStay
<1> QED
  BY <1>3, <1>4, <1>5, <1>6, <1>8

(* Failures back off exponentially up to the interval, however long they   *)
(* last and whatever their errors: the time between the runs covers four   *)
(* fifths of the delays of retryDelay's doubling.                          *)
THEOREM FailuresPause ==
  ASSUME JitterFits
  PROVE  Spec => []FailuresBackOff
<1>1. Init => PausesAddUp
  BY BackoffTimeIs DEF Init, PausesAddUp, Larger, Never
<1>2. IInv /\ PausesAddUp /\ [Next]_vars => PausesAddUp'
  BY PausesStep
<1>3. IInv /\ PausesAddUp => FailuresBackOff
  BY DEF PausesAddUp, FailuresBackOff
<1> QED
  BY <1>1, <1>2, <1>3, IInvHolds, PTL DEF Spec

-----------------------------------------------------------------------------
(* Retry implements the schedule. *)

LEMMA ScheduleIdles ==
  ASSUME UNCHANGED <<now, next>>, place = "wait" <=> place' = "wait"
  PROVE  UNCHANGED Schedule!scheduleVars
BY DEF Schedule!scheduleVars

LEMMA ScheduleStep ==
  ASSUME JitterFits, IInv, [Next]_vars
  PROVE  [Schedule!ScheduleNext]_(Schedule!scheduleVars)
<1> DEFINE due == [m \in {"module"} |-> next]
           busy == IF place = "wait" THEN {} ELSE {"module"}
<1>1. CASE Tick
  <2>1. now' = now + 1 /\ UNCHANGED <<place, next>>
    BY <1>1 DEF Tick
  <2>2. Schedule!Pass
    BY <2>1 DEF Schedule!Pass
  <2> QED
    BY <2>2 DEF Schedule!ScheduleNext
<1>2. CASE BeginRun
  <2>1. place = "wait" /\ now >= next /\ place' = "send" /\ next' = 0 /\ now' = now
    BY <1>2 DEF BeginRun, Never
  <2>2. "module" \notin busy /\ now >= due["module"] /\ busy' = busy \cup {"module"}
    BY <2>1
  <2>3. due' = [due EXCEPT !["module"] = 0]
    BY <2>1
  <2>4. Schedule!Poll("module")
    BY <2>1, <2>2, <2>3 DEF Schedule!Poll
  <2> QED
    BY <2>4 DEF Schedule!ScheduleNext
<1>3. CASE RunSucceeds
  <2>1. /\ place = "end" /\ place' = "wait" /\ now' = now
        /\ next' = now + RefreshInterval
    BY <1>3 DEF RunSucceeds, EndRun
  <2>2. "module" \in busy /\ busy' = busy \ {"module"}
    BY <2>1
  <2>3. due' = [due EXCEPT !["module"] = now + RefreshInterval]
    BY <2>1
  <2>4. Schedule!Answer("module")
    BY <2>1, <2>2, <2>3 DEF Schedule!Answer
  <2> QED
    BY <2>4 DEF Schedule!ScheduleNext
<1>4. CASE RunFails
  <2>1. PICK d \in Delays : next' = now + Larger(d, after)
    BY <1>4 DEF RunFails, EndRun
  <2>2. place = "end" /\ place' = "wait" /\ now' = now
    BY <1>4 DEF RunFails, EndRun
  <2>3. d \in 1..RefreshInterval /\ after \in 0..MaxDuration
    BY DelayBounds DEF IInv, TypeOK
  <2>4. "module" \in busy /\ busy' = busy \ {"module"}
    BY <2>2
  <2>5. next' = now + IF after > d THEN after ELSE d
    <3>1. RefreshInterval \in Int /\ MaxDuration \in Int
      BY ConstantsAssumption DEF ConstantsAssumption
    <3> QED
      BY <2>1, <2>3, <3>1 DEF Larger
  <2>6. due' = [due EXCEPT !["module"] = now + IF after > d THEN after ELSE d]
    BY <2>5
  <2>7. Schedule!Answer("module")
    <3> HIDE DEF due, busy
    <3>1. \E wait \in 1..RefreshInterval, demand \in 0..MaxDuration :
            due' = [due EXCEPT !["module"] = now + IF demand > wait THEN demand ELSE wait]
      BY <2>3, <2>6
    <3> QED
      BY <2>2, <2>4, <3>1 DEF Schedule!Answer, due, busy
  <2> QED
    BY <2>7 DEF Schedule!ScheduleNext
<1>5. CASE ~Tick /\ ~BeginRun /\ ~RunSucceeds /\ ~RunFails
  <2>1. UNCHANGED <<now, next>> /\ (place = "wait" <=> place' = "wait")
    BY <1>5, OtherStepsStay
  <2> QED
    BY <2>1, ScheduleIdles
<1> QED
  BY <1>1, <1>2, <1>3, <1>4, <1>5

(* Whatever the errors, the headers and the jitter, a module is polled     *)
(* only when the schedule allows it, and planned again as it says.         *)
THEOREM RetryImplementsSchedule ==
  ASSUME JitterFits
  PROVE  Spec => ImplementsSchedule
<1>1. Init => Schedule!ScheduleInit
  BY DEF Init, Schedule!ScheduleInit, Never
<1>2. IInv /\ [Next]_vars => [Schedule!ScheduleNext]_(Schedule!scheduleVars)
  BY ScheduleStep
<1> QED
  BY <1>1, <1>2, IInvHolds, PTL DEF Spec, ImplementsSchedule, Schedule!Spec

=============================================================================
