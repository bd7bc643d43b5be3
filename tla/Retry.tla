------------------------------- MODULE Retry -------------------------------
(***************************************************************************)
(* What a failed request does, in time: the login after a 401              *)
(* (doAuthenticated) and the retry within the client (do), the             *)
(* classification of errors (IsTransient, RetryAfter), and the next        *)
(* attempt that runModule plans.  One module's worker runs its datasets    *)
(* one after the other; nothing else runs the module, as in main.  Other   *)
(* modules share the token: any dataset may find that it must log in.      *)
(*                                                                         *)
(* Durations have the width of the machine: -MaxDuration-1..MaxDuration.   *)
(* Times do not (time.Time).  The code may be slow: time passes anywhere.  *)
(***************************************************************************)
EXTENDS Integers

CONSTANTS
  Datasets,         \* how many subcollectors the module runs, in order
  RefreshInterval,  \* cfg.RefreshInterval
  RefreshTimeout,   \* cfg.RefreshTimeout
  RetryBase,        \* retryBase
  Timeout,          \* httpClient.Timeout
  ClientDelay,      \* the client's own retry delay, about 500ms
  Second,           \* time.Second
  MaxDuration,      \* the largest time.Duration
  Headers,          \* Retry-After headers a server may send
  Credentials,      \* whether the client has a username and a password
  MaxTime           \* bound: the clock stops here

HeaderKinds == {"none", "seconds", "date"}

ASSUME ConstantsAssumption ==
  /\ Datasets \in Nat \ {0} /\ MaxTime \in Nat
  /\ RefreshInterval \in 1..MaxDuration /\ RefreshTimeout \in 1..MaxDuration
  /\ Timeout \in 1..MaxDuration /\ ClientDelay \in 1..MaxDuration
  /\ RetryBase \in 1..MaxDuration /\ Second \in 1..MaxDuration
  /\ MaxDuration \in Nat \ {0}
  /\ Headers \subseteq [kind : HeaderKinds, value : Int]
  /\ Credentials \in BOOLEAN

Never == 0   \* time.Time{}: the clock starts at 1

VARIABLES
  now,
  place,        \* where the worker stands
  next,         \* moduleState.NextAttempt
  consecutive,  \* moduleState.ConsecutiveErrors
  deadline,     \* of the run's context
  item,         \* the dataset being fetched
  attempt,      \* attempts made for it, in do
  reauth,       \* the request is the one doAuthenticated sends after a login
  refused,      \* history: until when the 401 before it asked for peace
  at,           \* when its request was sent, or when the retry is due
  failed,       \* the joined error is not nil,
  permanent,    \*   has a permanent error in it,
  after,        \*   and this is its longest Retry-After
  notBefore,    \* history: until when the server asked not to be asked
  hopeless,     \* history: the run met an error that cannot pass by itself
  quiet,        \* history: the end of the interval after such a run
  paused        \* history: time between the runs since the last success

runVars == <<deadline, item, attempt, reauth, refused, at>>
errVars == <<failed, permanent, after>>
historyVars == <<notBefore, hopeless, quiet, paused>>
vars == <<now, place, next, consecutive, runVars, errVars, historyVars>>

-----------------------------------------------------------------------------
(* Durations *)

Larger(a, b) == IF a >= b THEN a ELSE b
Smaller(a, b) == IF a <= b THEN a ELSE b

Wrap(d) ==
  ((d + MaxDuration + 1) % (2 * (MaxDuration + 1))) - (MaxDuration + 1)

(* mutant: doubled without looking *)
DoubledBlindly(d) == Wrap(2 * d)

(* One turn of retryDelay's loop, never past the interval. *)
Doubled(d) ==
  IF d >= RefreshInterval \div 2 THEN RefreshInterval ELSE Wrap(2 * d)

Backoff[n \in Nat] ==
  IF n <= 1 THEN RetryBase
  ELSE IF Backoff[n - 1] < RefreshInterval THEN Doubled(Backoff[n - 1])
  ELSE Backoff[n - 1]

(* A delay times 0.8 to 1.2. *)
Jittered(d) ==
  { Wrap(j) : j \in { k \in -2 * MaxDuration..2 * MaxDuration :
                        (10 * k - 8 * d) * (10 * k - 12 * d) <= 0 } }

RetryDelays(n) ==
  { Smaller(d, RefreshInterval) :
      d \in Jittered(Smaller(Backoff[n], RefreshInterval)) }

(* parseRetryAfter: the header of an answer that arrives now. *)
ParseRetryAfter(h) ==
  CASE h.kind = "seconds" ->
         IF h.value > 0 /\ h.value <= MaxDuration \div Second
         THEN Wrap(h.value * Second) ELSE 0
    [] h.kind = "date" -> Larger(Smaller(h.value - now, MaxDuration), 0)
    [] OTHER -> 0

-----------------------------------------------------------------------------
(* What an error may ask for: nothing, or what the header of its answer says. *)
RetryAfters == {0} \cup {ParseRetryAfter(h) : h \in Headers}

(* Errors, by their cause: a status 429, 500, 502, 503 or 504, any other   *)
(* status from 400; a timeout, of the client, the run or the network; a    *)
(* connection reset, refused or closed; a name that does not resolve for   *)
(* now (net.DNSError wraps no error, and IsTransient(nil) is false);       *)
(* anything else, a body that does not decode above all.                   *)

StatusCauses == {"busy", "status"}
Causes == StatusCauses \cup {"timeout", "reset", "name", "other"}

(* The reference: errors that trying again soon cannot help (README: "such *)
(* as HTTP 403 or invalid response formats").                              *)
HopelessCauses == {"status", "other"}

IsTransient(cause) == cause \in {"busy", "timeout", "reset"}

(* mutant: a joined error is permanent only if all of its errors are *)
OneIsEnough(cause) == (failed => permanent) /\ ~IsTransient(cause)

(* A joined error is permanent if any of its errors is. *)
JoinPermanent(cause) == permanent \/ ~IsTransient(cause)

(* mutant: the last error's Retry-After *)
JoinAfterLast(ra) == ra

(* RetryAfter of a joined error: the longest. *)
JoinAfter(ra) == Larger(after, ra)

(* When the request on its way times out. *)
Limit == Smaller(deadline, at + Timeout)

(* The reference: until when the server wants to be left alone. *)
AskedUntil(h) ==
  IF h.kind = "date" THEN Smaller(h.value, now + MaxDuration)
  ELSE IF h.kind = "seconds" /\ h.value > 0 /\ h.value * Second <= MaxDuration
  THEN now + h.value * Second
  ELSE now

-----------------------------------------------------------------------------
Init ==
  /\ now = 1
  /\ place = "wait" /\ next = Never /\ consecutive = 0
  /\ deadline = Never /\ item = 1 /\ attempt = 0 /\ at = Never
  /\ reauth = FALSE /\ refused = Never
  /\ failed = FALSE /\ permanent = FALSE /\ after = 0
  /\ notBefore = [d \in 1..Datasets |-> Never] /\ hopeless = FALSE
  /\ quiet = Never /\ paused = 0

Tick ==
  /\ now < MaxTime
  /\ now' = now + 1
  /\ paused' = IF place = "wait" /\ consecutive > 0 THEN paused + 1 ELSE paused
  /\ UNCHANGED <<place, next, consecutive, runVars, errVars, notBefore, hopeless,
                 quiet>>

(* The worker's timer, refreshModules' deadline, runModule up to fn(ctx).  *)
BeginRun ==
  /\ place = "wait"
  /\ now >= next
  /\ place' = "send"
  /\ next' = Never
  /\ deadline' = now + RefreshTimeout
  /\ UNCHANGED <<now, consecutive, item, attempt, reauth, refused, at, errVars,
                 historyVars>>

(* The dataset is done: on to the next one, or to the end of the run. *)
NextDataset ==
  /\ IF item < Datasets THEN place' = "send" /\ item' = item + 1
                        ELSE place' = "end" /\ UNCHANGED item
  /\ attempt' = 0 /\ at' = Never
  /\ reauth' = FALSE /\ refused' = Never

(* The error of a dataset joins those of its siblings. *)
DatasetFails(cause, ra) ==
  /\ failed' = TRUE
  /\ permanent' = JoinPermanent(cause)
  /\ after' = JoinAfter(ra)
  /\ hopeless' = (hopeless \/ cause \in HopelessCauses)
  /\ NextDataset

(* do sends nothing on a context that is done. *)
Send ==
  /\ place = "send"
  /\ now < deadline
  /\ place' = "sent"
  /\ at' = now
  /\ attempt' = attempt + 1
  /\ UNCHANGED <<now, next, consecutive, deadline, item, reauth, refused,
                 errVars, historyVars>>

ContextDone ==
  /\ place \in {"send", "sleep"}
  /\ now >= deadline
  /\ DatasetFails("timeout", 0)
  /\ UNCHANGED <<now, next, consecutive, deadline, notBefore, quiet, paused>>

(* mutant: the deadline is left to the context of the wait *)
MayRetryLate(cause, ra) ==
  /\ IsTransient(cause)
  /\ attempt < 2
  /\ ra <= Timeout

(* do after an error: one more attempt if it is transient, if the server   *)
(* asks for no more than the client's timeout and the delay ends in time.  *)
MayRetry(cause, ra) ==
  /\ IsTransient(cause)
  /\ attempt < 2
  /\ ra <= Timeout
  /\ deadline - now > Larger(ClientDelay, ra)

RetryLater(ra) ==
  /\ place' = "sleep"
  /\ at' = now + Larger(ClientDelay, ra)
  /\ reauth' = FALSE /\ refused' = Never
  /\ UNCHANGED <<item, attempt, errVars, hopeless>>

AfterError(cause, ra) ==
  IF MayRetry(cause, ra) THEN RetryLater(ra) ELSE DatasetFails(cause, ra)

Wakes ==
  /\ place = "sleep"
  /\ now >= at
  /\ place' = "send"
  /\ UNCHANGED <<now, next, consecutive, runVars, errVars, historyVars>>

Succeeds ==
  /\ place = "sent"
  /\ now <= Limit
  /\ NextDataset
  /\ notBefore' = [notBefore EXCEPT ![item] = Never]
  /\ UNCHANGED <<now, next, consecutive, deadline, errVars, hopeless, quiet,
                 paused>>

(* The first 401 of an attempt, if there are credentials: the client logs  *)
(* in and asks again at once, whatever Retry-After came with it.           *)
Unauthorized(h) ==
  /\ place = "sent"
  /\ now <= Limit
  /\ Credentials /\ ~reauth
  /\ place' = "login"
  /\ notBefore' = [notBefore EXCEPT ![item] = Never]
  /\ refused' = AskedUntil(h)
  /\ at' = Never
  /\ UNCHANGED <<now, next, consecutive, deadline, item, attempt, reauth,
                 errVars, hopeless, quiet, paused>>

LoggedIn ==
  /\ place = "login"
  /\ now < deadline
  /\ place' = "sent"
  /\ reauth' = TRUE
  /\ at' = now
  /\ UNCHANGED <<now, next, consecutive, deadline, item, attempt, refused,
                 errVars, historyVars>>

(* The error of a login stands for the dataset's: before its first request *)
(* it is final, after a 401 do may try again.                              *)
LoginFails(cause, ra) ==
  /\ Credentials
  /\ cause = "timeout" \/ now <= deadline
  /\ cause \notin StatusCauses => ra = 0
  /\ \/ place = "send" /\ attempt = 0 /\ DatasetFails(cause, ra)
     \/ place = "login" /\ AfterError(cause, ra)
  /\ UNCHANGED <<now, next, consecutive, deadline, notBefore, quiet, paused>>

(* An answer with another error status, which a 401 is the second time or  *)
(* without credentials; its Retry-After counts.                            *)
Rejected(cause, h) ==
  /\ place = "sent"
  /\ now <= Limit
  /\ cause \in StatusCauses
  /\ AfterError(cause, ParseRetryAfter(h))
  /\ notBefore' = [notBefore EXCEPT ![item] = AskedUntil(h)]
  /\ UNCHANGED <<now, next, consecutive, deadline, quiet, paused>>

(* No answer, or one that cannot be read. *)
Breaks(cause) ==
  /\ place = "sent"
  /\ cause = "timeout" \/ now <= Limit
  /\ cause \notin StatusCauses
  /\ AfterError(cause, 0)
  /\ UNCHANGED <<now, next, consecutive, deadline, notBefore, quiet, paused>>

(* runModule returns: nothing of the run is left. *)
EndRun ==
  /\ place' = "wait"
  /\ deadline' = Never /\ item' = 1 /\ attempt' = 0 /\ at' = Never
  /\ reauth' = FALSE /\ refused' = Never
  /\ failed' = FALSE /\ permanent' = FALSE /\ after' = 0
  /\ hopeless' = FALSE

(* runModule after fn(ctx) returned nil. *)
RunSucceeds ==
  /\ place = "end" /\ ~failed
  /\ EndRun
  /\ next' = now + RefreshInterval
  /\ consecutive' = 0
  /\ paused' = 0
  /\ UNCHANGED <<now, notBefore, quiet>>

(* mutant: the failure at hand is not counted yet *)
DelaysOneBehind ==
  IF permanent THEN {RefreshInterval} ELSE RetryDelays(consecutive)

Delays ==
  IF permanent THEN {RefreshInterval} ELSE RetryDelays(consecutive + 1)

(* runModule after fn(ctx) returned an error. *)
RunFails ==
  /\ place = "end" /\ failed
  /\ EndRun
  /\ consecutive' = consecutive + 1
  /\ \E d \in Delays : next' = now + Larger(d, after)
  /\ quiet' = IF hopeless THEN now + RefreshInterval ELSE quiet
  /\ UNCHANGED <<now, notBefore, paused>>

(* Not a step of the program: the worker waits past the end of time.       *)
Terminated ==
  /\ now = MaxTime
  /\ \/ place = "wait" /\ next > now
     \/ place = "sleep" /\ at > now
  /\ UNCHANGED vars

Next ==
  \/ Tick \/ BeginRun \/ Send \/ ContextDone \/ Wakes \/ Succeeds \/ LoggedIn
  \/ \E h \in Headers : Unauthorized(h)
  \/ \E cause \in Causes :
       \/ Breaks(cause) \/ \E h \in Headers : Rejected(cause, h)
       \/ \E ra \in RetryAfters : LoginFails(cause, ra)
  \/ RunSucceeds \/ RunFails \/ Terminated

Spec == Init /\ [][Next]_vars

-----------------------------------------------------------------------------
(* Properties *)

(* Every variable keeps its shape: a Retry-After is a duration and never   *)
(* negative, a request is retried once at most, and none is sent or        *)
(* planned for after the run's deadline.                                   *)
TypeOK ==
  /\ now \in Nat \ {0}
  /\ place \in {"wait", "send", "sent", "login", "sleep", "end"}
  /\ next \in Nat /\ consecutive \in Nat
  /\ deadline \in Nat /\ at \in Nat
  /\ item \in 1..Datasets /\ attempt \in 0..2 /\ reauth \in BOOLEAN
  /\ failed \in BOOLEAN /\ permanent \in BOOLEAN /\ after \in 0..MaxDuration
  /\ notBefore \in [1..Datasets -> Int] /\ refused \in Int
  /\ hopeless \in BOOLEAN /\ quiet \in Nat /\ paused \in Nat
  /\ place \in {"sent", "sleep"} => at < deadline

(* No GET is sent before the time its server asked for with the last       *)
(* Retry-After, unless that came with a 401 that the client met with a     *)
(* login: not by the client's retry, not by the next run, whatever became  *)
(* of the siblings and of logins (do, RetryAfter, runModule).              *)
RetryAfterHeeded == place = "sent" => at >= notBefore[item]

(* What README says of GETs, "Retry-After is respected": the same of every *)
(* answer.  doAuthenticated does not look at the Retry-After of a 401.     *)
RetryAfterRespected == RetryAfterHeeded /\ (place = "sent" /\ reauth => at >= refused)

(* A run with a permanent error in it is not retried fast, however many    *)
(* transient errors came with it (IsTransient: "A permanent error in a     *)
(* group prevents fast whole-module retries").                             *)
PermanentNotHurried == place = "sent" => at >= quiet

(* Powers of two, as a function: the provers have no theory of ^. *)
PowerOfTwo[n \in Nat] == IF n = 0 THEN 1 ELSE 2 * PowerOfTwo[n - 1]

(* The time that must pass between the runs after n failures in a row, in  *)
(* tenths: delays double from RetryBase to the interval, a fifth is jitter.*)
BackoffTime[n \in Nat] ==
  IF n = 0 THEN 0
  ELSE BackoffTime[n - 1]
         + 8 * Smaller(RetryBase * PowerOfTwo[n - 1], RefreshInterval)

(* Failures back off exponentially up to the interval, whatever their mix  *)
(* of errors (retryDelay).                                                 *)
FailuresBackOff == place = "sent" => 10 * paused >= BackoffTime[consecutive]

(* Whatever the errors, the jitter and the width of durations do, a module *)
(* is planned as the schedule promises, which Exporter implements as well. *)
Schedule == INSTANCE PollSchedule
              WITH Modules <- {"module"}, Interval <- RefreshInterval,
                   Demands <- 0..MaxDuration,
                   busy <- IF place = "wait" THEN {} ELSE {"module"},
                   due <- [m \in {"module"} |-> next]

ImplementsSchedule == Schedule!Spec

=============================================================================
