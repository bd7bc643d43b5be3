------------------------------- MODULE Client -------------------------------
(***************************************************************************)
(* The shared session of internal/commvault/client.go: concurrent Get*     *)
(* calls, one token, the login lock, the request slots, the single         *)
(* reauthentication on 401 and the single retry of a transient failure.    *)
(*                                                                         *)
(* The server is external.  It issues a fresh token for each login it      *)
(* accepts, may revoke a token at any time, and answers 401 only to a      *)
(* request whose token is not valid.  Error bodies, headers and payloads   *)
(* are left out; an error is "transient" or "permanent" as IsTransient     *)
(* sees it.                                                                *)
(***************************************************************************)
EXTENDS Integers, FiniteSets

CONSTANTS
  Requests,    \* goroutines, each making one Get* call
  Slots,       \* maxConcurrentRequests
  Pages,       \* bound: pages a call reads at most
  MaxTokens,   \* bound: tokens the server issues at most
  StartToken,  \* cfg.AuthToken: NoToken, or token 1
  HasCreds     \* a username and a password are configured

NoToken == 0

ASSUME RequestsAssumption == IsFiniteSet(Requests)
ASSUME LimitsAssumption ==
  /\ Slots \in Nat \ {0} /\ Pages \in Nat \ {0} /\ MaxTokens \in Nat \ {0}
  /\ StartToken \in {NoToken, 1}
  /\ HasCreds \in BOOLEAN

VARIABLES
  token,      \* c.token
  loginMu,    \* the holder of c.loginMu while it logs in: {} or {g}
  free,       \* request slots not taken
  pc,         \* where each call stands
  used,       \* usedToken of the call's current doOnce
  auths,      \* doAuthenticated's attempt
  tries,      \* do's attempt
  page,       \* the page a call is reading
  reply,      \* the answer to the call's outstanding request
  lostLogin,  \* calls of which a Login POST failed with a transient error
  issued,     \* server: number of tokens issued, also the latest one
  valid       \* server: tokens it accepts

callVars == <<used, auths, tries, page>>
serverVars == <<issued, valid>>
vars == <<token, loginMu, free, pc, callVars, reply, lostLogin, serverVars>>

(* Places in which a call holds a request slot. *)
InSlot == {"posting", "posted", "sending", "replied"}

(* A call is over: it returned its data, an error, or the server's 401.    *)
Over == {"ok", "failed", "unauthorized"}

Goto(g, label) == pc' = [pc EXCEPT ![g] = label]

-----------------------------------------------------------------------------
Init ==
  /\ token = StartToken
  /\ loginMu = {}
  /\ free = Slots
  /\ pc = [g \in Requests |-> "ensure"]
  /\ used = [g \in Requests |-> NoToken]
  /\ auths = [g \in Requests |-> 0]
  /\ tries = [g \in Requests |-> 0]
  /\ page = [g \in Requests |-> 1]
  /\ reply = [g \in Requests |-> "none"]
  /\ lostLogin = {}
  /\ issued = StartToken
  /\ valid \in SUBSET (1..StartToken)

(* The server revokes a token: expiry, restart, logout elsewhere. *)
Revoke(t) ==
  /\ valid' = valid \ {t}
  /\ UNCHANGED <<token, loginMu, free, pc, callVars, reply, lostLogin, issued>>

(* mutant: the login lock is not taken *)
EnsureLoginUnlocked(g) ==
  /\ pc[g] = "ensure"
  /\ IF token # NoToken THEN Goto(g, "read") /\ UNCHANGED loginMu
     ELSE IF HasCreds THEN Goto(g, "postWait") /\ loginMu' = {g}
     ELSE Goto(g, "failed") /\ UNCHANGED loginMu
  /\ UNCHANGED <<token, free, callVars, reply, lostLogin, serverVars>>

(* EnsureLogin: under loginMu, look at the token again before logging in.  *)
(* auths is 0 on entry to Get* and 1 after a 401.                          *)
EnsureLogin(g) ==
  /\ pc[g] = "ensure"
  /\ loginMu = {}
  /\ IF token # NoToken THEN Goto(g, "read") /\ UNCHANGED loginMu
     ELSE IF HasCreds THEN Goto(g, "postWait") /\ loginMu' = {g}
     ELSE Goto(g, "failed") /\ UNCHANGED loginMu
  /\ UNCHANGED <<token, free, callVars, reply, lostLogin, serverVars>>

(* doOnce reads the token, then waits for a slot. *)
ReadToken(g) ==
  /\ pc[g] = "read"
  /\ used' = [used EXCEPT ![g] = token]
  /\ Goto(g, "acquire")
  /\ UNCHANGED <<token, loginMu, free, auths, tries, page, reply, lostLogin,
                 serverVars>>

AcquireSlot(g) ==
  /\ free > 0
  /\ free' = free - 1
  /\ \/ pc[g] = "acquire" /\ Goto(g, "sending")
     \/ pc[g] = "postWait" /\ Goto(g, "posting")
  /\ UNCHANGED <<token, loginMu, callVars, reply, lostLogin, serverVars>>

(* External: the server handles a request, or the transport fails it.      *)
Answer(g) ==
  /\ pc[g] = "sending"
  /\ \E r \in {"transient", "permanent",
               IF used[g] \in valid THEN "data" ELSE "401"} :
       reply' = [reply EXCEPT ![g] = r]
  /\ Goto(g, "replied")
  /\ UNCHANGED <<token, loginMu, free, callVars, lostLogin, serverVars>>

(* External: the server handles a Login POST. *)
AnswerLogin(g) ==
  /\ pc[g] = "posting"
  /\ \/ /\ issued < MaxTokens
        /\ issued' = issued + 1
        /\ valid' = valid \cup {issued + 1}
        /\ reply' = [reply EXCEPT ![g] = "data"]
     \/ /\ \E r \in {"transient", "permanent"} : reply' = [reply EXCEPT ![g] = r]
        /\ UNCHANGED serverVars
  /\ Goto(g, "posted")
  /\ UNCHANGED <<token, loginMu, free, callVars, lostLogin>>

(* What do() makes of an error: one more try after a transient one, unless *)
(* Retry-After or the deadline rule it out.                                *)
AfterErrorAlways(g, kind) ==   \* mutant: transient errors are retried for ever
  {"failed"} \cup IF kind = "transient" THEN {"backoff"} ELSE {}
AfterError(g, kind) ==
  {"failed"} \cup IF kind = "transient" /\ tries[g] = 0 THEN {"backoff"} ELSE {}

(* doOnce returns: the answer is consumed and the slot released. *)
ReturnKeepingSlot(g) ==   \* mutant: the slot is not released
  reply' = [reply EXCEPT ![g] = "none"] /\ UNCHANGED free
Return(g) ==
  /\ reply' = [reply EXCEPT ![g] = "none"]
  /\ free' = free + 1

(* The next page starts with fresh attempt counters; the last one ends it. *)
GetSucceeds(g) ==
  /\ pc[g] = "replied" /\ reply[g] = "data"
  /\ Return(g)
  /\ \/ /\ page[g] < Pages
        /\ page' = [page EXCEPT ![g] = @ + 1]
        /\ auths' = [auths EXCEPT ![g] = 0]
        /\ tries' = [tries EXCEPT ![g] = 0]
        /\ Goto(g, "read")
     \/ Goto(g, "ok") /\ UNCHANGED <<page, auths, tries>>
  /\ UNCHANGED <<token, loginMu, used, lostLogin, serverVars>>

GetFails(g) ==
  /\ pc[g] = "replied" /\ reply[g] \in {"transient", "permanent"}
  /\ Return(g)
  /\ \E label \in AfterError(g, reply[g]) : Goto(g, label)
  /\ UNCHANGED <<token, loginMu, callVars, lostLogin, serverVars>>

(* Only the first 401 of a doAuthenticated is worth a new login.           *)
MayLogInAgain(g) == auths[g] = 0 /\ HasCreds

(* The rejected token is dropped if it is still the current one.           *)
TokenDropped(g) == NoToken   \* mutant: whichever token is current goes
TokenKept(g) == token        \* mutant: the rejected token stays
TokenAfter401(g) == IF token = used[g] THEN NoToken ELSE token

(* doAuthenticated on 401: drop the token and ensure a login, or give up.  *)
GetRejected(g) ==
  /\ pc[g] = "replied" /\ reply[g] = "401"
  /\ Return(g)
  /\ IF MayLogInAgain(g)
     THEN /\ token' = TokenAfter401(g)
          /\ auths' = [auths EXCEPT ![g] = 1]
          /\ Goto(g, "ensure")
     ELSE Goto(g, "unauthorized") /\ UNCHANGED <<token, auths>>
  /\ UNCHANGED <<loginMu, used, tries, page, lostLogin, serverVars>>

(* login stores the token and EnsureLogin returns. *)
LoginSucceeds(g) ==
  /\ pc[g] = "posted" /\ reply[g] = "data"
  /\ Return(g)
  /\ token' = issued
  /\ loginMu' = {}
  /\ Goto(g, "read")
  /\ UNCHANGED <<callVars, lostLogin, serverVars>>

(* A failed login fails Get* on entry; after a 401 it is the error of      *)
(* doAuthenticated, which do() may retry.                                  *)
LoginFails(g) ==
  /\ pc[g] = "posted" /\ reply[g] \in {"transient", "permanent"}
  /\ Return(g)
  /\ loginMu' = {}
  /\ lostLogin' = IF reply[g] = "transient" THEN lostLogin \cup {g} ELSE lostLogin
  /\ IF auths[g] = 0 THEN Goto(g, "failed")
     ELSE \E label \in AfterError(g, reply[g]) : Goto(g, label)
  /\ UNCHANGED <<token, callVars, serverVars>>

(* The wait before do's second attempt is over. *)
Retry(g) ==
  /\ pc[g] = "backoff"
  /\ tries' = [tries EXCEPT ![g] = 1]
  /\ auths' = [auths EXCEPT ![g] = 0]
  /\ Goto(g, "read")
  /\ UNCHANGED <<token, loginMu, free, used, page, reply, lostLogin, serverVars>>

(* mutant: a cancelled call returns a slot it may not have *)
CancelledFreeing(g) ==
  /\ pc[g] \notin Over \cup {"ensure"}
  /\ free' = free + 1
  /\ loginMu' = loginMu \ {g}
  /\ reply' = [reply EXCEPT ![g] = "none"]
  /\ Goto(g, "failed")
  /\ UNCHANGED <<token, callVars, lostLogin, serverVars>>

(* The call's context ends.  Every wait but the one for loginMu notices.   *)
Cancelled(g) ==
  /\ pc[g] \notin Over \cup {"ensure"}
  /\ free' = IF pc[g] \in InSlot THEN free + 1 ELSE free
  /\ loginMu' = loginMu \ {g}
  /\ reply' = [reply EXCEPT ![g] = "none"]
  /\ Goto(g, "failed")
  /\ UNCHANGED <<token, callVars, lostLogin, serverVars>>

Step(g) ==
  \/ EnsureLogin(g) \/ ReadToken(g) \/ AcquireSlot(g)
  \/ Answer(g) \/ AnswerLogin(g)
  \/ GetSucceeds(g) \/ GetFails(g) \/ GetRejected(g)
  \/ LoginSucceeds(g) \/ LoginFails(g) \/ Retry(g)

(* Every call is over: the only state in which nothing more happens.       *)
Finished == (\A g \in Requests : pc[g] \in Over) /\ UNCHANGED vars

Next ==
  \/ \E g \in Requests : Step(g) \/ Cancelled(g)
  \/ \E t \in valid : Revoke(t)
  \/ Finished

Spec == Init /\ [][Next]_vars

(* Goroutines run, and requests end because the HTTP client has a timeout. *)
(* Nothing makes the server revoke a token or a call's context end.        *)
FairSpec == Spec /\ \A g \in Requests : WF_vars(Step(g))

-----------------------------------------------------------------------------
(* Properties *)

Places ==
  {"ensure", "postWait", "read", "acquire", "backoff"} \cup InSlot \cup Over

TypeOK ==
  /\ token \in 0..MaxTokens
  /\ loginMu \subseteq Requests
  /\ free \in 0..Slots
  /\ pc \in [Requests -> Places]
  /\ used \in [Requests -> 0..MaxTokens]
  /\ auths \in [Requests -> {0, 1}]
  /\ tries \in [Requests -> {0, 1}]
  /\ page \in [Requests -> 1..Pages]
  /\ reply \in [Requests -> {"none", "data", "401", "transient", "permanent"}]
  /\ lostLogin \subseteq Requests
  /\ issued \in 0..MaxTokens
  /\ valid \subseteq 1..issued

(* On every path, cancellation included, a slot that was taken is given    *)
(* back exactly once, and no more than Slots requests are in flight.       *)
SlotsAccounted == free = Slots - Cardinality({g \in Requests : pc[g] \in InSlot})

(* Calls share a login: one at a time logs in, and only while the client   *)
(* has no token, so no token is overwritten and no login is redundant.     *)
LoginsShared ==
  \A g \in Requests :
    pc[g] \in {"postWait", "posting", "posted"} => loginMu = {g} /\ token = NoToken

(* The client drops a token only after the server has revoked it: a late   *)
(* 401 for an older token leaves the newer one alone.                      *)
ValidTokenKept == [][token # NoToken /\ token' # token => token \notin valid]_vars

(* With credentials, one expired or revoked token never fails a call: a    *)
(* call ends in 401 only after the server has revoked a second one.        *)
OneExpirySurvived ==
  HasCreds /\ Cardinality((1..issued) \ valid) <= 1 =>
    \A g \in Requests : pc[g] # "unauthorized"

(* Within a call, a Login POST that failed transiently is not sent again   *)
(* (client.go: "login POSTs are never replayed").                          *)
LoginsNotReplayed == \A g \in lostLogin : pc[g] # "posting"

(* Every call returns: slots, the login lock and the two retry loops never *)
(* hold one up for ever, whatever the server answers.                      *)
CallsReturn == \A g \in Requests : <>(pc[g] \in Over)

=============================================================================
