---------------------------- MODULE ClientProofs ----------------------------
(***************************************************************************)
(* Proofs about Client, for every number of calls, slots and tokens.       *)
(***************************************************************************)
EXTENDS Client, FiniteSetTheorems, TLAPS

(* The calls that hold a slot. *)
InFlight == {g \in Requests : pc[g] \in InSlot}

(* An answer is outstanding only until it is consumed; a 401 is about a    *)
(* token that is not valid.                                                *)
RejectionsTrue ==
  \A g \in Requests :
    /\ reply[g] # "none" => pc[g] \in {"replied", "posted"}
    /\ reply[g] = "401" => used[g] \notin valid

(* The client only knows tokens the server has issued. *)
TokensIssued == token \in 0..issued /\ \A g \in Requests : used[g] \in 0..issued

IInv == TypeOK /\ SlotsAccounted /\ LoginsShared /\ RejectionsTrue /\ TokensIssued

LEMMA InFlightFinite ==
  IsFiniteSet(InFlight) /\ Cardinality(InFlight) \in Nat
<1>1. InFlight \subseteq Requests
  BY DEF InFlight
<1> QED
  BY <1>1, RequestsAssumption, FS_Subset, FS_CardinalityType

(* Taking a slot. *)
LEMMA SlotTaken ==
  ASSUME TypeOK, SlotsAccounted, NEW g \in Requests, AcquireSlot(g)
  PROVE  SlotsAccounted' /\ free' \in 0..Slots
<1>1. InFlight' = InFlight \cup {g} /\ g \notin InFlight
  BY DEF TypeOK, AcquireSlot, Goto, InFlight, InSlot
<1>2. Cardinality(InFlight') = Cardinality(InFlight) + 1
  BY <1>1, InFlightFinite, FS_AddElement
<1>3. free' \in 0..Slots
  BY LimitsAssumption DEF TypeOK, AcquireSlot
<1> QED
  BY <1>2, <1>3, InFlightFinite, LimitsAssumption
  DEF SlotsAccounted, InFlight, AcquireSlot, TypeOK

(* Giving a slot back: any step that takes a call out of its slot. *)
LEMMA SlotReturned ==
  ASSUME TypeOK, SlotsAccounted, NEW g \in Requests, NEW label,
         pc[g] \in InSlot, label \notin InSlot,
         free' = free + 1, Goto(g, label)
  PROVE  SlotsAccounted' /\ free' \in 0..Slots
<1>1. InFlight' = InFlight \ {g} /\ g \in InFlight
  BY DEF TypeOK, Goto, InFlight
<1>2. Cardinality(InFlight') = Cardinality(InFlight) - 1
  BY <1>1, InFlightFinite, FS_RemoveElement
<1>3. Cardinality(InFlight) # 0
  BY <1>1, InFlightFinite, FS_EmptySet
<1> QED
  BY <1>2, <1>3, InFlightFinite, LimitsAssumption
  DEF SlotsAccounted, InFlight, TypeOK

(* A step of a call that neither takes nor returns a slot. *)
LEMMA SlotsUntouched ==
  ASSUME TypeOK, SlotsAccounted, NEW g \in Requests, NEW label,
         pc[g] \in InSlot <=> label \in InSlot,
         free' = free, Goto(g, label)
  PROVE  SlotsAccounted'
<1>1. InFlight' = InFlight
  BY DEF TypeOK, Goto, InFlight
<1> QED
  BY <1>1 DEF SlotsAccounted, InFlight

-----------------------------------------------------------------------------
LEMMA InitIInv == Init => IInv
<1> SUFFICES ASSUME Init PROVE IInv
  OBVIOUS
<1> USE DEF Init
<1>1. TypeOK
  <2>1. pc \in [Requests -> Places]
    BY DEF Places
  <2>2. /\ token \in 0..MaxTokens /\ issued \in 0..MaxTokens /\ free \in 0..Slots
        /\ valid \subseteq 1..issued
    BY LimitsAssumption DEF NoToken
  <2>3. used \in [Requests -> 0..MaxTokens] /\ page \in [Requests -> 1..Pages]
    BY LimitsAssumption DEF NoToken
  <2>4. /\ auths \in [Requests -> {0, 1}] /\ tries \in [Requests -> {0, 1}]
        /\ reply \in [Requests -> {"none", "data", "401", "transient", "permanent"}]
    OBVIOUS
  <2>5. loginMu \subseteq Requests /\ lostLogin \subseteq Requests
    OBVIOUS
  <2> QED
    BY <2>1, <2>2, <2>3, <2>4, <2>5 DEF TypeOK
<1>2. SlotsAccounted
  <2>1. {g \in Requests : pc[g] \in InSlot} = {}
    BY DEF InSlot
  <2> QED
    BY <2>1, FS_EmptySet, LimitsAssumption DEF SlotsAccounted
<1>3. LoginsShared /\ RejectionsTrue
  BY DEF LoginsShared, RejectionsTrue
<1>4. TokensIssued
  BY LimitsAssumption DEF TokensIssued, NoToken
<1> QED
  BY <1>1, <1>2, <1>3, <1>4 DEF IInv

LEMMA SlotsStep == TypeOK /\ SlotsAccounted /\ [Next]_vars => SlotsAccounted' /\ free' \in 0..Slots
<1> SUFFICES ASSUME TypeOK, SlotsAccounted, [Next]_vars
             PROVE  SlotsAccounted' /\ free' \in 0..Slots
  OBVIOUS
<1>0. free \in 0..Slots
  BY DEF TypeOK
<1>1. ASSUME NEW g \in Requests, EnsureLogin(g) \/ ReadToken(g) \/ Retry(g)
      PROVE  SlotsAccounted' /\ free' \in 0..Slots
  <2>1. \E label \in {"read", "postWait", "failed", "acquire"} : Goto(g, label)
    BY <1>1 DEF EnsureLogin, ReadToken, Retry
  <2>2. pc[g] \notin InSlot /\ free' = free
    BY <1>1 DEF EnsureLogin, ReadToken, Retry, InSlot
  <2> QED
    BY <1>0, <2>1, <2>2, SlotsUntouched DEF InSlot
<1>2. ASSUME NEW g \in Requests, AcquireSlot(g)
      PROVE  SlotsAccounted' /\ free' \in 0..Slots
  BY <1>2, SlotTaken
<1>3. ASSUME NEW g \in Requests, Answer(g) \/ AnswerLogin(g)
      PROVE  SlotsAccounted' /\ free' \in 0..Slots
  <2>1. \E label \in {"replied", "posted"} : Goto(g, label)
    BY <1>3 DEF Answer, AnswerLogin
  <2>2. pc[g] \in InSlot /\ free' = free
    BY <1>3 DEF Answer, AnswerLogin, InSlot
  <2> QED
    BY <1>0, <2>1, <2>2, SlotsUntouched DEF InSlot
<1>4. ASSUME NEW g \in Requests,
             GetSucceeds(g) \/ GetFails(g) \/ GetRejected(g) \/ LoginSucceeds(g) \/ LoginFails(g)
      PROVE  SlotsAccounted' /\ free' \in 0..Slots
  <2>1. \E label \in {"read", "ok", "failed", "backoff", "ensure", "unauthorized"} :
          Goto(g, label)
    BY <1>4 DEF GetSucceeds, GetFails, GetRejected, LoginSucceeds, LoginFails, AfterError
  <2>2. pc[g] \in InSlot /\ free' = free + 1
    BY <1>4 DEF GetSucceeds, GetFails, GetRejected, LoginSucceeds, LoginFails, Return, InSlot
  <2> QED
    BY <2>1, <2>2, SlotReturned DEF InSlot
<1>5. ASSUME NEW g \in Requests, Cancelled(g)
      PROVE  SlotsAccounted' /\ free' \in 0..Slots
  BY <1>0, <1>5, SlotReturned, SlotsUntouched DEF Cancelled, InSlot
<1>6. CASE UNCHANGED <<free, pc>>
  BY <1>0, <1>6 DEF SlotsAccounted
<1> QED
  BY <1>1, <1>2, <1>3, <1>4, <1>5, <1>6 DEF Next, Step, Revoke, Finished, vars

LEMMA TypeStep == TypeOK /\ SlotsAccounted /\ [Next]_vars => TypeOK'
<1> SUFFICES ASSUME TypeOK, SlotsAccounted, [Next]_vars
             PROVE  TypeOK'
  OBVIOUS
<1>0. free' \in 0..Slots
  BY SlotsStep
<1> USE <1>0 DEF TypeOK, callVars, serverVars, Goto, Places, InSlot, Over
<1>1. ASSUME NEW g \in Requests, EnsureLogin(g) PROVE TypeOK'
  BY <1>1 DEF EnsureLogin
<1>2. ASSUME NEW g \in Requests, ReadToken(g) PROVE TypeOK'
  BY <1>2 DEF ReadToken
<1>3. ASSUME NEW g \in Requests, AcquireSlot(g) PROVE TypeOK'
  BY <1>3 DEF AcquireSlot
<1>4. ASSUME NEW g \in Requests, Answer(g) PROVE TypeOK'
  BY <1>4 DEF Answer
<1>5. ASSUME NEW g \in Requests, AnswerLogin(g) PROVE TypeOK'
  <2>1. issued' \in 0..MaxTokens /\ valid' \subseteq 1..issued'
    <3>1. CASE issued < MaxTokens /\ issued' = issued + 1 /\ valid' = valid \cup {issued + 1}
      <4>1. issued' \in 0..MaxTokens /\ issued + 1 \in 1..issued'
        BY <3>1, LimitsAssumption
      <4>2. 1..issued \subseteq 1..issued'
        BY <3>1, LimitsAssumption
      <4> QED
        BY <3>1, <4>1, <4>2
    <3>2. CASE UNCHANGED <<issued, valid>>
      BY <3>2
    <3> QED
      BY <1>5, <3>1, <3>2 DEF AnswerLogin
  <2>2. reply' \in [Requests -> {"none", "data", "401", "transient", "permanent"}]
    BY <1>5 DEF AnswerLogin
  <2>3. pc' \in [Requests -> Places]
    BY <1>5 DEF AnswerLogin
  <2> QED
    BY <1>5, <2>1, <2>2, <2>3 DEF AnswerLogin
<1>6. ASSUME NEW g \in Requests, GetSucceeds(g) PROVE TypeOK'
  BY <1>6, LimitsAssumption DEF GetSucceeds, Return
<1>7. ASSUME NEW g \in Requests, GetFails(g) PROVE TypeOK'
  BY <1>7 DEF GetFails, Return, AfterError
<1>8. ASSUME NEW g \in Requests, GetRejected(g) PROVE TypeOK'
  BY <1>8, LimitsAssumption DEF GetRejected, Return, TokenAfter401, NoToken
<1>9. ASSUME NEW g \in Requests, LoginSucceeds(g) PROVE TypeOK'
  BY <1>9 DEF LoginSucceeds, Return
<1>10. ASSUME NEW g \in Requests, LoginFails(g) PROVE TypeOK'
  BY <1>10 DEF LoginFails, Return, AfterError
<1>11. ASSUME NEW g \in Requests, Retry(g) PROVE TypeOK'
  BY <1>11 DEF Retry
<1>12. ASSUME NEW g \in Requests, Cancelled(g) PROVE TypeOK'
  BY <1>12 DEF Cancelled
<1>13. ASSUME NEW t, Revoke(t) PROVE TypeOK'
  BY <1>13 DEF Revoke
<1>14. CASE UNCHANGED vars
  BY <1>14 DEF vars
<1> QED
  BY <1>1, <1>2, <1>3, <1>4, <1>5, <1>6, <1>7, <1>8, <1>9, <1>10, <1>11, <1>12,
     <1>13, <1>14 DEF Next, Step, Finished

(* Each action, reduced to what it does to one call, the lock, the token   *)
(* and the slot accounting, keeps the login exclusive.                     *)
LEMMA LoginsStep == TypeOK /\ LoginsShared /\ [Next]_vars => LoginsShared'
<1> SUFFICES ASSUME TypeOK, LoginsShared, [Next]_vars
             PROVE  LoginsShared'
  OBVIOUS
<1> USE DEF TypeOK, LoginsShared, Goto, serverVars, callVars
<1>1. ASSUME NEW g \in Requests, EnsureLogin(g) PROVE LoginsShared'
  BY <1>1 DEF EnsureLogin
<1>2. ASSUME NEW g \in Requests, ReadToken(g) \/ Retry(g) \/ Answer(g) PROVE LoginsShared'
  BY <1>2 DEF ReadToken, Retry, Answer
<1>3. ASSUME NEW g \in Requests, AcquireSlot(g) PROVE LoginsShared'
  BY <1>3 DEF AcquireSlot
<1>4. ASSUME NEW g \in Requests, AnswerLogin(g) PROVE LoginsShared'
  BY <1>4 DEF AnswerLogin
<1>5. ASSUME NEW g \in Requests, GetSucceeds(g) \/ GetFails(g) PROVE LoginsShared'
  BY <1>5 DEF GetSucceeds, GetFails, AfterError
<1>6. ASSUME NEW g \in Requests, GetRejected(g) PROVE LoginsShared'
  BY <1>6 DEF GetRejected, TokenAfter401
<1>7. ASSUME NEW g \in Requests, LoginSucceeds(g) \/ LoginFails(g) PROVE LoginsShared'
  <2>1. \A h \in Requests : h # g => pc[h] \notin {"postWait", "posting", "posted"}
    BY <1>7 DEF LoginSucceeds, LoginFails
  <2>2. \A h \in Requests : pc'[h] \notin {"postWait", "posting", "posted"}
    BY <1>7, <2>1 DEF LoginSucceeds, LoginFails, AfterError
  <2> QED
    BY <2>2
<1>8. ASSUME NEW g \in Requests, Cancelled(g) PROVE LoginsShared'
  BY <1>8 DEF Cancelled
<1>9. CASE UNCHANGED <<pc, loginMu, token>>
  BY <1>9
<1> QED
  BY <1>1, <1>2, <1>3, <1>4, <1>5, <1>6, <1>7, <1>8, <1>9
  DEF Next, Step, Revoke, Finished, vars

LEMMA TokensStep == TypeOK /\ TokensIssued /\ [Next]_vars => TokensIssued'
<1> SUFFICES ASSUME TypeOK, TokensIssued, [Next]_vars
             PROVE  TokensIssued'
  OBVIOUS
<1> USE DEF TypeOK, TokensIssued, serverVars, callVars
<1>1. ASSUME NEW g \in Requests, ReadToken(g) PROVE TokensIssued'
  BY <1>1 DEF ReadToken
<1>2. ASSUME NEW g \in Requests, AnswerLogin(g) PROVE TokensIssued'
  BY <1>2 DEF AnswerLogin
<1>3. ASSUME NEW g \in Requests, GetRejected(g) PROVE TokensIssued'
  BY <1>3 DEF GetRejected, TokenAfter401, NoToken
<1>4. ASSUME NEW g \in Requests, LoginSucceeds(g) PROVE TokensIssued'
  BY <1>4 DEF LoginSucceeds
<1>5. CASE UNCHANGED <<token, used, issued>>
  BY <1>5
<1> QED
  BY <1>1, <1>2, <1>3, <1>4, <1>5
  DEF Next, Step, EnsureLogin, AcquireSlot, Answer, GetSucceeds, GetFails,
      LoginFails, Retry, Cancelled, Revoke, Finished, vars

LEMMA RejectionsStep == TypeOK /\ TokensIssued /\ RejectionsTrue /\ [Next]_vars => RejectionsTrue'
<1> SUFFICES ASSUME TypeOK, TokensIssued, RejectionsTrue, [Next]_vars
             PROVE  RejectionsTrue'
  OBVIOUS
<1> USE DEF TypeOK, RejectionsTrue, Goto, serverVars, callVars
<1>1. ASSUME NEW g \in Requests, EnsureLogin(g) \/ ReadToken(g) \/ Retry(g)
      PROVE  RejectionsTrue'
  BY <1>1 DEF EnsureLogin, ReadToken, Retry
<1>2. ASSUME NEW g \in Requests, AcquireSlot(g) PROVE RejectionsTrue'
  BY <1>2 DEF AcquireSlot
<1>3. ASSUME NEW g \in Requests, Answer(g) PROVE RejectionsTrue'
  BY <1>3 DEF Answer
<1>4. ASSUME NEW g \in Requests, AnswerLogin(g) PROVE RejectionsTrue'
  BY <1>4 DEF AnswerLogin, TokensIssued
<1>5. ASSUME NEW g \in Requests, GetSucceeds(g) \/ GetFails(g) PROVE RejectionsTrue'
  BY <1>5 DEF GetSucceeds, GetFails, Return, AfterError
<1>6. ASSUME NEW g \in Requests, GetRejected(g) PROVE RejectionsTrue'
  BY <1>6 DEF GetRejected, Return
<1>7. ASSUME NEW g \in Requests, LoginSucceeds(g) \/ LoginFails(g) PROVE RejectionsTrue'
  BY <1>7 DEF LoginSucceeds, LoginFails, Return, AfterError
<1>8. ASSUME NEW g \in Requests, Cancelled(g) PROVE RejectionsTrue'
  BY <1>8 DEF Cancelled
<1>9. ASSUME NEW t, Revoke(t) PROVE RejectionsTrue'
  BY <1>9 DEF Revoke
<1>10. CASE UNCHANGED vars
  BY <1>10 DEF vars
<1> QED
  BY <1>1, <1>2, <1>3, <1>4, <1>5, <1>6, <1>7, <1>8, <1>9, <1>10 DEF Next, Step, Finished

LEMMA IInvHolds == Spec => []IInv
<1>1. IInv /\ [Next]_vars => IInv'
  BY SlotsStep, TypeStep, LoginsStep, TokensStep, RejectionsStep DEF IInv
<1> QED
  BY <1>1, InitIInv, PTL DEF Spec

-----------------------------------------------------------------------------
(* Every reachable state of the session is well typed. *)
THEOREM TypeCorrect == Spec => []TypeOK
<1>1. IInv => TypeOK
  BY DEF IInv
<1> QED
  BY <1>1, IInvHolds, PTL

(* Slots are taken and given back exactly once, on every path of a call.   *)
THEOREM SlotsNeverLeak == Spec => []SlotsAccounted
<1>1. IInv => SlotsAccounted
  BY DEF IInv
<1> QED
  BY <1>1, IInvHolds, PTL

(* One call at a time logs in, and only while the client has no token.     *)
THEOREM LoginsAreShared == Spec => []LoginsShared
<1>1. IInv => LoginsShared
  BY DEF IInv
<1> QED
  BY <1>1, IInvHolds, PTL

(* The client gives up a token only after the server has revoked it.       *)
THEOREM TokensAreKept == Spec => ValidTokenKept
<1>1. ASSUME IInv, [Next]_vars, token # NoToken, token' # token
      PROVE  token \notin valid
  <2>1. CASE \E g \in Requests : GetRejected(g)
    BY <1>1, <2>1 DEF IInv, RejectionsTrue, GetRejected, TokenAfter401
  <2>2. CASE \E g \in Requests : LoginSucceeds(g)
    BY <1>1, <2>2 DEF IInv, LoginsShared, LoginSucceeds
  <2> QED
    BY <1>1, <2>1, <2>2
    DEF Next, Step, EnsureLogin, ReadToken, AcquireSlot, Answer, AnswerLogin,
        GetSucceeds, GetFails, LoginFails, Retry, Cancelled, Revoke, Finished, vars
<1>2. IInv /\ [Next]_vars => [token # NoToken /\ token' # token => token \notin valid]_vars
  BY <1>1
<1> QED
  BY <1>2, IInvHolds, PTL DEF Spec, ValidTokenKept

-----------------------------------------------------------------------------
(* One expired token fails no call.  A call that is answered 401 twice was *)
(* refused for two revoked tokens: the first makes every later token of    *)
(* the client a newer one, and these may be revoked, or dropped for being  *)
(* revoked, again.                                                         *)

Revoked == (1..issued) \ valid
Below(t) == \E r \in Revoked : r < t
Two == \E r, s \in Revoked : r < s

(* A new token is on its way from login to the client. *)
Pending == \E g \in Requests : pc[g] = "posted" /\ reply[g] = "data"

(* The client's token, or else the next one it will have, is not the       *)
(* oldest one that was revoked.                                            *)
Renewed ==
  IF token # NoToken THEN Below(token)
  ELSE IF Pending THEN Below(issued) ELSE Revoked # {}

Asking == {"acquire", "sending", "replied"}

(* Calls find no token, or one revoked, only after another was revoked.    *)
Excused(g) ==
  /\ pc[g] \in Asking \cup {"read", "backoff"} /\ token = NoToken => Renewed
  /\ pc[g] \in Asking /\ used[g] = NoToken => Renewed
  /\ auths[g] = 1 => Renewed
  /\ auths[g] = 1 /\ pc[g] \in Asking =>
       IF used[g] = NoToken THEN Two ELSE Below(used[g])
  /\ auths[g] = 1 /\ pc[g] = "read" /\ token = NoToken => Two
  /\ pc[g] = "unauthorized" => Two

(* The client's token is at least as new as any a call has used.           *)
Newest == \A g \in Requests : token = NoToken \/ used[g] <= token

Excuses ==
  /\ Pending => issued >= 1
  /\ Newest
  /\ HasCreds => \A g \in Requests : Excused(g)

LEMMA RevokedGrows ==
  ASSUME IInv, [Next]_vars
  PROVE  /\ Revoked \subseteq Revoked' /\ issued <= issued' /\ issued' \in Nat
         /\ Revoked \subseteq 1..issued /\ issued \in Nat
         /\ Two => Two'
         /\ \A t \in Nat : Below(t) => Below(t)'
<1>1. issued \in Nat /\ valid \subseteq 1..issued
  BY LimitsAssumption DEF IInv, TypeOK
<1>2. \/ issued' = issued + 1 /\ valid' = valid \cup {issued + 1}
      \/ issued' = issued /\ valid' \subseteq valid
  <2>1. CASE \E g \in Requests : AnswerLogin(g)
    BY <2>1 DEF AnswerLogin, serverVars
  <2>2. CASE \E t \in valid : Revoke(t)
    BY <2>2 DEF Revoke
  <2>3. CASE UNCHANGED serverVars
    BY <2>3 DEF serverVars
  <2> QED
    BY <2>1, <2>2, <2>3
    DEF Next, Step, EnsureLogin, ReadToken, AcquireSlot, Answer, GetSucceeds, GetFails,
        GetRejected, LoginSucceeds, LoginFails, Retry, Cancelled, Finished, vars, serverVars
<1>3. Revoked \subseteq Revoked' /\ issued <= issued' /\ issued' \in Nat
  <2>1. CASE issued' = issued + 1 /\ valid' = valid \cup {issued + 1}
    BY <1>1, <2>1 DEF Revoked
  <2>2. CASE issued' = issued /\ valid' \subseteq valid
    BY <1>1, <2>2 DEF Revoked
  <2> QED BY <1>2, <2>1, <2>2
<1>4. Revoked \subseteq 1..issued
  BY DEF Revoked
<1>5. (Two => Two') /\ \A t \in Nat : Below(t) => Below(t)'
  BY <1>3 DEF Two, Below
<1> QED BY <1>1, <1>3, <1>4, <1>5

(* What becomes of the client's token, and of a new one on its way.        *)
LEMMA TokenMoves ==
  ASSUME IInv, [Next]_vars
  PROVE  \/ token' = token
         \/ /\ token' = NoToken /\ token \in Revoked /\ ~Pending'
            /\ UNCHANGED <<issued, valid>>
         \/ /\ token = NoToken /\ Pending /\ token' = issued
            /\ UNCHANGED <<issued, valid>>
<1>1. ASSUME NEW g \in Requests, GetRejected(g), token' # token
      PROVE  /\ token' = NoToken /\ token \in Revoked /\ ~Pending'
             /\ UNCHANGED <<issued, valid>>
  <2>1. token' = NoToken /\ token = used[g] /\ used[g] \notin valid
    BY <1>1 DEF GetRejected, TokenAfter401, IInv, RejectionsTrue
  <2>2. token \in 0..issued /\ token # 0 /\ issued \in Nat
    BY <1>1, <2>1, LimitsAssumption DEF IInv, TokensIssued, TypeOK, NoToken
  <2>3. token \in Revoked
    BY <2>1, <2>2 DEF Revoked
  <2>4. \A h \in Requests : pc[h] # "posted"
    BY <1>1, <2>1 DEF IInv, LoginsShared
  <2>5. \A h \in Requests : pc'[h] # "posted"
    BY <1>1, <2>4 DEF GetRejected, Goto, IInv, TypeOK
  <2> QED BY <1>1, <2>1, <2>3, <2>5 DEF GetRejected, serverVars, Pending
<1>2. ASSUME NEW g \in Requests, LoginSucceeds(g)
      PROVE  /\ token = NoToken /\ Pending /\ token' = issued
             /\ UNCHANGED <<issued, valid>>
  BY <1>2 DEF LoginSucceeds, Pending, IInv, LoginsShared, serverVars
<1>3. CASE UNCHANGED token
  BY <1>3
<1> QED
  BY <1>1, <1>2, <1>3
  DEF Next, Step, EnsureLogin, ReadToken, AcquireSlot, Answer, AnswerLogin, GetSucceeds,
      GetFails, LoginFails, Retry, Cancelled, Revoke, Finished, vars, serverVars

LEMMA PendingBegins ==
  ASSUME IInv, [Next]_vars, ~Pending, Pending'
  PROVE  issued' = issued + 1
<1>1. ASSUME NEW g \in Requests, AnswerLogin(g) PROVE issued' = issued + 1
  BY <1>1 DEF AnswerLogin, Pending, Goto, serverVars, IInv, TypeOK
<1>2. ASSUME NEW g \in Requests,
             EnsureLogin(g) \/ ReadToken(g) \/ AcquireSlot(g) \/ Answer(g) \/ Retry(g)
      PROVE  FALSE
  BY <1>2 DEF EnsureLogin, ReadToken, AcquireSlot, Answer, Retry, Pending, Goto, IInv, TypeOK
<1>3. ASSUME NEW g \in Requests,
             GetSucceeds(g) \/ GetFails(g) \/ GetRejected(g) \/ LoginSucceeds(g)
             \/ LoginFails(g) \/ Cancelled(g)
      PROVE  FALSE
  <2>1. reply' = [reply EXCEPT ![g] = "none"] /\ \E label \in Places \ {"posted"} : Goto(g, label)
    BY <1>3
    DEF GetSucceeds, GetFails, GetRejected, LoginSucceeds, LoginFails, Cancelled, Return,
        AfterError, Places, InSlot, Over
  <2> QED BY <2>1 DEF Pending, Goto, IInv, TypeOK
<1>4. CASE UNCHANGED <<pc, reply>>
  BY <1>4 DEF Pending
<1> QED
  BY <1>1, <1>2, <1>3, <1>4 DEF Next, Step, Revoke, Finished, vars

(* Once an older token was revoked the client stays beyond it. *)
LEMMA RenewedStays ==
  ASSUME IInv, Pending => issued >= 1, [Next]_vars, Renewed
  PROVE  Renewed'
<1>1. /\ Revoked \subseteq Revoked' /\ issued <= issued' /\ issued' \in Nat
      /\ Revoked \subseteq 1..issued /\ issued \in Nat
      /\ \A t \in Nat : Below(t) => Below(t)'
  BY RevokedGrows
<1>2. token \in Nat
  BY LimitsAssumption DEF IInv, TypeOK
<1>3. CASE token' = NoToken /\ Pending'
  <2>1. token = NoToken
    BY <1>3, TokenMoves
  <2>2. CASE Pending
    <3>1. PICK r \in Revoked : r < issued BY <2>1, <2>2 DEF Renewed, Below
    <3>2. r \in Revoked' /\ r < issued' BY <1>1, <3>1
    <3>3. Below(issued)' BY <3>2 DEF Below
    <3> QED BY <1>3, <3>3 DEF Renewed
  <2>3. CASE ~Pending
    <3>1. issued' = issued + 1 BY <1>3, <2>3, PendingBegins
    <3>2. Revoked # {} BY <2>1, <2>3 DEF Renewed
    <3>3. PICK r \in Revoked : TRUE BY <3>2
    <3>4. r \in Revoked' /\ r < issued' BY <1>1, <3>1, <3>3
    <3> QED BY <1>3, <3>4 DEF Renewed, Below
  <2> QED BY <2>2, <2>3
<1>4. CASE token' = NoToken /\ ~Pending'
  <2>1. Revoked # {}
    <3>1. CASE token = NoToken BY <3>1 DEF Renewed, Below
    <3>2. CASE token # NoToken BY <3>2 DEF Renewed, Below
    <3> QED BY <3>1, <3>2
  <2> QED BY <1>1, <1>4, <2>1 DEF Renewed
<1>5. CASE token' # NoToken
  <2>1. CASE token' = token
    <3>1. Below(token) BY <1>5, <2>1 DEF Renewed
    <3>2. Below(token)' BY <1>1, <1>2, <2>1, <3>1 DEF Below
    <3> QED BY <1>5, <3>2 DEF Renewed
  <2>2. CASE token = NoToken /\ Pending /\ token' = issued /\ UNCHANGED <<issued, valid>>
    <3>1. Below(issued) BY <2>2 DEF Renewed
    <3>2. Below(token)' BY <2>2, <3>1 DEF Below, Revoked
    <3> QED BY <1>5, <3>2 DEF Renewed
  <2> QED BY <1>5, <2>1, <2>2, TokenMoves
<1> QED BY <1>3, <1>4, <1>5

(* Giving up a revoked token. *)
LEMMA DroppedIsRevoked ==
  ASSUME IInv, Pending => issued >= 1, [Next]_vars, token # NoToken, token' = NoToken
  PROVE  Renewed' /\ (Renewed => Two')
<1>1. /\ Revoked \subseteq Revoked' /\ Revoked \subseteq 1..issued /\ issued \in Nat
  BY RevokedGrows
<1>2. token \in Revoked /\ ~Pending'
  BY TokenMoves
<1>3. Renewed' BY <1>1, <1>2 DEF Renewed
<1>4. Renewed => Two' BY <1>1, <1>2 DEF Renewed, Below, Two
<1> QED BY <1>3, <1>4

(* The steps of other calls leave a call excused. *)
LEMMA OthersExcuse ==
  ASSUME IInv, Pending => issued >= 1, [Next]_vars, NEW g \in Requests, Excused(g),
         UNCHANGED <<pc[g], used[g], auths[g]>>
  PROVE  Excused(g)'
<1>1. Renewed => Renewed'
  BY RenewedStays
<1>2. Two => Two'
  BY RevokedGrows
<1>3. used[g] \in Nat /\ auths[g] \in {0, 1}
  BY LimitsAssumption DEF IInv, TypeOK
<1>4. Below(used[g]) => Below(used[g])'
  <2>1. \A t \in Nat : Below(t) => Below(t)' BY RevokedGrows
  <2>2. Below(used[g]) => \E r \in Revoked' : r < used[g]
    BY <1>3, <2>1 DEF Below
  <2> QED BY <2>2 DEF Below
<1>5. token' = NoToken => token = NoToken \/ (Renewed' /\ (Renewed => Two'))
  BY DroppedIsRevoked
<1> QED BY <1>1, <1>2, <1>3, <1>4, <1>5 DEF Excused

-----------------------------------------------------------------------------
LEMMA InitExcuses == Init => Excuses
<1> SUFFICES ASSUME Init PROVE Excuses
  OBVIOUS
<1>1. ~Pending BY DEF Init, Pending
<1>2. Newest
  BY LimitsAssumption DEF Init, Newest, NoToken
<1>3. \A g \in Requests : Excused(g)
  BY DEF Init, Excused, Asking
<1> QED BY <1>1, <1>2, <1>3 DEF Excuses

LEMMA PendingStep ==
  ASSUME IInv, Pending => issued >= 1, [Next]_vars
  PROVE  (Pending => issued >= 1)'
<1>1. issued \in Nat /\ issued' \in Nat /\ issued <= issued'
  BY RevokedGrows
<1>2. CASE Pending' /\ ~Pending
  BY <1>1, <1>2, PendingBegins
<1> QED BY <1>1, <1>2

LEMMA NewestStep ==
  ASSUME IInv, Newest, [Next]_vars
  PROVE  Newest'
<1>1. token \in Nat /\ issued \in Nat /\ used \in [Requests -> Nat]
  BY LimitsAssumption DEF IInv, TypeOK
<1>2. \A g \in Requests : used[g] <= issued
  BY <1>1 DEF IInv, TokensIssued
<1>3. ASSUME NEW g \in Requests, ReadToken(g) PROVE Newest'
  BY <1>1, <1>3 DEF ReadToken, Newest
<1>4. CASE UNCHANGED used
  <2>1. token' \in {token, NoToken, issued}
    BY TokenMoves
  <2> QED BY <1>1, <1>2, <1>4, <2>1 DEF Newest
<1>5. UNCHANGED used \/ \E g \in Requests : ReadToken(g)
  BY DEF Next, Step, EnsureLogin, AcquireSlot, Answer, AnswerLogin, GetSucceeds, GetFails,
      GetRejected, LoginSucceeds, LoginFails, Retry, Cancelled, Revoke, Finished, vars,
      callVars
<1> QED BY <1>3, <1>4, <1>5

(* A call's own steps. *)
LEMMA OwnStepExcused ==
  ASSUME IInv, Excuses, HasCreds, [Next]_vars, NEW g \in Requests, Step(g) \/ Cancelled(g)
  PROVE  Excused(g)'
<1>1. Renewed => Renewed'
  BY RenewedStays DEF Excuses
<1>2. (Two => Two') /\ \A t \in Nat : Below(t) => Below(t)'
  BY RevokedGrows
<1>3. /\ pc \in [Requests -> Places] /\ auths \in [Requests -> {0, 1}]
      /\ used \in [Requests -> Nat] /\ token \in Nat /\ issued \in Nat
  BY LimitsAssumption DEF IInv, TypeOK
<1>4. Excused(g)
  BY DEF Excuses
<1> USE DEF Goto, callVars, serverVars, NoToken, Asking
<1>5. CASE EnsureLogin(g)
  BY <1>1, <1>3, <1>4, <1>5 DEF EnsureLogin, Excused
<1>6. CASE ReadToken(g)
  <2>1. used'[g] = token /\ token' = token /\ auths' = auths /\ pc[g] = "read" /\ pc'[g] = "acquire"
    BY <1>3, <1>6 DEF ReadToken
  <2>2. token = NoToken => Renewed'
    BY <1>1, <1>4, <2>1 DEF Excused
  <2>3. auths[g] = 1 => Renewed'
    BY <1>1, <1>4 DEF Excused
  <2>4. auths[g] = 1 /\ token = NoToken => Two'
    BY <1>2, <1>4, <2>1 DEF Excused
  <2>5. auths[g] = 1 /\ token # NoToken => Below(used[g])'
    <3>1. auths[g] = 1 /\ token # NoToken => Below(token)
      BY <1>4 DEF Excused, Renewed
    <3> QED BY <1>2, <1>3, <2>1, <3>1 DEF Below
  <2> QED BY <2>1, <2>2, <2>3, <2>4, <2>5 DEF Excused
<1>7. CASE AcquireSlot(g)
  <2>1. UNCHANGED <<token, used, auths, issued, valid>>
    BY <1>7 DEF AcquireSlot
  <2>2. Below(used[g]) => Below(used[g])'
    BY <2>1 DEF Below, Revoked
  <2> QED BY <1>1, <1>2, <1>3, <1>4, <1>7, <2>1, <2>2 DEF AcquireSlot, Excused
<1>8. CASE Answer(g)
  <2>1. UNCHANGED <<token, used, auths, issued, valid>>
    BY <1>8 DEF Answer
  <2>2. Below(used[g]) => Below(used[g])'
    BY <2>1 DEF Below, Revoked
  <2> QED BY <1>1, <1>2, <1>3, <1>4, <1>8, <2>1, <2>2 DEF Answer, Excused
<1>9. CASE AnswerLogin(g)
  BY <1>1, <1>3, <1>4, <1>9 DEF AnswerLogin, Excused
<1>10. CASE GetSucceeds(g)
  BY <1>1, <1>3, <1>4, <1>10 DEF GetSucceeds, Excused
<1>11. CASE GetFails(g)
  BY <1>1, <1>3, <1>4, <1>11 DEF GetFails, AfterError, Excused
<1>12. CASE LoginSucceeds(g)
  <2>1. token' # NoToken
    BY <1>12 DEF LoginSucceeds, Excuses, Pending
  <2> QED BY <1>1, <1>3, <1>4, <1>12, <2>1 DEF LoginSucceeds, Excused
<1>13. CASE LoginFails(g)
  BY <1>1, <1>3, <1>4, <1>13 DEF LoginFails, AfterError, Excused
<1>14. CASE Retry(g)
  BY <1>1, <1>3, <1>4, <1>14 DEF Retry, Excused
<1>15. CASE Cancelled(g)
  BY <1>1, <1>3, <1>4, <1>15 DEF Cancelled, Excused
<1>16. CASE GetRejected(g)
  <2>1. used[g] # NoToken => used[g] \in Revoked
    BY <1>3, <1>16 DEF GetRejected, IInv, RejectionsTrue, TokensIssued, Revoked
  <2>2. CASE MayLogInAgain(g)
    <3>1. pc'[g] = "ensure" /\ token' = TokenAfter401(g)
      BY <1>3, <1>16, <2>2 DEF GetRejected
    <3>2. Renewed'
      <4>1. CASE token = NoToken \/ used[g] = NoToken
        BY <1>1, <1>4, <1>16, <4>1 DEF Excused, GetRejected
      <4>2. CASE token # NoToken /\ used[g] # NoToken /\ token = used[g]
        <5>1. token' = NoToken BY <3>1, <4>2 DEF TokenAfter401
        <5> QED BY <4>2, <5>1, DroppedIsRevoked DEF Excuses
      <4>3. CASE token # NoToken /\ used[g] # NoToken /\ token # used[g]
        <5>1. used[g] < token BY <1>3, <4>3 DEF Excuses, Newest
        <5>2. Renewed BY <2>1, <4>3, <5>1 DEF Renewed, Below
        <5> QED BY <1>1, <5>2
      <4> QED BY <4>1, <4>2, <4>3
    <3> QED BY <3>1, <3>2 DEF Excused
  <2>3. CASE ~MayLogInAgain(g)
    <3>1. pc'[g] = "unauthorized" /\ auths' = auths /\ auths[g] = 1
      BY <1>3, <1>16, <2>3 DEF GetRejected, MayLogInAgain
    <3>2. Two
      <4>1. pc[g] \in Asking BY <1>16 DEF GetRejected
      <4>2. CASE used[g] = NoToken BY <1>4, <3>1, <4>1, <4>2 DEF Excused
      <4>3. CASE used[g] # NoToken
        <5>1. Below(used[g]) BY <1>4, <3>1, <4>1, <4>3 DEF Excused
        <5> QED BY <2>1, <4>3, <5>1 DEF Below, Two
      <4> QED BY <4>2, <4>3
    <3>3. Renewed' BY <1>1, <1>4, <3>1 DEF Excused
    <3> QED BY <1>2, <3>1, <3>2, <3>3 DEF Excused
  <2> QED BY <2>2, <2>3
<1> QED
  BY <1>5, <1>6, <1>7, <1>8, <1>9, <1>10, <1>11, <1>12, <1>13, <1>14, <1>15, <1>16 DEF Step

LEMMA ExcusesStep == IInv /\ Excuses /\ [Next]_vars => Excuses'
<1> SUFFICES ASSUME IInv, Excuses, [Next]_vars PROVE Excuses'
  OBVIOUS
<1>1. (Pending => issued >= 1)' /\ Newest'
  BY PendingStep, NewestStep DEF Excuses
<1>2. ASSUME HasCreds, NEW g \in Requests PROVE Excused(g)'
  <2>1. CASE Step(g) \/ Cancelled(g)
    BY <1>2, <2>1, OwnStepExcused
  <2>2. CASE UNCHANGED <<pc[g], used[g], auths[g]>>
    BY <1>2, <2>2, OthersExcuse DEF Excuses
  <2>3. ASSUME NEW h \in Requests, h # g, Step(h) \/ Cancelled(h)
        PROVE  UNCHANGED <<pc[g], used[g], auths[g]>>
    BY <2>3
    DEF Step, EnsureLogin, ReadToken, AcquireSlot, Answer, AnswerLogin, GetSucceeds,
        GetFails, GetRejected, LoginSucceeds, LoginFails, Retry, Cancelled, Goto, IInv,
        TypeOK, callVars
  <2>4. \/ \E h \in Requests : Step(h) \/ Cancelled(h)
        \/ UNCHANGED <<pc, used, auths>>
    BY DEF Next, Revoke, Finished, vars, callVars
  <2> QED BY <2>1, <2>2, <2>3, <2>4
<1> QED BY <1>1, <1>2 DEF Excuses

(* With credentials, a call ends in 401 only after the server has revoked  *)
(* two tokens.                                                             *)
THEOREM ExpirySurvived == Spec => []OneExpirySurvived
<1>1. ASSUME IInv, Excuses PROVE OneExpirySurvived
  <2> SUFFICES ASSUME HasCreds, NEW g \in Requests, pc[g] = "unauthorized",
                      Cardinality(Revoked) <= 1
               PROVE  FALSE
    BY DEF OneExpirySurvived, Revoked
  <2>1. PICK r, s \in Revoked : r < s
    BY <1>1 DEF Excuses, Excused, Two
  <2>2. IsFiniteSet(1..issued) /\ issued \in Nat
    BY <1>1, LimitsAssumption, FS_Interval DEF IInv, TypeOK
  <2>3. IsFiniteSet(Revoked)
    BY <2>2, FS_Subset DEF Revoked
  <2>4. {r, s} \subseteq Revoked /\ r # s
    BY <2>1, <2>2 DEF Revoked
  <2>5. Cardinality({r, s}) = 2
    <3>1. Cardinality({r}) = 1 /\ IsFiniteSet({r}) BY FS_Singleton
    <3>2. Cardinality({r} \cup {s}) = Cardinality({r}) + 1
      BY <2>4, <3>1, FS_AddElement
    <3>3. {r, s} = {r} \cup {s} OBVIOUS
    <3> QED BY <3>1, <3>2, <3>3
  <2>6. Cardinality({r, s}) <= Cardinality(Revoked) /\ Cardinality(Revoked) \in Nat
    BY <2>3, <2>4, FS_Subset, FS_CardinalityType
  <2> QED BY <2>5, <2>6
<1>2. Spec => []Excuses
  BY InitExcuses, ExcusesStep, IInvHolds, PTL DEF Spec
<1> QED BY <1>1, <1>2, IInvHolds, PTL

-----------------------------------------------------------------------------
(* Why calls return: whatever the others and the server do, each has only  *)
(* so much to do, and some call is always free to do its next step.        *)

(* How many places a call passes before it asks for a page once more.      *)
Rank(label) ==
  CASE label = "ensure" -> 9 [] label = "postWait" -> 8 [] label = "posting" -> 7
    [] label = "posted" -> 6 [] label = "read" -> 5 [] label = "acquire" -> 4
    [] label = "sending" -> 3 [] label = "replied" -> 2 [] label = "backoff" -> 1
    [] OTHER -> 0

(* What a call may still do: a page is worth two tries, a try two tokens.  *)
Work(g) ==
  IF pc[g] \in Over THEN 0
  ELSE Rank(pc[g]) + 16 * (1 - auths[g]) + 32 * (1 - tries[g]) + 64 * (Pages - page[g])

Wears(g) ==
  /\ Work(g)' <= Work(g)
  /\ pc'[g] # pc[g] => Work(g)' < Work(g)

(* What a call is free to do next, whatever the others and the server do.  *)
Movable(g) ==
  \/ pc[g] \in {"read", "sending", "posting", "backoff"}
  \/ pc[g] = "ensure" /\ loginMu = {}
  \/ pc[g] \in {"acquire", "postWait"} /\ free > 0
  \/ pc[g] = "replied" /\ reply[g] # "none"
  \/ pc[g] = "posted" /\ reply[g] \in {"data", "transient", "permanent"}

(* Someone can move until all is over. *)
NoneStuck ==
  (\A g \in Requests : pc[g] \in Over) \/ \E g \in Requests : Movable(g)

(* A login is held by a call that logs in, answers are there when they are *)
(* looked at, and a call waits for its second try only.                    *)
Answered ==
  \A g \in Requests :
    /\ g \in loginMu => pc[g] \in {"postWait", "posting", "posted"}
    /\ pc[g] = "replied" => reply[g] # "none"
    /\ pc[g] = "posted" => reply[g] \in {"data", "transient", "permanent"}
    /\ pc[g] = "backoff" => tries[g] = 0

LEMMA AnsweredStep == TypeOK /\ Answered /\ [Next]_vars => Answered'
<1> SUFFICES ASSUME TypeOK, Answered, [Next]_vars PROVE Answered'
  OBVIOUS
<1>1. ASSUME NEW g \in Requests, Step(g) \/ Cancelled(g) PROVE Answered'
  <2> USE DEF TypeOK, Answered, Goto, callVars
  <2>1. CASE EnsureLogin(g)
    BY <2>1 DEF EnsureLogin
  <2>2. CASE ReadToken(g) \/ Retry(g)
    BY <2>2 DEF ReadToken, Retry
  <2>3. CASE AcquireSlot(g)
    BY <2>3 DEF AcquireSlot
  <2>4. CASE Answer(g)
    BY <2>4 DEF Answer
  <2>5. CASE AnswerLogin(g)
    BY <2>5 DEF AnswerLogin
  <2>6. CASE GetSucceeds(g)
    BY <2>6 DEF GetSucceeds, Return
  <2>7. CASE GetFails(g)
    BY <2>7 DEF GetFails, AfterError, Return
  <2>8. CASE GetRejected(g)
    BY <2>8 DEF GetRejected, Return
  <2>9. CASE LoginSucceeds(g)
    BY <2>9 DEF LoginSucceeds, Return
  <2>10. CASE LoginFails(g)
    BY <2>10 DEF LoginFails, AfterError, Return
  <2>11. CASE Cancelled(g)
    BY <2>11 DEF Cancelled
  <2> QED
    BY <1>1, <2>1, <2>2, <2>3, <2>4, <2>5, <2>6, <2>7, <2>8, <2>9, <2>10, <2>11 DEF Step
<1>2. ASSUME NEW t, Revoke(t) PROVE Answered'
  BY <1>2 DEF Revoke, callVars, Answered
<1>3. CASE UNCHANGED vars
  BY <1>3 DEF vars, callVars, Answered
<1> QED
  BY <1>1, <1>2, <1>3 DEF Next, Finished

LEMMA AnsweredHolds == Spec => []Answered
<1>1. Init => Answered
  BY DEF Init, Answered
<1>2. IInv /\ Answered /\ [Next]_vars => Answered'
  BY AnsweredStep DEF IInv
<1> QED
  BY <1>1, <1>2, IInvHolds, PTL DEF Spec

(* Calls never wait for each other in a circle: until all are over one of  *)
(* them can take its next step, whoever holds the login lock and the slots.*)
THEOREM NoCallIsStuck == Spec => []NoneStuck
<1>1. IInv /\ Answered => NoneStuck
  <2> SUFFICES ASSUME IInv, Answered, NEW g \in Requests, pc[g] \notin Over,
                      \A h \in Requests : ~Movable(h)
               PROVE  FALSE
    BY DEF NoneStuck
  <2>1. \A h \in Requests : pc[h] \notin {"posting", "sending", "posted", "replied"}
    BY DEF Answered, Movable
  <2>2. free > 0
    <3>1. InFlight = {}
      BY <2>1 DEF InFlight, InSlot
    <3>2. free = Slots
      BY <3>1, FS_EmptySet, LimitsAssumption DEF IInv, SlotsAccounted, InFlight
    <3> QED
      BY <3>2, LimitsAssumption
  <2>3. pc[g] = "ensure" /\ loginMu # {}
    BY <2>1, <2>2 DEF IInv, TypeOK, Places, InSlot, Movable
  <2>4. PICK h \in Requests : h \in loginMu
    BY <2>3 DEF IInv, TypeOK
  <2>5. pc[h] = "postWait"
    BY <2>1, <2>4 DEF Answered
  <2> QED
    BY <2>2, <2>5 DEF Movable
<1> QED
  BY <1>1, IInvHolds, AnsweredHolds, PTL

-----------------------------------------------------------------------------
LEMMA WorkBounded == ASSUME TypeOK, NEW g \in Requests PROVE Work(g) \in 0..(64 * Pages)
<1>1. /\ auths[g] \in {0, 1} /\ tries[g] \in {0, 1} /\ page[g] \in 1..Pages
      /\ Pages \in Nat
  BY LimitsAssumption DEF TypeOK
<1>2. Rank(pc[g]) \in 0..9
  BY DEF Rank
<1> HIDE DEF Rank
<1> QED
  BY <1>1, <1>2 DEF Work

(* The steps of a call that leave its page, its tries and its logins.      *)
LEMMA PlainStepWears ==
  ASSUME TypeOK, NEW g \in Requests, NEW label, Goto(g, label),
         pc[g] \notin Over, label \in Over \/ Rank(label) < Rank(pc[g]),
         Rank(label) \in Nat,
         UNCHANGED <<auths, tries, page>>
  PROVE  Wears(g)
<1>1. /\ auths[g] \in {0, 1} /\ tries[g] \in {0, 1} /\ page[g] \in 1..Pages
      /\ Pages \in Nat
  BY LimitsAssumption DEF TypeOK
<1>2. Rank(pc[g]) \in 1..9
  BY DEF TypeOK, Places, InSlot, Over, Rank
<1>3. pc'[g] = label
  BY DEF TypeOK, Goto
<1> HIDE DEF Rank
<1>4. Work(g) = Rank(pc[g]) + 16 * (1 - auths[g]) + 32 * (1 - tries[g]) + 64 * (Pages - page[g])
  BY DEF Work
<1>5. Work(g)' = IF label \in Over THEN 0
                 ELSE Rank(label) + 16 * (1 - auths[g]) + 32 * (1 - tries[g])
                        + 64 * (Pages - page[g])
  BY <1>3 DEF Work
<1>6. Work(g)' < Work(g)
  BY <1>1, <1>2, <1>4, <1>5
<1>7. Work(g)' \in Int /\ Work(g) \in Int
  BY <1>1, <1>2, <1>4, <1>5
<1> QED
  BY <1>6, <1>7 DEF Wears

LEMMA OthersStand ==
  ASSUME TypeOK, NEW g \in Requests, NEW h \in Requests, h # g, Step(h) \/ Cancelled(h)
  PROVE  UNCHANGED <<pc[g], auths[g], tries[g], page[g]>>
<1> USE DEF TypeOK, Goto, callVars
<1>1. CASE EnsureLogin(h) \/ ReadToken(h) \/ AcquireSlot(h) \/ Retry(h) \/ Cancelled(h)
  BY <1>1 DEF EnsureLogin, ReadToken, AcquireSlot, Retry, Cancelled
<1>2. CASE Answer(h) \/ AnswerLogin(h) \/ LoginSucceeds(h) \/ LoginFails(h)
  BY <1>2 DEF Answer, AnswerLogin, LoginSucceeds, LoginFails
<1>3. CASE GetSucceeds(h)
  BY <1>3 DEF GetSucceeds
<1>4. CASE GetFails(h) \/ GetRejected(h)
  BY <1>4 DEF GetFails, GetRejected
<1> QED
  BY <1>1, <1>2, <1>3, <1>4 DEF Step

LEMMA StepWears ==
  ASSUME TypeOK, Answered, NEW g \in Requests, Step(g) \/ Cancelled(g)
  PROVE  Wears(g)
<1>1. /\ auths[g] \in {0, 1} /\ tries[g] \in {0, 1} /\ page[g] \in 1..Pages
      /\ auths \in [Requests -> {0, 1}] /\ tries \in [Requests -> {0, 1}]
      /\ page \in [Requests -> 1..Pages] /\ pc \in [Requests -> Places]
      /\ Pages \in Nat
  BY LimitsAssumption DEF TypeOK
<1>2. ASSUME UNCHANGED <<auths, tries, page>>,
             \E label \in Places :
               Goto(g, label) /\ pc[g] \notin Over
                 /\ (label \in Over \/ Rank(label) < Rank(pc[g]))
      PROVE  Wears(g)
  <2>1. PICK label \in Places :
               Goto(g, label) /\ pc[g] \notin Over
                 /\ (label \in Over \/ Rank(label) < Rank(pc[g]))
    BY <1>2
  <2>2. Rank(label) \in Nat
    BY DEF Rank
  <2> QED
    BY <1>2, <2>1, <2>2, PlainStepWears
<1> DEFINE Plain == /\ UNCHANGED <<auths, tries, page>>
                    /\ \E label \in Places :
                         Goto(g, label) /\ pc[g] \notin Over
                           /\ (label \in Over \/ Rank(label) < Rank(pc[g]))
<1>3. CASE EnsureLogin(g)
  <2>1. Plain
    BY <1>3 DEF EnsureLogin, callVars, Places, InSlot, Over, Rank
  <2> QED
    BY <1>2, <2>1
<1>4. CASE ReadToken(g)
  <2>1. Plain
    BY <1>4 DEF ReadToken, Places, InSlot, Over, Rank
  <2> QED
    BY <1>2, <2>1
<1>5. CASE AcquireSlot(g)
  <2>1. Plain
    BY <1>5 DEF AcquireSlot, callVars, Places, InSlot, Over, Rank
  <2> QED
    BY <1>2, <2>1
<1>6. CASE Answer(g) \/ AnswerLogin(g)
  <2>1. Plain
    BY <1>6 DEF Answer, AnswerLogin, callVars, Places, InSlot, Over, Rank
  <2> QED
    BY <1>2, <2>1
<1>7. CASE GetFails(g)
  <2>1. Plain
    BY <1>7 DEF GetFails, AfterError, callVars, Places, InSlot, Over, Rank
  <2> QED
    BY <1>2, <2>1
<1>8. CASE LoginSucceeds(g) \/ LoginFails(g)
  <2>1. Plain
    BY <1>8 DEF LoginSucceeds, LoginFails, AfterError, callVars, Places, InSlot, Over, Rank
  <2> QED
    BY <1>2, <2>1
<1>9. CASE Cancelled(g)
  <2>1. Plain
    BY <1>9 DEF Cancelled, callVars, Places, InSlot, Over
  <2> QED
    BY <1>2, <2>1
<1> HIDE DEF Plain
<1>10. Work(g) = IF pc[g] \in Over THEN 0
                 ELSE Rank(pc[g]) + 16 * (1 - auths[g]) + 32 * (1 - tries[g])
                        + 64 * (Pages - page[g])
  BY DEF Work
<1>11. Work(g)' = IF pc'[g] \in Over THEN 0
                  ELSE Rank(pc'[g]) + 16 * (1 - auths'[g]) + 32 * (1 - tries'[g])
                         + 64 * (Pages - page'[g])
  BY DEF Work
<1>12. /\ Rank("ensure") = 9 /\ Rank("read") = 5 /\ Rank("replied") = 2
       /\ Rank("backoff") = 1
  BY DEF Rank
<1>13. CASE GetSucceeds(g)
  <2>1. pc[g] = "replied"
    BY <1>13 DEF GetSucceeds
  <2>2. CASE pc'[g] = "ok"
    BY <1>1, <1>10, <1>11, <1>12, <2>1, <2>2 DEF Over, Wears
  <2>3. CASE /\ page[g] < Pages
             /\ page' = [page EXCEPT ![g] = @ + 1]
             /\ auths' = [auths EXCEPT ![g] = 0]
             /\ tries' = [tries EXCEPT ![g] = 0]
             /\ Goto(g, "read")
    <3>1. page'[g] = page[g] + 1 /\ auths'[g] = 0 /\ tries'[g] = 0 /\ pc'[g] = "read"
      BY <1>1, <2>3 DEF Goto
    <3> QED
      BY <1>1, <1>10, <1>11, <1>12, <2>1, <3>1 DEF Over, Wears
  <2> QED
    BY <1>1, <1>13, <2>2, <2>3 DEF GetSucceeds, Goto
<1>14. CASE GetRejected(g)
  <2>1. pc[g] = "replied" /\ UNCHANGED <<tries, page>>
    BY <1>14 DEF GetRejected
  <2>2. CASE pc'[g] = "unauthorized"
    BY <1>1, <1>10, <1>11, <1>12, <2>1, <2>2 DEF Over, Wears
  <2>3. CASE MayLogInAgain(g)
    <3>1. auths[g] = 0 /\ auths'[g] = 1 /\ pc'[g] = "ensure"
      BY <1>1, <1>14, <2>3 DEF GetRejected, MayLogInAgain, Goto
    <3> QED
      BY <1>1, <1>10, <1>11, <1>12, <2>1, <3>1 DEF Over, Wears
  <2> QED
    BY <1>1, <1>14, <2>2, <2>3 DEF GetRejected, Goto
<1>15. CASE Retry(g)
  <2>1. /\ pc[g] = "backoff" /\ pc'[g] = "read" /\ tries'[g] = 1 /\ auths'[g] = 0
        /\ UNCHANGED page /\ tries[g] = 0
    BY <1>1, <1>15 DEF Retry, Goto, Answered
  <2> QED
    BY <1>1, <1>10, <1>11, <1>12, <2>1 DEF Over, Wears
<1> QED
  BY <1>3, <1>4, <1>5, <1>6, <1>7, <1>8, <1>9, <1>13, <1>14, <1>15 DEF Step

(* Every step of a call uses up some of its work, which no other step adds *)
(* to: however the server answers and whatever the other calls do, a call  *)
(* of n pages goes from place to place at most 64 n times.                 *)
CallsWear == [][\A g \in Requests : Wears(g)]_vars

THEOREM CallsWearOut == Spec => CallsWear /\ [](\A g \in Requests : Work(g) \in 0..(64 * Pages))
<1>1. IInv /\ Answered /\ [Next]_vars => [\A g \in Requests : Wears(g)]_vars
  <2> SUFFICES ASSUME IInv, Answered, Next, NEW g \in Requests PROVE Wears(g)
    BY DEF vars
  <2>1. Work(g) \in Int
    BY WorkBounded DEF IInv
  <2>2. ASSUME NEW h \in Requests, Step(h) \/ Cancelled(h), h # g PROVE Wears(g)
    <3>1. UNCHANGED <<pc[g], auths[g], tries[g], page[g]>>
      BY <2>2, OthersStand DEF IInv
    <3> QED
      BY <2>1, <3>1 DEF Wears, Work
  <2>3. ASSUME NEW t, Revoke(t) PROVE Wears(g)
    BY <2>1, <2>3 DEF Revoke, callVars, Wears, Work
  <2>4. CASE UNCHANGED vars
    BY <2>1, <2>4 DEF vars, callVars, Wears, Work
  <2>5. ASSUME Step(g) \/ Cancelled(g) PROVE Wears(g)
    BY <2>5, StepWears DEF IInv
  <2> QED
    BY <2>2, <2>3, <2>4, <2>5 DEF Next, Finished
<1>2. IInv => \A g \in Requests : Work(g) \in 0..(64 * Pages)
  BY WorkBounded DEF IInv
<1> QED
  BY <1>1, <1>2, IInvHolds, AnsweredHolds, PTL DEF Spec, CallsWear

=============================================================================
