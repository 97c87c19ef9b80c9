---------------------------- MODULE LoginProofs -----------------------------
(***************************************************************************)
(* Sessions and logins for any replicas, browsers, logins, users and       *)
(* faults: first the invariant of module Sessions alone, then the same for *)
(* the sessions that logins create, and what a login is worth.             *)
(*                                                                         *)
(* LoggedOutHere is not inductive: a replica that has ended a session must *)
(* also have it neither in its cache nor as a live row, where a restart or *)
(* the next request would find it.  Ended says so.                         *)
(*                                                                         *)
(* Nor are LoggedInWhereStarted and OneSessionPerSignIn: what a callback   *)
(* that has exchanged its code will do depends on how it got there.        *)
(* CallbacksOK says that it came from the browser whose login it is, is    *)
(* the only one of this login and that no session was created for the      *)
(* login yet.                                                              *)
(***************************************************************************)
EXTENDS Login, TLAPS

----------------------------------------------------------------------------
(* The sessions alone.                                                     *)

\* What a replica leaves behind of the sessions that it has ended.
Ended ==
    \A r \in Replicas : \A s \in loggedOutAt[r] :
       s \notin sessions[r] /\ rows[s] \in {"revoked", "purged"}

Inv == TypeOK /\ CachedOnce /\ Ended

\* Revoking sessions keeps the invariant.
LEMMA RevokeKeepsInv ==
    ASSUME Inv, NEW r \in Replicas, NEW ended \in SUBSET SessionTokens, NEW o \in Outcomes,
           Revoke(r, ended, o), UNCHANGED <<expired, issued>>,
           actors' \in [Replicas -> SUBSET Users]
    PROVE  Inv'
<1> USE DEF Inv, TypeOK
<1>1. sessions' = [sessions EXCEPT ![r] = @ \ ended]
  BY DEF Revoke
<1>2. /\ rows' \in [SessionTokens -> {"none", "live", "revoked", "purged"}]
      /\ \A s \in SessionTokens : rows'[s] = "none" <=> rows[s] = "none"
      /\ \A s \in SessionTokens : rows[s] \in {"revoked", "purged"} => rows'[s] = rows[s]
      /\ o = "ok" => \A s \in ended : rows'[s] # "live"
  BY DEF Revoke
<1>3. /\ loggedOutAt' \in [Replicas -> SUBSET issued]
      /\ \A q \in Replicas : \A s \in loggedOutAt'[q] :
            s \in loggedOutAt[q] \/ (q = r /\ o = "ok" /\ s \in ended \cap issued)
  BY DEF Revoke
<1>4. faults' \in 0 .. MaxFaults
  BY FaultsAssumption DEF Revoke, Tally, Outcomes
<1>5. TypeOK'
  BY <1>1, <1>2, <1>3, <1>4
<1>6. CachedOnce'
  BY <1>1 DEF CachedOnce
<1>7. Ended'
  BY <1>1, <1>2, <1>3 DEF Ended
<1> QED BY <1>5, <1>6, <1>7

\* Every step keeps the invariant.
LEMMA InvStep == Inv /\ [Next]_vars => Inv'
<1> SUFFICES ASSUME Inv, [Next]_vars PROVE Inv'
  OBVIOUS
<1> USE DEF Inv, TypeOK
<1>1. ASSUME NEW r \in Replicas, NEW s \in SessionTokens, CreateSession(r, s) PROVE Inv'
  <2>1. sessions' = [sessions EXCEPT ![r] = @ \cup {s}]
    BY <1>1 DEF CreateSession
  <2>2. rows[s] = "none" /\ s \notin issued /\ \A q \in Replicas : s \notin sessions[q]
    BY <1>1 DEF CreateSession
  <2>3. /\ rows' \in {rows, [rows EXCEPT ![s] = "live"]}
        /\ issued' \in {issued, issued \cup {s}}
        /\ s \in issued' => rows'[s] = "live"
    BY <1>1 DEF CreateSession
  <2>4. UNCHANGED <<expired, actors, loggedOutAt>>
    BY <1>1 DEF CreateSession
  <2>5. faults' \in 0 .. MaxFaults
    BY <1>1, FaultsAssumption DEF CreateSession, Tally, Outcomes
  <2>6. TypeOK'
    BY <2>1, <2>2, <2>3, <2>4, <2>5
  <2>7. CachedOnce'
    BY <2>1, <2>2 DEF CachedOnce
  <2>8. Ended'
    BY <2>1, <2>2, <2>3, <2>4 DEF Ended
  <2> QED BY <2>6, <2>7, <2>8
<1>2. ASSUME NEW r \in Replicas, NEW s \in SessionTokens, Authenticate(r, s) PROVE Inv'
  <2>1. Owner[s] \in Users
    BY OwnerAssumption
  <2> QED BY <1>2, <2>1 DEF Authenticate, CachedOnce, Ended
<1>3. ASSUME NEW r \in Replicas, NEW s \in SessionTokens, Logout(r, s) PROVE Inv'
  <2>1. PICK o \in Outcomes : Revoke(r, {s}, o)
    BY <1>3 DEF Logout
  <2> QED BY <1>3, <2>1, RevokeKeepsInv DEF Logout
<1>4. ASSUME NEW r \in Replicas, NEW u \in Users, LogoutAll(r, u) PROVE Inv'
  <2>1. PICK o \in Outcomes : Revoke(r, OwnedBy(u), o)
    BY <1>4 DEF LogoutAll
  <2>2. OwnedBy(u) \in SUBSET SessionTokens
    BY DEF OwnedBy
  <2>3. actors' \in [Replicas -> SUBSET Users]
    BY <1>4 DEF LogoutAll
  <2> QED BY <1>4, <2>1, <2>2, <2>3, RevokeKeepsInv DEF LogoutAll
<1>5. ASSUME NEW s \in SessionTokens, Expire(s) PROVE Inv'
  BY <1>5 DEF Expire, CachedOnce, Ended
<1>6. CASE CleanupExpired
  <2>1. /\ rows' \in [SessionTokens -> {"none", "live", "revoked", "purged"}]
        /\ \A s \in SessionTokens : rows'[s] \in {rows[s], "purged"}
    BY <1>6 DEF CleanupExpired
  <2>2. UNCHANGED <<sessions, expired, issued, actors, loggedOutAt, faults>>
    BY <1>6 DEF CleanupExpired
  <2> QED BY <2>1, <2>2 DEF CachedOnce, Ended
<1>7. ASSUME NEW r \in Replicas, Crash(r) PROVE Inv'
  <2>1. faults' \in 0 .. MaxFaults
    BY <1>7, FaultsAssumption DEF Crash
  <2> QED BY <1>7, <2>1 DEF Crash, CachedOnce, Ended
<1>8. CASE UNCHANGED vars
  BY <1>8 DEF vars, CachedOnce, Ended
<1> QED BY <1>1, <1>2, <1>3, <1>4, <1>5, <1>6, <1>7, <1>8 DEF Next

\* The invariant holds at the start.
LEMMA InvInit == Init => Inv
BY FaultsAssumption DEF Init, Inv, TypeOK, CachedOnce, Ended

\* No replica caches a session that another one created, so a revocation reaches
\* every replica but that one at once (User does not cache what it loads).
THEOREM SessionsCachedOnce == Spec => []CachedOnce
<1>1. Inv => CachedOnce
  BY DEF Inv
<1> QED BY <1>1, InvInit, InvStep, PTL DEF Spec

\* A replica that has ended a session, by Logout or LogoutAll, never accepts it
\* again: not after a restart, and not when the row is purged.
THEOREM LogoutIsFinalHere == Spec => []LoggedOutHere
<1>1. Inv => LoggedOutHere
  BY DEF Inv, Ended, LoggedOutHere, Accepts
<1> QED BY <1>1, InvInit, InvStep, PTL DEF Spec

----------------------------------------------------------------------------
(* The sessions and the login.                                             *)

LoginTypes ==
    /\ cookie \in [Browsers -> States \cup {None}]
    /\ session \in [Browsers -> issued \cup {None}]
    /\ startedIn \in [States -> Browsers \cup {None}]
    /\ signedIn \in [States -> Users \cup {None}]
    /\ redeemed \subseteq {q \in States : signedIn[q] # None}
    /\ stale \subseteq States
    /\ callbacks \subseteq Replicas \X Browsers \X redeemed
    /\ createdBy \in [SessionTokens -> redeemed \cup {None}]

\* The cookie of a browser holds a login that was started in it.
CookiesOK == \A b \in Browsers : cookie[b] # None => startedIn[cookie[b]] = b

CallbacksOK ==
    \A r \in Replicas, b \in Browsers, q \in States : <<r, b, q>> \in callbacks =>
       /\ startedIn[q] = b
       /\ \A s \in SessionTokens : createdBy[s] # q
       /\ \A p \in Replicas, c \in Browsers : <<p, c, q>> \in callbacks => p = r /\ c = b

LoginInv ==
    /\ Inv /\ LoginTypes
    /\ CookiesOK /\ CallbacksOK
    /\ LoggedInWhereStarted /\ OneSessionPerSignIn

\* The invariant of the sessions is kept by every step of the login.
LEMMA SessionsInvStep == Inv /\ [LoginNext]_allVars => Inv'
<1> SUFFICES ASSUME Inv, [LoginNext]_allVars PROVE Inv'
  OBVIOUS
<1>1. CASE [Next]_vars
  BY <1>1, InvStep
<1>2. ASSUME NEW r \in Replicas, NEW b \in Browsers, NEW q \in States, Callback(r, b, q)
      PROVE  Inv'
  <2>1. faults' \in 0 .. MaxFaults
    BY <1>2, FaultsAssumption DEF Callback, Tally, Outcomes, Inv, TypeOK
  <2>2. UNCHANGED <<sessions, rows, expired, issued, actors, loggedOutAt>>
    BY <1>2 DEF Callback
  <2> QED BY <2>1, <2>2 DEF Inv, TypeOK, CachedOnce, Ended
<1>3. CASE \E q \in States :
              \/ \E b \in Browsers : Start(b, q)
              \/ \E u \in Users : SignIn(q, u)
              \/ StateExpires(q)
              \/ \E r \in Replicas, b \in Browsers : FinishRefused(r, b, q)
  <2>1. UNCHANGED vars
    BY <1>3 DEF Start, SignIn, StateExpires, FinishRefused
  <2> QED BY <2>1, <1>1
<1>4. ASSUME NEW r \in Replicas, NEW b \in Browsers, NEW q \in States,
             NEW s \in SessionTokens, Finish(r, b, q, s)
      PROVE  Inv'
  <2>1. Next
    BY <1>4 DEF Finish, Next
  <2> QED BY <2>1, <1>1
<1>5. ASSUME NEW r \in Replicas, NEW b \in Browsers, LogoutIn(r, b) \/ AuthenticateIn(r, b),
             session[b] \in SessionTokens
      PROVE  Inv'
  <2>1. Next
    BY <1>5 DEF LogoutIn, AuthenticateIn, Next
  <2> QED BY <2>1, <1>1
<1>6. ASSUME NEW r \in Replicas, NEW b \in Browsers, LogoutIn(r, b) \/ AuthenticateIn(r, b)
      PROVE  session[b] \in SessionTokens
  BY <1>6 DEF LogoutIn, AuthenticateIn, Logout, Authenticate, Inv, TypeOK
<1>7. ASSUME NEW r \in Replicas, CrashAt(r) \/ \E u \in Users : LogoutAll(r, u)
      PROVE  Inv'
  <2>1. Next
    BY <1>7 DEF CrashAt, Next
  <2> QED BY <2>1, <1>1
<1>8. CASE (\E s \in SessionTokens : Expire(s)) \/ CleanupExpired
  BY <1>8, <1>1 DEF Next
<1>9. CASE UNCHANGED allVars
  BY <1>9, <1>1 DEF allVars
<1> QED BY <1>2, <1>3, <1>4, <1>5, <1>6, <1>7, <1>8, <1>9 DEF LoginNext

\* What Finish and the other steps do to the tokens in users' hands.
LEMMA IssuedGrows ==
    ASSUME Inv, NEW r \in Replicas, NEW s \in SessionTokens, CreateSession(r, s)
    PROVE  /\ issued' \in {issued, issued \cup {s}}
           /\ s \in issued' => rows'[s] = "live"
BY DEF CreateSession, Inv, TypeOK

\* Steps that create no session and end, or keep, the cookies of the browsers.
LEMMA LoginKept ==
    ASSUME LoginInv, Inv', issued' = issued,
           UNCHANGED <<cookie, startedIn, signedIn, redeemed, stale, createdBy>>,
           callbacks' \subseteq callbacks,
           session' \in [Browsers -> issued \cup {None}],
           \A b \in Browsers : session'[b] \in {session[b], None}
    PROVE  LoginInv'
<1> USE DEF LoginInv
<1>1. LoginTypes'
  BY DEF LoginTypes
<1>2. CookiesOK' /\ CallbacksOK' /\ OneSessionPerSignIn'
  BY DEF CookiesOK, CallbacksOK, OneSessionPerSignIn
<1>3. LoggedInWhereStarted'
  BY DEF LoggedInWhereStarted
<1> QED BY <1>1, <1>2, <1>3

\* Starting a login keeps the invariant: its state is new.
LEMMA StartKeeps ==
    ASSUME LoginInv, Inv', NEW b \in Browsers, NEW q \in States, Start(b, q)
    PROVE  LoginInv'
<1> USE NoneAssumption DEF LoginInv, LoginTypes
<1>1. /\ startedIn[q] = None
      /\ startedIn' = [startedIn EXCEPT ![q] = b]
      /\ cookie' = [cookie EXCEPT ![b] = q]
      /\ UNCHANGED <<issued, session, signedIn, redeemed, stale, callbacks, createdBy>>
  BY DEF Start, Fresh, vars
<1>2. LoginTypes'
  BY <1>1
<1>3. CookiesOK'
  BY <1>1 DEF CookiesOK
<1>4. CallbacksOK'
  BY <1>1 DEF CallbacksOK
<1>5. LoggedInWhereStarted' /\ OneSessionPerSignIn'
  BY <1>1 DEF LoggedInWhereStarted, OneSessionPerSignIn
<1> QED BY <1>2, <1>3, <1>4, <1>5

\* Signing in at the provider keeps it: nobody has signed in for this login before.
LEMMA SignInKeeps ==
    ASSUME LoginInv, Inv', NEW q \in States, NEW u \in Users, SignIn(q, u)
    PROVE  LoginInv'
<1> USE NoneAssumption DEF LoginInv, LoginTypes
<1>1. /\ signedIn[q] = None
      /\ signedIn' = [signedIn EXCEPT ![q] = u]
      /\ UNCHANGED <<issued, cookie, session, startedIn, redeemed, stale, callbacks, createdBy>>
  BY DEF SignIn, vars
<1>2. LoginTypes'
  BY <1>1
<1>3. CookiesOK' /\ CallbacksOK' /\ OneSessionPerSignIn'
  BY <1>1 DEF CookiesOK, CallbacksOK, OneSessionPerSignIn
<1>4. \A b \in Browsers : session[b] # None => Owner[session[b]] # None
  BY OwnerAssumption DEF Inv, TypeOK
<1>5. LoggedInWhereStarted'
  BY <1>1, <1>4 DEF LoggedInWhereStarted
<1> QED BY <1>2, <1>3, <1>5

\* A callback that exchanges its code comes from the browser that has the cookie, and
\* is the first of its login.
LEMMA CallbackKeeps ==
    ASSUME LoginInv, Inv', NEW r \in Replicas, NEW b \in Browsers, NEW q \in States,
           Callback(r, b, q)
    PROVE  LoginInv'
<1> USE NoneAssumption DEF LoginInv, LoginTypes
<1>1. /\ signedIn[q] # None /\ q \notin redeemed
      /\ cookie[b] = q
      /\ UNCHANGED <<issued, cookie, session, startedIn, signedIn, stale, createdBy>>
  BY DEF Callback, ReadState
<1>2. \/ UNCHANGED callbacks /\ redeemed' \in {redeemed, redeemed \cup {q}}
      \/ callbacks' = callbacks \cup {<<r, b, q>>} /\ redeemed' = redeemed \cup {q}
  BY DEF Callback
<1>3. LoginTypes'
  BY <1>1, <1>2
<1>4. startedIn[q] = b
  BY <1>1 DEF CookiesOK
<1>5. CookiesOK' /\ LoggedInWhereStarted' /\ OneSessionPerSignIn'
  BY <1>1 DEF CookiesOK, LoggedInWhereStarted, OneSessionPerSignIn
<1>6. /\ \A s \in SessionTokens : createdBy[s] # q
      /\ \A p \in Replicas, c \in Browsers : <<p, c, q>> \notin callbacks
  BY <1>1
<1>7. CallbacksOK'
  BY <1>1, <1>2, <1>4, <1>6 DEF CallbacksOK
<1> QED BY <1>3, <1>5, <1>7

\* The session that a callback creates is the first of its login and for its user.
LEMMA FinishKeeps ==
    ASSUME LoginInv, Inv', NEW r \in Replicas, NEW b \in Browsers, NEW q \in States,
           NEW s \in SessionTokens, Finish(r, b, q, s)
    PROVE  LoginInv'
<1> USE NoneAssumption DEF LoginInv, LoginTypes
<1>1. /\ <<r, b, q>> \in callbacks
      /\ Owner[s] = signedIn[q]
      /\ callbacks' = callbacks \ {<<r, b, q>>}
      /\ cookie' = [cookie EXCEPT ![b] = None]
      /\ session' \in {session, [session EXCEPT ![b] = s]}
      /\ session' # session => s \in issued'
      /\ createdBy' \in {createdBy, [createdBy EXCEPT ![s] = q]}
      /\ UNCHANGED <<startedIn, signedIn, redeemed, stale>>
  BY DEF Finish
<1>2. issued' \in {issued, issued \cup {s}}
  BY IssuedGrows DEF Finish
<1>3. q \in redeemed /\ startedIn[q] = b
  BY <1>1 DEF CallbacksOK
<1>4. LoginTypes'
  BY <1>1, <1>2, <1>3
<1>5. CookiesOK'
  BY <1>1 DEF CookiesOK
<1>6. \A t \in SessionTokens : createdBy[t] # q
  BY <1>1 DEF CallbacksOK
<1>7. CallbacksOK'
  <2> SUFFICES ASSUME NEW p \in Replicas, NEW c \in Browsers, NEW x \in States,
                      <<p, c, x>> \in callbacks'
               PROVE  /\ startedIn'[x] = c
                      /\ \A t \in SessionTokens : createdBy'[t] # x
                      /\ \A p2 \in Replicas, c2 \in Browsers :
                            <<p2, c2, x>> \in callbacks' => p2 = p /\ c2 = c
    BY DEF CallbacksOK
  <2>1. <<p, c, x>> \in callbacks /\ <<p, c, x>> # <<r, b, q>>
    BY <1>1
  <2>2. x # q
    BY <1>1, <2>1 DEF CallbacksOK
  <2> QED BY <1>1, <2>1, <2>2 DEF CallbacksOK
<1>8. LoggedInWhereStarted'
  BY <1>1, <1>3 DEF LoggedInWhereStarted
<1>9. OneSessionPerSignIn'
  BY <1>1, <1>6 DEF OneSessionPerSignIn
<1> QED BY <1>4, <1>5, <1>7, <1>8, <1>9

\* A refused number leaves the browser without a cookie and without a session.
LEMMA RefusalKeeps ==
    ASSUME LoginInv, Inv', NEW r \in Replicas, NEW b \in Browsers, NEW q \in States,
           FinishRefused(r, b, q)
    PROVE  LoginInv'
<1> USE DEF LoginInv, LoginTypes
<1>1. /\ callbacks' \subseteq callbacks
      /\ cookie' = [cookie EXCEPT ![b] = None]
      /\ UNCHANGED <<issued, session, startedIn, signedIn, redeemed, stale, createdBy>>
  BY DEF FinishRefused, vars
<1>2. LoginTypes'
  BY <1>1
<1>3. CookiesOK' /\ CallbacksOK'
  BY <1>1 DEF CookiesOK, CallbacksOK
<1>4. LoggedInWhereStarted' /\ OneSessionPerSignIn'
  BY <1>1 DEF LoggedInWhereStarted, OneSessionPerSignIn
<1> QED BY <1>2, <1>3, <1>4

\* Every step keeps the invariant.
LEMMA LoginInvStep == LoginInv /\ [LoginNext]_allVars => LoginInv'
<1> SUFFICES ASSUME LoginInv, [LoginNext]_allVars PROVE LoginInv'
  OBVIOUS
<1>1. Inv'
  BY SessionsInvStep DEF LoginInv
<1>2. session \in [Browsers -> issued \cup {None}]
  BY DEF LoginInv, LoginTypes
<1>3. ASSUME NEW q \in States, \E b \in Browsers : Start(b, q) PROVE LoginInv'
  BY <1>1, <1>3, StartKeeps
<1>4. ASSUME NEW q \in States, \E u \in Users : SignIn(q, u) PROVE LoginInv'
  BY <1>1, <1>4, SignInKeeps
<1>5. ASSUME NEW q \in States, StateExpires(q) PROVE LoginInv'
  <2>1. /\ stale' \subseteq States
        /\ UNCHANGED <<issued, cookie, session, startedIn>>
        /\ UNCHANGED <<signedIn, redeemed, callbacks, createdBy>>
    BY <1>5 DEF StateExpires, vars, LoginInv, LoginTypes
  <2> QED BY <1>1, <2>1 DEF LoginInv, LoginTypes, CookiesOK, CallbacksOK,
                            LoggedInWhereStarted, OneSessionPerSignIn
<1>6. ASSUME NEW r \in Replicas, NEW b \in Browsers, NEW q \in States, Callback(r, b, q)
      PROVE  LoginInv'
  BY <1>1, <1>6, CallbackKeeps
<1>7. ASSUME NEW r \in Replicas, NEW b \in Browsers, NEW q \in States,
             NEW s \in SessionTokens, Finish(r, b, q, s)
      PROVE  LoginInv'
  BY <1>1, <1>7, FinishKeeps
<1>8. ASSUME NEW r \in Replicas, NEW b \in Browsers, LogoutIn(r, b) PROVE LoginInv'
  <2>1. /\ session' \in {session, [session EXCEPT ![b] = None]}
        /\ issued' = issued
        /\ UNCHANGED <<cookie, startedIn, signedIn, redeemed, stale, callbacks, createdBy>>
    BY <1>8 DEF LogoutIn, Logout
  <2> QED BY <1>1, <1>2, <2>1, LoginKept
<1>9. ASSUME NEW r \in Replicas, NEW b \in Browsers, AuthenticateIn(r, b) PROVE LoginInv'
  BY <1>1, <1>2, <1>9, LoginKept DEF AuthenticateIn, Authenticate, loginVars
<1>10. ASSUME NEW r \in Replicas, CrashAt(r) PROVE LoginInv'
  <2>1. /\ callbacks' \subseteq callbacks /\ issued' = issued
        /\ UNCHANGED <<cookie, session, startedIn, signedIn, redeemed, stale, createdBy>>
    BY <1>10 DEF CrashAt, Crash
  <2> QED BY <1>1, <1>2, <2>1, LoginKept
<1>11. ASSUME NEW r \in Replicas, NEW u \in Users, LogoutAll(r, u), UNCHANGED loginVars
       PROVE  LoginInv'
  BY <1>1, <1>2, <1>11, LoginKept DEF LogoutAll, loginVars
<1>12. ASSUME NEW s \in SessionTokens, Expire(s), UNCHANGED loginVars PROVE LoginInv'
  BY <1>1, <1>2, <1>12, LoginKept DEF Expire, loginVars
<1>13. CASE CleanupExpired /\ UNCHANGED loginVars
  BY <1>1, <1>2, <1>13, LoginKept DEF CleanupExpired, loginVars
<1>14. ASSUME NEW r \in Replicas, NEW b \in Browsers, NEW q \in States, FinishRefused(r, b, q)
       PROVE  LoginInv'
  BY <1>1, <1>14, RefusalKeeps
<1>15. CASE UNCHANGED allVars
  BY <1>1, <1>2, <1>15, LoginKept DEF allVars, vars, loginVars
<1> QED BY <1>3, <1>4, <1>5, <1>6, <1>7, <1>8, <1>9, <1>10, <1>11, <1>12, <1>13, <1>14,
        <1>15 DEF LoginNext

\* The invariant holds at the start.
LEMMA LoginInvInit == LoginInit => LoginInv
<1> SUFFICES ASSUME LoginInit PROVE LoginInv
  OBVIOUS
<1>1. Inv
  BY InvInit DEF LoginInit
<1>2. LoginTypes /\ CookiesOK /\ CallbacksOK
  BY DEF LoginInit, LoginTypes, CookiesOK, CallbacksOK
<1>3. LoggedInWhereStarted /\ OneSessionPerSignIn
  BY DEF LoginInit, LoggedInWhereStarted, OneSessionPerSignIn
<1> QED BY <1>1, <1>2, <1>3 DEF LoginInv

\* The state of the login is well typed, and each callback that is about to create a
\* session has exchanged the code of a user who signed in.
THEOREM LoginTypeCorrect == LoginSpec => []LoginTypeOK
<1>1. LoginInv => LoginTypeOK
  BY DEF LoginInv, LoginTypes, LoginTypeOK, Inv
<1> QED BY <1>1, LoginInvInit, LoginInvStep, PTL DEF LoginSpec

\* Whoever opens the address of a callback, a browser is logged in only as a user
\* who signed in at the provider in a login that this browser started.
THEOREM LoginStaysInBrowser == LoginSpec => []LoggedInWhereStarted
<1>1. LoginInv => LoggedInWhereStarted
  BY DEF LoginInv
<1> QED BY <1>1, LoginInvInit, LoginInvStep, PTL DEF LoginSpec

\* However often, and at whichever replicas, a callback is opened, its sign-in
\* creates one session at most.
THEOREM SignInsAreUsedOnce == LoginSpec => []OneSessionPerSignIn
<1>1. LoginInv => OneSessionPerSignIn
  BY DEF LoginInv
<1> QED BY <1>1, LoginInvInit, LoginInvStep, PTL DEF LoginSpec

\* Also for the sessions that logins create: a replica that has ended one never accepts
\* it again, whoever is logged in where and however the others restart.
THEOREM LogoutsHold == LoginSpec => []LoggedOutHere
<1>1. LoginInv => LoggedOutHere
  BY DEF LoginInv, Inv, Ended, LoggedOutHere, Accepts
<1> QED BY <1>1, LoginInvInit, LoginInvStep, PTL DEF LoginSpec
=============================================================================
