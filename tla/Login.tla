------------------------------- MODULE Login --------------------------------
(***************************************************************************)
(* Login with the identity provider (OpenID Connect), composed with module *)
(* Sessions.                                                               *)
(*                                                                         *)
(* Start draws a state, a nonce and a PKCE verifier, here one value,       *)
(* stores them in a signed cookie of the browser and sends the browser to  *)
(* the provider.  When a user has signed in there, the provider sends it   *)
(* back to the callback with the state and an authorization code, which it *)
(* bound to the nonce and the verifier and which is good for one exchange. *)
(* The callback runs in two steps: it compares the state with the cookie   *)
(* and exchanges the code, then it creates a session for the user that the *)
(* ID token names.  All replicas have the same key for the cookie.         *)
(*                                                                         *)
(* A browser has one cookie: a second login started in it replaces the     *)
(* state of the first, and the answer to a callback deletes the cookie     *)
(* whatever it holds by then.                                              *)
(***************************************************************************)
EXTENDS Sessions, FiniteSets

CONSTANTS
    Browsers,
    Foreign,        \* the users whose number is no Russian mobile phone
    States,         \* the states that newState may draw
    None            \* no state, browser, user or session

ASSUME NoneAssumption == None \notin Browsers \cup States \cup Users \cup SessionTokens

VARIABLES
    cookie,         \* cookie sber_oidc_state of each browser
    session,        \* cookie nota_session of each browser
    startedIn,      \* the browser in which each state was drawn
    signedIn,       \* the user that the provider issued a code for
    redeemed,       \* the states whose code has been exchanged
    stale,          \* the states that are older than 10 minutes
    callbacks,      \* the callbacks that go on to CreateSession
    createdBy       \* history: the state whose callback each session was saved for

loginVars == <<cookie, session, startedIn, signedIn, redeemed, stale, callbacks, createdBy>>

allVars == <<vars, loginVars>>

LoginInit ==
    /\ Init
    /\ cookie = [b \in Browsers |-> None]
    /\ session = [b \in Browsers |-> None]
    /\ startedIn = [q \in States |-> None]
    /\ signedIn = [q \in States |-> None]
    /\ redeemed = {}
    /\ stale = {}
    /\ callbacks = {}
    /\ createdBy = [s \in SessionTokens |-> None]

----------------------------------------------------------------------------
(* The login.                                                              *)

\* newState draws a state that nobody has.
Fresh(q) == startedIn[q] = None

Start(b, q) ==
    /\ Fresh(q)
    /\ startedIn' = [startedIn EXCEPT ![q] = b]
    /\ cookie' = [cookie EXCEPT ![b] = q]
    /\ UNCHANGED <<vars, session, signedIn, redeemed, stale, callbacks, createdBy>>

\* The provider: whoever sits at the browser signs in.
SignIn(q, u) ==
    /\ startedIn[q] # None /\ signedIn[q] = None
    /\ signedIn' = [signedIn EXCEPT ![q] = u]
    /\ UNCHANGED <<vars, cookie, session, startedIn, redeemed, stale, callbacks, createdBy>>

StateExpires(q) ==
    /\ startedIn[q] # None /\ q \notin stale
    /\ stale' = stale \cup {q}
    /\ UNCHANGED <<vars, cookie, session, startedIn, signedIn, redeemed, callbacks, createdBy>>

\* readState finds the state of this login in the browser's cookie, in time.
ReadState(b, q) == cookie[b] = q /\ q \notin stale

\* Mutant: the state is not compared with the cookie of the browser.
CallbackAnyBrowser(r, b, q) ==
    /\ signedIn[q] # None /\ q \notin stale /\ q \notin redeemed
    /\ \E o \in Outcomes :
          /\ redeemed' = IF o = "failed" THEN redeemed ELSE redeemed \cup {q}
          /\ callbacks' = IF o = "ok" THEN callbacks \cup {<<r, b, q>>} ELSE callbacks
          /\ Tally(o)
    /\ UNCHANGED <<sessions, rows, expired, issued, actors, loggedOutAt,
                   cookie, session, startedIn, signedIn, stale, createdBy>>

\* Complete up to the answer of the provider: any browser may open the callback's
\* address, again too.  A callback that is refused changes nothing.
Callback(r, b, q) ==
    /\ signedIn[q] # None /\ ReadState(b, q) /\ q \notin redeemed
    /\ \E o \in Outcomes :
          /\ redeemed' = IF o = "failed" THEN redeemed ELSE redeemed \cup {q}
          /\ callbacks' = IF o = "ok" THEN callbacks \cup {<<r, b, q>>} ELSE callbacks
          /\ Tally(o)
    /\ UNCHANGED <<sessions, rows, expired, issued, actors, loggedOutAt,
                   cookie, session, startedIn, signedIn, stale, createdBy>>

\* Mutant: an error of CreateSession is tried again.
FinishAndRetry(r, b, q, s) ==
    /\ <<r, b, q>> \in callbacks
    /\ signedIn[q] \notin Foreign /\ Owner[s] = signedIn[q]
    /\ CreateSession(r, s)
    /\ callbacks' = IF s \in issued' THEN callbacks \ {<<r, b, q>>} ELSE callbacks
    /\ cookie' = [cookie EXCEPT ![b] = None]
    /\ session' = IF s \in issued' THEN [session EXCEPT ![b] = s] ELSE session
    /\ createdBy' = IF rows'[s] = "live" THEN [createdBy EXCEPT ![s] = q] ELSE createdBy
    /\ UNCHANGED <<startedIn, signedIn, redeemed, stale>>

\* The rest of the callback.  Its answer deletes the state cookie also when
\* CreateSession failed, and sets the session cookie when it did not.
Finish(r, b, q, s) ==
    /\ <<r, b, q>> \in callbacks
    /\ signedIn[q] \notin Foreign /\ Owner[s] = signedIn[q]
    /\ CreateSession(r, s)
    /\ callbacks' = callbacks \ {<<r, b, q>>}
    /\ cookie' = [cookie EXCEPT ![b] = None]
    /\ session' = IF s \in issued' THEN [session EXCEPT ![b] = s] ELSE session
    /\ createdBy' = IF rows'[s] = "live" THEN [createdBy EXCEPT ![s] = q] ELSE createdBy
    /\ UNCHANGED <<startedIn, signedIn, redeemed, stale>>

\* CreateSession refuses the number: the code and the cookie are used up for nothing.
FinishRefused(r, b, q) ==
    /\ <<r, b, q>> \in callbacks
    /\ signedIn[q] \in Foreign
    /\ callbacks' = callbacks \ {<<r, b, q>>}
    /\ cookie' = [cookie EXCEPT ![b] = None]
    /\ UNCHANGED <<vars, session, startedIn, signedIn, redeemed, stale, createdBy>>

----------------------------------------------------------------------------
(* The session in use, in a browser.                                       *)

\* Logout, without an error, deletes the session cookie.
LogoutIn(r, b) ==
    /\ session[b] # None
    /\ Logout(r, session[b])
    /\ session' = IF faults' = faults THEN [session EXCEPT ![b] = None] ELSE session
    /\ UNCHANGED <<cookie, startedIn, signedIn, redeemed, stale, callbacks, createdBy>>

AuthenticateIn(r, b) ==
    /\ session[b] # None
    /\ Authenticate(r, session[b])
    /\ UNCHANGED loginVars

CrashAt(r) ==
    /\ Crash(r)
    /\ callbacks' = {x \in callbacks : x[1] # r}
    /\ UNCHANGED <<cookie, session, startedIn, signedIn, redeemed, stale, createdBy>>

LoginNext ==
    \/ \E q \in States :
          \/ \E b \in Browsers : Start(b, q)
          \/ \E u \in Users : SignIn(q, u)
          \/ StateExpires(q)
    \/ \E r \in Replicas, b \in Browsers :
          \/ \E q \in States :
                \/ Callback(r, b, q) \/ FinishRefused(r, b, q)
                \/ \E s \in SessionTokens : Finish(r, b, q, s)
          \/ LogoutIn(r, b)
          \/ AuthenticateIn(r, b)
    \/ \E r \in Replicas : CrashAt(r) \/ \E u \in Users : LogoutAll(r, u) /\ UNCHANGED loginVars
    \/ \E s \in SessionTokens : Expire(s) /\ UNCHANGED loginVars
    \/ CleanupExpired /\ UNCHANGED loginVars

LoginSpec == LoginInit /\ [][LoginNext]_allVars

----------------------------------------------------------------------------
(* Properties.                                                             *)

\* The state has its shape, and a callback that creates a session has exchanged the
\* code of a user who signed in.
LoginTypeOK ==
    /\ TypeOK
    /\ cookie \in [Browsers -> States \cup {None}]
    /\ session \in [Browsers -> issued \cup {None}]
    /\ startedIn \in [States -> Browsers \cup {None}]
    /\ signedIn \in [States -> Users \cup {None}]
    /\ redeemed \subseteq {q \in States : signedIn[q] # None}
    /\ stale \subseteq States
    /\ callbacks \subseteq Replicas \X Browsers \X redeemed
    /\ createdBy \in [SessionTokens -> redeemed \cup {None}]

\* A browser is logged in as a user only if that user signed in at the provider in
\* a login started in this browser, although any browser may open the address of
\* any callback.
LoggedInWhereStarted ==
    \A b \in Browsers : session[b] # None =>
       \E q \in States : startedIn[q] = b /\ signedIn[q] = Owner[session[b]]

\* One sign-in at the provider yields one session at most, however often its
\* callback is opened and at whichever replicas, and though calls fail.
OneSessionPerSignIn ==
    \A s, t \in SessionTokens :
       createdBy[s] # None /\ createdBy[s] = createdBy[t] => s = t
=============================================================================
