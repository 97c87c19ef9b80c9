------------------------------ MODULE Sessions ------------------------------
(***************************************************************************)
(* Sessions of the API: a token that CreateSession hands to a user whom    *)
(* the identity provider verified, and that User accepts until the session *)
(* is revoked or its 24 hours pass.                                        *)
(*                                                                         *)
(* A session lives twice: in a.sessions of the replica that created it and *)
(* in the sessions table.  A replica asks the table only about tokens that *)
(* it does not hold itself.  CreateSession, Logout and LogoutAll hold a.mu *)
(* over their one database call, and nobody else has the new token, so     *)
(* each is one action.  Authenticating a request is a step of its own: the *)
(* handler runs later, with the user that was accepted.                    *)
(*                                                                         *)
(* RequestLogin and VerifyLogin, which no route calls, are left out.       *)
(***************************************************************************)
EXTENDS Naturals

CONSTANTS
    Replicas,       \* the API processes
    Users,          \* phone numbers
    SessionTokens,  \* the tokens that newID may draw
    Owner,          \* the user each would be drawn for
    MaxFaults       \* bound: failed calls, lost answers and crashes

ASSUME OwnerAssumption == Owner \in [SessionTokens -> Users]
ASSUME FaultsAssumption == MaxFaults \in Nat

VARIABLES
    sessions,       \* a.sessions of each replica
    rows,           \* table sessions: the state of each token's row
    expired,        \* the tokens whose 24 hours have passed
    issued,         \* the tokens that were returned to their users
    actors,         \* the users whose logout-all request a replica has accepted
    loggedOutAt,    \* the tokens that Logout or LogoutAll of a replica has ended
    faults          \* how much of MaxFaults is used

vars == <<sessions, rows, expired, issued, actors, loggedOutAt, faults>>

Init ==
    /\ sessions = [r \in Replicas |-> {}]
    /\ rows = [s \in SessionTokens |-> "none"]
    /\ expired = {}
    /\ issued = {}
    /\ actors = [r \in Replicas |-> {}]
    /\ loggedOutAt = [r \in Replicas |-> {}]
    /\ faults = 0

Outcomes == {"ok"} \cup IF faults < MaxFaults THEN {"failed", "lost"} ELSE {}

Tally(o) == faults' = IF o = "ok" THEN faults ELSE faults + 1

\* Mutant: the error of SaveSession is not returned.
CreateSessionUnchecked(r, s) ==
    /\ rows[s] = "none" /\ \A q \in Replicas : s \notin sessions[q]
    /\ s \notin issued
    /\ sessions' = [sessions EXCEPT ![r] = @ \cup {s}]
    /\ \E o \in Outcomes :
          /\ rows' = IF o = "failed" THEN rows ELSE [rows EXCEPT ![s] = "live"]
          /\ issued' = issued \cup {s}
          /\ Tally(o)
    /\ UNCHANGED <<expired, actors, loggedOutAt>>

\* The session is cached before SaveSession and stays cached when that fails.
CreateSession(r, s) ==
    /\ rows[s] = "none" /\ \A q \in Replicas : s \notin sessions[q]
    /\ s \notin issued
    /\ sessions' = [sessions EXCEPT ![r] = @ \cup {s}]
    /\ \E o \in Outcomes :
          /\ rows' = IF o = "failed" THEN rows ELSE [rows EXCEPT ![s] = "live"]
          /\ issued' = IF o = "ok" THEN issued \cup {s} ELSE issued
          /\ Tally(o)
    /\ UNCHANGED <<expired, actors, loggedOutAt>>

\* User: the cached session, else the row that LoadSession finds, which is not
\* cached.
Accepts(r, s) == s \notin expired /\ (s \in sessions[r] \/ rows[s] = "live")

\* Mutant: User keeps the session that it loaded.
AuthenticateAndKeep(r, s) ==
    /\ s \in issued /\ Accepts(r, s)
    /\ sessions' = [sessions EXCEPT ![r] = @ \cup {s}]
    /\ actors' = [actors EXCEPT ![r] = @ \cup {Owner[s]}]
    /\ UNCHANGED <<rows, expired, issued, loggedOutAt, faults>>

\* The route of logout-all asks User who sent the request.
Authenticate(r, s) ==
    /\ s \in issued /\ Accepts(r, s)
    /\ actors' = [actors EXCEPT ![r] = @ \cup {Owner[s]}]
    /\ UNCHANGED <<sessions, rows, expired, issued, loggedOutAt, faults>>

\* Mutant: the row is revoked, the cache keeps the session.
RevokeInTable(r, ended, o) ==
    /\ rows' = IF o = "failed" THEN rows
               ELSE [s \in SessionTokens |->
                       IF s \in ended /\ rows[s] = "live" THEN "revoked" ELSE rows[s]]
    /\ loggedOutAt' = IF o = "ok" THEN [loggedOutAt EXCEPT ![r] = @ \cup (ended \cap issued)]
                      ELSE loggedOutAt
    /\ Tally(o)
    /\ UNCHANGED sessions

\* A session is ended here and its row revoked; the user is told it worked only
\* when the UPDATE did.
Revoke(r, ended, o) ==
    /\ sessions' = [sessions EXCEPT ![r] = @ \ ended]
    /\ rows' = IF o = "failed" THEN rows
               ELSE [s \in SessionTokens |->
                       IF s \in ended /\ rows[s] = "live" THEN "revoked" ELSE rows[s]]
    /\ loggedOutAt' = IF o = "ok" THEN [loggedOutAt EXCEPT ![r] = @ \cup (ended \cap issued)]
                      ELSE loggedOutAt
    /\ Tally(o)

\* Logout does not ask whether the token is accepted.
Logout(r, s) ==
    /\ s \in issued
    /\ \E o \in Outcomes : Revoke(r, {s}, o)
    /\ UNCHANGED <<expired, issued, actors>>

OwnedBy(u) == {s \in SessionTokens : Owner[s] = u}

LogoutAll(r, u) ==
    /\ u \in actors[r]
    /\ actors' = [actors EXCEPT ![r] = @ \ {u}]
    /\ \E o \in Outcomes : Revoke(r, OwnedBy(u), o)
    /\ UNCHANGED <<expired, issued>>

Expire(s) ==
    /\ s \notin expired
    /\ rows[s] # "none" \/ \E r \in Replicas : s \in sessions[r]
    /\ expired' = expired \cup {s}
    /\ UNCHANGED <<sessions, rows, issued, actors, loggedOutAt, faults>>

\* The CronJob deletes the expired rows and those revoked over a week ago.
CleanupExpired ==
    \E old \in SUBSET {s \in SessionTokens : rows[s] = "revoked"} :
       LET gone == old \cup {s \in expired : rows[s] \in {"live", "revoked"}}
       IN  /\ gone # {}
           /\ rows' = [s \in SessionTokens |-> IF s \in gone THEN "purged" ELSE rows[s]]
           /\ UNCHANGED <<sessions, expired, issued, actors, loggedOutAt, faults>>

Crash(r) ==
    /\ faults < MaxFaults /\ faults' = faults + 1
    /\ sessions' = [sessions EXCEPT ![r] = {}]
    /\ actors' = [actors EXCEPT ![r] = {}]
    /\ UNCHANGED <<rows, expired, issued, loggedOutAt>>

Next ==
    \/ \E r \in Replicas :
          \/ \E s \in SessionTokens : CreateSession(r, s) \/ Authenticate(r, s) \/ Logout(r, s)
          \/ \E u \in Users : LogoutAll(r, u)
          \/ Crash(r)
    \/ \E s \in SessionTokens : Expire(s)
    \/ CleanupExpired

Spec == Init /\ [][Next]_vars

----------------------------------------------------------------------------
(* Properties.                                                             *)

\* The state has its shape, and a user holds only tokens whose row was saved.
TypeOK ==
    /\ sessions \in [Replicas -> SUBSET SessionTokens]
    /\ rows \in [SessionTokens -> {"none", "live", "revoked", "purged"}]
    /\ expired \subseteq SessionTokens
    /\ issued \subseteq SessionTokens
    /\ \A s \in issued : rows[s] # "none"
    /\ actors \in [Replicas -> SUBSET Users]
    /\ loggedOutAt \in [Replicas -> SUBSET issued]
    /\ faults \in 0 .. MaxFaults

\* A session is cached by no replica but the one that created it, so that a
\* revocation is seen by all the others at once.
CachedOnce ==
    \A s \in SessionTokens : \A q, r \in Replicas :
       s \in sessions[q] /\ s \in sessions[r] => q = r

\* A replica whose Logout or LogoutAll has ended a session never accepts it again,
\* though it restarts, reads the table or has the row purged.
LoggedOutHere == \A r \in Replicas : \A s \in loggedOutAt[r] : ~Accepts(r, s)

\* A session that Logout or LogoutAll has ended at some replica, and told its user so,
\* is accepted by no replica: the user is logged out everywhere.
LoggedOutEverywhere ==
    \A o, r \in Replicas : \A s \in loggedOutAt[o] : ~Accepts(r, s)
=============================================================================
