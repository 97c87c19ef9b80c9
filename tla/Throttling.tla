----------------------------- MODULE Throttling -----------------------------
(***************************************************************************)
(* How often a client can try codes of one signing link.  Every request    *)
(* passes the rate limiter of the replica that serves it; a confirmation   *)
(* then validates the code, statement by statement, in the row that all    *)
(* replicas share, where wrong codes are counted.  A replica that did not  *)
(* issue the code validates it twice (module DocumentService has the rest  *)
(* of ConfirmPEP).  The replica holds a.mu meanwhile, so that each has one *)
(* confirmation in progress at most; a request that is let through while   *)
(* another one holds a.mu is let through when it is released.              *)
(***************************************************************************)
EXTENDS RateLimiter, OneTimeCode

CONSTANTS
    RequestKey,     \* the client's address with the path .../pep/request
    ConfirmKey,     \* the client's address with the path .../pep/confirm
    MaxFaults       \* bound: failed statements, lost answers and restarts

ASSUME ReplicasAssumption == IsFiniteSet(Replicas) /\ Replicas # {}
ASSUME KeyAssumption == {RequestKey, ConfirmKey} \subseteq Keys
ASSUME FaultAssumption == MaxFaults \in Nat

VARIABLES
    challenge,      \* the row of table otp_challenges
    holders,        \* the replicas whose a.challenges has the link
    trying,         \* the confirmation that each replica is working on
    wrong,          \* history: wrong codes compared with the current challenge
    faults          \* how much of MaxFaults is used

codeVars == <<challenge, holders, trying, wrong, faults>>

vars == <<rateVars, codeVars>>

\* The next statement of ValidateOTP, and how often it is still to be called.
Confirmation == [pc : {"delete", "update"}, code : Codes, calls : {1, 2}]

Idle == [pc |-> "idle", code |-> None, calls |-> 0]

Init ==
    /\ RateInit
    /\ challenge = NoChallenge
    /\ holders = {}
    /\ trying = [r \in Replicas |-> Idle]
    /\ wrong = 0
    /\ faults = 0

\* How a statement may end: it fails, or it is executed and its answer is lost.
Outcomes == {"ok"} \cup IF faults < MaxFaults THEN {"failed", "lost"} ELSE {}

Charged(outcome) == faults' = IF outcome = "ok" THEN faults ELSE faults + 1

\* RequestPEP: a new code, with its attempts at zero.  The replica caches the
\* challenge before SaveOTP, and keeps it when SaveOTP fails.
RequestPEP(r, c) ==
    /\ trying[r] = Idle
    /\ Accept(r, RequestKey)
    /\ holders' = holders \cup {r}
    /\ \E o \in Outcomes :
          /\ challenge' = IF o = "failed" THEN challenge ELSE Issued(c)
          /\ wrong' = IF o = "failed" THEN wrong ELSE 0
          /\ Charged(o)
    /\ UNCHANGED trying

\* ConfirmPEP calls ValidateOTP, twice when this replica has no challenge cached.
ConfirmPEP(r, c) ==
    /\ trying[r] = Idle
    /\ Accept(r, ConfirmKey)
    /\ trying' = [trying EXCEPT ![r] = [pc |-> "delete", code |-> c,
                                        calls |-> IF r \in holders THEN 1 ELSE 2]]
    /\ UNCHANGED <<challenge, holders, wrong, faults>>

\* A request that the limiter refuses goes no further.
TooManyRequests(r, k) == Refuse(r, k) /\ UNCHANGED codeVars

\* The call of ValidateOTP is over: with the answer of the request, or, whatever the
\* first call answered, with the second.
Called(r) ==
    trying' = [trying EXCEPT ![r] = IF @.calls = 2 THEN [@ EXCEPT !.pc = "delete", !.calls = 1]
                                    ELSE Idle]

\* The DELETE of the row with this code, which uses it up or misses it.  The miss is
\* left to the UPDATE, unless the DELETE ends in an error, which ends the call.  A
\* code that was right may complete the confirmation, which drops the challenge.
TryDelete(r) ==
    LET hit == Matches(challenge, trying[r].code)
    IN  /\ trying[r].pc = "delete"
        /\ \E o \in Outcomes :
              /\ challenge' = IF hit /\ o # "failed" THEN NoChallenge ELSE challenge
              /\ wrong' = IF challenge # NoChallenge /\ ~hit /\ o # "failed"
                          THEN wrong + 1 ELSE wrong
              /\ IF hit \/ o # "ok" THEN Called(r)
                 ELSE trying' = [trying EXCEPT ![r].pc = "update"]
              /\ holders' \in IF hit /\ o = "ok" THEN {holders, holders \ {r}} ELSE {holders}
              /\ Charged(o)
        /\ UNCHANGED rateVars

\* Mutant: only the call that decides counts its miss.
CountMissOnce(r) ==
    /\ trying[r].pc = "update"
    /\ challenge' = IF trying[r].calls = 1 THEN Missed(challenge) ELSE challenge
    /\ Called(r)
    /\ UNCHANGED <<rateVars, holders, wrong, faults>>

\* The UPDATE that counts the miss, another statement.
CountMiss(r) ==
    /\ trying[r].pc = "update"
    /\ \E o \in Outcomes :
          /\ challenge' = IF o = "failed" THEN challenge ELSE Missed(challenge)
          /\ Charged(o)
    /\ Called(r)
    /\ UNCHANGED <<rateVars, holders, wrong>>

\* The process of a replica stops, between two statements perhaps, and another one
\* starts, with an empty table of windows.
Crash(r) ==
    /\ faults < MaxFaults /\ faults' = faults + 1
    /\ Restart(r)
    /\ holders' = holders \ {r}
    /\ trying' = [trying EXCEPT ![r] = Idle]
    /\ UNCHANGED <<challenge, wrong>>

\* The ten minutes of the code pass.
ExpireCode ==
    /\ challenge # NoChallenge
    /\ challenge' = NoChallenge
    /\ UNCHANGED <<rateVars, holders, trying, wrong, faults>>

Next ==
    \/ \E r \in Replicas :
          \/ \E c \in Codes : RequestPEP(r, c) \/ ConfirmPEP(r, c)
          \/ \E k \in Keys : TooManyRequests(r, k)
          \/ TryDelete(r) \/ CountMiss(r) \/ Crash(r)
    \/ ExpireCode
    \/ Tick /\ UNCHANGED codeVars

Spec == Init /\ [][Next]_vars

----------------------------------------------------------------------------
(* Properties.                                                             *)

\* The state has its shape.
TypeOK ==
    /\ RateTypeOK
    /\ challenge \in Challenge
    /\ holders \subseteq Replicas
    /\ trying \in [Replicas -> Confirmation \cup {Idle}]
    /\ wrong \in Nat
    /\ faults \in 0 .. MaxFaults

\* Five wrong codes void a challenge; confirmations at several replicas at once get
\* at most one comparison each beyond that, and each fault one.
WrongCodesAreBounded ==
    wrong <= OtpAttemptLimit + Cardinality(Replicas) - 1 + faults
=============================================================================
