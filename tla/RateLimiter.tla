---------------------------- MODULE RateLimiter -----------------------------
(***************************************************************************)
(* The rate limiter of each API process: a window of one minute per key,   *)
(* which is an address with a path.  Allow holds the mutex of the limiter, *)
(* so a call is one action; on the scale of a minute, waiting for it takes *)
(* no time.  Expired windows are deleted only when the table is full.      *)
(***************************************************************************)
EXTENDS Naturals, Sequences, FiniteSets

CONSTANTS
    Replicas,       \* the API processes
    Keys,           \* addresses with paths
    Limit,          \* requests per window of each key: 10 for /v1/auth/, else 60
    Minute,         \* ticks of the clock in a window
    TableSize,      \* entries at which expired ones are deleted: 10000 in the code
    MaxTime         \* bound: when the clock stops

ASSUME RateAssumption == Limit \in [Keys -> Nat \ {0}]
ASSUME TimeAssumption == Minute \in Nat \ {0} /\ MaxTime \in Nat \ {0}
ASSUME TableAssumption == TableSize \in Nat

VARIABLES
    entries,        \* limiter.entries: the window of each key, or NoEntry
    now,            \* the time
    accepted        \* history: when each process let each request through, in order

rateVars == <<entries, now, accepted>>

Times == 1 .. MaxTime

\* The zero value, which a key without an entry reads as: long over.
NoEntry == [count |-> 0, reset |-> 0]

Window == [count : Nat, reset : Nat]

RateInit ==
    /\ entries = [r \in Replicas |-> [k \in Keys |-> NoEntry]]
    /\ now = 1
    /\ accepted = [r \in Replicas |-> [k \in Keys |-> <<>>]]

\* A window is over after its last instant (Before is strict).
Over(e) == e.reset < now

Present(r) == {k \in Keys : entries[r][k] # NoEntry}

\* Mutant: a full table is emptied.
PurgedAll(r) ==
    [k \in Keys |-> IF Cardinality(Present(r)) >= TableSize THEN NoEntry ELSE entries[r][k]]

\* Mutant: off by one.
PurgedLate(r) ==
    [k \in Keys |-> IF Cardinality(Present(r)) > TableSize /\ Over(entries[r][k])
                    THEN NoEntry ELSE entries[r][k]]

\* The table after the loop that deletes windows that are over.
Purged(r) ==
    [k \in Keys |-> IF Cardinality(Present(r)) >= TableSize /\ Over(entries[r][k])
                    THEN NoEntry ELSE entries[r][k]]

\* Mutant: every request starts the minute again.
SlidingWindow(r, k) ==
    LET e == entries[r][k]
    IN  IF Over(e) THEN [count |-> 0, reset |-> now + Minute]
        ELSE [e EXCEPT !.reset = now + Minute]

\* The window that a request falls into; the entry is read before the purge.
CurrentWindow(r, k) ==
    LET e == entries[r][k]
    IN  IF Over(e) THEN [count |-> 0, reset |-> now + Minute] ELSE e

\* Mutant: off by one.
AcceptOneMore(r, k) ==
    LET e == CurrentWindow(r, k)
    IN  /\ e.count <= Limit[k]
        /\ entries' = [entries EXCEPT ![r] = [Purged(r) EXCEPT ![k] = [e EXCEPT !.count = @ + 1]]]
        /\ accepted' = [accepted EXCEPT ![r][k] = Append(@, now)]
        /\ UNCHANGED now

\* Allow answers a request true, and counts it.
Accept(r, k) ==
    LET e == CurrentWindow(r, k)
    IN  /\ e.count < Limit[k]
        /\ entries' = [entries EXCEPT ![r] = [Purged(r) EXCEPT ![k] = [e EXCEPT !.count = @ + 1]]]
        /\ accepted' = [accepted EXCEPT ![r][k] = Append(@, now)]
        /\ UNCHANGED now

\* Allow answers false: 429 Too Many Requests.
Refuse(r, k) ==
    LET e == CurrentWindow(r, k)
    IN  /\ e.count >= Limit[k]
        /\ entries' = [entries EXCEPT ![r] = [Purged(r) EXCEPT ![k] = e]]
        /\ UNCHANGED <<now, accepted>>

\* The process of a replica stops and another one starts.
Restart(r) ==
    /\ entries' = [entries EXCEPT ![r] = [k \in Keys |-> NoEntry]]
    /\ accepted' = [accepted EXCEPT ![r] = [k \in Keys |-> <<>>]]
    /\ UNCHANGED now

Tick ==
    /\ now < MaxTime
    /\ now' = now + 1
    /\ UNCHANGED <<entries, accepted>>

RateNext ==
    \/ \E r \in Replicas :
          \/ \E k \in Keys : Accept(r, k) \/ Refuse(r, k)
          \/ Restart(r)
    \/ Tick

RateSpec == RateInit /\ [][RateNext]_rateVars

----------------------------------------------------------------------------
(* Properties.                                                             *)

\* The state has its shape, and no window counts more than it let through.
RateTypeOK ==
    /\ entries \in [Replicas -> [Keys -> Window]]
    /\ now \in Times
    /\ accepted \in [Replicas -> [Keys -> Seq(Times)]]
    /\ \A r \in Replicas, k \in Keys : entries[r][k].count <= Limit[k]

\* The requests let through from time t to time u.
AcceptedBetween(r, k, t, u) ==
    Cardinality({i \in DOMAIN accepted[r][k] : accepted[r][k][i] \in t .. u})

\* In no minute does one process let through more than two windows' worth of
\* requests, also when its table is full and windows are deleted.
AtMostTwoWindows ==
    \A r \in Replicas, k \in Keys : \A t \in Times :
       AcceptedBetween(r, k, t, t + Minute) <= 2 * Limit[k]

\* A request is refused only when its process let the limit through in the last
\* minute: asking again while refused does not prolong the refusal.
RefusalsAreEarned ==
    \A r \in Replicas, k \in Keys :
       CurrentWindow(r, k).count >= Limit[k] =>
          AcceptedBetween(r, k, IF now > Minute THEN now - Minute ELSE 1, now) >= Limit[k]

\* Once a request has been answered, a table with more entries than TableSize holds
\* no window that is over.
FullOfLiveWindows ==
    [][\A r \in Replicas : entries'[r] # entries[r] =>
          \/ Cardinality(Present(r)') <= TableSize
          \/ \A k \in Present(r)' : ~Over(entries'[r][k])]_rateVars
=============================================================================
