----------------------------- MODULE AuditTrail -----------------------------
(***************************************************************************)
(* The audit trail.  Every operation on a document appends an event to     *)
(* a.audit, one chain of hashes per process over all its documents, and    *)
(* most operations then save their event in table audit_events, in the     *)
(* transaction that saves the document.  VerifyAudit follows the events of *)
(* one document: those of a.audit when the process has the document in its *)
(* cache, else the rows of the table in the order of occurred_at.          *)
(*                                                                         *)
(* Operations hold a.mu from auditLocked to the end of the save, so each   *)
(* is two actions: the one that appends and the one that saves.  What the  *)
(* operation does to the document besides is module DocumentService.       *)
(*                                                                         *)
(* SHA-256 has no collisions: an event's hash and its id are its time.     *)
(* Clocks of different processes, and of one process before and after a    *)
(* restart, may be apart; no two events have the same microsecond.  The    *)
(* hash covers the time to the nanosecond while timestamptz keeps          *)
(* microseconds: a row of an event with finer digits does not hash to what *)
(* it says.                                                                *)
(***************************************************************************)
EXTENDS Naturals, Sequences, SequencesExt

CONSTANTS
    Replicas,       \* the API processes
    Docs,           \* document ids
    FineTimes,      \* whether a time may have digits below the microsecond: a set
    MaxEvents,      \* bound: events recorded
    MaxFaults       \* bound: failed calls, lost answers and crashes

ASSUME FineTimesAssumption == FineTimes \subseteq BOOLEAN

ASSUME AuditBoundAssumption == MaxEvents \in Nat /\ MaxFaults \in Nat

VARIABLES
    audit,      \* a.audit of each replica
    docs,       \* the documents in a.docs of each replica
    saving,     \* the event whose save each replica is waiting for
    rows,       \* table audit_events
    ended,      \* history: the chains of the processes that stopped
    faults      \* how much of MaxFaults is used

vars == <<audit, docs, saving, rows, ended, faults>>

Times == 1 .. MaxEvents

\* What the hash of an event is made of; fine: its time has digits below the
\* microsecond.
Event == [at : Times, doc : Docs, previous : {0} \cup Times, fine : BOOLEAN]

Chains == ended \cup {audit[r] : r \in Replicas}

Recorded == UNION {ToSet(c) : c \in Chains}

Init ==
    /\ audit = [r \in Replicas |-> <<>>]
    /\ docs = [r \in Replicas |-> {}]
    /\ saving = [r \in Replicas |-> {}]
    /\ rows = {}
    /\ ended = {}
    /\ faults = 0

Outcomes == {"ok"} \cup IF faults < MaxFaults THEN {"failed", "lost"} ELSE {}

\* A document has a row as soon as its first event has one.
Stored(d) == \E e \in rows : e.doc = d

Free(r) == saving[r] = {}

LastHash(chain) == IF chain = <<>> THEN 0 ELSE Last(chain).at

\* Mutant: an event is linked to the one before it of the same document.
ExtendedPerDocument(chain, d, t, f) ==
    Append(chain, [at |-> t, doc |-> d, fine |-> f,
                   previous |-> LastHash(SelectSeq(chain, LAMBDA e : e.doc = d))])

\* auditLocked: the event is linked to the last one of this process.
Extended(chain, d, t, f) ==
    Append(chain, [at |-> t, doc |-> d, previous |-> LastHash(chain), fine |-> f])

\* A time later than all of this process that no other process has used.
Later(r, t) ==
    /\ t > LastHash(audit[r])
    /\ \A e \in Recorded : e.at # t

----------------------------------------------------------------------------
(* The operations.                                                         *)

\* CreateDocument caches the document and records the event before SaveDocument.
CreateDocument(r, d, t, f) ==
    /\ Free(r) /\ Later(r, t)
    /\ \A e \in Recorded : e.doc # d
    /\ docs' = [docs EXCEPT ![r] = @ \cup {d}]
    /\ audit' = [audit EXCEPT ![r] = Extended(@, d, t, f)]
    /\ saving' = [saving EXCEPT ![r] = {Last(audit'[r])}]
    /\ UNCHANGED <<rows, ended, faults>>

\* Upload, Send, StartUKEP and CompleteUKEP: documentLocked caches the document,
\* SaveStatus saves the event.
ChangeDocument(r, d, t, f) ==
    /\ Free(r) /\ Later(r, t) /\ Stored(d)
    /\ docs' = [docs EXCEPT ![r] = @ \cup {d}]
    /\ audit' = [audit EXCEPT ![r] = Extended(@, d, t, f)]
    /\ saving' = [saving EXCEPT ![r] = {Last(audit'[r])}]
    /\ UNCHANGED <<rows, ended, faults>>

\* RequestPEP records an event that is never saved, and needs no document.
RequestPEP(r, d, t, f) ==
    /\ Free(r) /\ Later(r, t) /\ Stored(d)
    /\ audit' = [audit EXCEPT ![r] = Extended(@, d, t, f)]
    /\ UNCHANGED <<docs, saving, rows, ended, faults>>

\* Mutant: the event that is saved is the accepted agreement.
ConfirmPEPSavingFirst(r, d, t, u, f) ==
    LET accepted == Extended(audit[r], d, t, FALSE)
    IN  /\ Free(r) /\ Stored(d)
        /\ Later(r, t) /\ Later(r, u) /\ t < u
        /\ docs' = [docs EXCEPT ![r] = @ \cup {d}]
        /\ audit' = [audit EXCEPT ![r] = Extended(accepted, d, u, f)]
        /\ saving' = [saving EXCEPT ![r] = {Last(accepted)}]
        /\ UNCHANGED <<rows, ended, faults>>

\* ConfirmPEP records the accepted agreement, which is never saved, and the
\* signature.
ConfirmPEP(r, d, t, u, f) ==
    LET accepted == Extended(audit[r], d, t, FALSE)
    IN  /\ Free(r) /\ Stored(d)
        /\ Later(r, t) /\ Later(r, u) /\ t < u
        /\ docs' = [docs EXCEPT ![r] = @ \cup {d}]
        /\ audit' = [audit EXCEPT ![r] = Extended(accepted, d, u, f)]
        /\ saving' = [saving EXCEPT ![r] = {Last(audit'[r])}]
        /\ UNCHANGED <<rows, ended, faults>>

\* A handler that loads the document and records nothing, Download for one.
CacheDocument(r, d) ==
    /\ Free(r) /\ Stored(d)
    /\ docs' = [docs EXCEPT ![r] = @ \cup {d}]
    /\ UNCHANGED <<audit, saving, rows, ended, faults>>

\* insertAudit in the transaction of SaveDocument, which the allowance may
\* refuse, or SaveStatus.  The event stays in the chain whatever happens here.
Save(r) ==
    \E e \in saving[r] : \E o \in Outcomes \cup IF Stored(e.doc) THEN {} ELSE {"refused"} :
       /\ rows' = IF o \in {"ok", "lost"} THEN rows \cup {e} ELSE rows
       /\ saving' = [saving EXCEPT ![r] = {}]
       /\ faults' = IF o \in {"failed", "lost"} THEN faults + 1 ELSE faults
       /\ UNCHANGED <<audit, docs, ended>>

\* The process stops; the next one starts a chain of its own.
Crash(r) ==
    /\ faults < MaxFaults /\ faults' = faults + 1
    /\ ended' = ended \cup {audit[r]}
    /\ audit' = [audit EXCEPT ![r] = <<>>]
    /\ docs' = [docs EXCEPT ![r] = {}]
    /\ saving' = [saving EXCEPT ![r] = {}]
    /\ UNCHANGED rows

Next ==
    \E r \in Replicas :
       \/ \E d \in Docs, t \in Times, f \in FineTimes :
             \/ CreateDocument(r, d, t, f)
             \/ ChangeDocument(r, d, t, f)
             \/ RequestPEP(r, d, t, f)
             \/ \E u \in Times : ConfirmPEP(r, d, t, u, f)
       \/ \E d \in Docs : CacheDocument(r, d)
       \/ Save(r)
       \/ Crash(r)

Spec == Init /\ [][Next]_vars

----------------------------------------------------------------------------
(* Reading the trail.                                                      *)

\* The events that Get returns: of a cached document those in memory, else the
\* rows.  Both lists are in the order of their times, the one because auditLocked
\* stamps each event later than the last, the other by ORDER BY occurred_at, so
\* the set of the events says which list it is.
Listed(r, d) ==
    {e \in IF d \in docs[r] THEN ToSet(audit[r]) ELSE rows : e.doc = d}

\* Hashing the event again gives its hash: always in memory, and for a row when
\* no digit of the time was lost.
HashHolds(r, d, e) == d \in docs[r] \/ ~e.fine

\* The event names the hash of the one listed before it, and none if it is first.
Follows(e, events) ==
    LET earlier == {f.at : f \in {g \in events : g.at < e.at}}
    IN  /\ e.previous \in IF earlier = {} THEN {0} ELSE earlier
        /\ \A t \in earlier : t <= e.previous

VerifyAudit(r, d) ==
    \A e \in Listed(r, d) : Follows(e, Listed(r, d)) /\ HashHolds(r, d, e)

\* A document of which the replica can answer, and is free to.
Readable(r, d) == Free(r) /\ (d \in docs[r] \/ Stored(d))

----------------------------------------------------------------------------
(* Properties.                                                             *)

\* The state has its shape; what is being saved is the last event of its chain,
\* and every row is an event that some process recorded.
TypeOK ==
    /\ audit \in [Replicas -> Seq(Event)]
    /\ docs \in [Replicas -> SUBSET Docs]
    /\ saving \in [Replicas -> SUBSET Event]
    /\ \A r \in Replicas : saving[r] # {} => audit[r] # <<>> /\ saving[r] = {Last(audit[r])}
    /\ rows \subseteq Recorded
    /\ ended \subseteq Seq(Event)
    /\ faults \in 0 .. MaxFaults

\* The first n events that a process recorded.
FirstOf(chain, n) == {chain[i] : i \in 1 .. n}

\* VerifyAudit answers true exactly when the events it is shown are, from the
\* first on and without a gap, what one process recorded, and no row lost digits:
\* never across two processes, another document's event or an unsaved one.
VerifiesPrefixesOfChains ==
    \A r \in Replicas, d \in Docs : Readable(r, d) =>
       (VerifyAudit(r, d) <=>
          /\ \E c \in Chains : \E n \in 0 .. Len(c) : Listed(r, d) = FirstOf(c, n)
          /\ \A e \in Listed(r, d) : HashHolds(r, d, e))

\* The documents whose trail each replica can verify: nothing changes an event, so
\* VerifyAudit should confirm the trail of every document.
UntouchedVerifies ==
    \A r \in Replicas, d \in Docs : Readable(r, d) => VerifyAudit(r, d)
=============================================================================
