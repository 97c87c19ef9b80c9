-------------------------- MODULE DocumentService --------------------------
(***************************************************************************)
(* The document service: several API replicas, each an App value with its  *)
(* own caches, over one PostgreSQL database and one object store.          *)
(*                                                                         *)
(* Every handler of an App holds a.mu from its first line to its last, the *)
(* database calls included, so a replica runs one request at a time and    *)
(* the steps of different replicas interleave at their database calls.     *)
(* One action is one such call with the local code up to the next call:    *)
(* job[r] holds the request in progress and the call it makes next.        *)
(* Nothing invalidates the caches of one replica when another one writes.  *)
(*                                                                         *)
(* A call succeeds, fails with no effect, or commits and is reported as an *)
(* error (the connection broke before the answer).  The latter two, and a  *)
(* crash, use up the bound MaxFaults.                                      *)
(*                                                                         *)
(* A document's content, its hash and the evidence hash computed from it   *)
(* are one value.  The audit rows that the same transactions write, and    *)
(* a.signatures, which Evidence discards for the table's rows, are left    *)
(* out; a replica without a database (development mode) is too.            *)
(***************************************************************************)
EXTENDS OneTimeCode, Sequences, FiniteSets, BagsExt

CONSTANTS
    Replicas,       \* the API processes
    Docs,           \* document ids
    Tokens,         \* tokens of signing links
    Users,          \* phone numbers
    Contents,       \* contents, standing for their SHA-256 too
    Customer,       \* the customer of each document
    Contractor,     \* the contractor of each document
    LinkDoc,        \* the document that each token would be drawn for
    ShortLinks,     \* the tokens whose 48 hours may pass
    MaxCodes,       \* bound: codes issued for one link
    MaxFaults       \* bound: failed calls, lost answers and crashes

ASSUME ReplicasAssumption == IsFiniteSet(Replicas)
ASSUME PeopleAssumption ==
    /\ Customer \in [Docs -> Users]
    /\ Contractor \in [Docs -> Users]
ASSUME LinkAssumption ==
    /\ LinkDoc \in [Tokens -> Docs]
    /\ ShortLinks \subseteq Tokens
ASSUME NoneAssumption == None \notin Docs \cup Tokens \cup Users \cup Contents
ASSUME BoundAssumption == MaxCodes \in Nat /\ MaxFaults \in Nat

VARIABLES
    \* memory of each replica
    docs,           \* a.docs: the cached documents
    tokens,         \* a.tokens: the links this process generated
    challenges,     \* a.challenges: the links it generated a code for
    job,            \* the request that holds a.mu, and its next call
    \* shared stores
    documents,      \* table documents
    signatures,     \* table signatures, which has no uniqueness constraint
    signingLinks,   \* table signing_links: the state of each link's row
    otpChallenges,  \* table otp_challenges, the rows of purpose "pep"
    outbox,         \* table outbox_events: the statuses announced
    objects,        \* the object under documents/<id>/original
    \* time, faults and history
    expired,        \* the links whose expires_at has passed
    faults,         \* how much of MaxFaults is used
    handedOut,      \* the links that Send has returned to the customer
    sentVersion,    \* the content each link was made for
    signedVia,      \* the contents signed through each link, in order
    codesIssued,    \* how many codes each link was issued
    confirmed       \* how many ConfirmPEP calls succeeded for each link

memory  == <<docs, tokens, challenges, job>>
store   == <<documents, signatures, signingLinks, otpChallenges, outbox, objects>>
history == <<handedOut, sentVersion, signedVia, codesIssued, confirmed>>
vars    == <<memory, store, history, expired, faults>>

Statuses == {"draft", "sent", "pep_signed", "awaiting_ukep", "completed"}

\* The mutable columns of a document; file says whether object_key is set.
Record == [status : Statuses, hash : Contents, file : BOOLEAN]

NoDocument == [status |-> "absent", hash |-> None, file |-> FALSE]

Document == Record \cup {NoDocument}

NewDraft(h) == [status |-> "draft", hash |-> h, file |-> FALSE]

WithStatus(x, s) == [x EXCEPT !.status = s]

WithFile(x, h) == [x EXCEPT !.hash = h, !.file = TRUE]

Signature == [doc : Docs, type : {"PEP", "UKEP"}, hash : Contents]

SignatureOf(d, type, h) == [doc |-> d, type |-> type, hash |-> h]

LinkStates == {"none", "open", "used", "purged"}

Steps == {"idle", "put", "saveStatus", "saveLink", "sendStatus", "saveOTP",
          "loadDocument", "tryOTP", "tryMiss", "checkOTP", "checkMiss",
          "signPEP", "useLink", "pepStatus", "signUKEP"}

Job == [pc : Steps, doc : Docs \cup {None}, token : Tokens \cup {None},
        user : Users \cup {None}, code : Codes \cup {None}, content : Contents \cup {None},
        validLink : BOOLEAN, validChallenge : BOOLEAN]

Idle == [pc |-> "idle", doc |-> None, token |-> None, user |-> None, code |-> None,
         content |-> None, validLink |-> FALSE, validChallenge |-> FALSE]

Init ==
    /\ docs = [r \in Replicas |-> [d \in Docs |-> NoDocument]]
    /\ tokens = [r \in Replicas |-> {}]
    /\ challenges = [r \in Replicas |-> {}]
    /\ job = [r \in Replicas |-> Idle]
    /\ documents = [d \in Docs |-> NoDocument]
    /\ signatures = [s \in {} |-> 0]
    /\ signingLinks = [t \in Tokens |-> "none"]
    /\ otpChallenges = [t \in Tokens |-> NoChallenge]
    /\ outbox = [d \in Docs |-> {}]
    /\ objects = [d \in Docs |-> None]
    /\ expired = {}
    /\ faults = 0
    /\ handedOut = {}
    /\ sentVersion = [t \in Tokens |-> None]
    /\ signedVia = [t \in Tokens |-> <<>>]
    /\ codesIssued = [t \in Tokens |-> 0]
    /\ confirmed = [t \in Tokens |-> 0]

----------------------------------------------------------------------------
(* Calls to the stores.                                                    *)

Outcomes == {"ok"} \cup IF faults < MaxFaults THEN {"failed", "lost"} ELSE {}

Commits(o) == o \in {"ok", "lost"}

Tally(o) == faults' = IF o \in {"failed", "lost"} THEN faults + 1 ELSE faults

Free(r) == job[r].pc = "idle"

At(r, step) == job[r].pc = step

Goto(r, step) == job' = [job EXCEPT ![r].pc = step]

Finish(r) == job' = [job EXCEPT ![r] = Idle]

\* On success go on with the request, otherwise answer with the error.
Continue(r, o, step) == IF o = "ok" THEN Goto(r, step) ELSE Finish(r)

Stored(d) == documents[d].status # "absent"

\* documentLocked: the cached document, else the row.
Resident(r, d) == IF docs[r][d] = NoDocument THEN documents[d] ELSE docs[r][d]

\* a.docs with document d of replica r replaced.
Cached(r, d, x) == [docs EXCEPT ![r][d] = x]

\* Mutant: the outbox event is not part of SaveStatus.
SaveStatusUnannounced(r, d, o) ==
    /\ documents' = IF Commits(o) THEN [documents EXCEPT ![d] = docs[r][d]] ELSE documents
    /\ UNCHANGED outbox

\* SaveStatus: one transaction writes status, object key and hash of the
\* cached document over whatever the row holds, and the outbox event.
SaveStatus(r, d, o) ==
    IF Commits(o)
    THEN /\ documents' = [documents EXCEPT ![d] = docs[r][d]]
         /\ outbox' = [outbox EXCEPT ![d] = @ \cup {docs[r][d].status}]
    ELSE UNCHANGED <<documents, outbox>>

\* SaveSignature: one more row.
SaveSignature(s, o) == signatures' = IF Commits(o) THEN BagAdd(signatures, s) ELSE signatures

----------------------------------------------------------------------------
(* Creating, reading and replacing a document.                             *)

\* newID is random: an id with no trace anywhere.
FreshDoc(d) == /\ ~Stored(d)
               /\ objects[d] = None
               /\ \A r \in Replicas : docs[r][d] = NoDocument

\* The document is cached before SaveDocument, and stays cached when the
\* allowance of the subscription refuses it or the transaction fails.
CreateDocument(r, d, c) ==
    /\ Free(r) /\ FreshDoc(d)
    /\ docs' = Cached(r, d, NewDraft(c))
    /\ \E o \in Outcomes \cup {"refused"} :
          /\ IF Commits(o)
             THEN /\ documents' = [documents EXCEPT ![d] = NewDraft(c)]
                  /\ outbox' = [outbox EXCEPT ![d] = @ \cup {"draft"}]
             ELSE UNCHANGED <<documents, outbox>>
          /\ Tally(o)
    /\ UNCHANGED <<tokens, challenges, job, signatures, signingLinks, otpChallenges,
                   objects, expired, history>>

\* A participant's Download, or any handler that loads the document and then
\* rejects the request: the row is cached for good.
Download(r, d) ==
    /\ Free(r) /\ Stored(d)
    /\ docs' = Cached(r, d, Resident(r, d))
    /\ UNCHANGED <<tokens, challenges, job, store, expired, faults, history>>

\* Mutant: Upload accepts a document that is no longer a draft.
UploadAnyStatus(r, d, c) ==
    /\ Free(r) /\ Stored(d)
    /\ docs' = Cached(r, d, Resident(r, d))
    /\ job' = [job EXCEPT ![r] = [Idle EXCEPT !.pc = "put", !.doc = d, !.content = c]]
    /\ UNCHANGED <<tokens, challenges, store, expired, faults, history>>

Upload(r, d, c) ==
    /\ Free(r) /\ Stored(d)
    /\ Resident(r, d).status = "draft"
    /\ docs' = Cached(r, d, Resident(r, d))
    /\ job' = [job EXCEPT ![r] = [Idle EXCEPT !.pc = "put", !.doc = d, !.content = c]]
    /\ UNCHANGED <<tokens, challenges, store, expired, faults, history>>

\* Put overwrites the object under the document's one key.
PutObject(r) ==
    LET d == job[r].doc
        c == job[r].content
    IN  /\ At(r, "put")
        /\ \E o \in Outcomes :
              /\ objects' = IF Commits(o) THEN [objects EXCEPT ![d] = c] ELSE objects
              /\ docs' = IF o = "ok"
                         THEN Cached(r, d, WithFile(docs[r][d], c))
                         ELSE docs
              /\ Continue(r, o, "saveStatus")
              /\ Tally(o)
        /\ UNCHANGED <<tokens, challenges, documents, signatures, signingLinks,
                       otpChallenges, outbox, expired, history>>

\* The SaveStatus that ends Upload, StartUKEP and CompleteUKEP.
RecordStatus(r) ==
    /\ At(r, "saveStatus")
    /\ \E o \in Outcomes : SaveStatus(r, job[r].doc, o) /\ Tally(o)
    /\ Finish(r)
    /\ UNCHANGED <<docs, tokens, challenges, signatures, signingLinks, otpChallenges,
                   objects, expired, history>>

----------------------------------------------------------------------------
(* Sending: one request, two transactions.                                 *)

FreshToken(t) == /\ signingLinks[t] = "none"
                 /\ \A r \in Replicas : t \notin tokens[r]

Send(r, t) ==
    LET d == LinkDoc[t]
    IN  /\ Free(r) /\ Stored(d) /\ FreshToken(t)
        /\ Resident(r, d).status = "draft"
        /\ docs' = Cached(r, d, Resident(r, d))
        /\ tokens' = [tokens EXCEPT ![r] = @ \cup {t}]
        /\ job' = [job EXCEPT ![r] = [Idle EXCEPT !.pc = "saveLink", !.doc = d, !.token = t]]
        /\ UNCHANGED <<challenges, store, expired, faults, history>>

SaveSigningLink(r) ==
    LET d == job[r].doc
        t == job[r].token
    IN  /\ At(r, "saveLink")
        /\ \E o \in Outcomes :
              /\ signingLinks' = IF Commits(o) THEN [signingLinks EXCEPT ![t] = "open"]
                                 ELSE signingLinks
              /\ docs' = IF o = "ok" THEN Cached(r, d, WithStatus(docs[r][d], "sent")) ELSE docs
              /\ sentVersion' = [sentVersion EXCEPT ![t] = docs[r][d].hash]
              /\ Continue(r, o, "sendStatus")
              /\ Tally(o)
        /\ UNCHANGED <<tokens, challenges, documents, signatures, otpChallenges, outbox,
                       objects, expired, handedOut, signedVia, codesIssued, confirmed>>

\* Mutant: the cached document is a draft again after an error.
SendStatusUndone(r) ==
    /\ At(r, "sendStatus")
    /\ \E o \in Outcomes :
          /\ SaveStatus(r, job[r].doc, o)
          /\ docs' = IF o = "ok" THEN docs
                     ELSE Cached(r, job[r].doc, WithStatus(docs[r][job[r].doc], "draft"))
          /\ handedOut' = IF o = "ok" THEN handedOut \cup {job[r].token} ELSE handedOut
          /\ Tally(o)
    /\ Finish(r)
    /\ UNCHANGED <<tokens, challenges, signatures, signingLinks, otpChallenges, objects,
                   expired, sentVersion, signedVia, codesIssued, confirmed>>

\* Only a Send that succeeds returns the link.
SendStatus(r) ==
    /\ At(r, "sendStatus")
    /\ \E o \in Outcomes :
          /\ SaveStatus(r, job[r].doc, o)
          /\ handedOut' = IF o = "ok" THEN handedOut \cup {job[r].token} ELSE handedOut
          /\ Tally(o)
    /\ Finish(r)
    /\ UNCHANGED <<docs, tokens, challenges, signatures, signingLinks, otpChallenges, objects,
                   expired, sentVersion, signedVia, codesIssued, confirmed>>

----------------------------------------------------------------------------
(* The simple signature (PEP).                                             *)

\* LoadSigningLink finds the row.
Loadable(t) == signingLinks[t] = "open" /\ t \notin expired

\* The code is drawn, and its challenge cached, before SaveOTP.
RequestPEP(r, t, c) ==
    /\ Free(r) /\ t \in handedOut
    /\ t \in tokens[r] \/ Loadable(t)
    /\ t \notin expired
    /\ codesIssued[t] < MaxCodes
    /\ challenges' = [challenges EXCEPT ![r] = @ \cup {t}]
    /\ job' = [job EXCEPT ![r] = [Idle EXCEPT !.pc = "saveOTP", !.token = t, !.code = c]]
    /\ UNCHANGED <<docs, tokens, store, expired, faults, history>>

SaveOTP(r) ==
    LET t == job[r].token
    IN  /\ At(r, "saveOTP")
        /\ \E o \in Outcomes :
              /\ IF Commits(o)
                 THEN /\ otpChallenges' = [otpChallenges EXCEPT ![t] = Issued(job[r].code)]
                      /\ codesIssued' = [codesIssued EXCEPT ![t] = @ + 1]
                 ELSE UNCHANGED <<otpChallenges, codesIssued>>
              /\ Tally(o)
        /\ Finish(r)
        /\ UNCHANGED <<docs, tokens, challenges, documents, signatures, signingLinks, outbox,
                       objects, expired, handedOut, sentVersion, signedVia, confirmed>>

\* ValidateOTP runs once more when this replica did not generate the code.
FirstCheck(r, t) == IF t \in challenges[r] THEN "checkOTP" ELSE "tryOTP"

\* ConfirmPEP up to its first call after the link: the link is the cached one,
\* whatever has become of its row, or is loaded.  A client without a session is
\* a user who takes no part in the document, and one who does not accept the
\* agreement is refused where a user other than the contractor is.
ConfirmPEP(r, t, u, c) ==
    LET d == LinkDoc[t]
    IN  /\ Free(r) /\ t \in handedOut
        /\ \E o \in IF t \in tokens[r] THEN {"ok"} ELSE Outcomes \ {"lost"} :
              LET valid == o = "ok" /\ (t \in tokens[r] \/ Loadable(t))
                  load  == valid /\ docs[r][d] = NoDocument
              IN  /\ job' = [job EXCEPT ![r] =
                         [Idle EXCEPT !.pc = IF load THEN "loadDocument" ELSE FirstCheck(r, t),
                                      !.doc = IF valid THEN d ELSE None,
                                      !.token = t, !.user = u, !.code = c,
                                      !.validLink = valid]]
                  /\ Tally(o)
        /\ UNCHANGED <<docs, tokens, challenges, store, expired, history>>

\* LoadDocument answers a participant; an error leaves d nil and is not returned.
LoadDocument(r) ==
    LET d == job[r].doc
    IN  /\ At(r, "loadDocument")
        /\ \E o \in Outcomes \ {"lost"} :
              /\ docs' = IF o = "ok" /\ Stored(d) /\ job[r].user \in {Customer[d], Contractor[d]}
                         THEN Cached(r, d, documents[d]) ELSE docs
              /\ Tally(o)
        /\ Goto(r, FirstCheck(r, job[r].token))
        /\ UNCHANGED <<tokens, challenges, store, expired, history>>

\* Mutant: ValidateOTP selects the row instead of deleting it.
SelectOTP(r, o) == UNCHANGED otpChallenges

\* The DELETE of ValidateOTP.
DeleteOTP(r, o) ==
    LET t == job[r].token
    IN  otpChallenges' = IF Commits(o) /\ Matches(otpChallenges[t], job[r].code)
                         THEN [otpChallenges EXCEPT ![t] = NoChallenge]
                         ELSE otpChallenges

\* The UPDATE of ValidateOTP.
CountMiss(r, o) ==
    otpChallenges' = IF Commits(o)
                     THEN [otpChallenges EXCEPT ![job[r].token] = Missed(@)]
                     ELSE otpChallenges

\* The first ValidateOTP; its error is not returned.
TryOTP(r) ==
    LET matched == Matches(otpChallenges[job[r].token], job[r].code)
    IN  /\ At(r, "tryOTP")
        /\ \E o \in Outcomes :
              /\ DeleteOTP(r, o)
              /\ job' = [job EXCEPT ![r] =
                     [@ EXCEPT !.pc = IF o = "ok" /\ ~matched THEN "tryMiss" ELSE "checkOTP",
                               !.validChallenge = o = "ok" /\ matched]]
              /\ Tally(o)
        /\ UNCHANGED <<docs, tokens, challenges, documents, signatures, signingLinks, outbox,
                       objects, expired, history>>

TryMiss(r) ==
    /\ At(r, "tryMiss")
    /\ \E o \in Outcomes : CountMiss(r, o) /\ Tally(o)
    /\ Goto(r, "checkOTP")
    /\ UNCHANGED <<docs, tokens, challenges, documents, signatures, signingLinks, outbox,
                   objects, expired, history>>

\* Mutant: the document that could not be loaded is not refused.
SignableUnloaded(r) ==
    LET d == job[r].doc
    IN  /\ job[r].validLink
        /\ job[r].token \notin expired
        /\ docs[r][d].status \in {"sent", "absent"}
        /\ job[r].user = Contractor[d]

\* Mutant: the status of the document is not checked.
SignableAnyStatus(r) ==
    LET d == job[r].doc
    IN  /\ job[r].validLink
        /\ job[r].token \notin expired
        /\ docs[r][d] # NoDocument
        /\ job[r].user = Contractor[d]

\* The checks after the code was accepted, and thereby used up.
Signable(r) ==
    LET d == job[r].doc
    IN  /\ job[r].validLink
        /\ job[r].token \notin expired
        /\ docs[r][d].status = "sent"
        /\ job[r].user = Contractor[d]

\* The second ValidateOTP, the one that decides.
CheckOTP(r) ==
    LET matched == Matches(otpChallenges[job[r].token], job[r].code)
    IN  /\ At(r, "checkOTP")
        /\ \E o \in Outcomes :
              /\ DeleteOTP(r, o)
              /\ IF o = "ok" /\ ~matched THEN Goto(r, "checkMiss")
                 ELSE IF o = "ok" /\ Signable(r) THEN Goto(r, "signPEP")
                 ELSE Finish(r)
              /\ Tally(o)
        /\ UNCHANGED <<docs, tokens, challenges, documents, signatures, signingLinks, outbox,
                       objects, expired, history>>

CheckMiss(r) ==
    /\ At(r, "checkMiss")
    /\ \E o \in Outcomes : CountMiss(r, o) /\ Tally(o)
    /\ Finish(r)
    /\ UNCHANGED <<docs, tokens, challenges, documents, signatures, signingLinks, outbox,
                   objects, expired, history>>

\* Mutant: the cached document is signed before SaveSignature.
SignPEPBeforeSaving(r) ==
    LET d == job[r].doc
        t == job[r].token
        h == docs[r][d].hash
    IN  /\ At(r, "signPEP")
        /\ docs' = Cached(r, d, WithStatus(docs[r][d], "pep_signed"))
        /\ \E o \in Outcomes :
              /\ SaveSignature(SignatureOf(d, "PEP", h), o)
              /\ signedVia' = IF Commits(o) THEN [signedVia EXCEPT ![t] = Append(@, h)]
                              ELSE signedVia
              /\ challenges' = IF o = "ok" THEN [challenges EXCEPT ![r] = @ \ {t}]
                               ELSE challenges
              /\ Continue(r, o, "useLink")
              /\ Tally(o)
        /\ UNCHANGED <<tokens, documents, signingLinks, otpChallenges, outbox, objects,
                       expired, handedOut, sentVersion, codesIssued, confirmed>>

\* SaveSignature, then the cached document is signed.
SignPEP(r) ==
    LET d == job[r].doc
        t == job[r].token
        h == docs[r][d].hash
    IN  /\ At(r, "signPEP")
        /\ \E o \in Outcomes :
              /\ SaveSignature(SignatureOf(d, "PEP", h), o)
              /\ signedVia' = IF Commits(o) THEN [signedVia EXCEPT ![t] = Append(@, h)]
                              ELSE signedVia
              /\ IF o = "ok"
                 THEN /\ docs' = Cached(r, d, WithStatus(docs[r][d], "pep_signed"))
                      /\ challenges' = [challenges EXCEPT ![r] = @ \ {t}]
                 ELSE UNCHANGED <<docs, challenges>>
              /\ Continue(r, o, "useLink")
              /\ Tally(o)
        /\ UNCHANGED <<tokens, documents, signingLinks, otpChallenges, outbox, objects,
                       expired, handedOut, sentVersion, codesIssued, confirmed>>

\* Mutant: the UPDATE that marks the link lacks the condition used_at IS NULL.
UseSigningLinkAgain(r) ==
    LET t == job[r].token
    IN  /\ At(r, "useLink")
        /\ \E o \in Outcomes :
              /\ signingLinks' = IF Commits(o) /\ signingLinks[t] \in {"open", "used"}
                                 THEN [signingLinks EXCEPT ![t] = "used"] ELSE signingLinks
              /\ IF o = "ok" /\ signingLinks[t] \in {"open", "used"}
                 THEN Goto(r, "pepStatus") ELSE Finish(r)
              /\ Tally(o)
        /\ UNCHANGED <<docs, tokens, challenges, documents, signatures, otpChallenges, outbox,
                       objects, expired, history>>

\* The UPDATE must find an unused row, else "signing link already used".
UseSigningLink(r) ==
    LET t == job[r].token
    IN  /\ At(r, "useLink")
        /\ \E o \in Outcomes :
              /\ signingLinks' = IF Commits(o) /\ signingLinks[t] = "open"
                                 THEN [signingLinks EXCEPT ![t] = "used"] ELSE signingLinks
              /\ IF o = "ok" /\ signingLinks[t] = "open" THEN Goto(r, "pepStatus") ELSE Finish(r)
              /\ Tally(o)
        /\ UNCHANGED <<docs, tokens, challenges, documents, signatures, otpChallenges, outbox,
                       objects, expired, history>>

PepStatus(r) ==
    /\ At(r, "pepStatus")
    /\ \E o \in Outcomes :
          /\ SaveStatus(r, job[r].doc, o)
          /\ confirmed' = IF o = "ok" THEN [confirmed EXCEPT ![job[r].token] = @ + 1]
                          ELSE confirmed
          /\ Tally(o)
    /\ Finish(r)
    /\ UNCHANGED <<docs, tokens, challenges, signatures, signingLinks, otpChallenges, objects,
                   expired, handedOut, sentVersion, signedVia, codesIssued>>

----------------------------------------------------------------------------
(* The qualified signature (UKEP).                                         *)

\* Mutant: StartUKEP does not wait for the PEP signature.
StartUKEPAnyStatus(r, d) ==
    /\ Free(r) /\ Stored(d)
    /\ docs' = Cached(r, d, WithStatus(Resident(r, d), "awaiting_ukep"))
    /\ job' = [job EXCEPT ![r] = [Idle EXCEPT !.pc = "saveStatus", !.doc = d]]
    /\ UNCHANGED <<tokens, challenges, store, expired, faults, history>>

StartUKEP(r, d) ==
    /\ Free(r) /\ Stored(d)
    /\ Resident(r, d).status = "pep_signed"
    /\ docs' = Cached(r, d, WithStatus(Resident(r, d), "awaiting_ukep"))
    /\ job' = [job EXCEPT ![r] = [Idle EXCEPT !.pc = "saveStatus", !.doc = d]]
    /\ UNCHANGED <<tokens, challenges, store, expired, faults, history>>

\* The provider's callback, at any replica and any number of times.
CompleteUKEP(r, d) ==
    /\ Free(r) /\ Stored(d)
    /\ Resident(r, d).status = "awaiting_ukep"
    /\ docs' = Cached(r, d, Resident(r, d))
    /\ job' = [job EXCEPT ![r] = [Idle EXCEPT !.pc = "signUKEP", !.doc = d]]
    /\ UNCHANGED <<tokens, challenges, store, expired, faults, history>>

SignUKEP(r) ==
    LET d == job[r].doc
    IN  /\ At(r, "signUKEP")
        /\ \E o \in Outcomes :
              /\ SaveSignature(SignatureOf(d, "UKEP", docs[r][d].hash), o)
              /\ docs' = IF o = "ok" THEN Cached(r, d, WithStatus(docs[r][d], "completed"))
                         ELSE docs
              /\ Continue(r, o, "saveStatus")
              /\ Tally(o)
        /\ UNCHANGED <<tokens, challenges, documents, signingLinks, otpChallenges, outbox,
                       objects, expired, history>>

----------------------------------------------------------------------------
(* Time, the cleanup job and crashes.                                      *)

ExpireLink(t) ==
    /\ t \in ShortLinks \ expired
    /\ signingLinks[t] # "none"
    /\ expired' = expired \cup {t}
    /\ UNCHANGED <<memory, store, faults, history>>

ExpireOTP(t) ==
    /\ otpChallenges[t] # NoChallenge
    /\ otpChallenges' = [otpChallenges EXCEPT ![t] = NoChallenge]
    /\ UNCHANGED <<memory, documents, signatures, signingLinks, outbox, objects,
                   expired, faults, history>>

\* The CronJob deletes the expired links and those used over a week ago.
CleanupExpired ==
    LET rows == {t \in Tokens : signingLinks[t] \in {"open", "used"}}
    IN  \E old \in SUBSET {t \in rows : signingLinks[t] = "used"} :
          LET gone == old \cup (rows \cap expired)
          IN  /\ gone # {}
              /\ signingLinks' = [t \in Tokens |-> IF t \in gone THEN "purged" ELSE signingLinks[t]]
              /\ UNCHANGED <<memory, documents, signatures, otpChallenges, outbox, objects,
                             expired, faults, history>>

\* The process dies, wherever its request was, and starts again empty.
Crash(r) ==
    /\ faults < MaxFaults
    /\ faults' = faults + 1
    /\ docs' = [docs EXCEPT ![r] = [d \in Docs |-> NoDocument]]
    /\ tokens' = [tokens EXCEPT ![r] = {}]
    /\ challenges' = [challenges EXCEPT ![r] = {}]
    /\ Finish(r)
    /\ UNCHANGED <<store, expired, history>>

----------------------------------------------------------------------------
\* A request arrives at a replica that is free.
Request(r) ==
    \/ \E d \in Docs :
          \/ \E c \in Contents : CreateDocument(r, d, c) \/ Upload(r, d, c)
          \/ Download(r, d)
          \/ StartUKEP(r, d)
          \/ CompleteUKEP(r, d)
    \/ \E t \in Tokens :
          \/ Send(r, t)
          \/ \E c \in Codes :
                \/ RequestPEP(r, t, c)
                \/ \E u \in Users : ConfirmPEP(r, t, u, c)

\* The request in progress makes its next call.
Step(r) ==
    \/ PutObject(r) \/ RecordStatus(r)
    \/ SaveSigningLink(r) \/ SendStatus(r)
    \/ SaveOTP(r)
    \/ LoadDocument(r) \/ TryOTP(r) \/ TryMiss(r) \/ CheckOTP(r) \/ CheckMiss(r)
    \/ SignPEP(r) \/ UseSigningLink(r) \/ PepStatus(r)
    \/ SignUKEP(r)

Next ==
    \/ \E r \in Replicas : Request(r) \/ Step(r) \/ Crash(r)
    \/ \E t \in Tokens : ExpireLink(t) \/ ExpireOTP(t)
    \/ CleanupExpired

Spec == Init /\ [][Next]_vars

----------------------------------------------------------------------------
(* Properties.                                                             *)

\* The state of every variable has the shape the code gives it.
TypeOK ==
    /\ docs \in [Replicas -> [Docs -> Document]]
    /\ tokens \in [Replicas -> SUBSET Tokens]
    /\ challenges \in [Replicas -> SUBSET Tokens]
    /\ job \in [Replicas -> Job]
    /\ documents \in [Docs -> Document]
    /\ DOMAIN signatures \subseteq Signature
    /\ signatures \in [DOMAIN signatures -> Nat \ {0}]
    /\ signingLinks \in [Tokens -> LinkStates]
    /\ otpChallenges \in [Tokens -> Challenge]
    /\ outbox \in [Docs -> SUBSET Statuses]
    /\ objects \in [Docs -> Contents \cup {None}]
    /\ expired \subseteq Tokens
    /\ faults \in 0 .. MaxFaults
    /\ handedOut \subseteq Tokens
    /\ sentVersion \in [Tokens -> Contents \cup {None}]
    /\ signedVia \in [Tokens -> Seq(Contents)]
    /\ codesIssued \in [Tokens -> Nat]
    /\ confirmed \in [Tokens -> Nat]

SignedBy(d, type, h) == SignatureOf(d, type, h) \in DOMAIN signatures

PastSent == {"pep_signed", "awaiting_ukep", "completed"}

\* A record that claims a signature has it: the row of a signature over exactly
\* the record's own content.
Backed(d, x) ==
    /\ x.status \in PastSent => SignedBy(d, "PEP", x.hash)
    /\ x.status = "completed" => SignedBy(d, "UKEP", x.hash)

\* Whatever replicas fail, restart or act on stale copies, no row, no cached
\* document and no announced status claims a signature that the database does
\* not hold (the order SaveSignature, then SaveStatus of ConfirmPEP and
\* CompleteUKEP; Evidence and the notifications rely on it).
RecordBacked ==
    \A d \in Docs :
       /\ Backed(d, documents[d])
       /\ \A r \in Replicas : Backed(d, docs[r][d])
       /\ outbox[d] \cap PastSent # {} => \E h \in Contents : SignedBy(d, "PEP", h)
       /\ "completed" \in outbox[d] => \E h \in Contents : SignedBy(d, "UKEP", h)

\* The link is one-time for its user: ConfirmPEP succeeds at most once for it,
\* in whatever replicas it is tried at once (UseSigningLink's condition).
OneConfirmationPerLink == \A t \in Tokens : confirmed[t] <= 1

\* Every signature through a link used up a code of its own: no code signs
\* twice, though ValidateOTP and SaveSignature are separate calls.
CodeSignsOnce == \A t \in Tokens : Len(signedVia[t]) <= codesIssued[t]

\* What the contractor signs is a version that the customer sent with some
\* link of the document, never an upload that was not sent.
SignedVersionWasSent ==
    \A s \in DOMAIN signatures :
       \E t \in Tokens : LinkDoc[t] = s.doc /\ sentVersion[t] = s.hash

\* A signature through a link is over the version that link was made for.
LinkSignsItsVersion ==
    \A t \in Tokens : \A i \in DOMAIN signedVia[t] : signedVia[t][i] = sentVersion[t]

\* A link is signed through at most once by each replica, though a signature is saved
\* before the link is marked: one more signature takes a fault, a SaveSignature whose
\* answer was lost or a restart that forgot the status of the cached document.
SignsOncePerReplica ==
    \A t \in Tokens : Len(signedVia[t]) <= Cardinality(Replicas) + faults

\* A code that ValidateOTP has just accepted does not make ConfirmPEP fail as
\* an invalid code.
ValidCodeNotRejected ==
    \A r \in Replicas : ~(job[r].validChallenge /\ At(r, "checkMiss"))

\* The original of a document is replaced only while its row is a draft: once sent, the
\* file stays, although Put and SaveStatus are separate calls and Send may fail, lose
\* its answer or forget that it sent the document.
OriginalStaysOnceSent ==
    [][\A d \in Docs : documents[d].status \notin {"absent", "draft"} => objects'[d] = objects[d]]_vars

Lifecycle == INSTANCE DocumentLifecycle
    WITH status <- [d \in Docs |-> documents[d].status],
         hash <- [d \in Docs |-> documents[d].hash],
         evidence <- DOMAIN signatures

\* The status in the database never goes back, and the content of a document
\* that left draft never changes.
StatusNeverRegresses ==
    [][\A d \in Docs :
          LET before == Lifecycle!Order[documents[d].status]
          IN  /\ before <= Lifecycle!Order[documents'[d].status]
              /\ before > 1 => documents'[d].hash = documents[d].hash]_vars

\* One replica, whatever calls fail and whenever it restarts, keeps the promise
\* of DocumentLifecycle with its two tables.
ImplementsLifecycle == Lifecycle!Spec

\* No signature is forgotten: between requests, the document of a signature through a
\* used link has been announced unless a call failed, whichever of the confirmations
\* that raced for the link lost; and each signature that left its link open is due to
\* a fault.  A link whose row the cleanup job has deleted can be marked no more.
SignatureIsAnnounced ==
    \A t \in Tokens : signedVia[t] # <<>> /\ (\A r \in Replicas : Free(r)) =>
       /\ signingLinks[t] = "used" => outbox[LinkDoc[t]] \cap PastSent # {} \/ faults > 0
       /\ signingLinks[t] = "open" => Len(signedVia[t]) <= faults
============================================================================
