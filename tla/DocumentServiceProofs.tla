----------------------- MODULE DocumentServiceProofs -----------------------
(***************************************************************************)
(* RecordBacked, OneConfirmationPerLink, CodeSignsOnce,                    *)
(* SignedVersionWasSent, SignsOncePerReplica and SignatureIsAnnounced for  *)
(* every number of replicas, documents, links and faults; and for one      *)
(* replica LinkSignsItsVersion, ImplementsLifecycle and                    *)
(* OriginalStaysOnceSent.                                                  *)
(*                                                                         *)
(* RecordBacked is inductive given TypeOK and JobsOK: no signature row is  *)
(* ever lost, a cached document gets a status past "sent" only after the   *)
(* signature over its content was saved, and SaveStatus only copies what a *)
(* cache holds.  JobsOK is needed for SignUKEP, whose document has its PEP *)
(* signature because it is still awaiting_ukep in the cache.               *)
(*                                                                         *)
(* The others need what lies between two calls of one request.             *)
(* LinksOK: a link about to be saved has no row and no other request, and  *)
(* of the requests that use a link one alone gets past UseSigningLink.     *)
(* CodesCounted: a code is a row, a request about to sign, or a signature, *)
(* and never two of them.  VersionsSent: every record past "draft" has the *)
(* version of a link whose row exists, so that the token is never drawn    *)
(* again and given to another version.                                     *)
(*                                                                         *)
(* With one replica the cache may only be ahead of the rows (CachesAhead): *)
(* a status further, or the draft about to be saved, but never another     *)
(* content once the row has left draft.  A cached document may be sent     *)
(* while its row is a draft, when SaveStatus failed; nobody signs it then, *)
(* because its link was not handed out (HandedOutOK, RequestsOK).          *)
(*                                                                         *)
(* SignaturesCounted: a signature leaves the signed document in the cache  *)
(* of its replica, or was a fault; only a crash takes the document away.   *)
(* AnnouncementsDue follows a signature through the calls after it: its    *)
(* request is about to mark the link, then to write the row and the event, *)
(* or a fault ended it.                                                    *)
(***************************************************************************)
EXTENDS DocumentServiceTypes, FiniteSetTheorems

\* Backed, with the set of signatures as a parameter: a cached document of this
\* state against the signatures of the next one.
BackedIn(S, d, x) ==
    /\ x.status \in PastSent => SignatureOf(d, "PEP", x.hash) \in S
    /\ x.status = "completed" => SignatureOf(d, "UKEP", x.hash) \in S

\* A signature that stays backs what it backed.
LEMMA SignaturesStay ==
    ASSUME NEW d, NEW x, Backed(d, x), DOMAIN signatures \subseteq DOMAIN signatures'
    PROVE  Backed(d, x)' /\ BackedIn(DOMAIN signatures', d, x)
BY DEF Backed, BackedIn, SignedBy

\* What RecordBacked asks of the announced statuses of a document.
Announced(d) ==
    /\ outbox[d] \cap PastSent # {} => \E h \in Contents : SignedBy(d, "PEP", h)
    /\ "completed" \in outbox[d] => \E h \in Contents : SignedBy(d, "UKEP", h)

\* An announced status stays backed while its document's events are the same.
LEMMA AnnouncementsStay ==
    ASSUME NEW d, Announced(d), outbox'[d] = outbox[d],
           DOMAIN signatures \subseteq DOMAIN signatures'
    PROVE  Announced(d)'
BY DEF Announced, SignedBy

\* A document that is not past "sent" claims nothing.
LEMMA EarlyBacked ==
    ASSUME NEW d, NEW x, x.status \notin PastSent
    PROVE  Backed(d, x) /\ BackedIn(DOMAIN signatures', d, x)
BY DEF Backed, BackedIn, PastSent

\* The steps that only put one document into one cache, which is backed there.
LEMMA CachingKeepsBacked ==
    ASSUME TypeOK, RecordBacked, NEW r \in Replicas, NEW d \in Docs, NEW x \in Document,
           BackedIn(DOMAIN signatures', d, x), docs' \in {docs, Cached(r, d, x)},
           UNCHANGED <<documents, outbox>>,
           DOMAIN signatures \subseteq DOMAIN signatures'
    PROVE  RecordBacked'
<1>1. docs \in Caches
  BY DEF TypeOK, Caches
<1>2. ASSUME NEW e \in Docs PROVE Backed(e, documents[e])'
  BY SignaturesStay DEF RecordBacked
<1>3. ASSUME NEW e \in Docs, NEW q \in Replicas PROVE Backed(e, docs[q][e])'
  <2>1. Backed(e, docs[q][e])
    BY DEF RecordBacked
  <2>2. docs'[q][e] = docs[q][e] \/ (q = r /\ e = d /\ docs'[q][e] = x)
    BY <1>1, CacheUpdate
  <2>3. CASE docs'[q][e] = docs[q][e]
    BY <2>1, <2>3 DEF Backed, SignedBy
  <2>4. CASE q = r /\ e = d /\ docs'[q][e] = x
    BY <2>4 DEF Backed, BackedIn, SignedBy
  <2> QED BY <2>2, <2>3, <2>4
<1>4. ASSUME NEW e \in Docs PROVE Announced(e)'
  BY AnnouncementsStay DEF RecordBacked, Announced
<1> QED BY <1>2, <1>3, <1>4 DEF RecordBacked, Announced

\* The steps that touch none of the four.
LEMMA RestKeepsBacked ==
    ASSUME RecordBacked, UNCHANGED <<docs, documents, outbox, signatures>>
    PROVE  RecordBacked'
BY DEF RecordBacked, Backed, SignedBy

\* A document that is loaded or cached is backed.
LEMMA ResidentBacked ==
    ASSUME RecordBacked, NEW r \in Replicas, NEW d \in Docs
    PROVE  Backed(d, Resident(r, d))
BY DEF RecordBacked, Resident

\* SaveStatus copies a backed cached document.
LEMMA SaveStatusKeepsBacked ==
    ASSUME TypeOK, RecordBacked, NEW r \in Replicas, NEW d \in Docs, NEW o,
           docs[r][d] \in Record,
           SaveStatus(r, d, o), UNCHANGED <<docs, signatures>>
    PROVE  RecordBacked'
<1>1. Backed(d, docs[r][d]) /\ docs[r][d].hash \in Contents
  BY RecordFields DEF RecordBacked
<1>2. ASSUME NEW e \in Docs PROVE Backed(e, documents[e])'
  <2>1. documents'[e] = documents[e] \/ (e = d /\ documents'[e] = docs[r][d])
    BY DEF SaveStatus, TypeOK
  <2>2. Backed(e, documents[e])
    BY DEF RecordBacked
  <2> QED BY <1>1, <2>1, <2>2 DEF Backed, SignedBy
<1>3. ASSUME NEW e \in Docs, NEW q \in Replicas PROVE Backed(e, docs[q][e])'
  BY DEF RecordBacked, Backed, SignedBy
<1>4. ASSUME NEW e \in Docs PROVE Announced(e)'
  <2>1. Announced(e)
    BY DEF RecordBacked, Announced
  <2>2. outbox'[e] = outbox[e] \/ (e = d /\ outbox'[e] = outbox[e] \cup {docs[r][d].status})
    BY DEF SaveStatus, TypeOK
  <2>3. CASE outbox'[e] = outbox[e]
    BY <2>1, <2>3, AnnouncementsStay
  <2>4. CASE e = d /\ outbox'[e] = outbox[e] \cup {docs[r][d].status}
    <3>1. docs[r][d].status \in PastSent => \E h \in Contents : SignedBy(d, "PEP", h)
      BY <1>1 DEF Backed
    <3>2. docs[r][d].status = "completed" => \E h \in Contents : SignedBy(d, "UKEP", h)
      BY <1>1 DEF Backed
    <3>3. \A t \in {"PEP", "UKEP"}, h \in Contents : SignedBy(d, t, h)' <=> SignedBy(d, t, h)
      BY DEF SignedBy
    <3> QED BY <2>1, <2>4, <3>1, <3>2, <3>3 DEF Announced
  <2> QED BY <2>2, <2>3, <2>4
<1> QED BY <1>2, <1>3, <1>4 DEF RecordBacked, Announced

\* Every step keeps RecordBacked.
LEMMA BackedStep == TypeOK /\ JobsOK /\ RecordBacked /\ [Next]_vars => RecordBacked'
<1> SUFFICES ASSUME TypeOK, JobsOK, RecordBacked, [Next]_vars PROVE RecordBacked'
  OBVIOUS
<1> USE DEF TypeOK
<1>1. ASSUME NEW r \in Replicas, NEW d \in Docs, NEW c \in Contents, CreateDocument(r, d, c)
      PROVE  RecordBacked'
  <2>1. NewDraft(c) \in Document /\ Backed(d, NewDraft(c))'
    BY NewDraftType, RecordFields DEF Backed, PastSent
  <2>2. ASSUME NEW e \in Docs PROVE Backed(e, documents[e])'
    <3>1. documents'[e] = documents[e] \/ (e = d /\ documents'[e] = NewDraft(c))
      BY <1>1 DEF CreateDocument
    <3> QED BY <1>1, <2>1, <3>1 DEF CreateDocument, RecordBacked, Backed, SignedBy
  <2>3. ASSUME NEW e \in Docs, NEW q \in Replicas PROVE Backed(e, docs[q][e])'
    <3>a. docs \in Caches /\ docs' = Cached(r, d, NewDraft(c))
      BY <1>1 DEF CreateDocument, Caches
    <3>1. docs'[q][e] = docs[q][e] \/ (e = d /\ docs'[q][e] = NewDraft(c))
      BY <2>1, <3>a, CacheUpdate
    <3> QED BY <1>1, <2>1, <3>1 DEF CreateDocument, RecordBacked, Backed, SignedBy
  <2>4. ASSUME NEW e \in Docs PROVE Announced(e)'
    <3>1. outbox'[e] = outbox[e] \/ outbox'[e] = outbox[e] \cup {"draft"}
      BY <1>1 DEF CreateDocument
    <3>2. /\ outbox'[e] \cap PastSent = outbox[e] \cap PastSent
          /\ "completed" \in outbox'[e] <=> "completed" \in outbox[e]
      BY <3>1 DEF PastSent
    <3>3. signatures' = signatures
      BY <1>1 DEF CreateDocument
    <3> QED BY <3>2, <3>3 DEF RecordBacked, Announced, SignedBy
  <2> QED BY <2>2, <2>3, <2>4 DEF RecordBacked, Announced
<1>2. ASSUME NEW r \in Replicas, NEW d \in Docs, NEW c \in Contents, Upload(r, d, c)
      PROVE  RecordBacked'
  <2>1. Resident(r, d) \in Document
    BY <1>2, ResidentType, RecordFields DEF Upload, Caches
  <2>2. Backed(d, Resident(r, d))
    BY ResidentBacked
  <2>3. docs' = Cached(r, d, Resident(r, d)) /\ UNCHANGED <<documents, outbox, signatures>>
    BY <1>2 DEF Upload, store
  <2>4. BackedIn(DOMAIN signatures', d, Resident(r, d))
    BY <2>2, <2>3 DEF Backed, BackedIn, SignedBy
  <2> QED BY <2>1, <2>3, <2>4, CachingKeepsBacked
<1>3. ASSUME NEW r \in Replicas, NEW d \in Docs, Download(r, d)
      PROVE  RecordBacked'
  <2>1. Resident(r, d) \in Document
    BY <1>3, ResidentType, RecordFields DEF Download, Caches
  <2>2. Backed(d, Resident(r, d))
    BY ResidentBacked
  <2>3. docs' = Cached(r, d, Resident(r, d)) /\ UNCHANGED <<documents, outbox, signatures>>
    BY <1>3 DEF Download, store
  <2>4. BackedIn(DOMAIN signatures', d, Resident(r, d))
    BY <2>2, <2>3 DEF Backed, BackedIn, SignedBy
  <2> QED BY <2>1, <2>3, <2>4, CachingKeepsBacked
<1>4. ASSUME NEW r \in Replicas, NEW d \in Docs, StartUKEP(r, d)
      PROVE  RecordBacked'
  <2> DEFINE x == WithStatus(Resident(r, d), "awaiting_ukep")
  <2>1. Resident(r, d) \in Record
    BY <1>4, ResidentType DEF StartUKEP, Caches
  <2>2. /\ x \in Document /\ x.status = "awaiting_ukep" /\ x.hash = Resident(r, d).hash
    BY <2>1, StatusUpdate, RecordFields DEF Statuses
  <2>3. Backed(d, Resident(r, d)) /\ Resident(r, d).status = "pep_signed"
    BY <1>4, ResidentBacked DEF StartUKEP
  <2>4. docs' = Cached(r, d, x) /\ UNCHANGED <<documents, outbox, signatures>>
    BY <1>4 DEF StartUKEP, store
  <2>5. SignedBy(d, "PEP", x.hash)
    BY <2>2, <2>3 DEF Backed, PastSent
  <2> HIDE DEF x
  <2>6. BackedIn(DOMAIN signatures', d, x)
    BY <2>2, <2>4, <2>5 DEF BackedIn, SignedBy
  <2> QED BY <2>2, <2>4, <2>6, CachingKeepsBacked
<1>5. ASSUME NEW r \in Replicas, NEW d \in Docs, CompleteUKEP(r, d)
      PROVE  RecordBacked'
  <2>1. Resident(r, d) \in Document
    BY <1>5, ResidentType, RecordFields DEF CompleteUKEP, Caches
  <2>2. Backed(d, Resident(r, d))
    BY ResidentBacked
  <2>3. docs' = Cached(r, d, Resident(r, d)) /\ UNCHANGED <<documents, outbox, signatures>>
    BY <1>5 DEF CompleteUKEP, store
  <2>4. BackedIn(DOMAIN signatures', d, Resident(r, d))
    BY <2>2, <2>3 DEF Backed, BackedIn, SignedBy
  <2> QED BY <2>1, <2>3, <2>4, CachingKeepsBacked
<1>6. ASSUME NEW r \in Replicas, NEW t \in Tokens, Send(r, t)
      PROVE  RecordBacked'
  <2>1. Resident(r, LinkDoc[t]) \in Document
    BY <1>6, ResidentType, RecordFields, LinkAssumption DEF Send, Caches
  <2>2. Backed(LinkDoc[t], Resident(r, LinkDoc[t]))
    BY ResidentBacked, LinkAssumption
  <2>3. /\ docs' = Cached(r, LinkDoc[t], Resident(r, LinkDoc[t]))
        /\ UNCHANGED <<documents, outbox, signatures>>
    BY <1>6 DEF Send, store
  <2>4. BackedIn(DOMAIN signatures', LinkDoc[t], Resident(r, LinkDoc[t]))
    BY <2>2, <2>3 DEF Backed, BackedIn, SignedBy
  <2> QED BY <2>1, <2>3, <2>4, CachingKeepsBacked, LinkAssumption
<1>7. ASSUME NEW r \in Replicas, NEW t \in Tokens, NEW c \in Codes, RequestPEP(r, t, c)
      PROVE  RecordBacked'
  BY <1>7, RestKeepsBacked DEF RequestPEP, store
<1>8. ASSUME NEW r \in Replicas, NEW t \in Tokens, NEW u \in Users, NEW c \in Codes,
             ConfirmPEP(r, t, u, c)
      PROVE  RecordBacked'
  BY <1>8, RestKeepsBacked DEF ConfirmPEP, store
<1>9. ASSUME NEW r \in Replicas, PutObject(r)
      PROVE  RecordBacked'
  <2> DEFINE d == job[r].doc
             x == WithFile(docs[r][job[r].doc], job[r].content)
  <2>1. /\ d \in Docs /\ docs[r][d] \in Record
        /\ job[r].content \in Contents /\ docs[r][d].status = "draft"
    BY <1>9 DEF PutObject, At, JobsOK, JobOf, DocSteps
  <2>2. x \in Document /\ x.status = "draft"
    BY <2>1, ContentUpdate, RecordFields
  <2>3. docs' \in {docs, Cached(r, d, x)} /\ UNCHANGED <<documents, outbox, signatures>>
    BY <1>9 DEF PutObject
  <2> HIDE DEF d, x
  <2>4. BackedIn(DOMAIN signatures', d, x)
    BY <2>2, EarlyBacked DEF PastSent
  <2> QED BY <2>1, <2>2, <2>3, <2>4, CachingKeepsBacked
<1>10. ASSUME NEW r \in Replicas, RecordStatus(r)
      PROVE  RecordBacked'
  <2>1. job[r].doc \in Docs /\ docs[r][job[r].doc] \in Record
    BY <1>10 DEF RecordStatus, At, JobsOK, JobOf, DocSteps
  <2>2. PICK o \in Outcomes : SaveStatus(r, job[r].doc, o)
    BY <1>10 DEF RecordStatus
  <2> QED BY <1>10, <2>1, <2>2, SaveStatusKeepsBacked DEF RecordStatus
<1>11. ASSUME NEW r \in Replicas, SaveSigningLink(r)
      PROVE  RecordBacked'
  <2> DEFINE d == job[r].doc
             x == WithStatus(docs[r][job[r].doc], "sent")
  <2>1. /\ d \in Docs /\ docs[r][d] \in Record
    BY <1>11 DEF SaveSigningLink, At, JobsOK, JobOf, DocSteps
  <2>2. x \in Document /\ x.status = "sent"
    BY <2>1, StatusUpdate, RecordFields DEF Statuses
  <2>3. docs' \in {docs, Cached(r, d, x)} /\ UNCHANGED <<documents, outbox, signatures>>
    BY <1>11 DEF SaveSigningLink
  <2> HIDE DEF d, x
  <2>4. BackedIn(DOMAIN signatures', d, x)
    BY <2>2, EarlyBacked DEF PastSent
  <2> QED BY <2>1, <2>2, <2>3, <2>4, CachingKeepsBacked
<1>12. ASSUME NEW r \in Replicas, SendStatus(r)
      PROVE  RecordBacked'
  <2>1. job[r].doc \in Docs /\ docs[r][job[r].doc] \in Record
    BY <1>12 DEF SendStatus, At, JobsOK, JobOf, DocSteps
  <2>2. PICK o \in Outcomes : SaveStatus(r, job[r].doc, o)
    BY <1>12 DEF SendStatus
  <2> QED BY <1>12, <2>1, <2>2, SaveStatusKeepsBacked DEF SendStatus
<1>13. ASSUME NEW r \in Replicas, SaveOTP(r)
      PROVE  RecordBacked'
  BY <1>13, RestKeepsBacked DEF SaveOTP
<1>14. ASSUME NEW r \in Replicas, LoadDocument(r)
      PROVE  RecordBacked'
  <2> DEFINE d == job[r].doc
  <2>1. docs' = docs \/ (Stored(d) /\ docs' = Cached(r, d, documents[d]))
    BY <1>14 DEF LoadDocument
  <2>2. UNCHANGED <<documents, outbox, signatures>>
    BY <1>14 DEF LoadDocument, store
  <2>3. CASE docs' = docs
    BY <2>2, <2>3, RestKeepsBacked
  <2>4. CASE docs' = Cached(r, d, documents[d])
    <3>1. d \in Docs
      BY <1>14, LinkAssumption DEF LoadDocument, At, JobsOK, JobOf, CodeSteps
    <3>2. documents[d] \in Document /\ Backed(d, documents[d])
      BY <3>1 DEF RecordBacked
    <3>3. BackedIn(DOMAIN signatures', d, documents[d])
      BY <2>2, <3>2 DEF Backed, BackedIn, SignedBy
    <3> QED BY <2>2, <2>4, <3>1, <3>2, <3>3, CachingKeepsBacked
  <2> QED BY <2>1, <2>3, <2>4
<1>15. ASSUME NEW r \in Replicas, TryOTP(r)
      PROVE  RecordBacked'
  BY <1>15, RestKeepsBacked DEF TryOTP
<1>16. ASSUME NEW r \in Replicas, TryMiss(r)
      PROVE  RecordBacked'
  BY <1>16, RestKeepsBacked DEF TryMiss
<1>17. ASSUME NEW r \in Replicas, CheckOTP(r)
      PROVE  RecordBacked'
  BY <1>17, RestKeepsBacked DEF CheckOTP
<1>18. ASSUME NEW r \in Replicas, CheckMiss(r)
      PROVE  RecordBacked'
  BY <1>18, RestKeepsBacked DEF CheckMiss
<1>19. ASSUME NEW r \in Replicas, SignPEP(r)
      PROVE  RecordBacked'
  <2> DEFINE d == job[r].doc
             h == docs[r][d].hash
             x == WithStatus(docs[r][d], "pep_signed")
  <2>1. d \in Docs /\ docs[r][d] \in Record /\ docs[r][d].status = "sent"
    BY <1>19 DEF SignPEP, At, JobsOK, JobOf, DocSteps
  <2>2. x \in Document /\ x.status = "pep_signed" /\ x.hash = h /\ h \in Contents
    BY <2>1, StatusUpdate, RecordFields DEF Statuses
  <2>3. UNCHANGED <<documents, outbox>>
    BY <1>19 DEF SignPEP
  <2>4. PICK o \in Outcomes :
           /\ SaveSignature(SignatureOf(d, "PEP", h), o)
           /\ docs' = IF o = "ok" THEN Cached(r, d, x) ELSE docs
    BY <1>19 DEF SignPEP
  <2>5. SignatureOf(d, "PEP", h) \in Signature /\ SignatureRows
    BY <2>1, <2>2, SignatureType DEF SignatureRows
  <2>6. /\ DOMAIN signatures \subseteq DOMAIN signatures'
        /\ Commits(o) => SignatureOf(d, "PEP", h) \in DOMAIN signatures'
    BY <2>4, <2>5, SaveSignatureType
  <2>7. Backed(d, docs[r][d])
    BY <2>1 DEF RecordBacked
  <2> HIDE DEF d, h, x
  <2>8. CASE docs' = docs
    <3>1. documents[d] \in Document /\ BackedIn(DOMAIN signatures', d, documents[d])
      BY <2>1, <2>6, SignaturesStay DEF RecordBacked
    <3> QED BY <2>1, <2>3, <2>6, <2>8, <3>1, CachingKeepsBacked
  <2>9. CASE o = "ok" /\ docs' = Cached(r, d, x)
    <3>1. SignatureOf(d, "PEP", h) \in DOMAIN signatures'
      BY <2>6, <2>9 DEF Commits
    <3>2. BackedIn(DOMAIN signatures', d, x)
      BY <2>2, <3>1 DEF BackedIn
    <3> QED BY <2>1, <2>2, <2>3, <2>6, <2>9, <3>2, CachingKeepsBacked
  <2> QED BY <2>4, <2>8, <2>9
<1>20. ASSUME NEW r \in Replicas, UseSigningLink(r)
      PROVE  RecordBacked'
  BY <1>20, RestKeepsBacked DEF UseSigningLink
<1>21. ASSUME NEW r \in Replicas, PepStatus(r)
      PROVE  RecordBacked'
  <2>1. job[r].doc \in Docs /\ docs[r][job[r].doc] \in Record
    BY <1>21 DEF PepStatus, At, JobsOK, JobOf, DocSteps
  <2>2. PICK o \in Outcomes : SaveStatus(r, job[r].doc, o)
    BY <1>21 DEF PepStatus
  <2> QED BY <1>21, <2>1, <2>2, SaveStatusKeepsBacked DEF PepStatus
<1>22. ASSUME NEW r \in Replicas, SignUKEP(r)
      PROVE  RecordBacked'
  <2> DEFINE d == job[r].doc
             h == docs[r][d].hash
             x == WithStatus(docs[r][d], "completed")
  <2>1. d \in Docs /\ docs[r][d] \in Record /\ docs[r][d].status = "awaiting_ukep"
    BY <1>22 DEF SignUKEP, At, JobsOK, JobOf, DocSteps
  <2>2. x \in Document /\ x.status = "completed" /\ x.hash = h /\ h \in Contents
    BY <2>1, StatusUpdate, RecordFields DEF Statuses
  <2>3. UNCHANGED <<documents, outbox>>
    BY <1>22 DEF SignUKEP
  <2>4. PICK o \in Outcomes :
           /\ SaveSignature(SignatureOf(d, "UKEP", h), o)
           /\ docs' = IF o = "ok" THEN Cached(r, d, x) ELSE docs
    BY <1>22 DEF SignUKEP
  <2>5. SignatureOf(d, "UKEP", h) \in Signature /\ SignatureRows
    BY <2>1, <2>2, SignatureType DEF SignatureRows
  <2>6. /\ DOMAIN signatures \subseteq DOMAIN signatures'
        /\ Commits(o) => SignatureOf(d, "UKEP", h) \in DOMAIN signatures'
    BY <2>4, <2>5, SaveSignatureType
  <2>7. Backed(d, docs[r][d])
    BY <2>1 DEF RecordBacked
  <2> HIDE DEF d, h, x
  <2>8. CASE docs' = docs
    <3>1. documents[d] \in Document /\ BackedIn(DOMAIN signatures', d, documents[d])
      BY <2>1, <2>6, SignaturesStay DEF RecordBacked
    <3> QED BY <2>1, <2>3, <2>6, <2>8, <3>1, CachingKeepsBacked
  <2>9. CASE o = "ok" /\ docs' = Cached(r, d, x)
    <3>1. SignatureOf(d, "UKEP", h) \in DOMAIN signatures'
      BY <2>6, <2>9 DEF Commits
    <3>2. SignatureOf(d, "PEP", h) \in DOMAIN signatures'
      BY <2>1, <2>6, <2>7 DEF Backed, SignedBy, PastSent, h
    <3>3. BackedIn(DOMAIN signatures', d, x)
      BY <2>2, <3>1, <3>2 DEF BackedIn
    <3> QED BY <2>1, <2>2, <2>3, <2>6, <2>9, <3>3, CachingKeepsBacked
  <2> QED BY <2>4, <2>8, <2>9
<1>23. ASSUME NEW r \in Replicas, Crash(r)
      PROVE  RecordBacked'
  <2>1. UNCHANGED <<documents, outbox, signatures>>
    BY <1>23 DEF Crash, store
  <2>2. ASSUME NEW e \in Docs, NEW q \in Replicas PROVE Backed(e, docs[q][e])'
    <3>1. docs'[q][e] \in {docs[q][e], NoDocument}
      BY <1>23 DEF Crash
    <3>2. Backed(e, docs[q][e]) /\ Backed(e, NoDocument)
      BY DEF RecordBacked, Backed, NoDocument, PastSent
    <3> QED BY <2>1, <3>1, <3>2 DEF Backed, SignedBy
  <2> QED BY <2>1, <2>2 DEF RecordBacked, Backed, SignedBy
<1>24. ASSUME NEW t \in Tokens, ExpireLink(t)
      PROVE  RecordBacked'
  BY <1>24, RestKeepsBacked DEF ExpireLink, memory, store
<1>25. ASSUME NEW t \in Tokens, ExpireOTP(t)
      PROVE  RecordBacked'
  BY <1>25, RestKeepsBacked DEF ExpireOTP, memory
<1>26. ASSUME CleanupExpired
      PROVE  RecordBacked'
  BY <1>26, RestKeepsBacked DEF CleanupExpired, memory
<1>27. CASE UNCHANGED vars
  BY <1>27, RestKeepsBacked DEF vars, memory, store
<1> QED
  BY <1>1, <1>2, <1>3, <1>4, <1>5, <1>6, <1>7, <1>8, <1>9, <1>10, <1>11, <1>12, <1>13, <1>14,
     <1>15, <1>16, <1>17, <1>18, <1>19, <1>20, <1>21, <1>22, <1>23, <1>24, <1>25, <1>26, <1>27
  DEF Next, Request, Step

\* Nothing is signed at the start, and nothing claims it.
LEMMA BackedInit == Init => RecordBacked
BY DEF Init, RecordBacked, Backed, NoDocument, PastSent

\* In every behaviour, with any number of replicas, crashes and failed calls, no
\* row, cached document or announced status claims a signature that the table
\* of signatures does not hold for exactly that content.
THEOREM RecordsAreBacked == Spec => []RecordBacked
<1>1. Init => TypeOK /\ JobsOK /\ RecordBacked
  BY TypeInit, BackedInit
<1>2. TypeOK /\ JobsOK /\ RecordBacked /\ [Next]_vars => (TypeOK /\ JobsOK /\ RecordBacked)'
  BY TypeStep, JobStep, BackedStep
<1> QED BY <1>1, <1>2, PTL DEF Spec

----------------------------------------------------------------------------
(* Which step changes what.                                                *)

\* What a step of replica r does to the requests, links and codes: the four calls
\* that go on to, and the few steps that write, what the invariants below count.
Moved(r) ==
    /\ \A q \in Replicas : q # r => job'[q] = job[q]
    /\ job'[r].pc = "saveLink" => \E t \in Tokens : Send(r, t)
    /\ job'[r].pc = "signPEP" => CheckOTP(r)
    /\ job'[r].pc = "pepStatus" => UseSigningLink(r)
    /\ tokens' = tokens \/ Crash(r) \/ \E t \in Tokens : Send(r, t)
    /\ signingLinks' = signingLinks \/ SaveSigningLink(r) \/ UseSigningLink(r)
    /\ sentVersion' = sentVersion \/ SaveSigningLink(r)
    /\ confirmed' = confirmed \/ PepStatus(r)
    /\ signedVia' = signedVia \/ SignPEP(r)
    /\ \/ SaveOTP(r)
       \/ /\ codesIssued' = codesIssued
          /\ \A t \in Tokens : otpChallenges[t] = NoChallenge => otpChallenges'[t] = NoChallenge

\* Every step of a replica is such a move.
LEMMA ReplicaMoves ==
    ASSUME TypeOK, JobsOK, NEW r \in Replicas, Request(r) \/ Step(r) \/ Crash(r)
    PROVE  Moved(r)
<1> USE DEF TypeOK, Moved, history, store
<1>0. job[r] \in Job /\ \A q \in Replicas : job[q] \in Job
  OBVIOUS
<1>1. ASSUME NEW d \in Docs, NEW c \in Contents, CreateDocument(r, d, c) \/ Upload(r, d, c)
      PROVE  Moved(r)
  BY <1>1 DEF CreateDocument, Upload, Free, Idle
<1>2. ASSUME NEW d \in Docs, Download(r, d) \/ StartUKEP(r, d) \/ CompleteUKEP(r, d)
      PROVE  Moved(r)
  BY <1>2, ZenonT(40) DEF Download, StartUKEP, CompleteUKEP, Free, Idle
<1>3. ASSUME NEW t \in Tokens, Send(r, t)
      PROVE  Moved(r)
  <2>1. /\ \A q \in Replicas : q # r => job'[q] = job[q]
        /\ job'[r].pc = "saveLink"
        /\ UNCHANGED <<store, history>>
    BY <1>3 DEF Send, Idle
  <2> QED  BY <1>3, <2>1
<1>4. ASSUME NEW t \in Tokens, NEW c \in Codes, RequestPEP(r, t, c)
      PROVE  Moved(r)
  BY <1>4 DEF RequestPEP, Idle
<1>5. ASSUME NEW t \in Tokens, NEW u \in Users, NEW c \in Codes, ConfirmPEP(r, t, u, c)
      PROVE  Moved(r)
  BY <1>5 DEF ConfirmPEP, FirstCheck, Idle
<1>6. CASE PutObject(r)
  BY <1>6 DEF PutObject, Continue, Goto, Finish, Idle, Job
<1>7. CASE RecordStatus(r)
  BY <1>7 DEF RecordStatus, Finish, Idle
<1>8. CASE SaveSigningLink(r)
  <2>1. /\ \A q \in Replicas : q # r => job'[q] = job[q]
        /\ job'[r].pc \in {"sendStatus", "idle"}
    BY <1>8 DEF SaveSigningLink, Continue, Goto, Finish, Idle, Job
  <2>2. UNCHANGED <<tokens, otpChallenges, codesIssued, confirmed, signedVia>>
    BY <1>8 DEF SaveSigningLink
  <2> QED  BY <1>8, <2>1, <2>2
<1>9. CASE SendStatus(r)
  BY <1>9 DEF SendStatus, Finish, Idle
<1>10. CASE SaveOTP(r)
  BY <1>10 DEF SaveOTP, Finish, Idle
<1>11. CASE LoadDocument(r)
  BY <1>11 DEF LoadDocument, Goto, FirstCheck, Job
<1>12. CASE TryOTP(r)
  <2>1. /\ \A q \in Replicas : q # r => job'[q] = job[q]
        /\ job'[r].pc \in {"tryMiss", "checkOTP"}
    BY <1>12 DEF TryOTP, Job
  <2>2. \A t \in Tokens : otpChallenges[t] = NoChallenge => otpChallenges'[t] = NoChallenge
    BY <1>12 DEF TryOTP, DeleteOTP
  <2> QED  BY <1>12, <2>1, <2>2 DEF TryOTP
<1>13. CASE TryMiss(r)
  BY <1>13 DEF TryMiss, CountMiss, Missed, Goto, Job
<1>14. CASE CheckOTP(r)
  <2>1. /\ \A q \in Replicas : q # r => job'[q] = job[q]
        /\ job'[r].pc \in {"checkMiss", "signPEP", "idle"}
    BY <1>14 DEF CheckOTP, Goto, Finish, Idle, Job
  <2>2. \A t \in Tokens : otpChallenges[t] = NoChallenge => otpChallenges'[t] = NoChallenge
    BY <1>14 DEF CheckOTP, DeleteOTP
  <2>3. UNCHANGED <<tokens, signingLinks, sentVersion, confirmed, signedVia, codesIssued>>
    BY <1>14 DEF CheckOTP
  <2> QED  BY <1>14, <2>1, <2>2, <2>3
<1>15. CASE CheckMiss(r)
  BY <1>15 DEF CheckMiss, CountMiss, Missed, Finish, Idle
<1>16. CASE SignPEP(r)
  <2>1. /\ \A q \in Replicas : q # r => job'[q] = job[q]
        /\ job'[r].pc \in {"useLink", "idle"}
    BY <1>16 DEF SignPEP, Continue, Goto, Finish, Idle, Job
  <2>2. UNCHANGED <<tokens, signingLinks, otpChallenges, sentVersion, codesIssued, confirmed>>
    BY <1>16 DEF SignPEP
  <2> QED  BY <1>16, <2>1, <2>2
<1>17. CASE UseSigningLink(r)
  <2>1. /\ \A q \in Replicas : q # r => job'[q] = job[q]
        /\ job'[r].pc \in {"pepStatus", "idle"}
    BY <1>17 DEF UseSigningLink, Goto, Finish, Idle, Job
  <2>2. UNCHANGED <<tokens, otpChallenges, sentVersion, codesIssued, confirmed, signedVia>>
    BY <1>17 DEF UseSigningLink
  <2> QED  BY <1>17, <2>1, <2>2
<1>18. CASE PepStatus(r)
  <2>1. /\ \A q \in Replicas : q # r => job'[q] = job[q]
        /\ job'[r].pc = "idle"
    BY <1>18 DEF PepStatus, Finish, Idle
  <2>2. UNCHANGED <<tokens, signingLinks, otpChallenges, sentVersion, codesIssued, signedVia>>
    BY <1>18 DEF PepStatus
  <2> QED  BY <1>18, <2>1, <2>2
<1>19. CASE SignUKEP(r)
  BY <1>19 DEF SignUKEP, Continue, Goto, Finish, Idle, Job
<1>20. CASE Crash(r)
  <2>1. /\ \A q \in Replicas : q # r => job'[q] = job[q]
        /\ job'[r].pc = "idle"
    BY <1>20 DEF Crash, Finish, Idle
  <2> QED  BY <1>20, <2>1 DEF Crash
<1> QED
  BY <1>1, <1>2, <1>3, <1>4, <1>5, <1>6, <1>7, <1>8, <1>9, <1>10, <1>11, <1>12, <1>13, <1>14,
     <1>15, <1>16, <1>17, <1>18, <1>19, <1>20
  DEF Request, Step

----------------------------------------------------------------------------
(* Links.                                                                  *)

\* The row of the link says that it was used.
Spent(t) == signingLinks[t] \in {"used", "purged"}

\* A token is drawn by one replica, its row is written once, and between the
\* update that uses the link and the end of the request it has one user.
LinksOK ==
    /\ \A q, r \in Replicas : q # r => tokens[q] \cap tokens[r] = {}
    /\ \A r \in Replicas : At(r, "saveLink") =>
          job[r].token \in tokens[r] /\ signingLinks[job[r].token] = "none"
    /\ \A r \in Replicas : At(r, "pepStatus") =>
          Spent(job[r].token) /\ confirmed[job[r].token] = 0
    /\ \A q, r \in Replicas : At(q, "pepStatus") /\ At(r, "pepStatus") /\ q # r =>
          job[q].token # job[r].token
    /\ \A t \in Tokens : confirmed[t] = 0 \/ (confirmed[t] = 1 /\ Spent(t))

\* A step that neither saves, uses nor confirms a link, and starts none of the
\* calls that do, keeps LinksOK.
LEMMA LinksStay ==
    ASSUME TypeOK, JobsOK, LinksOK, NEW r \in Replicas,
           \A q \in Replicas : q # r => job'[q] = job[q],
           job'[r].pc \notin {"saveLink", "pepStatus"},
           \A q \in Replicas : tokens'[q] \subseteq tokens[q],
           \A q \in Replicas : q # r => tokens'[q] = tokens[q],
           UNCHANGED <<signingLinks, confirmed>>
    PROVE  LinksOK'
BY DEF LinksOK, Spent, At

\* Every step keeps LinksOK.
LEMMA LinksStep == TypeOK /\ JobsOK /\ LinksOK /\ [Next]_vars => LinksOK'
<1> SUFFICES ASSUME TypeOK, JobsOK, LinksOK, [Next]_vars PROVE LinksOK'
  OBVIOUS
<1> USE DEF TypeOK
<1>1. ASSUME NEW r \in Replicas, Request(r) \/ Step(r) \/ Crash(r)
      PROVE  LinksOK'
  <2>1. Moved(r)
    BY <1>1, ReplicaMoves
  <2>2. ASSUME NEW t \in Tokens, Send(r, t)
        PROVE  LinksOK'
    <3>1. /\ \A q \in Replicas : tokens'[q] = IF q = r THEN tokens[r] \cup {t} ELSE tokens[q]
          /\ \A q \in Replicas : t \notin tokens[q]
          /\ signingLinks[t] = "none"
          /\ job'[r].token = t /\ job'[r].pc = "saveLink"
          /\ \A q \in Replicas : q # r => job'[q] = job[q]
          /\ UNCHANGED <<signingLinks, confirmed>>
      BY <2>2 DEF Send, FreshToken, Idle, store, history
    <3> HIDE DEF TypeOK
    <3>2. \A p, q \in Replicas : p # q => tokens'[p] \cap tokens'[q] = {}
      BY <3>1 DEF LinksOK
    <3>3. \A q \in Replicas : At(q, "saveLink")' =>
             job'[q].token \in tokens'[q] /\ signingLinks'[job'[q].token] = "none"
      BY <3>1 DEF LinksOK, At
    <3>4. \A q \in Replicas : At(q, "pepStatus")' =>
             q # r /\ At(q, "pepStatus") /\ job'[q] = job[q]
      BY <3>1 DEF At
    <3> QED  BY <3>1, <3>2, <3>3, <3>4 DEF LinksOK, Spent
  <2>3. CASE SaveSigningLink(r)
    <3> DEFINE t == job[r].token
    <3>1. /\ t \in tokens[r] /\ t \in Tokens /\ signingLinks[t] = "none"
          /\ confirmed[t] = 0
      BY <2>3 DEF SaveSigningLink, At, LinksOK, Spent, JobsOK, JobOf, LinkSteps
    <3>2. /\ signingLinks' \in {signingLinks, [signingLinks EXCEPT ![t] = "open"]}
          /\ UNCHANGED <<tokens, confirmed>>
      BY <2>3 DEF SaveSigningLink
    <3>3. job'[r].pc \in {"sendStatus", "idle"}
      BY <2>3 DEF SaveSigningLink, Continue, Goto, Finish, Idle, Job
    <3>4. \A q \in Replicas : q # r => job'[q] = job[q]
      BY <2>1 DEF Moved
    <3> HIDE DEF t
    <3>5. \A u \in Tokens : u # t => signingLinks'[u] = signingLinks[u]
      BY <3>2
    <3>6. \A q \in Replicas : At(q, "saveLink")' =>
             /\ q # r /\ At(q, "saveLink") /\ job'[q].token \in tokens[q] /\ job'[q].token # t
             /\ signingLinks'[job'[q].token] = "none"
      BY <3>1, <3>3, <3>4, <3>5 DEF At, LinksOK
    <3>7. \A u \in Tokens : Spent(u) => Spent(u)'
      BY <3>1, <3>5 DEF Spent
    <3>8. \A q \in Replicas : At(q, "pepStatus")' =>
             /\ q # r /\ At(q, "pepStatus") /\ job'[q] = job[q] /\ job[q].token \in Tokens
      BY <3>3, <3>4 DEF At, JobsOK, JobOf, LinkSteps
    <3> QED  BY <3>2, <3>6, <3>7, <3>8 DEF LinksOK
  <2>4. CASE UseSigningLink(r)
    <3> DEFINE t == job[r].token
    <3>1. t \in Tokens
      BY <2>4 DEF UseSigningLink, At, JobsOK, JobOf, LinkSteps
    <3>2. \A q \in Replicas : q # r => job'[q] = job[q]
      BY <2>1 DEF Moved
    <3>3. UNCHANGED <<tokens, confirmed>>
      BY <2>4 DEF UseSigningLink, history
    <3> PICK o \in Outcomes :
           /\ signingLinks' = IF Commits(o) /\ signingLinks[t] = "open"
                              THEN [signingLinks EXCEPT ![t] = "used"] ELSE signingLinks
           /\ IF o = "ok" /\ signingLinks[t] = "open" THEN Goto(r, "pepStatus") ELSE Finish(r)
      BY <2>4 DEF UseSigningLink
    <3>4. /\ \A u \in Tokens : u # t => signingLinks'[u] = signingLinks[u]
          /\ \A u \in Tokens : signingLinks[u] # "open" => signingLinks'[u] = signingLinks[u]
      <4>1. \/ signingLinks' = signingLinks
            \/ signingLinks[t] = "open" /\ signingLinks' = [signingLinks EXCEPT ![t] = "used"]
        OBVIOUS
      <4> QED  BY <3>1, <4>1
    <3>5. job'[r].pc \in {"pepStatus", "idle"}
      BY <2>4 DEF UseSigningLink, Goto, Finish, Idle, Job
    <3>6. job'[r].pc = "pepStatus" =>
             signingLinks[t] = "open" /\ signingLinks'[t] = "used" /\ job'[r].token = t
      <4>1. job'[r].pc = "pepStatus" => o = "ok" /\ signingLinks[t] = "open" /\ Goto(r, "pepStatus")
        BY DEF Finish, Idle
      <4>2. Goto(r, "pepStatus") => job'[r].token = t
        BY DEF Goto, Job
      <4> QED  BY <3>1, <4>1, <4>2 DEF Commits
    <3> HIDE DEF t, TypeOK
    <3>7. \A u \in Tokens : Spent(u) => Spent(u)'
      BY <3>4 DEF Spent
    <3>8. signingLinks[t] = "open" =>
             /\ confirmed[t] = 0
             /\ \A q \in Replicas : At(q, "pepStatus") => job[q].token # t
      BY <3>1 DEF LinksOK, Spent
    <3>9. \A q \in Replicas : At(q, "saveLink")' =>
             job'[q].token \in tokens'[q] /\ signingLinks'[job'[q].token] = "none"
      <4>1. \A q \in Replicas : At(q, "saveLink") => job[q].token \in Tokens
        BY DEF At, JobsOK, JobOf, LinkSteps
      <4> QED  BY <3>2, <3>3, <3>4, <3>5, <4>1 DEF At, LinksOK
    <3>10. \A q \in Replicas : At(q, "pepStatus")' =>
             /\ q # r => /\ At(q, "pepStatus")
                         /\ job'[q].token = job[q].token /\ job[q].token \in Tokens
             /\ q = r => job'[q].token = t /\ signingLinks[t] = "open" /\ signingLinks'[t] = "used"
      <4>1. \A q \in Replicas : At(q, "pepStatus") => job[q].token \in Tokens
        BY DEF At, JobsOK, JobOf, LinkSteps
      <4> QED  BY <3>2, <3>6, <4>1 DEF At
    <3>11. \A q \in Replicas : At(q, "pepStatus")' =>
             Spent(job[q].token)' /\ confirmed'[job'[q].token] = 0
      BY <3>1, <3>3, <3>7, <3>8, <3>10 DEF LinksOK, Spent
    <3>12. \A p, q \in Replicas : At(p, "pepStatus")' /\ At(q, "pepStatus")' /\ p # q =>
             job'[p].token # job'[q].token
      BY <3>8, <3>10 DEF LinksOK
    <3> QED  BY <3>3, <3>7, <3>9, <3>11, <3>12 DEF LinksOK
  <2>5. CASE PepStatus(r)
    <3> DEFINE t == job[r].token
    <3>1. t \in Tokens /\ confirmed[t] = 0 /\ Spent(t)
      BY <2>5 DEF PepStatus, At, JobsOK, JobOf, LinkSteps, LinksOK
    <3>2. job'[r].pc = "idle" /\ \A q \in Replicas : q # r => job'[q] = job[q]
      BY <2>5 DEF PepStatus, Finish, Idle
    <3>3. /\ confirmed' \in {confirmed, [confirmed EXCEPT ![t] = @ + 1]}
          /\ UNCHANGED <<tokens, signingLinks>>
      BY <2>5 DEF PepStatus
    <3>4. \A q \in Replicas :
             q # r /\ At(q, "pepStatus") => job[q].token # t /\ job[q].token \in Tokens
      BY <2>5 DEF PepStatus, LinksOK, At, JobsOK, JobOf, LinkSteps
    <3> HIDE DEF t
    <3>5. /\ \A u \in Tokens : u # t => confirmed'[u] = confirmed[u]
          /\ confirmed'[t] \in {0, 1}
      BY <3>1, <3>3
    <3>6. \A q \in Replicas : At(q, "pepStatus")' => q # r /\ At(q, "pepStatus") /\ job'[q] = job[q]
      BY <3>2 DEF At
    <3>7. \A q \in Replicas : At(q, "saveLink")' => At(q, "saveLink") /\ job'[q] = job[q]
      BY <3>2 DEF At
    <3> QED  BY <3>1, <3>3, <3>4, <3>5, <3>6, <3>7 DEF LinksOK, Spent
  <2>6. CASE Crash(r)
    <3>1. /\ job'[r].pc = "idle"
          /\ \A q \in Replicas : tokens'[q] = IF q = r THEN {} ELSE tokens[q]
          /\ UNCHANGED <<signingLinks, confirmed>>
      BY <2>6 DEF Crash, Finish, Idle, store, history
    <3> QED  BY <2>1, <3>1, LinksStay DEF Moved
  <2>7. CASE ~(\/ SaveSigningLink(r) \/ UseSigningLink(r) \/ PepStatus(r) \/ Crash(r)
               \/ \E t \in Tokens : Send(r, t))
    BY <2>1, <2>7, LinksStay DEF Moved
  <2> QED  BY <2>2, <2>3, <2>4, <2>5, <2>6, <2>7
<1>2. ASSUME NEW t \in Tokens, ExpireLink(t) \/ ExpireOTP(t)
      PROVE  LinksOK'
  BY <1>2 DEF ExpireLink, ExpireOTP, LinksOK, Spent, At, memory, store, history
<1>3. CASE CleanupExpired
  <2>1. /\ \A t \in Tokens : signingLinks'[t] = signingLinks[t]
                             \/ (signingLinks[t] # "none" /\ signingLinks'[t] = "purged")
        /\ UNCHANGED <<job, tokens, confirmed>>
    BY <1>3 DEF CleanupExpired, memory, history
  <2>2. \A r \in Replicas : At(r, "saveLink") \/ At(r, "pepStatus") => job[r].token \in Tokens
    BY DEF At, JobsOK, JobOf, LinkSteps
  <2>3. \A t \in Tokens : Spent(t) => Spent(t)'
    BY <2>1 DEF Spent
  <2> QED  BY <2>1, <2>2, <2>3 DEF LinksOK, At
<1>4. CASE UNCHANGED vars
  BY <1>4 DEF LinksOK, Spent, At, vars, memory, store, history
<1> QED  BY <1>1, <1>2, <1>3, <1>4 DEF Next

\* The invariants that the theorems below share.
LEMMA LinksHold == Spec => [](TypeOK /\ JobsOK /\ LinksOK)
<1>1. Init => LinksOK
  BY DEF Init, LinksOK, At, Idle
<1> QED  BY <1>1, LinksStep, TypeCorrect, PTL DEF Spec

\* In every behaviour and for any number of replicas, at most one ConfirmPEP of a
\* link is answered with success.
THEOREM LinksConfirmOnce == Spec => []OneConfirmationPerLink
<1>1. LinksOK => OneConfirmationPerLink
  BY DEF LinksOK, OneConfirmationPerLink
<1> QED  BY <1>1, LinksHold, PTL

----------------------------------------------------------------------------
(* Codes.                                                                  *)

\* The requests whose code was accepted and that sign next.
Signing(t) == {r \in Replicas : At(r, "signPEP") /\ job[r].token = t}

Live(t) == IF otpChallenges[t] = NoChallenge THEN 0 ELSE 1

\* Each code issued for a link is at one place at most.
CodesCounted ==
    \A t \in Tokens :
       /\ IsFiniteSet(Signing(t))
       /\ Cardinality(Signing(t)) + Len(signedVia[t]) + Live(t) <= codesIssued[t]

\* No place gets a code that was not there.
LEMMA CodesStay ==
    ASSUME TypeOK, CodesCounted, NEW t \in Tokens, Signing(t)' \subseteq Signing(t),
           otpChallenges[t] = NoChallenge => otpChallenges'[t] = NoChallenge,
           signedVia'[t] = signedVia[t], codesIssued'[t] = codesIssued[t]
    PROVE  /\ IsFiniteSet(Signing(t))'
           /\ (Cardinality(Signing(t)) + Len(signedVia[t]) + Live(t) <= codesIssued[t])'
<1>1. /\ IsFiniteSet(Signing(t)) /\ codesIssued[t] \in Nat /\ Len(signedVia[t]) \in Nat
      /\ Cardinality(Signing(t)) + Len(signedVia[t]) + Live(t) <= codesIssued[t]
  BY DEF CodesCounted, TypeOK
<1>2. /\ IsFiniteSet(Signing(t)') /\ Cardinality(Signing(t)') <= Cardinality(Signing(t))
      /\ Cardinality(Signing(t)) \in Nat /\ Cardinality(Signing(t)') \in Nat
  BY <1>1, FS_Subset, FS_CardinalityType
<1>3. Live(t)' <= Live(t) /\ Live(t) \in Nat /\ Live(t)' \in Nat
  BY DEF Live
<1> QED  BY <1>1, <1>2, <1>3

\* Every step keeps CodesCounted.
LEMMA CodesStep == TypeOK /\ TypeOK' /\ JobsOK /\ CodesCounted /\ [Next]_vars => CodesCounted'
<1> SUFFICES ASSUME TypeOK, TypeOK', JobsOK, CodesCounted, [Next]_vars, NEW t \in Tokens
             PROVE  /\ IsFiniteSet(Signing(t))'
                    /\ (Cardinality(Signing(t)) + Len(signedVia[t]) + Live(t) <= codesIssued[t])'
  BY DEF CodesCounted
<1> DEFINE Goal == /\ IsFiniteSet(Signing(t))'
                   /\ (Cardinality(Signing(t)) + Len(signedVia[t]) + Live(t) <= codesIssued[t])'
<1>0. /\ IsFiniteSet(Signing(t)) /\ Cardinality(Signing(t)) \in Nat
      /\ codesIssued[t] \in Nat /\ Len(signedVia[t]) \in Nat /\ Live(t) \in {0, 1}
      /\ Cardinality(Signing(t)) + Len(signedVia[t]) + Live(t) <= codesIssued[t]
  BY FS_CardinalityType DEF CodesCounted, TypeOK, Live
<1>1. ASSUME NEW r \in Replicas, Request(r) \/ Step(r) \/ Crash(r)
      PROVE  Goal
  <2>1. Moved(r)
    BY <1>1, ReplicaMoves
  <2>2. CASE SaveOTP(r)
    <3>1. /\ signedVia' = signedVia
          /\ \/ otpChallenges' = otpChallenges /\ codesIssued' = codesIssued
             \/ /\ otpChallenges' = [otpChallenges EXCEPT ![job[r].token] = Issued(job[r].code)]
                /\ codesIssued' = [codesIssued EXCEPT ![job[r].token] = @ + 1]
      BY <2>2 DEF SaveOTP
    <3>2. job'[r].pc = "idle"
      BY <2>2 DEF SaveOTP, Finish, Idle, TypeOK
    <3>3. Signing(t)' \subseteq Signing(t)
      BY <2>1, <3>2 DEF Signing, At, Moved
    <3>4. CASE otpChallenges'[t] = otpChallenges[t] /\ codesIssued'[t] = codesIssued[t]
      BY <3>1, <3>3, <3>4, CodesStay
    <3>5. CASE codesIssued'[t] = codesIssued[t] + 1
      <4>1. /\ IsFiniteSet(Signing(t)') /\ Cardinality(Signing(t)') <= Cardinality(Signing(t))
            /\ Cardinality(Signing(t)') \in Nat
        BY <1>0, <3>3, FS_Subset, FS_CardinalityType
      <4>2. Live(t)' \in {0, 1} /\ signedVia'[t] = signedVia[t]
        BY <3>1 DEF Live
      <4> QED  BY <1>0, <3>5, <4>1, <4>2
    <3>6. \/ otpChallenges'[t] = otpChallenges[t] /\ codesIssued'[t] = codesIssued[t]
          \/ codesIssued'[t] = codesIssued[t] + 1
      BY <3>1 DEF TypeOK
    <3> QED  BY <3>4, <3>5, <3>6
  <2>3. CASE CheckOTP(r)
    <3>1. UNCHANGED <<signedVia, codesIssued>> /\ At(r, "checkOTP")
      BY <2>3 DEF CheckOTP, history
    <3> PICK o \in Outcomes :
           /\ DeleteOTP(r, o)
           /\ IF o = "ok" /\ ~Matches(otpChallenges[job[r].token], job[r].code)
              THEN Goto(r, "checkMiss")
              ELSE IF o = "ok" /\ Signable(r) THEN Goto(r, "signPEP") ELSE Finish(r)
      BY <2>3 DEF CheckOTP
    <3>2. \A u \in Tokens : otpChallenges[u] = NoChallenge => otpChallenges'[u] = NoChallenge
      BY DEF DeleteOTP, TypeOK
    <3>3. CASE job'[r].pc = "signPEP" /\ job'[r].token = t
      <4>1. /\ o = "ok" /\ Matches(otpChallenges[job[r].token], job[r].code)
            /\ job'[r].token = job[r].token
        BY <3>3 DEF Goto, Finish, Idle, TypeOK, Job
      <4>2. job[r].token = t /\ job[r].code \in Codes
        BY <3>1, <3>3, <4>1 DEF At, JobsOK, JobOf, CodeSteps
      <4>3. otpChallenges[t] # NoChallenge /\ otpChallenges'[t] = NoChallenge
        BY <4>1, <4>2, CodesAssumption DEF DeleteOTP, Commits, Matches, NoChallenge, TypeOK
      <4>4. Signing(t)' = Signing(t) \cup {r} /\ r \notin Signing(t)
        BY <2>1, <3>1, <3>3 DEF Signing, At, Moved
      <4>5. /\ IsFiniteSet(Signing(t)')
            /\ Cardinality(Signing(t)') = Cardinality(Signing(t)) + 1
        BY <1>0, <4>4, FS_AddElement
      <4>6. Live(t) = 1 /\ Live(t)' = 0
        BY <4>3 DEF Live
      <4> QED  BY <1>0, <3>1, <4>5, <4>6
    <3>4. CASE ~(job'[r].pc = "signPEP" /\ job'[r].token = t)
      <4>1. Signing(t)' \subseteq Signing(t)
        BY <2>1, <3>4 DEF Signing, At, Moved
      <4> QED  BY <3>1, <3>2, <4>1, CodesStay
    <3> QED  BY <3>3, <3>4
  <2>4. CASE SignPEP(r)
    <3> DEFINE h == docs[r][job[r].doc].hash
    <3>1. /\ At(r, "signPEP") /\ job[r].token \in Tokens /\ h \in Contents
          /\ UNCHANGED <<otpChallenges, codesIssued>>
      BY <2>4, RecordFields DEF SignPEP, At, JobsOK, JobOf, DocSteps, LinkSteps
    <3>2. job'[r].pc \in {"useLink", "idle"}
      BY <2>4 DEF SignPEP, Continue, Goto, Finish, Idle, TypeOK, Job
    <3>3. signedVia' \in {signedVia, [signedVia EXCEPT ![job[r].token] = Append(@, h)]}
      BY <2>4 DEF SignPEP
    <3> HIDE DEF h
    <3>4. CASE job[r].token = t
      <4>1. Signing(t)' = Signing(t) \ {r} /\ r \in Signing(t)
        BY <2>1, <3>1, <3>2, <3>4 DEF Signing, At, Moved
      <4>2. /\ IsFiniteSet(Signing(t)')
            /\ Cardinality(Signing(t)') = Cardinality(Signing(t)) - 1
        BY <1>0, <4>1, FS_RemoveElement
      <4>3. /\ signedVia[t] \in Seq(Contents)
            /\ signedVia'[t] \in {signedVia[t], Append(signedVia[t], h)}
        BY <3>3, <3>4 DEF TypeOK
      <4>4. Len(signedVia'[t]) \in Nat /\ Len(signedVia'[t]) <= Len(signedVia[t]) + 1
        BY <3>1, <4>3
      <4>5. Live(t)' = Live(t)
        BY <3>1 DEF Live
      <4> QED  BY <1>0, <3>1, <4>2, <4>4, <4>5
    <3>5. CASE job[r].token # t
      <4>1. Signing(t)' \subseteq Signing(t)
        BY <2>1, <3>2 DEF Signing, At, Moved
      <4>2. signedVia'[t] = signedVia[t]
        BY <3>3, <3>5 DEF TypeOK
      <4> QED  BY <3>1, <4>1, <4>2, CodesStay
    <3> QED  BY <3>4, <3>5
  <2>5. CASE ~(SaveOTP(r) \/ CheckOTP(r) \/ SignPEP(r))
    <3>1. /\ Signing(t)' \subseteq Signing(t)
          /\ UNCHANGED <<signedVia, codesIssued>>
          /\ otpChallenges[t] = NoChallenge => otpChallenges'[t] = NoChallenge
      BY <2>1, <2>5 DEF Signing, At, Moved
    <3> QED  BY <3>1, CodesStay
  <2> QED  BY <2>2, <2>3, <2>4, <2>5
<1>2. CASE CleanupExpired \/ UNCHANGED vars \/ \E u \in Tokens : ExpireLink(u) \/ ExpireOTP(u)
  <2>1. UNCHANGED <<job, signedVia, codesIssued>>
    BY <1>2 DEF CleanupExpired, ExpireLink, ExpireOTP, vars, memory, history
  <2>2. otpChallenges[t] = NoChallenge => otpChallenges'[t] = NoChallenge
    BY <1>2 DEF CleanupExpired, ExpireLink, ExpireOTP, vars, store, TypeOK
  <2>3. Signing(t)' = Signing(t)
    BY <2>1 DEF Signing, At
  <2> QED  BY <2>1, <2>2, <2>3, CodesStay
<1> QED  BY <1>1, <1>2 DEF Next

\* In every behaviour no code that was sent to the contractor signs twice, however
\* many replicas it is submitted to.
THEOREM CodesSignOnce == Spec => []CodeSignsOnce
<1>1. Init => CodesCounted
  <2> SUFFICES ASSUME Init, NEW t \in Tokens
               PROVE  /\ IsFiniteSet(Signing(t))
                      /\ Cardinality(Signing(t)) + Len(signedVia[t]) + Live(t) <= codesIssued[t]
    BY DEF CodesCounted
  <2>1. Signing(t) = {}
    BY DEF Init, Signing, At, Idle
  <2> QED  BY <2>1, FS_EmptySet DEF Init, Live
<1>2. TypeOK /\ CodesCounted => CodeSignsOnce
  <2> SUFFICES ASSUME TypeOK, CodesCounted, NEW t \in Tokens
               PROVE  Len(signedVia[t]) <= codesIssued[t]
    BY DEF CodeSignsOnce
  <2>1. /\ Cardinality(Signing(t)) \in Nat /\ Live(t) \in {0, 1}
        /\ Len(signedVia[t]) \in Nat /\ codesIssued[t] \in Nat
        /\ Cardinality(Signing(t)) + Len(signedVia[t]) + Live(t) <= codesIssued[t]
    BY FS_CardinalityType DEF CodesCounted, TypeOK, Live
  <2> QED  BY <2>1
<1> QED  BY <1>1, <1>2, CodesStep, TypeCorrect, PTL DEF Spec

----------------------------------------------------------------------------
(* Versions.                                                               *)

PastDraft(x) == x.status \notin {"absent", "draft"}

\* The customer sent this version of the document with a link whose row exists.
WasSent(d, h) ==
    \E t \in Tokens : LinkDoc[t] = d /\ sentVersion[t] = h /\ signingLinks[t] # "none"

\* The same of the next state, for values of this one.
IsSentNext(d, h) ==
    \E t \in Tokens : LinkDoc[t] = d /\ sentVersion'[t] = h /\ signingLinks'[t] # "none"

VersionsSent ==
    /\ \A d \in Docs : PastDraft(documents[d]) => WasSent(d, documents[d].hash)
    /\ \A r \in Replicas, d \in Docs : PastDraft(docs[r][d]) => WasSent(d, docs[r][d].hash)
    /\ \A s \in DOMAIN signatures : WasSent(s.doc, s.hash)

\* A link whose row exists keeps its version and its row.
LEMMA SentLinkStays ==
    ASSUME TypeOK, JobsOK, LinksOK, [Next]_vars, NEW t \in Tokens, signingLinks[t] # "none"
    PROVE  sentVersion'[t] = sentVersion[t] /\ signingLinks'[t] # "none"
<1> DEFINE Kept == sentVersion'[t] = sentVersion[t] /\ signingLinks'[t] # "none"
<1>1. ASSUME NEW r \in Replicas, Request(r) \/ Step(r) \/ Crash(r)
      PROVE  Kept
  <2>1. Moved(r)
    BY <1>1, ReplicaMoves
  <2>2. CASE SaveSigningLink(r)
    <3>1. t # job[r].token
      BY <2>2 DEF SaveSigningLink, LinksOK, At
    <3>2. sentVersion'[t] = sentVersion[t]
      BY <2>2, <3>1 DEF SaveSigningLink, TypeOK
    <3>3. signingLinks'[t] = signingLinks[t]
      BY <2>2, <3>1 DEF SaveSigningLink, TypeOK
    <3> QED  BY <3>2, <3>3
  <2>3. CASE UseSigningLink(r)
    <3>1. signingLinks'[t] \in {signingLinks[t], "used"}
      BY <2>3 DEF UseSigningLink, TypeOK
    <3>2. sentVersion' = sentVersion
      BY <2>3 DEF UseSigningLink, history
    <3> QED  BY <3>1, <3>2
  <2> QED  BY <2>1, <2>2, <2>3 DEF Moved
<1>2. ASSUME NEW u \in Tokens, ExpireLink(u) \/ ExpireOTP(u)
      PROVE  Kept
  BY <1>2 DEF ExpireLink, ExpireOTP, store, history
<1>3. ASSUME CleanupExpired PROVE Kept
  <2>1. sentVersion' = sentVersion /\ signingLinks'[t] \in {signingLinks[t], "purged"}
    BY <1>3 DEF CleanupExpired, history
  <2> QED  BY <2>1
<1>4. ASSUME UNCHANGED vars PROVE Kept
  BY <1>4 DEF vars, store, history
<1> QED  BY <1>1, <1>2, <1>3, <1>4 DEF Next

\* A version that was sent stays so: the token of a link whose row exists is not
\* drawn again, and no row of a link goes back to "none".
LEMMA SentStays ==
    ASSUME TypeOK, JobsOK, LinksOK, [Next]_vars, NEW d, NEW h, WasSent(d, h)
    PROVE  WasSent(d, h)'
<1> PICK t \in Tokens : LinkDoc[t] = d /\ sentVersion[t] = h /\ signingLinks[t] # "none"
  BY DEF WasSent
<1>1. sentVersion'[t] = sentVersion[t] /\ signingLinks'[t] # "none"
  BY SentLinkStays
<1> QED  BY <1>1 DEF WasSent

\* The steps that put a document in one cache, and may save a signature, keep it
\* when what they cache and sign was sent.
LEMMA CachingKeepsSent ==
    ASSUME TypeOK, JobsOK, LinksOK, VersionsSent, [Next]_vars,
           NEW r \in Replicas, NEW d \in Docs, NEW x \in Document,
           PastDraft(x) => IsSentNext(d, x.hash),
           docs' \in {docs, Cached(r, d, x)}, UNCHANGED documents,
           \A s \in DOMAIN signatures' : s \in DOMAIN signatures \/ IsSentNext(s.doc, s.hash)
    PROVE  VersionsSent'
<1>1. docs \in Caches
  BY DEF TypeOK, Caches
<1>2. ASSUME NEW e \in Docs, PastDraft(documents[e]) PROVE WasSent(e, documents[e].hash)'
  <2>1. WasSent(e, documents[e].hash)
    BY <1>2 DEF VersionsSent
  <2> DEFINE h == documents[e].hash
  <2>2. documents'[e].hash = h
    OBVIOUS
  <2> HIDE DEF h
  <2> QED  BY <2>1, <2>2, SentStays DEF h
<1>3. ASSUME NEW q \in Replicas, NEW e \in Docs, PastDraft(docs'[q][e])
      PROVE  WasSent(e, docs[q][e].hash)'
  <2>1. docs'[q][e] = docs[q][e] \/ (q = r /\ e = d /\ docs'[q][e] = x)
    BY <1>1, CacheUpdate
  <2>2. CASE docs'[q][e] = docs[q][e]
    <3>1. WasSent(e, docs[q][e].hash)
      BY <1>3, <2>2 DEF VersionsSent
    <3>2. \A h : WasSent(e, h) => WasSent(e, h)'
      BY SentStays
    <3> QED  BY <2>2, <3>1, <3>2 DEF WasSent
  <2>3. CASE q = r /\ e = d /\ docs'[q][e] = x
    BY <1>3, <2>3 DEF WasSent, IsSentNext
  <2> QED  BY <2>1, <2>2, <2>3
<1>4. ASSUME NEW s \in DOMAIN signatures' PROVE WasSent(s.doc, s.hash)'
  <2>1. s \in DOMAIN signatures => WasSent(s.doc, s.hash)
    BY DEF VersionsSent
  <2>2. WasSent(s.doc, s.hash) => WasSent(s.doc, s.hash)'
    BY SentStays
  <2> QED  BY <2>1, <2>2 DEF WasSent, IsSentNext
<1>5. \A e \in Docs : PastDraft(documents[e])' => PastDraft(documents[e])
  BY DEF PastDraft
<1>6. \A q \in Replicas, e \in Docs : PastDraft(docs[q][e])' => PastDraft(docs'[q][e])
  BY DEF PastDraft
<1> QED  BY <1>2, <1>3, <1>4, <1>5, <1>6 DEF VersionsSent

\* The steps that change no record and no signature.
LEMMA RestKeepsSent ==
    ASSUME TypeOK, JobsOK, LinksOK, VersionsSent, [Next]_vars,
           UNCHANGED <<docs, documents, signatures>>
    PROVE  VersionsSent'
<1>1. \A d, h : WasSent(d, h) => WasSent(d, h)'
  BY SentStays
<1>2. \A d \in Docs : PastDraft(documents'[d]) => WasSent(d, documents'[d].hash)
  BY DEF VersionsSent
<1>3. \A r \in Replicas, d \in Docs : PastDraft(docs'[r][d]) => WasSent(d, docs'[r][d].hash)
  BY DEF VersionsSent
<1>4. \A s \in DOMAIN signatures' : WasSent(s.doc, s.hash)
  BY DEF VersionsSent
<1> HIDE DEF WasSent
<1> QED  BY <1>1, <1>2, <1>3, <1>4 DEF VersionsSent, PastDraft, WasSent

\* SaveStatus copies a version that was sent, or a draft.
LEMMA SaveStatusKeepsSent ==
    ASSUME TypeOK, JobsOK, LinksOK, VersionsSent, [Next]_vars,
           NEW r \in Replicas, NEW d \in Docs, NEW o,
           SaveStatus(r, d, o), UNCHANGED <<docs, signatures>>
    PROVE  VersionsSent'
<1>1. \A e, h : WasSent(e, h) => WasSent(e, h)'
  BY SentStays
<1>2. \A e \in Docs : documents'[e] = documents[e] \/ (e = d /\ documents'[e] = docs[r][d])
  BY DEF SaveStatus, TypeOK
<1>3. \A e \in Docs : PastDraft(documents'[e]) => WasSent(e, documents'[e].hash)
  BY <1>2 DEF VersionsSent
<1>4. \A q \in Replicas, e \in Docs : PastDraft(docs'[q][e]) => WasSent(e, docs'[q][e].hash)
  BY DEF VersionsSent
<1>5. \A s \in DOMAIN signatures' : WasSent(s.doc, s.hash)
  BY DEF VersionsSent
<1>6. ASSUME NEW e \in Docs, PastDraft(documents'[e]) PROVE WasSent(e, documents[e].hash)'
  <2> DEFINE h == documents'[e].hash
  <2>1. WasSent(e, h)
    BY <1>3, <1>6
  <2> HIDE DEF h
  <2>2. IsSentNext(e, h)
    BY <1>1, <2>1 DEF WasSent, IsSentNext
  <2> QED  BY <2>2 DEF WasSent, IsSentNext, h
<1>7. ASSUME NEW q \in Replicas, NEW e \in Docs, PastDraft(docs'[q][e])
      PROVE  WasSent(e, docs[q][e].hash)'
  <2> DEFINE h == docs'[q][e].hash
  <2>1. WasSent(e, h)
    BY <1>4, <1>7
  <2> HIDE DEF h
  <2>2. IsSentNext(e, h)
    BY <1>1, <2>1 DEF WasSent, IsSentNext
  <2> QED  BY <2>2 DEF WasSent, IsSentNext, h
<1> QED  BY <1>1, <1>5, <1>6, <1>7 DEF VersionsSent, PastDraft

\* What is loaded or cached was sent, or is a draft.
LEMMA ResidentSent ==
    ASSUME TypeOK, VersionsSent, NEW r \in Replicas, NEW d \in Docs, PastDraft(Resident(r, d))
    PROVE  WasSent(d, Resident(r, d).hash)
BY DEF VersionsSent, Resident

\* The steps after which each record that claims a version is an old one.
LEMMA ClaimsKeepSent ==
    ASSUME VersionsSent, \A e, h : WasSent(e, h) => WasSent(e, h)',
           \A e \in Docs : PastDraft(documents'[e]) => documents'[e] = documents[e],
           \A q \in Replicas, e \in Docs : PastDraft(docs'[q][e]) => docs'[q][e] = docs[q][e],
           signatures' = signatures
    PROVE  VersionsSent'
<1>1. \A e \in Docs : PastDraft(documents'[e]) => WasSent(e, documents'[e].hash)
  BY DEF VersionsSent
<1>2. \A q \in Replicas, e \in Docs : PastDraft(docs'[q][e]) => WasSent(e, docs'[q][e].hash)
  BY DEF VersionsSent
<1>3. \A s \in DOMAIN signatures' : WasSent(s.doc, s.hash)
  BY DEF VersionsSent
<1>4. ASSUME NEW e \in Docs, PastDraft(documents'[e]) PROVE WasSent(e, documents[e].hash)'
  <2> DEFINE h == documents'[e].hash
  <2>1. WasSent(e, h)
    BY <1>1, <1>4
  <2> HIDE DEF h
  <2>2. IsSentNext(e, h)
    BY <2>1 DEF WasSent, IsSentNext
  <2> QED  BY <2>2 DEF WasSent, IsSentNext, h
<1>5. ASSUME NEW q \in Replicas, NEW e \in Docs, PastDraft(docs'[q][e])
      PROVE  WasSent(e, docs[q][e].hash)'
  <2> DEFINE h == docs'[q][e].hash
  <2>1. WasSent(e, h)
    BY <1>2, <1>5
  <2> HIDE DEF h
  <2>2. IsSentNext(e, h)
    BY <2>1 DEF WasSent, IsSentNext
  <2> QED  BY <2>2 DEF WasSent, IsSentNext, h
<1> QED  BY <1>3, <1>4, <1>5 DEF VersionsSent, PastDraft

\* The steps that put a document in one cache that claims a version sent before, or
\* with this step.
LEMMA CachedClaimKeepsSent ==
    ASSUME TypeOK, JobsOK, LinksOK, VersionsSent, [Next]_vars,
           NEW r \in Replicas, NEW d \in Docs, NEW x \in Document,
           PastDraft(x) => WasSent(d, x.hash) \/ IsSentNext(d, x.hash),
           docs' = docs \/ docs' = Cached(r, d, x), UNCHANGED <<documents, signatures>>
    PROVE  VersionsSent'
<1>1. \A h : WasSent(d, h) => WasSent(d, h)'
  BY SentStays
<1>2. PastDraft(x) => IsSentNext(d, x.hash)
  BY <1>1 DEF WasSent, IsSentNext
<1>3. \A s \in DOMAIN signatures' : s \in DOMAIN signatures
  OBVIOUS
<1> QED  BY <1>2, <1>3, CachingKeepsSent

\* The steps that load a document into a cache.
LEMMA ResidentKeepsSent ==
    ASSUME TypeOK, JobsOK, LinksOK, VersionsSent, [Next]_vars,
           NEW r \in Replicas, NEW d \in Docs, Stored(d),
           docs' = Cached(r, d, Resident(r, d)), UNCHANGED <<documents, signatures>>
    PROVE  VersionsSent'
<1>1. Resident(r, d) \in Document
  BY ResidentType, RecordFields DEF TypeOK, Caches
<1> QED  BY <1>1, ResidentSent, CachedClaimKeepsSent

\* Every step keeps VersionsSent.
LEMMA VersionsStep ==
    TypeOK /\ JobsOK /\ LinksOK /\ VersionsSent /\ [Next]_vars => VersionsSent'
<1> SUFFICES ASSUME TypeOK, JobsOK, LinksOK, VersionsSent, [Next]_vars
             PROVE  VersionsSent'
  OBVIOUS
<1>1. ASSUME NEW r \in Replicas, NEW d \in Docs, NEW c \in Contents,
             CreateDocument(r, d, c)
      PROVE  VersionsSent'
  <2>0. \A e, h : WasSent(e, h) => WasSent(e, h)'
    BY SentStays
  <2>1. NewDraft(c) \in Document /\ ~PastDraft(NewDraft(c))
    BY NewDraftType, RecordFields DEF PastDraft
  <2>2. \A e \in Docs : PastDraft(documents'[e]) => documents'[e] = documents[e]
    BY <1>1, <2>1 DEF CreateDocument, TypeOK
  <2>3. \A q \in Replicas, e \in Docs : PastDraft(docs'[q][e]) => docs'[q][e] = docs[q][e]
    <3>1. docs \in Caches /\ docs' = Cached(r, d, NewDraft(c))
      BY <1>1 DEF CreateDocument, Caches, TypeOK
    <3> QED  BY <2>1, <3>1, CacheUpdate
  <2>4. signatures' = signatures
    BY <1>1 DEF CreateDocument
  <2> QED  BY <2>0, <2>2, <2>3, <2>4, ClaimsKeepSent
<1>2. ASSUME NEW r \in Replicas, NEW d \in Docs, NEW c \in Contents, Upload(r, d, c)
      PROVE  VersionsSent'
  <2>1. Stored(d) /\ docs' = Cached(r, d, Resident(r, d)) /\ UNCHANGED <<documents, signatures>>
    BY <1>2 DEF Upload, store
  <2> QED  BY <2>1, ResidentKeepsSent
<1>3. ASSUME NEW r \in Replicas, NEW d \in Docs, Download(r, d)
      PROVE  VersionsSent'
  <2>1. Stored(d) /\ docs' = Cached(r, d, Resident(r, d)) /\ UNCHANGED <<documents, signatures>>
    BY <1>3 DEF Download, store
  <2> QED  BY <2>1, ResidentKeepsSent
<1>4. ASSUME NEW r \in Replicas, NEW d \in Docs, CompleteUKEP(r, d)
      PROVE  VersionsSent'
  <2>1. Stored(d) /\ docs' = Cached(r, d, Resident(r, d)) /\ UNCHANGED <<documents, signatures>>
    BY <1>4 DEF CompleteUKEP, store
  <2> QED  BY <2>1, ResidentKeepsSent
<1>5. ASSUME NEW r \in Replicas, NEW t \in Tokens, Send(r, t)
      PROVE  VersionsSent'
  <2>1. /\ LinkDoc[t] \in Docs /\ Stored(LinkDoc[t])
        /\ docs' = Cached(r, LinkDoc[t], Resident(r, LinkDoc[t]))
        /\ UNCHANGED <<documents, signatures>>
    BY <1>5, LinkAssumption DEF Send, store
  <2> QED  BY <2>1, ResidentKeepsSent
<1>6. ASSUME NEW r \in Replicas, NEW d \in Docs, StartUKEP(r, d)
      PROVE  VersionsSent'
  <2> DEFINE x == WithStatus(Resident(r, d), "awaiting_ukep")
  <2>1. Resident(r, d) \in Record /\ Resident(r, d).status = "pep_signed"
    BY <1>6, ResidentType DEF StartUKEP, Caches, TypeOK
  <2>2. x \in Document /\ x.hash = Resident(r, d).hash
    BY <2>1, StatusUpdate, RecordFields DEF Statuses
  <2>3. WasSent(d, x.hash)
    BY <2>1, <2>2, ResidentSent DEF PastDraft
  <2>4. docs' = Cached(r, d, x) /\ UNCHANGED <<documents, signatures>>
    BY <1>6 DEF StartUKEP, store
  <2> HIDE DEF x
  <2> QED  BY <2>2, <2>3, <2>4, CachedClaimKeepsSent
<1>7. ASSUME NEW r \in Replicas, PutObject(r)
      PROVE  VersionsSent'
  <2> DEFINE d == job[r].doc
             x == WithFile(docs[r][job[r].doc], job[r].content)
  <2>1. /\ d \in Docs /\ docs[r][d] \in Record
        /\ job[r].content \in Contents /\ docs[r][d].status = "draft"
    BY <1>7 DEF PutObject, At, JobsOK, JobOf, DocSteps
  <2>2. x \in Document /\ ~PastDraft(x)
    BY <2>1, ContentUpdate, RecordFields DEF PastDraft
  <2>3. docs' \in {docs, Cached(r, d, x)} /\ UNCHANGED <<documents, signatures>>
    BY <1>7 DEF PutObject
  <2> HIDE DEF d, x
  <2> QED  BY <2>1, <2>2, <2>3, CachedClaimKeepsSent
<1>8. ASSUME NEW r \in Replicas, RecordStatus(r) \/ SendStatus(r) \/ PepStatus(r)
      PROVE  VersionsSent'
  <2>1. job[r].doc \in Docs
    BY <1>8 DEF RecordStatus, SendStatus, PepStatus, At, JobsOK, JobOf, DocSteps
  <2>2. PICK o \in Outcomes : SaveStatus(r, job[r].doc, o)
    BY <1>8 DEF RecordStatus, SendStatus, PepStatus
  <2>3. UNCHANGED <<docs, signatures>>
    BY <1>8 DEF RecordStatus, SendStatus, PepStatus
  <2> QED  BY <2>1, <2>2, <2>3, SaveStatusKeepsSent
<1>9. ASSUME NEW r \in Replicas, SaveSigningLink(r)
      PROVE  VersionsSent'
  <2> DEFINE d == job[r].doc
             t == job[r].token
             x == WithStatus(docs[r][job[r].doc], "sent")
  <2>1. d \in Docs /\ docs[r][d] \in Record /\ t \in Tokens /\ d = LinkDoc[t]
    BY <1>9 DEF SaveSigningLink, At, JobsOK, JobOf, DocSteps, LinkSteps
  <2>2. x \in Document /\ x.hash = docs[r][d].hash
    BY <2>1, StatusUpdate, RecordFields DEF Statuses
  <2>3. PICK o \in Outcomes :
           /\ signingLinks' = IF Commits(o) THEN [signingLinks EXCEPT ![t] = "open"]
                              ELSE signingLinks
           /\ docs' = IF o = "ok" THEN Cached(r, d, x) ELSE docs
           /\ sentVersion' = [sentVersion EXCEPT ![t] = docs[r][d].hash]
    BY <1>9 DEF SaveSigningLink
  <2>4. UNCHANGED <<documents, signatures>>
    BY <1>9 DEF SaveSigningLink
  <2> HIDE DEF d, t, x
  <2>5. CASE o = "ok"
    <3>1. signingLinks'[t] = "open" /\ sentVersion'[t] = x.hash
      BY <2>1, <2>2, <2>3, <2>5 DEF Commits, TypeOK
    <3>2. IsSentNext(d, x.hash)
      BY <2>1, <3>1 DEF IsSentNext
    <3>3. docs' = Cached(r, d, x)
      BY <2>3, <2>5
    <3> QED  BY <2>1, <2>2, <2>4, <3>2, <3>3, CachedClaimKeepsSent
  <2>6. CASE o # "ok"
    BY <2>3, <2>4, <2>6, RestKeepsSent
  <2> QED  BY <2>5, <2>6
<1>10. ASSUME NEW r \in Replicas, LoadDocument(r)
      PROVE  VersionsSent'
  <2> DEFINE d == job[r].doc
  <2>1. docs' = docs \/ docs' = Cached(r, d, documents[d])
    BY <1>10 DEF LoadDocument
  <2>2. UNCHANGED <<documents, signatures>>
    BY <1>10 DEF LoadDocument, store
  <2>3. d \in Docs
    BY <1>10, LinkAssumption DEF LoadDocument, At, JobsOK, JobOf, CodeSteps
  <2> HIDE DEF d
  <2>4. documents[d] \in Document /\ (PastDraft(documents[d]) => WasSent(d, documents[d].hash))
    BY <2>3 DEF VersionsSent, TypeOK
  <2> QED  BY <2>1, <2>2, <2>3, <2>4, CachedClaimKeepsSent
<1>11. ASSUME NEW r \in Replicas, SignPEP(r) \/ SignUKEP(r)
      PROVE  VersionsSent'
  <2> DEFINE d == job[r].doc
             h == docs[r][d].hash
  <2>1. /\ d \in Docs /\ docs[r][d] \in Record /\ h \in Contents
        /\ PastDraft(docs[r][d])
    BY <1>11, RecordFields DEF SignPEP, SignUKEP, At, JobsOK, JobOf, DocSteps, PastDraft
  <2>2. WasSent(d, h)
    BY <2>1 DEF VersionsSent
  <2>3. UNCHANGED documents
    BY <1>11 DEF SignPEP, SignUKEP
  <2>4. PICK type \in {"PEP", "UKEP"}, s \in Statuses, o \in Outcomes :
           /\ SaveSignature(SignatureOf(d, type, h), o)
           /\ docs' = IF o = "ok" THEN Cached(r, d, WithStatus(docs[r][d], s)) ELSE docs
    <3>1. CASE SignPEP(r)
      <4>1. "PEP" \in {"PEP", "UKEP"} /\ "pep_signed" \in Statuses
        BY DEF Statuses
      <4>2. PICK o \in Outcomes :
               /\ SaveSignature(SignatureOf(d, "PEP", h), o)
               /\ docs' = IF o = "ok" THEN Cached(r, d, WithStatus(docs[r][d], "pep_signed"))
                          ELSE docs
        BY <3>1 DEF SignPEP
      <4> QED  BY <4>1, <4>2
    <3>2. CASE SignUKEP(r)
      <4>1. "UKEP" \in {"PEP", "UKEP"} /\ "completed" \in Statuses
        BY DEF Statuses
      <4>2. PICK o \in Outcomes :
               /\ SaveSignature(SignatureOf(d, "UKEP", h), o)
               /\ docs' = IF o = "ok" THEN Cached(r, d, WithStatus(docs[r][d], "completed"))
                          ELSE docs
        BY <3>2 DEF SignUKEP
      <4> QED  BY <4>1, <4>2
    <3> QED  BY <1>11, <3>1, <3>2
  <2> DEFINE x == WithStatus(docs[r][d], s)
             g == SignatureOf(d, type, h)
  <2>5. x \in Document /\ x.hash = h
    BY <2>1, StatusUpdate, RecordFields
  <2>6. g \in Signature /\ g.doc = d /\ g.hash = h /\ SignatureRows
    BY <2>1, SignatureType DEF SignatureRows, SignatureOf, TypeOK
  <2>7. DOMAIN signatures' \subseteq DOMAIN signatures \cup {g}
    BY <2>4, <2>6, SaveSignatureType
  <2>8. docs' \in {docs, Cached(r, d, x)}
    BY <2>4
  <2> HIDE DEF d, h, x, g
  <2>9. IsSentNext(d, h)
    <3>1. \A e, v : WasSent(e, v) => WasSent(e, v)'
      BY SentStays
    <3> QED  BY <2>2, <3>1 DEF WasSent, IsSentNext
  <2>10. \A z \in DOMAIN signatures' : z \in DOMAIN signatures \/ IsSentNext(z.doc, z.hash)
    BY <2>6, <2>7, <2>9
  <2>11. PastDraft(x) => IsSentNext(d, x.hash)
    BY <2>5, <2>9
  <2> QED  BY <2>1, <2>3, <2>5, <2>8, <2>10, <2>11, CachingKeepsSent
<1>12. ASSUME NEW r \in Replicas,
              \/ \E t \in Tokens, c \in Codes :
                    RequestPEP(r, t, c) \/ \E u \in Users : ConfirmPEP(r, t, u, c)
              \/ SaveOTP(r) \/ TryOTP(r) \/ TryMiss(r) \/ CheckOTP(r) \/ CheckMiss(r)
              \/ UseSigningLink(r)
      PROVE  VersionsSent'
  <2>1. UNCHANGED <<docs, documents, signatures>>
    BY <1>12 DEF RequestPEP, ConfirmPEP, SaveOTP, TryOTP, TryMiss, CheckOTP, CheckMiss,
                 UseSigningLink, store
  <2> QED  BY <2>1, RestKeepsSent
<1>13. ASSUME NEW r \in Replicas, Crash(r)
      PROVE  VersionsSent'
  <2>0. \A e, h : WasSent(e, h) => WasSent(e, h)'
    BY SentStays
  <2>1. UNCHANGED <<documents, signatures>>
    BY <1>13 DEF Crash, store
  <2>2. \A q \in Replicas, e \in Docs : PastDraft(docs'[q][e]) => docs'[q][e] = docs[q][e]
    BY <1>13 DEF Crash, TypeOK, PastDraft, NoDocument
  <2> QED  BY <2>0, <2>1, <2>2, ClaimsKeepSent
<1>14. CASE \/ CleanupExpired \/ UNCHANGED vars
            \/ \E t \in Tokens : ExpireLink(t) \/ ExpireOTP(t)
  <2>1. UNCHANGED <<docs, documents, signatures>>
    BY <1>14 DEF CleanupExpired, ExpireLink, ExpireOTP, vars, memory, store
  <2> QED  BY <2>1, RestKeepsSent
<1> QED
  BY <1>1, <1>2, <1>3, <1>4, <1>5, <1>6, <1>7, <1>8, <1>9, <1>10, <1>11, <1>12, <1>13, <1>14
  DEF Next, Request, Step

\* In every behaviour every signature, simple or qualified, is over a version that
\* the customer sent with a link of that document, never over one uploaded later.
THEOREM SignedVersionsWereSent == Spec => []SignedVersionWasSent
<1>1. Init => VersionsSent
  BY DEF Init, VersionsSent, PastDraft, NoDocument
<1>2. VersionsSent => SignedVersionWasSent
  BY DEF VersionsSent, SignedVersionWasSent, WasSent
<1> QED  BY <1>1, <1>2, VersionsStep, LinksHold, PTL DEF Spec

----------------------------------------------------------------------------
(* One replica.                                                            *)

OneReplica == Replicas # {} /\ \A q, r \in Replicas : q = r

Order == Lifecycle!Order

\* What the only replica may have cached (x) of a document with row y.
Ahead(x, y) ==
    /\ y.status = "absent" => x.status \in {"absent", "draft"}
    /\ y.status = "draft" => x.status \in {"absent", "draft", "sent"}
    /\ PastDraft(y) /\ x # NoDocument =>
          /\ PastDraft(x) /\ x.hash = y.hash
          /\ Order[y.status] <= Order[x.status]

CachesAhead == \A r \in Replicas, d \in Docs : Ahead(docs[r][d], documents[d])

\* A link that the customer has got belongs to the version that its document was
\* sent with and is frozen at.
HandedOutOK ==
    \A t \in handedOut :
       /\ PastDraft(documents[LinkDoc[t]])
       /\ sentVersion[t] = documents[LinkDoc[t]].hash
       /\ signingLinks[t] # "none"

\* Requests in progress are about stored documents and links that were handed out.
RequestOf(r) ==
    /\ job[r].pc \in DocSteps => Stored(job[r].doc)
    /\ job[r].pc \in CodeSteps \cup {"signPEP"} => job[r].token \in handedOut
    /\ job[r].pc = "sendStatus" => /\ sentVersion[job[r].token] = docs[r][job[r].doc].hash
                                   /\ signingLinks[job[r].token] # "none"

RequestsOK == \A r \in Replicas : RequestOf(r)

OneInv == CachesAhead /\ HandedOutOK /\ RequestsOK

\* No row disappears, and a content is frozen by sending.
RowsKept ==
    \A d \in Docs :
       /\ Stored(d) => documents'[d].status # "absent"
       /\ PastDraft(documents[d]) => /\ PastDraft(documents'[d])
                                     /\ documents'[d].hash = documents[d].hash

\* The order of the statuses.
LEMMA Ordered ==
    /\ \A s \in Statuses : Order[s] \in 1 .. 5
    /\ Order["draft"] = 1 /\ Order["sent"] = 2 /\ Order["pep_signed"] = 3
    /\ Order["awaiting_ukep"] = 4 /\ Order["completed"] = 5 /\ Order["absent"] = 0
    /\ DOMAIN Order = Statuses \cup {"absent"}
BY DEF Order, Lifecycle!Order, Statuses

\* A copy is as far as the row it was made of.
LEMMA CopiesAhead == \A x \in Document : Ahead(x, x)
<1> SUFFICES ASSUME NEW x \in Document PROVE Ahead(x, x)
  OBVIOUS
<1>1. x \in Record \/ x = NoDocument
  BY DEF Document
<1>2. CASE x \in Record
  BY <1>2, RecordFields, Ordered DEF Ahead, PastDraft
<1>3. CASE x = NoDocument
  BY <1>3 DEF Ahead, PastDraft, NoDocument
<1> QED  BY <1>1, <1>2, <1>3

\* What a handler of the only replica works on is ahead of the row.
LEMMA ResidentAhead ==
    ASSUME TypeOK, CachesAhead, NEW r \in Replicas, NEW d \in Docs
    PROVE  Ahead(Resident(r, d), documents[d])
BY CopiesAhead DEF TypeOK, CachesAhead, Resident

\* Steps that put one document in the cache, ahead of its row.
LEMMA CachingKeepsAhead ==
    ASSUME TypeOK, CachesAhead, NEW r \in Replicas, NEW d \in Docs, NEW x \in Document,
           Ahead(x, documents[d]), docs' = docs \/ docs' = Cached(r, d, x),
           UNCHANGED documents
    PROVE  CachesAhead' /\ RowsKept
<1>1. docs \in Caches
  BY DEF TypeOK, Caches
<1>2. ASSUME NEW q \in Replicas, NEW e \in Docs PROVE Ahead(docs'[q][e], documents[e])
  <2>1. docs'[q][e] = docs[q][e] \/ (q = r /\ e = d /\ docs'[q][e] = x)
    BY <1>1, CacheUpdate
  <2> QED  BY <2>1 DEF CachesAhead
<1>3. RowsKept
  BY DEF RowsKept, Stored
<1> QED  BY <1>2, <1>3 DEF CachesAhead, Ahead, PastDraft

\* Steps that change neither.
LEMMA RestKeepsAhead ==
    ASSUME CachesAhead, UNCHANGED <<docs, documents>>
    PROVE  CachesAhead' /\ RowsKept
BY DEF CachesAhead, Ahead, PastDraft, RowsKept, Stored

\* SaveStatus writes a document that is ahead of its row.
LEMMA SaveStatusKeepsAhead ==
    ASSUME TypeOK, OneReplica, CachesAhead, NEW r \in Replicas, NEW d \in Docs, NEW o,
           docs[r][d] \in Record, Stored(d), SaveStatus(r, d, o), UNCHANGED docs
    PROVE  CachesAhead' /\ RowsKept
<1> DEFINE x == docs[r][d]
<1>1. documents' = documents \/ documents' = [documents EXCEPT ![d] = x]
  BY DEF SaveStatus
<1>2. CASE documents' = documents
  BY <1>2, RestKeepsAhead
<1>3. CASE documents' = [documents EXCEPT ![d] = x]
  <2>1. \A e \in Docs : documents'[e] = documents[e] \/ (e = d /\ documents'[e] = x)
    BY <1>3 DEF TypeOK
  <2>2. x \in Document /\ x # NoDocument /\ x.status \in Statuses /\ Ahead(x, documents[d])
    BY RecordFields DEF CachesAhead
  <2>3. ASSUME NEW q \in Replicas, NEW e \in Docs PROVE Ahead(docs[q][e], documents'[e])
    <3>1. q = r
      BY DEF OneReplica
    <3>2. Ahead(x, x) /\ Ahead(docs[q][e], documents[e])
      BY <2>2, CopiesAhead DEF CachesAhead
    <3> QED  BY <2>1, <3>1, <3>2
  <2>4. RowsKept
    <3>1. x.status # "absent"
      BY <2>2 DEF Statuses
    <3>2. PastDraft(documents[d]) => PastDraft(x) /\ x.hash = documents[d].hash
      BY <2>2 DEF Ahead
    <3> HIDE DEF x
    <3> QED  BY <2>1, <3>1, <3>2 DEF RowsKept, Stored
  <2> QED  BY <2>3, <2>4 DEF CachesAhead, Ahead, PastDraft
<1> QED  BY <1>1, <1>2, <1>3

\* Every step of the only replica keeps its copies ahead, and the rows.
LEMMA AheadStep ==
    ASSUME TypeOK, JobsOK, OneReplica, OneInv, [Next]_vars
    PROVE  CachesAhead' /\ RowsKept
<1> DEFINE Goal == CachesAhead' /\ RowsKept
<1>0. CachesAhead /\ RequestsOK /\ HandedOutOK
  BY DEF OneInv
<1>1. ASSUME NEW r \in Replicas, NEW d \in Docs, NEW c \in Contents,
             CreateDocument(r, d, c)
      PROVE  Goal
  <2>1. /\ NewDraft(c) \in Document /\ NewDraft(c).status = "draft"
        /\ documents[d].status = "absent"
    BY <1>1, NewDraftType, RecordFields DEF CreateDocument, FreshDoc, Stored
  <2>2. docs \in Caches /\ docs' = Cached(r, d, NewDraft(c))
    BY <1>1 DEF CreateDocument, Caches, TypeOK
  <2>3. \A e \in Docs : documents'[e] = documents[e] \/ (e = d /\ documents'[e] = NewDraft(c))
    BY <1>1 DEF CreateDocument, TypeOK
  <2>4. ASSUME NEW q \in Replicas, NEW e \in Docs PROVE Ahead(docs'[q][e], documents'[e])
    <3>1. q = r
      BY DEF OneReplica
    <3>2. CASE e = d
      <4>1. docs'[q][e] = NewDraft(c)
        BY <2>1, <2>2, <3>1, <3>2, CacheUpdate
      <4> QED  BY <2>1, <2>3, <3>2, <4>1 DEF Ahead, PastDraft
    <3>3. CASE e # d
      <4>1. docs'[q][e] = docs[q][e] /\ documents'[e] = documents[e]
        BY <2>1, <2>2, <2>3, <3>3, CacheUpdate
      <4> QED  BY <1>0, <4>1 DEF CachesAhead
    <3> QED  BY <3>2, <3>3
  <2>5. RowsKept
    BY <2>1, <2>3 DEF RowsKept, Stored, PastDraft
  <2> QED  BY <2>4, <2>5 DEF CachesAhead, Ahead, PastDraft
<1>2. ASSUME NEW r \in Replicas, NEW d \in Docs, Stored(d),
             docs' = Cached(r, d, Resident(r, d)), UNCHANGED documents
      PROVE  Goal
  <2>1. Resident(r, d) \in Document
    BY <1>2, ResidentType, RecordFields DEF TypeOK, Caches
  <2> QED  BY <1>0, <1>2, <2>1, ResidentAhead, CachingKeepsAhead
<1>3. ASSUME NEW r \in Replicas, NEW d \in Docs,
             \/ \E c \in Contents : Upload(r, d, c)
             \/ Download(r, d) \/ CompleteUKEP(r, d)
      PROVE  Goal
  <2>1. Stored(d) /\ docs' = Cached(r, d, Resident(r, d)) /\ UNCHANGED documents
    BY <1>3 DEF Upload, Download, CompleteUKEP, store
  <2> QED  BY <1>2, <2>1
<1>4. ASSUME NEW r \in Replicas, NEW t \in Tokens, Send(r, t)
      PROVE  Goal
  <2>1. /\ LinkDoc[t] \in Docs /\ Stored(LinkDoc[t])
        /\ docs' = Cached(r, LinkDoc[t], Resident(r, LinkDoc[t]))
        /\ UNCHANGED documents
    BY <1>4, LinkAssumption DEF Send, store
  <2> QED  BY <1>2, <2>1
<1>5. ASSUME NEW r \in Replicas, NEW d \in Docs, StartUKEP(r, d)
      PROVE  Goal
  <2> DEFINE x == WithStatus(Resident(r, d), "awaiting_ukep")
  <2>1. /\ Resident(r, d) \in Record /\ Resident(r, d).status = "pep_signed"
        /\ Ahead(Resident(r, d), documents[d])
    BY <1>0, <1>5, ResidentType, ResidentAhead DEF StartUKEP, Caches, TypeOK
  <2>2. x \in Document /\ x.hash = Resident(r, d).hash /\ x.status = "awaiting_ukep"
    BY <2>1, StatusUpdate, RecordFields DEF Statuses
  <2>3. documents[d].status \in Statuses \cup {"absent"}
    BY DEF TypeOK, Document, Record, NoDocument
  <2>4. docs' = Cached(r, d, x) /\ UNCHANGED documents
    BY <1>5 DEF StartUKEP, store
  <2> HIDE DEF x
  <2>5. Ahead(x, documents[d])
    <3>1. Resident(r, d) # NoDocument
      BY <2>1 DEF NoDocument
    <3> QED  BY <2>1, <2>2, <2>3, <3>1, Ordered DEF Ahead, PastDraft
  <2> QED  BY <1>0, <2>2, <2>4, <2>5, CachingKeepsAhead
<1>6. ASSUME NEW r \in Replicas, PutObject(r) \/ SaveSigningLink(r)
      PROVE  Goal
  <2> DEFINE d == job[r].doc
  <2>1. d \in Docs /\ docs[r][d] \in Record /\ docs[r][d].status = "draft" /\ Stored(d)
    BY <1>0, <1>6 DEF PutObject, SaveSigningLink, At, JobsOK, JobOf, DocSteps, RequestsOK, RequestOf
  <2>2. PICK x \in Record : /\ x.status \in {"draft", "sent"}
                            /\ docs' = docs \/ docs' = Cached(r, d, x)
    <3>1. CASE PutObject(r)
      <4>1. job[r].content \in Contents
        BY <3>1 DEF PutObject, At, JobsOK, JobOf
      <4>2. docs' = docs \/ docs' = Cached(r, d, WithFile(docs[r][d], job[r].content))
        BY <3>1 DEF PutObject
      <4> HIDE DEF d
      <4> QED  BY <2>1, <4>1, <4>2, ContentUpdate
    <3>2. CASE SaveSigningLink(r)
      <4>1. docs' = docs \/ docs' = Cached(r, d, WithStatus(docs[r][d], "sent"))
        BY <3>2 DEF SaveSigningLink
      <4>2. "sent" \in Statuses
        BY DEF Statuses
      <4> HIDE DEF d
      <4> QED  BY <2>1, <4>1, <4>2, StatusUpdate
    <3> QED  BY <1>6, <3>1, <3>2
  <2>3. UNCHANGED documents
    BY <1>6 DEF PutObject, SaveSigningLink
  <2> HIDE DEF d
  <2>4. Ahead(x, documents[d])
    <3>1. Ahead(docs[r][d], documents[d]) /\ docs[r][d] # NoDocument
      BY <1>0, <2>1, RecordFields DEF CachesAhead
    <3> QED  BY <2>1, <2>2, <3>1 DEF Ahead, PastDraft, Stored
  <2> QED  BY <1>0, <2>1, <2>2, <2>3, <2>4, RecordFields, CachingKeepsAhead
<1>7. ASSUME NEW r \in Replicas, RecordStatus(r) \/ SendStatus(r) \/ PepStatus(r)
      PROVE  Goal
  <2>1. job[r].doc \in Docs /\ docs[r][job[r].doc] \in Record /\ Stored(job[r].doc)
    BY <1>0, <1>7 DEF RecordStatus, SendStatus, PepStatus, At, JobsOK, JobOf, DocSteps,
                     RequestsOK, RequestOf
  <2>2. PICK o \in Outcomes : SaveStatus(r, job[r].doc, o)
    BY <1>7 DEF RecordStatus, SendStatus, PepStatus
  <2>3. UNCHANGED docs
    BY <1>7 DEF RecordStatus, SendStatus, PepStatus
  <2> QED  BY <1>0, <2>1, <2>2, <2>3, SaveStatusKeepsAhead
<1>8. ASSUME NEW r \in Replicas, LoadDocument(r)
      PROVE  Goal
  <2> DEFINE d == job[r].doc
  <2>1. docs' = docs \/ docs' = Cached(r, d, documents[d])
    BY <1>8 DEF LoadDocument
  <2>2. UNCHANGED documents
    BY <1>8 DEF LoadDocument, store
  <2>3. d \in Docs
    BY <1>8, LinkAssumption DEF LoadDocument, At, JobsOK, JobOf, CodeSteps
  <2> HIDE DEF d
  <2>4. documents[d] \in Document /\ Ahead(documents[d], documents[d])
    BY <2>3, CopiesAhead DEF TypeOK
  <2> QED  BY <1>0, <2>1, <2>2, <2>3, <2>4, CachingKeepsAhead
<1>9. ASSUME NEW r \in Replicas, SignPEP(r) \/ SignUKEP(r)
      PROVE  Goal
  <2> DEFINE d == job[r].doc
  <2>1. /\ d \in Docs /\ docs[r][d] \in Record /\ Stored(d)
        /\ \/ docs[r][d].status = "sent" /\ PastDraft(documents[d])
           \/ docs[r][d].status = "awaiting_ukep"
    BY <1>0, <1>9 DEF SignPEP, SignUKEP, At, JobsOK, JobOf, DocSteps,
                     RequestsOK, RequestOf, HandedOutOK
  <2>2. PICK s \in {"pep_signed", "completed"} :
           /\ docs' = docs \/ docs' = Cached(r, d, WithStatus(docs[r][d], s))
           /\ s = "pep_signed" => docs[r][d].status = "sent"
    BY <1>9 DEF SignPEP, SignUKEP, At, JobsOK, JobOf
  <2>3. UNCHANGED documents
    BY <1>9 DEF SignPEP, SignUKEP
  <2> DEFINE x == WithStatus(docs[r][d], s)
  <2>4. x \in Document /\ x.hash = docs[r][d].hash /\ x.status = s
    BY <2>1, StatusUpdate, RecordFields DEF Statuses
  <2>5. docs' = docs \/ docs' = Cached(r, d, x)
    BY <2>2
  <2> HIDE DEF d, x
  <2>6. Ahead(x, documents[d])
    <3>1. Ahead(docs[r][d], documents[d]) /\ docs[r][d] # NoDocument
      BY <1>0, <2>1, RecordFields DEF CachesAhead
    <3>2. documents[d].status \in Statuses \cup {"absent"}
      BY <2>1 DEF TypeOK, Document, Record, NoDocument
    <3>3. PastDraft(documents[d])
      BY <2>1, <3>1, <3>2 DEF Ahead, PastDraft, Stored
    <3>4. Order[docs[r][d].status] <= Order[s]
      BY <2>1, <2>2, Ordered
    <3>5. /\ docs[r][d].hash = documents[d].hash
          /\ Order[documents[d].status] <= Order[docs[r][d].status]
      BY <3>1, <3>3 DEF Ahead
    <3>6. documents[d].status \in Statuses /\ s \in Statuses /\ docs[r][d].status \in Statuses
      BY <2>1, <2>2, <3>2, RecordFields DEF Stored, Statuses
    <3>7. Order[documents[d].status] <= Order[s]
      BY <3>4, <3>5, <3>6, Ordered
    <3> QED  BY <2>2, <2>4, <3>3, <3>5, <3>7 DEF Ahead, PastDraft
  <2> QED  BY <1>0, <2>1, <2>3, <2>4, <2>5, <2>6, CachingKeepsAhead
<1>10. ASSUME NEW r \in Replicas,
              \/ \E t \in Tokens, c \in Codes :
                    RequestPEP(r, t, c) \/ \E u \in Users : ConfirmPEP(r, t, u, c)
              \/ SaveOTP(r) \/ TryOTP(r) \/ TryMiss(r) \/ CheckOTP(r) \/ CheckMiss(r)
              \/ UseSigningLink(r)
      PROVE  Goal
  <2>1. UNCHANGED <<docs, documents>>
    BY <1>10 DEF RequestPEP, ConfirmPEP, SaveOTP, TryOTP, TryMiss, CheckOTP, CheckMiss,
                 UseSigningLink, store
  <2> QED  BY <1>0, <2>1, RestKeepsAhead
<1>11. ASSUME NEW r \in Replicas, Crash(r)
      PROVE  Goal
  <2>1. UNCHANGED documents
    BY <1>11 DEF Crash, store
  <2>2. \A q \in Replicas, e \in Docs : docs'[q][e] = docs[q][e] \/ docs'[q][e] = NoDocument
    BY <1>11 DEF Crash, TypeOK
  <2>3. \A y : Ahead(NoDocument, y)
    BY DEF Ahead, NoDocument
  <2>4. \A q \in Replicas, e \in Docs : Ahead(docs'[q][e], documents[e])
    BY <1>0, <2>2, <2>3 DEF CachesAhead
  <2> QED  BY <2>1, <2>4 DEF CachesAhead, Ahead, PastDraft, RowsKept, Stored
<1>12. CASE \/ CleanupExpired \/ UNCHANGED vars
            \/ \E t \in Tokens : ExpireLink(t) \/ ExpireOTP(t)
  <2>1. UNCHANGED <<docs, documents>>
    BY <1>12 DEF CleanupExpired, ExpireLink, ExpireOTP, vars, memory, store
  <2> QED  BY <1>0, <2>1, RestKeepsAhead
<1> QED
  BY <1>1, <1>3, <1>4, <1>5, <1>6, <1>7, <1>8, <1>9, <1>10, <1>11, <1>12
  DEF Next, Request, Step

\* Only the SendStatus that succeeds hands out a link.
LEMMA HandsOut ==
    ASSUME [Next]_vars
    PROVE  \/ handedOut' = handedOut
           \/ \E r \in Replicas : /\ SendStatus(r) /\ SaveStatus(r, job[r].doc, "ok")
                                  /\ handedOut' = handedOut \cup {job[r].token}
<1>1. ASSUME NEW r \in Replicas, SendStatus(r), handedOut' # handedOut
      PROVE  SaveStatus(r, job[r].doc, "ok") /\ handedOut' = handedOut \cup {job[r].token}
  BY <1>1 DEF SendStatus
<1>2. ASSUME NEW r \in Replicas, Request(r) \/ Crash(r) PROVE handedOut' = handedOut
  BY <1>2 DEF Request, CreateDocument, Upload, Download, StartUKEP, CompleteUKEP, Send,
              RequestPEP, ConfirmPEP, Crash, history
<1>3. ASSUME NEW r \in Replicas, Step(r), ~SendStatus(r) PROVE handedOut' = handedOut
  BY <1>3 DEF Step, PutObject, RecordStatus, SaveSigningLink, SaveOTP, LoadDocument, TryOTP,
              TryMiss, CheckOTP, CheckMiss, SignPEP, UseSigningLink, PepStatus, SignUKEP, history
<1>4. ASSUME \/ CleanupExpired \/ UNCHANGED vars
             \/ \E t \in Tokens : ExpireLink(t) \/ ExpireOTP(t)
      PROVE  handedOut' = handedOut
  BY <1>4 DEF CleanupExpired, ExpireLink, ExpireOTP, vars, history
<1> QED  BY <1>1, <1>2, <1>3, <1>4 DEF Next

\* The links that are handed out are those of the frozen versions.
LEMMA HandedOutStep ==
    ASSUME TypeOK, JobsOK, LinksOK, OneReplica, OneInv, [Next]_vars
    PROVE  HandedOutOK'
<1>1. ASSUME NEW t \in handedOut
      PROVE  /\ PastDraft(documents'[LinkDoc[t]])
             /\ sentVersion'[t] = documents'[LinkDoc[t]].hash
             /\ signingLinks'[t] # "none"
  <2>1. t \in Tokens /\ LinkDoc[t] \in Docs
    BY LinkAssumption DEF TypeOK
  <2>2. /\ PastDraft(documents[LinkDoc[t]])
        /\ sentVersion[t] = documents[LinkDoc[t]].hash
        /\ signingLinks[t] # "none"
    BY DEF OneInv, HandedOutOK
  <2>3. sentVersion'[t] = sentVersion[t] /\ signingLinks'[t] # "none"
    BY <2>1, <2>2, SentLinkStays
  <2>4. RowsKept
    BY AheadStep
  <2> QED  BY <2>1, <2>2, <2>3, <2>4 DEF RowsKept
<1>2. ASSUME NEW r \in Replicas, SendStatus(r), SaveStatus(r, job[r].doc, "ok")
      PROVE  /\ PastDraft(documents'[LinkDoc[job[r].token]])
             /\ sentVersion'[job[r].token] = documents'[LinkDoc[job[r].token]].hash
             /\ signingLinks'[job[r].token] # "none"
  <2>1. /\ job[r].doc \in Docs /\ job[r].token \in Tokens /\ job[r].doc = LinkDoc[job[r].token]
        /\ docs[r][job[r].doc].status = "sent"
    BY <1>2 DEF SendStatus, At, JobsOK, JobOf, DocSteps, LinkSteps
  <2>2. /\ sentVersion[job[r].token] = docs[r][job[r].doc].hash
        /\ signingLinks[job[r].token] # "none"
    BY <1>2 DEF SendStatus, At, OneInv, RequestsOK, RequestOf
  <2>3. documents'[job[r].doc] = docs[r][job[r].doc]
    BY <1>2, <2>1 DEF SaveStatus, Commits, TypeOK
  <2>4. UNCHANGED <<sentVersion, signingLinks>>
    BY <1>2 DEF SendStatus
  <2> QED  BY <2>1, <2>2, <2>3, <2>4 DEF PastDraft
<1> QED  BY <1>1, <1>2, HandsOut DEF HandedOutOK, PastDraft

\* The request in progress stays about a stored document and a link handed out.
LEMMA RequestsStep ==
    ASSUME TypeOK, JobsOK, LinksOK, OneReplica, OneInv, [Next]_vars
    PROVE  RequestsOK'
<1>0. /\ RequestsOK /\ HandedOutOK /\ RowsKept
      /\ handedOut \subseteq handedOut'
      /\ \A d \in Docs : Stored(d) => Stored(d)'
  <2>1. RowsKept
    BY AheadStep
  <2> QED  BY <2>1, HandsOut DEF OneInv, RowsKept, Stored
<1>1. ASSUME NEW r \in Replicas, job'[r].pc \notin DocSteps \cup CodeSteps
      PROVE  RequestsOK'
  <2>1. \A q \in Replicas : q = r
    BY DEF OneReplica
  <2>2. RequestOf(r)'
    BY <1>1 DEF RequestOf, DocSteps
  <2> QED  BY <2>1, <2>2 DEF RequestsOK
<1>2. ASSUME NEW r \in Replicas, job'[r].pc \in DocSteps \ {"signPEP", "sendStatus"},
             job'[r].doc \in Docs, Stored(job'[r].doc)
      PROVE  RequestsOK'
  <2>1. \A q \in Replicas : q = r
    BY DEF OneReplica
  <2>2. Stored(job[r].doc)'
    BY <1>0, <1>2 DEF RowsKept, Stored
  <2>3. job'[r].pc \notin CodeSteps
    BY <1>2 DEF DocSteps, CodeSteps
  <2>4. RequestOf(r)'
    BY <1>2, <2>2, <2>3 DEF RequestOf
  <2> QED  BY <2>1, <2>4 DEF RequestsOK
<1>3. ASSUME NEW r \in Replicas, job'[r].pc \in CodeSteps, job'[r].token \in handedOut
      PROVE  RequestsOK'
  <2>1. \A q \in Replicas : q = r
    BY DEF OneReplica
  <2>2. job'[r].pc \notin DocSteps /\ job'[r].pc # "sendStatus"
    BY <1>3 DEF DocSteps, CodeSteps
  <2>3. RequestOf(r)'
    BY <1>0, <1>3, <2>2 DEF RequestOf
  <2> QED  BY <2>1, <2>3 DEF RequestsOK
<1>4. ASSUME NEW r \in Replicas, Free(r) \/ At(r, "saveOTP"),
             Finish(r) \/ UNCHANGED job
      PROVE  RequestsOK'
  <2>1. job'[r].pc \in {"idle", "saveOTP"}
    BY <1>4 DEF Finish, Free, At, Idle, TypeOK
  <2> QED  BY <1>1, <2>1 DEF DocSteps, CodeSteps
<1>5. ASSUME NEW r \in Replicas, Finish(r) PROVE RequestsOK'
  <2>1. job'[r].pc = "idle"
    BY <1>5 DEF Finish, Idle, TypeOK
  <2> QED  BY <1>1, <2>1 DEF DocSteps, CodeSteps
<1>6. ASSUME NEW r \in Replicas, Request(r) PROVE RequestsOK'
  <2>1. ASSUME NEW d \in Docs,
               Download(r, d) \/ \E c \in Contents : CreateDocument(r, d, c)
        PROVE  RequestsOK'
    BY <1>4, <2>1 DEF Download, CreateDocument
  <2>2. ASSUME NEW d \in Docs, NEW c \in Contents, Upload(r, d, c) PROVE RequestsOK'
    <3>1. job'[r].pc = "put" /\ job'[r].doc = d /\ Stored(d)
      BY <2>2 DEF Upload, Idle, TypeOK
    <3> QED  BY <1>2, <2>2, <3>1 DEF DocSteps
  <2>3. ASSUME NEW d \in Docs, StartUKEP(r, d) PROVE RequestsOK'
    <3>1. job'[r].pc = "saveStatus" /\ job'[r].doc = d /\ Stored(d)
      BY <2>3 DEF StartUKEP, Idle, TypeOK
    <3> QED  BY <1>2, <2>3, <3>1 DEF DocSteps
  <2>4. ASSUME NEW d \in Docs, CompleteUKEP(r, d) PROVE RequestsOK'
    <3>1. job'[r].pc = "signUKEP" /\ job'[r].doc = d /\ Stored(d)
      BY <2>4 DEF CompleteUKEP, Idle, TypeOK
    <3> QED  BY <1>2, <2>4, <3>1 DEF DocSteps
  <2>5. ASSUME NEW t \in Tokens, Send(r, t) PROVE RequestsOK'
    <3>1. job'[r].pc = "saveLink" /\ job'[r].doc = LinkDoc[t] /\ Stored(LinkDoc[t])
      BY <2>5 DEF Send, Idle, TypeOK
    <3> QED  BY <1>2, <2>5, <3>1, LinkAssumption DEF DocSteps
  <2>6. ASSUME NEW t \in Tokens, NEW c \in Codes, RequestPEP(r, t, c) PROVE RequestsOK'
    <3>1. job'[r].pc = "saveOTP"
      BY <2>6 DEF RequestPEP, Idle, TypeOK
    <3> QED  BY <1>1, <3>1 DEF DocSteps, CodeSteps
  <2>7. ASSUME NEW t \in Tokens, NEW u \in Users, NEW c \in Codes, ConfirmPEP(r, t, u, c)
        PROVE  RequestsOK'
    <3>1. job'[r].pc \in CodeSteps /\ job'[r].token = t /\ t \in handedOut
      BY <2>7 DEF ConfirmPEP, FirstCheck, Idle, TypeOK, CodeSteps
    <3> QED  BY <1>3, <3>1
  <2> QED  BY <1>6, <2>1, <2>2, <2>3, <2>4, <2>5, <2>6, <2>7 DEF Request
<1>7. ASSUME NEW r \in Replicas,
             \/ RecordStatus(r) \/ SendStatus(r) \/ SaveOTP(r) \/ CheckMiss(r)
             \/ PepStatus(r) \/ Crash(r)
      PROVE  RequestsOK'
  BY <1>5, <1>7 DEF RecordStatus, SendStatus, SaveOTP, CheckMiss, PepStatus, Crash
<1>8. ASSUME NEW r \in Replicas,
             PutObject(r) \/ SignPEP(r) \/ UseSigningLink(r) \/ SignUKEP(r)
      PROVE  RequestsOK'
  <2>1. job[r].doc \in Docs /\ Stored(job[r].doc)
    BY <1>0, <1>8 DEF PutObject, SignPEP, UseSigningLink, SignUKEP, At, JobsOK, JobOf, DocSteps,
                     RequestsOK, RequestOf
  <2>2. Finish(r) \/ \E s \in {"saveStatus", "useLink", "pepStatus"} : Goto(r, s)
    BY <1>8 DEF PutObject, SignPEP, UseSigningLink, SignUKEP, Continue
  <2>3. ASSUME NEW s \in {"saveStatus", "useLink", "pepStatus"}, Goto(r, s) PROVE RequestsOK'
    <3>1. job'[r].pc = s /\ job'[r].doc = job[r].doc
      BY <2>3 DEF Goto, TypeOK, Job
    <3> QED  BY <1>2, <2>1, <3>1 DEF DocSteps
  <2> QED  BY <1>5, <2>2, <2>3
<1>9. ASSUME NEW r \in Replicas, SaveSigningLink(r) PROVE RequestsOK'
  <2> DEFINE d == job[r].doc
             t == job[r].token
  <2>1. d \in Docs /\ t \in Tokens /\ docs[r][d] \in Record /\ Stored(d)
    BY <1>0, <1>9 DEF SaveSigningLink, At, JobsOK, JobOf, DocSteps, LinkSteps,
                     RequestsOK, RequestOf
  <2>2. PICK o \in Outcomes :
           /\ signingLinks' = IF Commits(o) THEN [signingLinks EXCEPT ![t] = "open"]
                              ELSE signingLinks
           /\ docs' = IF o = "ok" THEN Cached(r, d, WithStatus(docs[r][d], "sent")) ELSE docs
           /\ sentVersion' = [sentVersion EXCEPT ![t] = docs[r][d].hash]
           /\ Continue(r, o, "sendStatus")
    BY <1>9 DEF SaveSigningLink
  <2>3. CASE o # "ok"
    BY <1>5, <2>2, <2>3 DEF Continue
  <2>4. CASE o = "ok"
    <3>1. job'[r].pc = "sendStatus" /\ job'[r].doc = d /\ job'[r].token = t
      BY <2>2, <2>4 DEF Continue, Goto, TypeOK, Job
    <3>2. signingLinks'[t] = "open" /\ sentVersion'[t] = docs[r][d].hash
      BY <2>1, <2>2, <2>4 DEF Commits, TypeOK
    <3>3. docs'[r][d] = WithStatus(docs[r][d], "sent")
      BY <2>1, <2>2, <2>4 DEF Cached, TypeOK
    <3> HIDE DEF d, t
    <3>4. docs'[r][d].hash = docs[r][d].hash
      BY <2>1, <3>3, StatusUpdate DEF Statuses
    <3>5. documents'[d].status # "absent"
      BY <1>0, <2>1 DEF RowsKept
    <3>6. job'[r].pc \notin CodeSteps \cup {"signPEP"}
      BY <3>1 DEF CodeSteps
    <3>7. RequestOf(r)'
      BY <3>1, <3>2, <3>4, <3>5, <3>6 DEF RequestOf, Stored
    <3> QED  BY <3>7 DEF OneReplica, RequestsOK
  <2> QED  BY <2>3, <2>4
<1>10. ASSUME NEW r \in Replicas, LoadDocument(r) \/ TryOTP(r) \/ TryMiss(r)
      PROVE  RequestsOK'
  <2>1. job[r].token \in handedOut
    BY <1>0, <1>10 DEF LoadDocument, TryOTP, TryMiss, At, CodeSteps, RequestsOK, RequestOf
  <2>2. job[r] \in Job /\ job \in [Replicas -> Job]
    BY DEF TypeOK
  <2>3. \/ \E s \in {"tryOTP", "checkOTP"} : Goto(r, s)
        \/ \E s \in {"tryMiss", "checkOTP"}, v \in BOOLEAN :
              job' = [job EXCEPT ![r] = [@ EXCEPT !.pc = s, !.validChallenge = v]]
    <3>1. CASE LoadDocument(r) \/ TryMiss(r)
      BY <3>1 DEF LoadDocument, TryMiss, FirstCheck
    <3>2. CASE TryOTP(r)
      <4>1. PICK o \in Outcomes :
               job' = [job EXCEPT ![r] =
                  [@ EXCEPT !.pc = IF o = "ok" /\ ~Matches(otpChallenges[job[r].token], job[r].code)
                                   THEN "tryMiss" ELSE "checkOTP",
                            !.validChallenge = o = "ok" /\ Matches(otpChallenges[job[r].token],
                                                                   job[r].code)]]
        BY <3>2 DEF TryOTP
      <4> DEFINE hit == Matches(otpChallenges[job[r].token], job[r].code)
                 s == IF o = "ok" /\ ~hit THEN "tryMiss" ELSE "checkOTP"
                 v == o = "ok" /\ hit
      <4>2. s \in {"tryMiss", "checkOTP"} /\ v \in BOOLEAN
        OBVIOUS
      <4>3. job' = [job EXCEPT ![r] = [@ EXCEPT !.pc = s, !.validChallenge = v]]
        BY <4>1
      <4> HIDE DEF s, v
      <4> QED  BY <4>2, <4>3
    <3> QED  BY <1>10, <3>1, <3>2
  <2>4. job'[r].pc \in CodeSteps /\ job'[r].token = job[r].token
    BY <2>2, <2>3 DEF Goto, CodeSteps, Job
  <2> QED  BY <1>3, <2>1, <2>4
<1>11. ASSUME NEW r \in Replicas, CheckOTP(r) PROVE RequestsOK'
  <2>1. job[r].token \in handedOut /\ job[r].token \in Tokens
    BY <1>0, <1>11 DEF CheckOTP, At, CodeSteps, RequestsOK, RequestOf, JobsOK, JobOf
  <2>2. Finish(r) \/ Goto(r, "checkMiss") \/ (Goto(r, "signPEP") /\ Signable(r))
    BY <1>11 DEF CheckOTP
  <2>3. CASE Goto(r, "checkMiss")
    <3>1. job'[r].pc \in CodeSteps /\ job'[r].token = job[r].token
      BY <2>3 DEF Goto, CodeSteps, TypeOK, Job
    <3> QED  BY <1>3, <2>1, <3>1
  <2>4. CASE Goto(r, "signPEP") /\ Signable(r)
    <3>1. /\ job'[r].pc = "signPEP" /\ job'[r].token = job[r].token
          /\ job'[r].doc = job[r].doc
      BY <2>4 DEF Goto, TypeOK, Job
    <3>2. job[r].doc = LinkDoc[job[r].token]
      BY <1>11, <2>4 DEF CheckOTP, Signable, At, CodeSteps, JobsOK, JobOf
    <3>3. job[r].doc \in Docs /\ Stored(job[r].doc)
      BY <1>0, <2>1, <3>2, LinkAssumption DEF HandedOutOK, PastDraft, Stored
    <3>4. RequestOf(r)'
      BY <1>0, <2>1, <3>1, <3>3 DEF RequestOf, Stored
    <3> QED  BY <3>4 DEF OneReplica, RequestsOK
  <2> QED  BY <1>5, <2>2, <2>3, <2>4
<1>12. CASE \/ CleanupExpired \/ UNCHANGED vars
            \/ \E t \in Tokens : ExpireLink(t) \/ ExpireOTP(t)
  <2>1. /\ UNCHANGED <<docs, job, handedOut, sentVersion>>
        /\ \A t \in Tokens : signingLinks[t] # "none" => signingLinks'[t] # "none"
    BY <1>12 DEF CleanupExpired, ExpireLink, ExpireOTP, vars, memory, store, history
  <2>2. ASSUME NEW r \in Replicas PROVE RequestOf(r)'
    <3>1. job[r].pc \in DocSteps => job[r].doc \in Docs
      BY DEF JobsOK, JobOf
    <3>2. job[r].pc = "sendStatus" => job[r].token \in Tokens
      BY DEF JobsOK, JobOf, LinkSteps
    <3>3. RequestOf(r)
      BY <1>0 DEF RequestsOK
    <3> QED  BY <1>0, <2>1, <3>1, <3>2, <3>3 DEF RequestOf, Stored
  <2> QED  BY <2>2 DEF RequestsOK
<1> QED
  BY <1>6, <1>7, <1>8, <1>9, <1>10, <1>11, <1>12 DEF Next, Step

\* OneInv holds in every reachable state of one replica.
LEMMA OneReplicaHolds == ASSUME OneReplica PROVE Spec => []OneInv
<1>1. Init => OneInv
  <2>1. ASSUME Init, NEW r \in Replicas, NEW d \in Docs PROVE Ahead(docs[r][d], documents[d])
    BY <2>1 DEF Init, Ahead, PastDraft, NoDocument
  <2>2. Init => HandedOutOK /\ RequestsOK
    BY DEF Init, HandedOutOK, RequestsOK, RequestOf, Idle, DocSteps, CodeSteps
  <2> QED  BY <2>1, <2>2 DEF OneInv, CachesAhead
<1>2. TypeOK /\ JobsOK /\ LinksOK /\ OneInv /\ [Next]_vars => OneInv'
  BY AheadStep, HandedOutStep, RequestsStep DEF OneInv
<1> QED  BY <1>1, <1>2, TypeCorrect, LinksHold, PTL DEF Spec

\* The columns that the lifecycle speaks of, after one row was written.
LEMMA WrittenRow ==
    ASSUME TypeOK, NEW d \in Docs, NEW x, documents' = [documents EXCEPT ![d] = x]
    PROVE  /\ [e \in Docs |-> documents'[e].status]
                 = [[e \in Docs |-> documents[e].status] EXCEPT ![d] = x.status]
           /\ [e \in Docs |-> documents'[e].hash]
                 = [[e \in Docs |-> documents[e].hash] EXCEPT ![d] = x.hash]
BY DEF TypeOK

\* The steps of the lifecycle.
LEMMA LifecycleSteps ==
    ASSUME NEW d \in Docs
    PROVE  /\ \A c \in Contents :
                 Lifecycle!Create(d, c) \/ Lifecycle!Replace(d, c) \/ Lifecycle!Send(d, c)
                    => Lifecycle!Next
           /\ Lifecycle!SignPEP(d) \/ Lifecycle!SignUKEP(d) => Lifecycle!Next
           /\ \A s \in DOMAIN Order : Lifecycle!Advance(d, s) => Lifecycle!Next
BY Zenon DEF Lifecycle!Next, Order

\* SaveStatus replaces a draft, sends it, lets the status catch up with the
\* signatures, or writes what the row says already.
LEMMA SaveStatusImplements ==
    ASSUME TypeOK, RecordBacked, CachesAhead, NEW r \in Replicas, NEW d \in Docs, NEW o,
           docs[r][d] \in Record, Stored(d), SaveStatus(r, d, o), UNCHANGED signatures
    PROVE  [Lifecycle!Next]_(Lifecycle!vars)
<1> DEFINE x == docs[r][d]
           y == documents[d]
<1>1. CASE documents' = documents
  BY <1>1 DEF Lifecycle!vars
<1>2. CASE documents' = [documents EXCEPT ![d] = x]
  <2>1. /\ x.hash \in Contents /\ x.status \in Statuses /\ x # NoDocument
        /\ Ahead(x, y) /\ Backed(d, x)
    BY RecordFields DEF CachesAhead, RecordBacked
  <2>2. y.status \in Statuses
    BY DEF TypeOK, Stored, Document, Record, NoDocument
  <2>3. /\ [e \in Docs |-> documents'[e].status]
              = [[e \in Docs |-> documents[e].status] EXCEPT ![d] = x.status]
        /\ [e \in Docs |-> documents'[e].hash]
              = [[e \in Docs |-> documents[e].hash] EXCEPT ![d] = x.hash]
    BY <1>2, WrittenRow
  <2> HIDE DEF x
  <2>4. CASE y.status = "draft"
    <3>1. x.status \in {"draft", "sent"}
      BY <2>1, <2>4 DEF Ahead, Statuses
    <3>2. CASE x.status = "draft"
      <4>1. [e \in Docs |-> documents'[e].status] = [e \in Docs |-> documents[e].status]
        BY <2>3, <2>4, <3>2
      <4>2. \E c \in Contents : Lifecycle!Replace(d, c)
        BY <2>1, <2>3, <2>4, <4>1 DEF Lifecycle!Replace
      <4> QED  BY <4>2, LifecycleSteps
    <3>3. CASE x.status = "sent"
      <4>1. \E c \in Contents : Lifecycle!Send(d, c)
        BY <2>1, <2>3, <2>4, <3>3 DEF Lifecycle!Send
      <4> QED  BY <4>1, LifecycleSteps
    <3> QED  BY <3>1, <3>2, <3>3
  <2>5. CASE y.status # "draft"
    <3>1. /\ PastDraft(y) /\ PastDraft(x) /\ x.hash = y.hash
          /\ Order[y.status] <= Order[x.status]
      BY <2>1, <2>2, <2>5 DEF Ahead, PastDraft, Statuses
    <3>2. [e \in Docs |-> documents'[e].hash] = [e \in Docs |-> documents[e].hash]
      BY <2>3, <3>1
    <3>3. CASE x.status = y.status
      <4>1. [e \in Docs |-> documents'[e].status] = [e \in Docs |-> documents[e].status]
        BY <2>3, <3>3
      <4> QED  BY <3>2, <4>1 DEF Lifecycle!vars
    <3>4. CASE x.status # y.status
      <4>1. /\ Order["sent"] <= Order[y.status] /\ Order[y.status] < Order[x.status]
            /\ x.status \in DOMAIN Order
        BY <2>1, <2>2, <3>1, <3>4, Ordered DEF PastDraft, Statuses
      <4>2. x.status \in PastSent
        BY <2>1, <2>2, <4>1, Ordered DEF Statuses, PastSent
      <4>3. /\ SignatureOf(d, "PEP", y.hash) \in DOMAIN signatures
            /\ x.status = "completed" => SignatureOf(d, "UKEP", y.hash) \in DOMAIN signatures
        BY <2>1, <3>1, <4>2 DEF Backed, SignedBy
      <4>4. \E s \in DOMAIN Order : Lifecycle!Advance(d, s)
        BY <2>3, <3>2, <4>1, <4>3 DEF Lifecycle!Advance, Lifecycle!Signed, SignatureOf, Order
      <4> QED  BY <4>4, LifecycleSteps
    <3> QED  BY <3>3, <3>4
  <2> QED  BY <2>4, <2>5
<1> QED  BY <1>1, <1>2 DEF SaveStatus

\* A step that changes no row and no signature is none of the lifecycle.
LEMMA Stutter ==
    ASSUME UNCHANGED <<documents, signatures>>
    PROVE  UNCHANGED Lifecycle!vars
BY DEF Lifecycle!vars

\* A step that saves a signature over the row's content, with which the copy agrees,
\* signs in the lifecycle.
LEMMA SigningImplements ==
    ASSUME TypeOK, JobsOK, RecordBacked, OneInv, NEW r \in Replicas,
           SignPEP(r) \/ SignUKEP(r)
    PROVE  [Lifecycle!Next]_(Lifecycle!vars)
<1> DEFINE d == job[r].doc
<1>1. /\ d \in Docs /\ docs[r][d] \in Record /\ Stored(d) /\ Ahead(docs[r][d], documents[d])
      /\ SignPEP(r) => docs[r][d].status = "sent" /\ PastDraft(documents[d])
      /\ SignUKEP(r) => docs[r][d].status = "awaiting_ukep"
  BY DEF SignPEP, SignUKEP, At, JobsOK, JobOf, DocSteps, OneInv, RequestsOK, RequestOf,
         HandedOutOK, CachesAhead
<1>2. docs[r][d] # NoDocument /\ documents[d].status \in Statuses
  <2>1. documents[d] \in Document
    BY <1>1 DEF TypeOK
  <2> QED  BY <1>1, <2>1, RecordFields DEF Stored, Document, NoDocument
<1>3. UNCHANGED documents
  BY DEF SignPEP, SignUKEP
<1>4. \E type \in {"PEP", "UKEP"}, o \in Outcomes :
         /\ SaveSignature(SignatureOf(d, type, docs[r][d].hash), o)
         /\ type = "PEP" => SignPEP(r)
         /\ type = "UKEP" => SignUKEP(r)
  BY DEF SignPEP, SignUKEP
<1> HIDE DEF d
<1>5. /\ PastDraft(documents[d]) /\ docs[r][d].hash = documents[d].hash
      /\ Order[documents[d].status] <= Order[docs[r][d].status]
  BY <1>1, <1>2 DEF Ahead, PastDraft, Statuses
<1>6. SignPEP(r) => documents[d].status = "sent"
  BY <1>1, <1>2, <1>5, Ordered DEF PastDraft, Statuses
<1>7. SignUKEP(r) => SignatureOf(d, "PEP", documents[d].hash) \in DOMAIN signatures
  BY <1>1, <1>5 DEF RecordBacked, Backed, SignedBy, PastSent
<1>8. Order[documents[d].status] >= 2
  BY <1>2, <1>5, Ordered DEF PastDraft, Statuses
<1>9. PICK type \in {"PEP", "UKEP"}, o \in Outcomes :
         /\ SaveSignature(SignatureOf(d, type, documents[d].hash), o)
         /\ type = "PEP" => SignPEP(r)
         /\ type = "UKEP" => SignUKEP(r)
  BY <1>4, <1>5
<1>10. CASE ~Commits(o)
  BY <1>3, <1>9, <1>10, Stutter DEF SaveSignature
<1>11. CASE Commits(o)
  <2>1. DOMAIN signatures' = DOMAIN signatures \cup {SignatureOf(d, type, documents[d].hash)}
    <3>1. signatures' = BagAdd(signatures, SignatureOf(d, type, documents[d].hash))
      BY <1>9, <1>11 DEF SaveSignature
    <3>2. signatures \in [DOMAIN signatures -> Nat \ {0}]
      BY DEF TypeOK
    <3> QED  BY <3>1, <3>2, BagGrows
  <2>2. CASE type = "PEP"
    <3>1. Lifecycle!SignPEP(d)
      BY <1>1, <1>3, <1>6, <1>9, <2>1, <2>2 DEF Lifecycle!SignPEP, SignatureOf
    <3> QED  BY <1>1, <3>1 DEF Lifecycle!Next
  <2>3. CASE type = "UKEP"
    <3>1. Lifecycle!SignUKEP(d)
      BY <1>1, <1>3, <1>7, <1>8, <1>9, <2>1, <2>3, Ordered
      DEF Lifecycle!SignUKEP, Lifecycle!Signed, SignatureOf, Order
    <3> QED  BY <1>1, <3>1 DEF Lifecycle!Next
  <2> QED  BY <2>2, <2>3
<1> QED  BY <1>10, <1>11

\* Every step of one replica is a step of the lifecycle, or none.
LEMMA StepImplements ==
    ASSUME TypeOK, JobsOK, RecordBacked, OneReplica, OneInv, [Next]_vars
    PROVE  [Lifecycle!Next]_(Lifecycle!vars)
<1> DEFINE Goal == [Lifecycle!Next]_(Lifecycle!vars)
<1>1. ASSUME NEW r \in Replicas, NEW d \in Docs, NEW c \in Contents,
             CreateDocument(r, d, c)
      PROVE  Goal
  <2>1. documents[d].status = "absent" /\ UNCHANGED signatures
    BY <1>1 DEF CreateDocument, FreshDoc, Stored
  <2>2. documents' = documents \/ documents' = [documents EXCEPT ![d] = NewDraft(c)]
    BY <1>1 DEF CreateDocument
  <2>3. CASE documents' = [documents EXCEPT ![d] = NewDraft(c)]
    <3>1. NewDraft(c).status = "draft" /\ NewDraft(c).hash = c
      BY DEF NewDraft
    <3>2. /\ [e \in Docs |-> documents'[e].status]
                = [[e \in Docs |-> documents[e].status] EXCEPT ![d] = "draft"]
          /\ [e \in Docs |-> documents'[e].hash]
                = [[e \in Docs |-> documents[e].hash] EXCEPT ![d] = c]
      BY <2>3, <3>1 DEF TypeOK
    <3>3. Lifecycle!Create(d, c)
      BY <2>1, <3>2 DEF Lifecycle!Create
    <3> QED  BY <3>3, LifecycleSteps
  <2> QED  BY <2>1, <2>2, <2>3, Stutter
<1>2. ASSUME NEW r \in Replicas, RecordStatus(r) \/ SendStatus(r) \/ PepStatus(r)
      PROVE  Goal
  <2>1. job[r].doc \in Docs /\ docs[r][job[r].doc] \in Record /\ Stored(job[r].doc)
    BY <1>2 DEF RecordStatus, SendStatus, PepStatus, At, JobsOK, JobOf, DocSteps,
                OneInv, RequestsOK, RequestOf
  <2>2. PICK o \in Outcomes : SaveStatus(r, job[r].doc, o)
    BY <1>2 DEF RecordStatus, SendStatus, PepStatus
  <2>3. UNCHANGED signatures
    BY <1>2 DEF RecordStatus, SendStatus, PepStatus
  <2> QED  BY <2>1, <2>2, <2>3, SaveStatusImplements DEF OneInv
<1>3. ASSUME NEW r \in Replicas, SignPEP(r) \/ SignUKEP(r)
      PROVE  Goal
  BY <1>3, SigningImplements
<1>4. ASSUME NEW r \in Replicas,
             \/ \E d \in Docs : \/ \E c \in Contents : Upload(r, d, c)
                                \/ Download(r, d) \/ StartUKEP(r, d) \/ CompleteUKEP(r, d)
             \/ \E t \in Tokens :
                   \/ Send(r, t)
                   \/ \E c \in Codes :
                         RequestPEP(r, t, c) \/ \E u \in Users : ConfirmPEP(r, t, u, c)
             \/ PutObject(r) \/ SaveSigningLink(r) \/ LoadDocument(r) \/ SaveOTP(r)
             \/ TryOTP(r) \/ TryMiss(r) \/ CheckOTP(r) \/ CheckMiss(r)
             \/ UseSigningLink(r) \/ Crash(r)
      PROVE  Goal
  <2>1. UNCHANGED <<documents, signatures>>
    BY <1>4 DEF Upload, Download, StartUKEP, CompleteUKEP, Send, RequestPEP, ConfirmPEP,
                PutObject, SaveSigningLink, LoadDocument, SaveOTP, TryOTP, TryMiss, CheckOTP,
                CheckMiss, UseSigningLink, Crash, store
  <2> QED  BY <2>1, Stutter
<1>5. CASE \/ CleanupExpired \/ UNCHANGED vars
           \/ \E t \in Tokens : ExpireLink(t) \/ ExpireOTP(t)
  <2>1. UNCHANGED <<documents, signatures>>
    BY <1>5 DEF CleanupExpired, ExpireLink, ExpireOTP, vars, store
  <2> QED  BY <2>1, Stutter
<1> QED  BY <1>1, <1>2, <1>3, <1>4, <1>5 DEF Next, Request, Step

\* With one replica, and however calls fail and it restarts, the tables of documents
\* and signatures behave as the document lifecycle promises.
THEOREM OneReplicaImplementsLifecycle == ASSUME OneReplica PROVE Spec => ImplementsLifecycle
<1>1. Init => Lifecycle!Init
  BY DEF Init, Lifecycle!Init, NoDocument
<1>2. TypeOK /\ JobsOK /\ RecordBacked /\ OneInv /\ [Next]_vars
         => [Lifecycle!Next]_(Lifecycle!vars)
  BY StepImplements
<1> QED
  BY <1>1, <1>2, TypeCorrect, RecordsAreBacked, OneReplicaHolds, PTL
  DEF Spec, ImplementsLifecycle, Lifecycle!Spec

\* What was signed through a link that was handed out is its version.
SignedViaOK ==
    \A t \in Tokens : \A i \in DOMAIN signedVia[t] :
       t \in handedOut /\ signedVia[t][i] = sentVersion[t]

\* With one replica, every signature through a link is over the version that the link
\* was made for, although codes, answers and processes are lost.
THEOREM LinksSignTheirVersion == ASSUME OneReplica PROVE Spec => []LinkSignsItsVersion
<1>1. Init => SignedViaOK
  BY DEF Init, SignedViaOK
<1>2. TypeOK /\ JobsOK /\ LinksOK /\ OneInv /\ SignedViaOK /\ [Next]_vars => SignedViaOK'
  <2> SUFFICES ASSUME TypeOK, JobsOK, LinksOK, OneInv, SignedViaOK, [Next]_vars
               PROVE  SignedViaOK'
    OBVIOUS
  <2>1. ASSUME NEW t \in handedOut PROVE t \in handedOut' /\ sentVersion'[t] = sentVersion[t]
    <3>1. t \in Tokens /\ signingLinks[t] # "none"
      BY DEF OneInv, HandedOutOK, TypeOK
    <3> QED  BY <3>1, SentLinkStays, HandsOut
  <2>2. CASE signedVia' = signedVia
    BY <2>1, <2>2 DEF SignedViaOK
  <2>3. ASSUME NEW r \in Replicas, SignPEP(r), signedVia' # signedVia PROVE SignedViaOK'
    <3> DEFINE d == job[r].doc
               u == job[r].token
               h == docs[r][d].hash
    <3>1. /\ d \in Docs /\ docs[r][d] \in Record /\ u \in Tokens /\ d = LinkDoc[u]
          /\ u \in handedOut
      BY <2>3 DEF SignPEP, At, JobsOK, JobOf, DocSteps, LinkSteps, OneInv, RequestsOK, RequestOf
    <3>2. /\ PastDraft(documents[d]) /\ sentVersion[u] = documents[d].hash
          /\ Ahead(docs[r][d], documents[d]) /\ docs[r][d] # NoDocument
      BY <3>1, RecordFields DEF OneInv, HandedOutOK, CachesAhead
    <3>3. h = sentVersion[u] /\ h \in Contents
      BY <3>1, <3>2, RecordFields DEF Ahead
    <3>4. signedVia' = [signedVia EXCEPT ![u] = Append(@, h)]
      BY <2>3 DEF SignPEP
    <3> HIDE DEF d, u, h
    <3>5. ASSUME NEW t \in Tokens, NEW i \in DOMAIN signedVia'[t]
          PROVE  t \in handedOut /\ signedVia'[t][i] = sentVersion[t]
      <4>1. signedVia[t] \in Seq(Contents)
        BY DEF TypeOK
      <4>2. CASE t = u
        <5>1. signedVia'[t] = Append(signedVia[t], h)
          BY <3>4, <4>2 DEF TypeOK
        <5>2. \/ i \in DOMAIN signedVia[t] /\ signedVia'[t][i] = signedVia[t][i]
              \/ signedVia'[t][i] = h
          BY <3>3, <3>5, <4>1, <5>1
        <5> QED  BY <3>1, <3>3, <4>2, <5>2 DEF SignedViaOK
      <4>3. CASE t # u
        BY <3>4, <3>5, <4>3 DEF SignedViaOK, TypeOK
      <4> QED  BY <4>2, <4>3
    <3> QED  BY <2>1, <3>5 DEF SignedViaOK
  <2>4. ASSUME NEW r \in Replicas, Request(r) \/ Step(r) \/ Crash(r)
        PROVE  signedVia' = signedVia \/ SignPEP(r)
    BY <2>4, ReplicaMoves DEF Moved
  <2>5. CASE \/ CleanupExpired \/ UNCHANGED vars
             \/ \E t \in Tokens : ExpireLink(t) \/ ExpireOTP(t)
    BY <2>2, <2>5 DEF CleanupExpired, ExpireLink, ExpireOTP, vars, history
  <2> QED  BY <2>2, <2>3, <2>4, <2>5 DEF Next
<1>3. SignedViaOK => LinkSignsItsVersion
  BY DEF SignedViaOK, LinkSignsItsVersion
<1> QED  BY <1>1, <1>2, <1>3, TypeCorrect, LinksHold, OneReplicaHolds, PTL DEF Spec

\* The original of a document that was sent is never replaced by its only replica: the
\* document is a draft in the cache when Put starts, and its row is not ahead of that.
THEOREM OriginalsStay == ASSUME OneReplica PROVE Spec => OriginalStaysOnceSent
<1>1. TypeOK /\ JobsOK /\ OneInv /\ [Next]_vars =>
         \A d \in Docs : documents[d].status \notin {"absent", "draft"} => objects'[d] = objects[d]
  <2> SUFFICES ASSUME TypeOK, JobsOK, OneInv, [Next]_vars, NEW d \in Docs, PastDraft(documents[d])
               PROVE  objects'[d] = objects[d]
    BY DEF PastDraft
  <2>1. ASSUME NEW r \in Replicas, PutObject(r) PROVE objects'[d] = objects[d]
    <3>1. job[r].doc \in Docs /\ docs[r][job[r].doc] \in Record
      BY <2>1 DEF PutObject, At, JobsOK, JobOf, DocSteps
    <3>2. docs[r][job[r].doc].status = "draft" /\ Ahead(docs[r][job[r].doc], documents[job[r].doc])
      BY <2>1, <3>1 DEF PutObject, At, JobsOK, JobOf, OneInv, CachesAhead
    <3>3. job[r].doc # d
      BY <3>1, <3>2, RecordFields DEF Ahead, PastDraft
    <3> QED  BY <2>1, <3>3 DEF PutObject, TypeOK
  <2>2. ASSUME NEW r \in Replicas, Request(r) \/ Crash(r) PROVE objects' = objects
    BY <2>2 DEF Request, CreateDocument, Upload, Download, StartUKEP, CompleteUKEP, Send,
                RequestPEP, ConfirmPEP, Crash, store
  <2>3. ASSUME NEW r \in Replicas, Step(r), ~PutObject(r) PROVE objects' = objects
    BY <2>3 DEF Step, RecordStatus, SaveSigningLink, SendStatus, SaveOTP, LoadDocument, TryOTP,
                TryMiss, CheckOTP, CheckMiss, SignPEP, UseSigningLink, PepStatus, SignUKEP, store
  <2>4. CASE \/ CleanupExpired \/ UNCHANGED vars
             \/ \E t \in Tokens : ExpireLink(t) \/ ExpireOTP(t)
    BY <2>4 DEF CleanupExpired, ExpireLink, ExpireOTP, vars, store
  <2> QED  BY <2>1, <2>2, <2>3, <2>4 DEF Next
<1> QED
  BY <1>1, TypeCorrect, OneReplicaHolds, PTL DEF Spec, OriginalStaysOnceSent

----------------------------------------------------------------------------
(* Signatures of one link, and their announcement.                         *)

\* The bound on the faults is all that the counting below needs of them.
LEMMA FaultsGrow ==
    ASSUME TypeOK, [Next]_vars
    PROVE  faults \in Nat /\ faults' \in Nat /\ faults <= faults'
<1>1. faults \in Nat
  BY BoundAssumption DEF TypeOK
<1>2. \A o : Tally(o) => faults' \in {faults, faults + 1}
  BY DEF Tally
<1>3. ASSUME NEW r \in Replicas, Request(r) PROVE faults' \in {faults, faults + 1}
  <2>1. ASSUME NEW d \in Docs, NEW c \in Contents, CreateDocument(r, d, c)
        PROVE  \E o : Tally(o)
    BY <2>1 DEF CreateDocument
  <2>2. ASSUME NEW t \in Tokens, NEW u \in Users, NEW c \in Codes, ConfirmPEP(r, t, u, c)
        PROVE  \E o : Tally(o)
    BY <2>2 DEF ConfirmPEP
  <2>3. ASSUME \/ \E d \in Docs : \/ \E c \in Contents : Upload(r, d, c)
                                  \/ Download(r, d) \/ StartUKEP(r, d) \/ CompleteUKEP(r, d)
               \/ \E t \in Tokens : Send(r, t) \/ \E c \in Codes : RequestPEP(r, t, c)
        PROVE  faults' = faults
    BY <2>3 DEF Upload, Download, StartUKEP, CompleteUKEP, Send, RequestPEP
  <2> QED  BY <1>2, <1>3, <2>1, <2>2, <2>3 DEF Request
<1>4. ASSUME NEW r \in Replicas, Step(r) PROVE faults' \in {faults, faults + 1}
  <2>1. ASSUME \/ PutObject(r) \/ RecordStatus(r) \/ SaveSigningLink(r) \/ SendStatus(r)
               \/ SaveOTP(r)
        PROVE  \E o : Tally(o)
    BY <2>1 DEF PutObject, RecordStatus, SaveSigningLink, SendStatus, SaveOTP
  <2>2. ASSUME \/ LoadDocument(r) \/ TryOTP(r) \/ TryMiss(r) \/ CheckOTP(r) \/ CheckMiss(r)
        PROVE  \E o : Tally(o)
    BY <2>2 DEF LoadDocument, TryOTP, TryMiss, CheckOTP, CheckMiss
  <2>3. ASSUME SignPEP(r) \/ UseSigningLink(r) \/ PepStatus(r) \/ SignUKEP(r)
        PROVE  \E o : Tally(o)
    BY <2>3 DEF SignPEP, UseSigningLink, PepStatus, SignUKEP
  <2> QED  BY <1>2, <1>4, <2>1, <2>2, <2>3 DEF Step
<1>5. ASSUME NEW r \in Replicas, Crash(r) PROVE faults' \in {faults, faults + 1}
  BY <1>5 DEF Crash
<1>6. ASSUME \/ CleanupExpired \/ UNCHANGED vars
             \/ \E t \in Tokens : ExpireLink(t) \/ ExpireOTP(t)
      PROVE  faults' = faults
  BY <1>6 DEF CleanupExpired, ExpireLink, ExpireOTP, vars
<1>7. faults' \in {faults, faults + 1}
  BY <1>3, <1>4, <1>5, <1>6 DEF Next
<1> QED  BY <1>1, <1>7

\* Where a handler checks a status, it is the one that a cached document then leaves.
LEMMA SignedCachesStay ==
    ASSUME TypeOK, JobsOK, NEW r \in Replicas, Request(r) \/ Step(r),
           NEW q \in Replicas, NEW d \in Docs, docs[q][d].status \in PastSent
    PROVE  docs'[q][d].status \in PastSent
<1> DEFINE Goal == docs'[q][d].status \in PastSent
<1>0. docs \in Caches /\ docs[q][d] # NoDocument
  BY DEF TypeOK, Caches, NoDocument, PastSent
<1>1. ASSUME NEW e \in Docs, NEW x \in Document,
             docs' = docs \/ docs' = Cached(r, e, x),
             docs[r][e].status \notin PastSent \/ x.status \in PastSent
      PROVE  Goal
  <2>1. docs'[q][d] = docs[q][d] \/ (q = r /\ d = e /\ docs'[q][d] = x)
    BY <1>0, <1>1, CacheUpdate
  <2> QED  BY <1>1, <2>1
<1>2. ASSUME NEW e \in Docs, Stored(e), docs' = Cached(r, e, Resident(r, e)) PROVE Goal
  <2>1. Resident(r, e) \in Document
    BY <1>0, <1>2, ResidentType, RecordFields DEF TypeOK
  <2>2. docs[r][e].status \notin PastSent \/ Resident(r, e).status \in PastSent
    BY DEF Resident, NoDocument, PastSent
  <2> QED  BY <1>1, <1>2, <2>1, <2>2
<1>3. ASSUME NEW e \in Docs, NEW c \in Contents, CreateDocument(r, e, c) PROVE Goal
  <2>1. /\ docs[r][e].status \notin PastSent /\ NewDraft(c) \in Document
        /\ docs' = Cached(r, e, NewDraft(c))
    BY <1>3, NewDraftType, RecordFields DEF CreateDocument, FreshDoc, NoDocument, PastSent
  <2> QED  BY <1>1, <2>1
<1>4. ASSUME NEW e \in Docs,
             \/ \E c \in Contents : Upload(r, e, c)
             \/ Download(r, e) \/ CompleteUKEP(r, e)
      PROVE  Goal
  <2>1. Stored(e) /\ docs' = Cached(r, e, Resident(r, e))
    BY <1>4 DEF Upload, Download, CompleteUKEP
  <2> QED  BY <1>2, <2>1
<1>5. ASSUME NEW t \in Tokens, Send(r, t) PROVE Goal
  <2>1. /\ LinkDoc[t] \in Docs /\ Stored(LinkDoc[t])
        /\ docs' = Cached(r, LinkDoc[t], Resident(r, LinkDoc[t]))
    BY <1>5, LinkAssumption DEF Send
  <2> QED  BY <1>2, <2>1
<1>6. ASSUME NEW e \in Docs, StartUKEP(r, e) PROVE Goal
  <2> DEFINE x == WithStatus(Resident(r, e), "awaiting_ukep")
  <2>1. Resident(r, e) \in Record /\ docs' = Cached(r, e, x)
    BY <1>0, <1>6, ResidentType DEF StartUKEP, TypeOK
  <2>2. x \in Document /\ x.status = "awaiting_ukep"
    BY <2>1, StatusUpdate, RecordFields DEF Statuses
  <2> HIDE DEF x
  <2> QED  BY <1>1, <2>1, <2>2 DEF PastSent
<1>7. ASSUME NEW t \in Tokens, NEW c \in Codes,
             RequestPEP(r, t, c) \/ \E u \in Users : ConfirmPEP(r, t, u, c)
      PROVE  Goal
  BY <1>7 DEF RequestPEP, ConfirmPEP
<1>8. CASE PutObject(r) \/ SaveSigningLink(r)
  <2> DEFINE e == job[r].doc
  <2>1. e \in Docs /\ docs[r][e].status = "draft"
    BY <1>8 DEF PutObject, SaveSigningLink, At, JobsOK, JobOf, DocSteps
  <2>2. \A p \in Replicas, f \in Docs : p # r \/ f # e => docs'[p][f] = docs[p][f]
    BY <1>8 DEF PutObject, SaveSigningLink, Cached, TypeOK
  <2> HIDE DEF e
  <2> QED  BY <2>1, <2>2 DEF PastSent
<1>9. CASE LoadDocument(r)
  <2> DEFINE e == job[r].doc
  <2>1. e \in Docs /\ docs[r][e] = NoDocument
    BY <1>9, LinkAssumption DEF LoadDocument, At, JobsOK, JobOf, CodeSteps
  <2>2. docs' = docs \/ docs' = Cached(r, e, documents[e])
    BY <1>9 DEF LoadDocument
  <2> HIDE DEF e
  <2>3. documents[e] \in Document /\ docs[r][e].status \notin PastSent
    BY <2>1 DEF TypeOK, NoDocument, PastSent
  <2> QED  BY <1>1, <2>1, <2>2, <2>3
<1>10. CASE SignPEP(r) \/ SignUKEP(r)
  <2> DEFINE e == job[r].doc
  <2>1. e \in Docs /\ docs[r][e] \in Record
    BY <1>10 DEF SignPEP, SignUKEP, At, JobsOK, JobOf, DocSteps
  <2>2. PICK s \in {"pep_signed", "completed"} :
           docs' = docs \/ docs' = Cached(r, e, WithStatus(docs[r][e], s))
    BY <1>10 DEF SignPEP, SignUKEP
  <2> DEFINE x == WithStatus(docs[r][e], s)
  <2>3. x \in Document /\ x.status \in PastSent
    BY <2>1, StatusUpdate, RecordFields DEF Statuses, PastSent
  <2>4. docs' = docs \/ docs' = Cached(r, e, x)
    BY <2>2
  <2> HIDE DEF e, x
  <2> QED  BY <1>1, <2>1, <2>3, <2>4
<1>11. CASE \/ RecordStatus(r) \/ SendStatus(r) \/ SaveOTP(r) \/ TryOTP(r) \/ TryMiss(r)
            \/ CheckOTP(r) \/ CheckMiss(r) \/ UseSigningLink(r) \/ PepStatus(r)
  BY <1>11 DEF RecordStatus, SendStatus, SaveOTP, TryOTP, TryMiss, CheckOTP, CheckMiss,
               UseSigningLink, PepStatus
<1> QED
  BY <1>3, <1>4, <1>5, <1>6, <1>7, <1>8, <1>9, <1>10, <1>11 DEF Request, Step

\* The replicas that have the document of a link cached as a signed one.
SignedAt(t) == {r \in Replicas : docs[r][LinkDoc[t]].status \in PastSent}

\* A signature leaves its replica with a signed document, or was a fault.
SignaturesCounted ==
    \A t \in Tokens : Len(signedVia[t]) <= Cardinality(SignedAt(t)) + faults

\* SaveSignature of ConfirmPEP adds one signature at most, and for nothing but a fault
\* if its replica does not have the signed document after it.
LEMMA Signs ==
    ASSUME TypeOK, JobsOK, NEW r \in Replicas, SignPEP(r), NEW t \in Tokens
    PROVE  /\ job[r].doc = LinkDoc[job[r].token] /\ docs[r][job[r].doc].status = "sent"
           /\ Len(signedVia'[t]) \in Nat
           /\ \/ signedVia'[t] = signedVia[t]
              \/ /\ job[r].token = t /\ Len(signedVia'[t]) = Len(signedVia[t]) + 1
                 /\ \/ /\ docs'[r][job[r].doc].status = "pep_signed"
                       /\ job'[r].pc = "useLink" /\ job'[r].token = t
                    \/ faults' = faults + 1
<1> DEFINE d == job[r].doc
           h == docs[r][d].hash
<1>1. /\ d \in Docs /\ docs[r][d] \in Record /\ h \in Contents /\ job[r].token \in Tokens
      /\ d = LinkDoc[job[r].token] /\ docs[r][d].status = "sent" /\ At(r, "signPEP")
  BY RecordFields DEF SignPEP, At, JobsOK, JobOf, DocSteps, LinkSteps
<1>2. PICK o \in Outcomes :
         /\ signedVia' = IF Commits(o) THEN [signedVia EXCEPT ![job[r].token] = Append(@, h)]
                         ELSE signedVia
         /\ o = "ok" => docs' = Cached(r, d, WithStatus(docs[r][d], "pep_signed"))
         /\ Continue(r, o, "useLink")
         /\ Tally(o)
  BY DEF SignPEP
<1> HIDE DEF d, h
<1>3. CASE job[r].token = t /\ Commits(o)
  <2>1. signedVia'[t] = Append(signedVia[t], h) /\ signedVia[t] \in Seq(Contents)
    BY <1>2, <1>3 DEF TypeOK
  <2>2. Len(signedVia'[t]) = Len(signedVia[t]) + 1 /\ Len(signedVia'[t]) \in Nat
    BY <1>1, <2>1
  <2>3. CASE o = "ok"
    <3>1. WithStatus(docs[r][d], "pep_signed") \in Document
      BY <1>1, StatusUpdate, RecordFields DEF Statuses
    <3>2. docs'[r][d].status = "pep_signed"
      BY <1>1, <1>2, <2>3, <3>1, StatusUpdate, CacheUpdate DEF TypeOK, Caches, Statuses
    <3>3. job'[r].pc = "useLink" /\ job'[r].token = t
      BY <1>2, <1>3, <2>3 DEF Continue, Goto, TypeOK, Job
    <3> QED  BY <1>1, <1>3, <2>2, <3>2, <3>3 DEF d
  <2>4. CASE o = "lost"
    BY <1>1, <1>2, <1>3, <2>2, <2>4 DEF Tally, d
  <2> QED  BY <1>3, <2>3, <2>4 DEF Commits
<1>4. CASE ~(job[r].token = t /\ Commits(o))
  <2>1. signedVia'[t] = signedVia[t] /\ Len(signedVia[t]) \in Nat
    BY <1>1, <1>2, <1>4 DEF TypeOK
  <2> QED  BY <1>1, <2>1 DEF d
<1> QED  BY <1>3, <1>4

\* Every step keeps SignaturesCounted.
LEMMA SignaturesStep ==
    TypeOK /\ TypeOK' /\ JobsOK /\ SignaturesCounted /\ [Next]_vars => SignaturesCounted'
<1> SUFFICES ASSUME TypeOK, TypeOK', JobsOK, SignaturesCounted, [Next]_vars, NEW t \in Tokens
             PROVE  Len(signedVia'[t]) <= Cardinality(SignedAt(t)') + faults'
  BY DEF SignaturesCounted
<1> DEFINE Goal == Len(signedVia'[t]) <= Cardinality(SignedAt(t)') + faults'
<1>0. /\ SignedAt(t) \subseteq Replicas /\ SignedAt(t)' \subseteq Replicas /\ LinkDoc[t] \in Docs
      /\ Len(signedVia[t]) <= Cardinality(SignedAt(t)) + faults
      /\ Len(signedVia[t]) \in Nat /\ Len(signedVia'[t]) \in Nat
  BY LinkAssumption DEF SignedAt, SignaturesCounted, TypeOK
<1>1. /\ IsFiniteSet(SignedAt(t)) /\ IsFiniteSet(SignedAt(t)')
      /\ Cardinality(SignedAt(t)) \in Nat /\ Cardinality(SignedAt(t)') \in Nat
  BY <1>0, ReplicasAssumption, FS_Subset, FS_CardinalityType
<1>2. faults \in Nat /\ faults' \in Nat /\ faults <= faults'
  BY FaultsGrow
<1>3. ASSUME signedVia'[t] = signedVia[t], SignedAt(t) \subseteq SignedAt(t)'
      PROVE  Goal
  <2>1. Cardinality(SignedAt(t)) <= Cardinality(SignedAt(t)')
    BY <1>1, <1>3, FS_Subset
  <2> QED  BY <1>0, <1>1, <1>2, <1>3, <2>1
<1>4. ASSUME NEW r \in Replicas, Request(r) \/ Step(r)
      PROVE  Goal
  <2>1. SignedAt(t) \subseteq SignedAt(t)'
    BY <1>0, <1>4, SignedCachesStay DEF SignedAt
  <2>2. CASE SignPEP(r) /\ signedVia'[t] # signedVia[t]
    <3>1. /\ Len(signedVia'[t]) = Len(signedVia[t]) + 1
          /\ docs[r][LinkDoc[t]].status = "sent"
          /\ docs'[r][LinkDoc[t]].status = "pep_signed" \/ faults' = faults + 1
      BY <2>2, Signs
    <3>2. CASE docs'[r][LinkDoc[t]].status = "pep_signed"
      <4>1. r \notin SignedAt(t) /\ SignedAt(t) \cup {r} \subseteq SignedAt(t)'
        BY <2>1, <3>1, <3>2 DEF SignedAt, PastSent
      <4>2. /\ Cardinality(SignedAt(t) \cup {r}) = Cardinality(SignedAt(t)) + 1
            /\ Cardinality(SignedAt(t) \cup {r}) <= Cardinality(SignedAt(t)')
        BY <1>1, <4>1, FS_AddElement, FS_Subset
      <4> QED  BY <1>0, <1>1, <1>2, <3>1, <4>2
    <3>3. CASE faults' = faults + 1
      <4>1. Cardinality(SignedAt(t)) <= Cardinality(SignedAt(t)')
        BY <1>1, <2>1, FS_Subset
      <4> QED  BY <1>0, <1>1, <1>2, <3>1, <3>3, <4>1
    <3> QED  BY <3>1, <3>2, <3>3
  <2>3. signedVia' = signedVia \/ SignPEP(r)
    BY <1>4, ReplicaMoves DEF Moved
  <2> QED  BY <1>3, <2>1, <2>2, <2>3
<1>5. ASSUME NEW r \in Replicas, Crash(r)
      PROVE  Goal
  <2>1. signedVia' = signedVia /\ faults' = faults + 1
    BY <1>5 DEF Crash, history
  <2>2. SignedAt(t) \ {r} \subseteq SignedAt(t)'
    BY <1>0, <1>5 DEF Crash, SignedAt, TypeOK
  <2>3. /\ IsFiniteSet(SignedAt(t) \ {r})
        /\ Cardinality(SignedAt(t)) <= Cardinality(SignedAt(t) \ {r}) + 1
        /\ Cardinality(SignedAt(t) \ {r}) \in Nat
    <3>1. r \in SignedAt(t) \/ SignedAt(t) \ {r} = SignedAt(t)
      OBVIOUS
    <3> QED  BY <1>1, <3>1, FS_RemoveElement, FS_CardinalityType
  <2>4. Cardinality(SignedAt(t) \ {r}) <= Cardinality(SignedAt(t)')
    BY <1>1, <2>2, FS_Subset
  <2> QED  BY <1>0, <1>1, <1>2, <2>1, <2>3, <2>4
<1>6. CASE \/ CleanupExpired \/ UNCHANGED vars
           \/ \E u \in Tokens : ExpireLink(u) \/ ExpireOTP(u)
  <2>1. signedVia' = signedVia /\ docs' = docs
    BY <1>6 DEF CleanupExpired, ExpireLink, ExpireOTP, vars, memory, history
  <2> QED  BY <1>3, <2>1 DEF SignedAt
<1> QED  BY <1>4, <1>5, <1>6 DEF Next

\* In every behaviour, with any number of replicas, a link is signed through once by
\* each of them, and once more for each call that fails and each crash.
THEOREM ReplicasSignOnce == Spec => []SignsOncePerReplica
<1>1. Init => SignaturesCounted
  <2> SUFFICES ASSUME Init, NEW t \in Tokens
               PROVE  Len(signedVia[t]) <= Cardinality(SignedAt(t)) + faults
    BY DEF SignaturesCounted
  <2>1. SignedAt(t) = {}
    BY LinkAssumption DEF Init, SignedAt, NoDocument, PastSent
  <2> QED  BY <2>1, FS_EmptySet DEF Init
<1>2. TypeOK /\ SignaturesCounted => SignsOncePerReplica
  <2> SUFFICES ASSUME TypeOK, SignaturesCounted, NEW t \in Tokens
               PROVE  Len(signedVia[t]) <= Cardinality(Replicas) + faults
    BY DEF SignsOncePerReplica
  <2>1. /\ Cardinality(SignedAt(t)) <= Cardinality(Replicas)
        /\ Cardinality(SignedAt(t)) \in Nat /\ Cardinality(Replicas) \in Nat
    BY ReplicasAssumption, FS_Subset, FS_CardinalityType DEF SignedAt
  <2>2. /\ Len(signedVia[t]) \in Nat /\ faults \in Nat
        /\ Len(signedVia[t]) <= Cardinality(SignedAt(t)) + faults
    BY BoundAssumption DEF TypeOK, SignaturesCounted
  <2> QED  BY <2>1, <2>2
<1> QED  BY <1>1, <1>2, SignaturesStep, TypeCorrect, PTL DEF Spec

\* Calls about a link whose row exists.
RowSteps == CodeSteps \cup {"sendStatus", "signPEP", "useLink"}

\* The row of a link exists from before it is handed out.
LinksKnown ==
    /\ \A t \in handedOut : signingLinks[t] # "none"
    /\ \A r \in Replicas : job[r].pc \in RowSteps => signingLinks[job[r].token] # "none"

\* Every step keeps LinksKnown.
LEMMA KnownStep == TypeOK /\ JobsOK /\ LinksOK /\ LinksKnown /\ [Next]_vars => LinksKnown'
<1> SUFFICES ASSUME TypeOK, JobsOK, LinksOK, LinksKnown, [Next]_vars PROVE LinksKnown'
  OBVIOUS
<1>0. \A t \in Tokens : signingLinks[t] # "none" => signingLinks'[t] # "none"
  BY SentLinkStays
<1>1. \A t \in handedOut' : signingLinks'[t] # "none"
  <2>1. ASSUME NEW r \in Replicas, SendStatus(r)
        PROVE  job[r].token \in Tokens /\ signingLinks[job[r].token] # "none"
    BY <2>1 DEF SendStatus, At, JobsOK, JobOf, LinkSteps, LinksKnown, RowSteps
  <2>2. handedOut \subseteq Tokens
    BY DEF TypeOK
  <2>3. CASE handedOut' = handedOut
    BY <1>0, <2>2, <2>3 DEF LinksKnown
  <2>4. ASSUME NEW r \in Replicas, SendStatus(r), handedOut' = handedOut \cup {job[r].token}
        PROVE  \A t \in handedOut' : signingLinks'[t] # "none"
    BY <1>0, <2>1, <2>2, <2>4 DEF LinksKnown
  <2> QED  BY <2>3, <2>4, HandsOut
<1>2. ASSUME NEW r \in Replicas, job[r].pc \in RowSteps
      PROVE  job[r].token \in Tokens /\ signingLinks'[job[r].token] # "none"
  BY <1>0, <1>2 DEF LinksKnown, RowSteps, CodeSteps, JobsOK, JobOf, LinkSteps
<1>3. ASSUME NEW r \in Replicas, Request(r) \/ Step(r) \/ Crash(r), job'[r].pc \in RowSteps
      PROVE  signingLinks'[job'[r].token] # "none"
  <2> USE DEF RowSteps, CodeSteps
  <2>1. ASSUME NEW t \in Tokens, NEW u \in Users, NEW c \in Codes, ConfirmPEP(r, t, u, c)
        PROVE  job'[r].token \in handedOut'
    BY <2>1 DEF ConfirmPEP, FirstCheck, Idle, TypeOK, history
  <2>2. CASE SaveSigningLink(r)
    <3>1. /\ job[r].token \in Tokens /\ job'[r].pc = "sendStatus"
          /\ job'[r].token = job[r].token /\ signingLinks'[job[r].token] = "open"
      BY <1>3, <2>2 DEF SaveSigningLink, At, Continue, Goto, Finish, Idle, Commits, TypeOK, Job,
                        JobsOK, JobOf, LinkSteps
    <3> QED  BY <3>1
  <2>3. ASSUME \/ LoadDocument(r) \/ TryOTP(r) \/ TryMiss(r)
        PROVE  job[r].pc \in RowSteps /\ job'[r].token = job[r].token
    BY <2>3 DEF LoadDocument, TryOTP, TryMiss, At, Goto, TypeOK, Job
  <2>4. ASSUME CheckOTP(r) \/ SignPEP(r)
        PROVE  job[r].pc \in RowSteps /\ job'[r].token = job[r].token
    BY <1>3, <2>4 DEF CheckOTP, SignPEP, At, Continue, Goto, Finish, Idle, TypeOK, Job
  <2>5. ASSUME NEW d \in Docs,
               \/ \E c \in Contents : CreateDocument(r, d, c) \/ Upload(r, d, c)
               \/ Download(r, d) \/ StartUKEP(r, d) \/ CompleteUKEP(r, d)
        PROVE  FALSE
    <3>1. job'[r].pc \in {"idle", "put", "saveStatus", "signUKEP"}
      BY <2>5 DEF CreateDocument, Upload, Download, StartUKEP, CompleteUKEP, Free, Idle, TypeOK
    <3> QED  BY <1>3, <3>1
  <2>6. ASSUME NEW t \in Tokens, Send(r, t) \/ \E c \in Codes : RequestPEP(r, t, c)
        PROVE  FALSE
    <3>1. DOMAIN job = Replicas
      BY DEF TypeOK
    <3>2. Send(r, t) => job'[r].pc = "saveLink"
      BY <3>1 DEF Send, Idle
    <3>3. (\E c \in Codes : RequestPEP(r, t, c)) => job'[r].pc = "saveOTP"
      BY <3>1 DEF RequestPEP, Idle
    <3> QED  BY <1>3, <2>6, <3>2, <3>3
  <2>7. ASSUME \/ PutObject(r) \/ RecordStatus(r) \/ SendStatus(r) \/ SaveOTP(r) \/ CheckMiss(r)
        PROVE  FALSE
    BY <1>3, <2>7 DEF PutObject, RecordStatus, SendStatus, SaveOTP, CheckMiss, Continue, Goto,
                      Finish, Idle, TypeOK, Job
  <2>8. ASSUME UseSigningLink(r) \/ PepStatus(r) \/ SignUKEP(r) \/ Crash(r)
        PROVE  FALSE
    BY <1>3, <2>8 DEF UseSigningLink, PepStatus, SignUKEP, Crash, Continue, Goto,
                      Finish, Idle, TypeOK, Job
  <2> HIDE DEF RowSteps, CodeSteps
  <2> QED
    BY <1>1, <1>2, <1>3, <2>1, <2>2, <2>3, <2>4, <2>5, <2>6, <2>7, <2>8 DEF Request, Step
<1>4. ASSUME NEW r \in Replicas, Request(r) \/ Step(r) \/ Crash(r), NEW q \in Replicas
      PROVE  q = r \/ job'[q] = job[q]
  BY <1>4, ReplicaMoves DEF Moved
<1>5. CASE \/ CleanupExpired \/ UNCHANGED vars
           \/ \E t \in Tokens : ExpireLink(t) \/ ExpireOTP(t)
  <2>1. job' = job
    BY <1>5 DEF CleanupExpired, ExpireLink, ExpireOTP, vars, memory
  <2> QED  BY <1>1, <1>2, <2>1 DEF LinksKnown
<1> QED  BY <1>1, <1>2, <1>3, <1>4, <1>5 DEF LinksKnown, Next

\* The requests that have signed through the link and mark it next.
Marking(t) == {r \in Replicas : At(r, "useLink") /\ job[r].token = t}

\* A signature through an unmarked link is that of a request about to mark it, or of a
\* fault; a marked one is announced, about to be announced, or a fault kept it from that.
AnnouncementsDue ==
    \A t \in Tokens :
       /\ signingLinks[t] \in {"none", "open"} =>
             Len(signedVia[t]) <= Cardinality(Marking(t)) + faults
       /\ signingLinks[t] = "used" =>
             \/ outbox[LinkDoc[t]] \cap PastSent # {} \/ faults > 0
             \/ \E r \in Replicas : At(r, "pepStatus") /\ job[r].token = t

\* The outbox only grows.
LEMMA OutboxGrows ==
    ASSUME TypeOK, JobsOK, [Next]_vars, NEW d \in Docs
    PROVE  outbox[d] \subseteq outbox'[d]
<1>1. ASSUME NEW r \in Replicas, NEW e \in Docs, NEW c \in Contents, CreateDocument(r, e, c)
      PROVE  outbox[d] \subseteq outbox'[d]
  BY <1>1 DEF CreateDocument, TypeOK
<1>2. ASSUME NEW r \in Replicas, NEW e, NEW o, SaveStatus(r, e, o)
      PROVE  outbox[d] \subseteq outbox'[d]
  BY <1>2 DEF SaveStatus, TypeOK
<1>3. ASSUME NEW r \in Replicas, RecordStatus(r) \/ SendStatus(r) \/ PepStatus(r)
      PROVE  outbox[d] \subseteq outbox'[d]
  BY <1>2, <1>3 DEF RecordStatus, SendStatus, PepStatus
<1>4. ASSUME NEW r \in Replicas,
             \/ \E e \in Docs : \/ \E c \in Contents : Upload(r, e, c)
                                \/ Download(r, e) \/ StartUKEP(r, e) \/ CompleteUKEP(r, e)
             \/ \E t \in Tokens, c \in Codes :
                   \/ RequestPEP(r, t, c)
                   \/ \E u \in Users : ConfirmPEP(r, t, u, c)
             \/ Crash(r)
      PROVE  outbox' = outbox
  BY <1>4 DEF Upload, Download, StartUKEP, CompleteUKEP, RequestPEP, ConfirmPEP, Crash, store
<1>5. ASSUME NEW r \in Replicas, Step(r), ~(RecordStatus(r) \/ SendStatus(r) \/ PepStatus(r))
      PROVE  outbox' = outbox
  BY <1>5 DEF Step, PutObject, SaveSigningLink, SaveOTP, LoadDocument, TryOTP, TryMiss,
              CheckOTP, CheckMiss, SignPEP, UseSigningLink, SignUKEP, store
<1>6. ASSUME \/ CleanupExpired \/ UNCHANGED vars
             \/ \E t \in Tokens : ExpireLink(t) \/ ExpireOTP(t)
      PROVE  outbox' = outbox
  BY <1>6 DEF CleanupExpired, ExpireLink, ExpireOTP, vars, store
<1>7. ASSUME NEW r \in Replicas, NEW t \in Tokens, Send(r, t) PROVE outbox' = outbox
  BY <1>7 DEF Send, store
<1> QED  BY <1>1, <1>3, <1>4, <1>5, <1>6, <1>7 DEF Next, Request

\* Between two calls a request waits for the next one, or dies with its process.
LEMMA NextCall ==
    ASSUME NEW r \in Replicas, Request(r) \/ Step(r)
    PROVE  /\ At(r, "useLink") => UseSigningLink(r)
           /\ At(r, "pepStatus") => PepStatus(r)
<1>1. ASSUME Request(r) PROVE Free(r)
  BY <1>1 DEF Request, CreateDocument, Upload, Download, StartUKEP, CompleteUKEP, Send,
              RequestPEP, ConfirmPEP
<1>2. ASSUME Step(r), ~UseSigningLink(r), ~PepStatus(r)
      PROVE  ~At(r, "useLink") /\ ~At(r, "pepStatus")
  BY <1>2 DEF Step, PutObject, RecordStatus, SaveSigningLink, SendStatus, SaveOTP, LoadDocument,
              TryOTP, TryMiss, CheckOTP, CheckMiss, SignPEP, SignUKEP, At
<1>3. (PepStatus(r) => At(r, "pepStatus")) /\ (UseSigningLink(r) => At(r, "useLink"))
  BY DEF PepStatus, UseSigningLink
<1> QED  BY <1>1, <1>2, <1>3 DEF At, Free

\* A confirmed signature's document is announced by PepStatus, unless that fails.
LEMMA Announces ==
    ASSUME TypeOK, JobsOK, NEW r \in Replicas, PepStatus(r)
    PROVE  outbox'[LinkDoc[job[r].token]] \cap PastSent # {} \/ faults' = faults + 1
<1>1. /\ job[r].doc \in Docs /\ job[r].doc = LinkDoc[job[r].token]
      /\ docs[r][job[r].doc].status = "pep_signed"
  BY DEF PepStatus, At, JobsOK, JobOf, DocSteps
<1>2. PICK o \in Outcomes : SaveStatus(r, job[r].doc, o) /\ Tally(o)
  BY DEF PepStatus
<1>3. CASE o = "ok"
  <2>1. outbox' = [outbox EXCEPT ![job[r].doc] = @ \cup {docs[r][job[r].doc].status}]
    BY <1>2, <1>3 DEF SaveStatus, Commits
  <2>2. "pep_signed" \in outbox'[job[r].doc]
    BY <1>1, <2>1 DEF TypeOK
  <2> QED  BY <1>1, <2>2 DEF PastSent
<1>4. CASE o # "ok"
  BY <1>2, <1>4 DEF Outcomes, Tally
<1> QED  BY <1>3, <1>4

\* What UseSigningLink does to the row of the request's link.
LEMMA Marks ==
    ASSUME TypeOK, JobsOK, LinksKnown, NEW r \in Replicas, UseSigningLink(r)
    PROVE  LET t == job[r].token
           IN  /\ t \in Tokens /\ signingLinks[t] # "none"
               /\ \A u \in Tokens : u # t => signingLinks'[u] = signingLinks[u]
               /\ signingLinks'[t] \in {signingLinks[t], "used"}
               /\ \/ signingLinks[t] # "open" /\ signingLinks'[t] = signingLinks[t]
                  \/ faults' = faults + 1
                  \/ /\ signingLinks[t] = "open" /\ signingLinks'[t] = "used"
                     /\ job'[r].pc = "pepStatus" /\ job'[r].token = t
<1> DEFINE t == job[r].token
<1>1. t \in Tokens /\ signingLinks[t] # "none"
  BY DEF UseSigningLink, At, JobsOK, JobOf, LinkSteps, LinksKnown, RowSteps
<1>2. PICK o \in Outcomes :
         /\ signingLinks' = IF Commits(o) /\ signingLinks[t] = "open"
                            THEN [signingLinks EXCEPT ![t] = "used"] ELSE signingLinks
         /\ IF o = "ok" /\ signingLinks[t] = "open" THEN Goto(r, "pepStatus") ELSE Finish(r)
         /\ Tally(o)
  BY DEF UseSigningLink
<1>3. /\ \A u \in Tokens : u # t => signingLinks'[u] = signingLinks[u]
      /\ signingLinks'[t] \in {signingLinks[t], "used"}
  BY <1>1, <1>2 DEF TypeOK
<1>4. CASE o = "ok" /\ signingLinks[t] = "open"
  BY <1>1, <1>2, <1>3, <1>4 DEF Commits, Goto, TypeOK, Job
<1>5. CASE o = "ok" /\ signingLinks[t] # "open"
  BY <1>1, <1>2, <1>3, <1>5
<1>6. CASE o # "ok"
  BY <1>1, <1>2, <1>3, <1>6 DEF Outcomes, Tally
<1> QED  BY <1>4, <1>5, <1>6

\* Every step keeps AnnouncementsDue.
LEMMA AnnouncementsStep ==
    /\ TypeOK /\ TypeOK' /\ JobsOK /\ LinksOK /\ LinksKnown /\ AnnouncementsDue
    /\ [Next]_vars
    => AnnouncementsDue'
<1> SUFFICES ASSUME TypeOK, TypeOK', JobsOK, LinksOK, LinksKnown, AnnouncementsDue, [Next]_vars,
                    NEW t \in Tokens
             PROVE  /\ signingLinks'[t] \in {"none", "open"} =>
                          Len(signedVia'[t]) <= Cardinality(Marking(t)') + faults'
                    /\ signingLinks'[t] = "used" =>
                          \/ outbox'[LinkDoc[t]] \cap PastSent # {} \/ faults' > 0
                          \/ \E r \in Replicas : At(r, "pepStatus")' /\ job'[r].token = t
  BY DEF AnnouncementsDue
<1> DEFINE Unmarked == signingLinks'[t] \in {"none", "open"}
           Covered  == Len(signedVia'[t]) <= Cardinality(Marking(t)') + faults'
           Known    == \/ outbox'[LinkDoc[t]] \cap PastSent # {} \/ faults' > 0
                       \/ \E r \in Replicas : At(r, "pepStatus")' /\ job'[r].token = t
<1>0. /\ Marking(t) \subseteq Replicas /\ Marking(t)' \subseteq Replicas /\ LinkDoc[t] \in Docs
      /\ Len(signedVia[t]) \in Nat /\ Len(signedVia'[t]) \in Nat
      /\ signingLinks[t] \in {"none", "open"} =>
            Len(signedVia[t]) <= Cardinality(Marking(t)) + faults
  BY LinkAssumption DEF Marking, AnnouncementsDue, TypeOK
<1>1. /\ IsFiniteSet(Marking(t)) /\ IsFiniteSet(Marking(t)')
      /\ Cardinality(Marking(t)) \in Nat /\ Cardinality(Marking(t)') \in Nat
  BY <1>0, ReplicasAssumption, FS_Subset, FS_CardinalityType
<1>2. faults \in Nat /\ faults' \in Nat /\ faults <= faults'
  BY FaultsGrow
<1>3. ASSUME signingLinks[t] \in {"none", "open"}, signedVia'[t] = signedVia[t],
             Marking(t) \subseteq Marking(t)'
      PROVE  Covered
  <2>1. Cardinality(Marking(t)) <= Cardinality(Marking(t)')
    BY <1>1, <1>3, FS_Subset
  <2> QED  BY <1>0, <1>1, <1>2, <1>3, <2>1
\* A request that leaves Marking with a fault.
<1>4. ASSUME signingLinks[t] \in {"none", "open"}, signedVia'[t] = signedVia[t],
             NEW r, Marking(t) \ {r} \subseteq Marking(t)', faults' = faults + 1
      PROVE  Covered
  <2>1. /\ IsFiniteSet(Marking(t) \ {r})
        /\ Cardinality(Marking(t)) <= Cardinality(Marking(t) \ {r}) + 1
        /\ Cardinality(Marking(t) \ {r}) \in Nat
    <3>1. CASE r \in Marking(t)
      <4>1. /\ IsFiniteSet(Marking(t) \ {r})
            /\ Cardinality(Marking(t) \ {r}) = Cardinality(Marking(t)) - 1
        BY <1>1, <3>1, FS_RemoveElement
      <4>2. Cardinality(Marking(t) \ {r}) \in Nat
        BY <4>1, FS_CardinalityType
      <4> QED  BY <1>1, <4>1, <4>2
    <3>2. CASE r \notin Marking(t)
      <4>1. Marking(t) \ {r} = Marking(t)
        BY <3>2
      <4> QED  BY <1>1, <4>1
    <3> QED  BY <3>1, <3>2
  <2>2. Cardinality(Marking(t) \ {r}) <= Cardinality(Marking(t)')
    BY <1>1, <1>4, FS_Subset
  <2> QED  BY <1>0, <1>1, <1>2, <1>4, <2>1, <2>2
<1>5. ASSUME signingLinks[t] = "used", outbox[LinkDoc[t]] \cap PastSent # {} \/ faults > 0
      PROVE  Known
  <2>1. outbox[LinkDoc[t]] \subseteq outbox'[LinkDoc[t]]
    BY <1>0, OutboxGrows
  <2> QED  BY <1>2, <1>5, <2>1
<1>6. ASSUME NEW r \in Replicas, Request(r) \/ Step(r) \/ Crash(r), Unmarked
      PROVE  Covered
  <2>1. Moved(r)
    BY <1>6, ReplicaMoves
  <2>2. CASE UseSigningLink(r)
    <3>1. signedVia' = signedVia
      BY <2>2 DEF UseSigningLink, history
    <3>2. Marking(t) \ {r} \subseteq Marking(t)'
      BY <2>1 DEF Moved, Marking, At
    <3>3. CASE job[r].token = t
      <4>1. /\ signingLinks[t] # "none" /\ signingLinks'[t] \in {signingLinks[t], "used"}
            /\ \/ signingLinks[t] # "open" /\ signingLinks'[t] = signingLinks[t]
               \/ faults' = faults + 1
               \/ signingLinks'[t] = "used"
        BY <2>2, <3>3, Marks
      <4> QED  BY <1>4, <1>6, <3>1, <3>2, <4>1
    <3>4. CASE job[r].token # t
      <4>1. signingLinks'[t] = signingLinks[t] /\ r \notin Marking(t)
        BY <2>2, <3>4, Marks DEF Marking
      <4> QED  BY <1>3, <1>6, <3>1, <3>2, <4>1
    <3> QED  BY <3>3, <3>4
  <2>3. CASE ~UseSigningLink(r)
    <3>1. signingLinks[t] \in {"none", "open"}
      <4>1. CASE SaveSigningLink(r)
        <5>1. signingLinks'[t] = signingLinks[t] \/ t = job[r].token
          BY <4>1 DEF SaveSigningLink, TypeOK
        <5>2. signingLinks[job[r].token] = "none"
          BY <4>1 DEF SaveSigningLink, LinksOK, At
        <5> QED  BY <1>6, <5>1, <5>2
      <4> QED  BY <1>6, <2>1, <2>3, <4>1 DEF Moved
    <3>2. CASE Crash(r)
      <4>1. signedVia' = signedVia /\ faults' = faults + 1
        BY <3>2 DEF Crash, history
      <4>2. Marking(t) \ {r} \subseteq Marking(t)'
        BY <2>1 DEF Moved, Marking, At
      <4> QED  BY <1>4, <3>1, <4>1, <4>2
    <3>3. CASE ~Crash(r)
      <4>1. r \notin Marking(t)
        BY <1>6, <2>3, <3>3, NextCall DEF Marking
      <4>2. Marking(t) \subseteq Marking(t)'
        BY <2>1, <4>1 DEF Moved, Marking, At
      <4>3. CASE signedVia'[t] = signedVia[t]
        BY <1>3, <3>1, <4>2, <4>3
      <4>4. CASE signedVia'[t] # signedVia[t]
        <5>1. SignPEP(r)
          BY <2>1, <4>4 DEF Moved
        <5>2. /\ Len(signedVia'[t]) = Len(signedVia[t]) + 1
              /\ (job'[r].pc = "useLink" /\ job'[r].token = t) \/ faults' = faults + 1
          BY <4>4, <5>1, Signs
        <5>3. CASE job'[r].pc = "useLink" /\ job'[r].token = t
          <6>1. Marking(t) \cup {r} \subseteq Marking(t)'
            BY <4>2, <5>3 DEF Marking, At
          <6>2. /\ Cardinality(Marking(t) \cup {r}) = Cardinality(Marking(t)) + 1
                /\ Cardinality(Marking(t) \cup {r}) <= Cardinality(Marking(t)')
            BY <1>1, <4>1, <6>1, FS_AddElement, FS_Subset
          <6> QED  BY <1>0, <1>1, <1>2, <3>1, <5>2, <6>2
        <5>4. CASE faults' = faults + 1
          <6>1. Cardinality(Marking(t)) <= Cardinality(Marking(t)')
            BY <1>1, <4>2, FS_Subset
          <6> QED  BY <1>0, <1>1, <1>2, <3>1, <5>2, <5>4, <6>1
        <5> QED  BY <5>2, <5>3, <5>4
      <4> QED  BY <4>3, <4>4
    <3> QED  BY <3>2, <3>3
  <2> QED  BY <2>2, <2>3
<1>7. ASSUME NEW r \in Replicas, Request(r) \/ Step(r) \/ Crash(r), signingLinks'[t] = "used"
      PROVE  Known
  <2>1. Moved(r)
    BY <1>7, ReplicaMoves
  <2>2. CASE signingLinks[t] = "used"
    <3>1. CASE outbox[LinkDoc[t]] \cap PastSent # {} \/ faults > 0
      BY <1>5, <2>2, <3>1
    <3>2. ASSUME NEW q \in Replicas, At(q, "pepStatus"), job[q].token = t PROVE Known
      <4>1. CASE q # r
        BY <2>1, <3>2, <4>1 DEF Moved, At
      <4>2. CASE q = r /\ Crash(r)
        BY <1>2, <4>2 DEF Crash
      <4>3. CASE q = r /\ ~Crash(r)
        <5>1. PepStatus(r)
          BY <1>7, <3>2, <4>3, NextCall
        <5> QED  BY <1>2, <3>2, <4>3, <5>1, Announces
      <4> QED  BY <4>1, <4>2, <4>3
    <3> QED  BY <2>2, <3>1, <3>2 DEF AnnouncementsDue
  <2>3. CASE signingLinks[t] # "used"
    <3>1. UseSigningLink(r)
      <4>1. ASSUME SaveSigningLink(r) PROVE FALSE
        <5>1. signingLinks'[t] \in {signingLinks[t], "open"}
          BY <4>1 DEF SaveSigningLink, TypeOK
        <5> QED  BY <1>7, <2>3, <5>1
      <4> QED  BY <1>7, <2>1, <2>3, <4>1 DEF Moved
    <3>2. \/ faults' = faults + 1
          \/ job'[r].pc = "pepStatus" /\ job'[r].token = t
      BY <1>7, <2>3, <3>1, Marks
    <3> QED  BY <1>2, <3>2 DEF At
  <2> QED  BY <2>2, <2>3
<1>8. CASE \/ CleanupExpired \/ UNCHANGED vars
           \/ \E u \in Tokens : ExpireLink(u) \/ ExpireOTP(u)
  <2>1. UNCHANGED <<job, signedVia, outbox, faults>>
    BY <1>8 DEF CleanupExpired, ExpireLink, ExpireOTP, vars, memory, store, history
  <2>2. signingLinks'[t] \in {signingLinks[t], "purged"}
    BY <1>8 DEF CleanupExpired, ExpireLink, ExpireOTP, vars, store
  <2>3. Marking(t)' = Marking(t)
    BY <2>1 DEF Marking, At
  <2> QED  BY <1>0, <2>1, <2>2, <2>3 DEF AnnouncementsDue, At
<1> QED  BY <1>6, <1>7, <1>8 DEF Next

\* In every behaviour, with any number of replicas, the signature of a marked link has
\* been announced when no request is in progress, unless a call failed.
THEOREM SignaturesAnnounced == Spec => []SignatureIsAnnounced
<1>1. Init => LinksKnown /\ AnnouncementsDue
  <2> SUFFICES ASSUME Init PROVE LinksKnown /\ AnnouncementsDue
    OBVIOUS
  <2>1. LinksKnown
    BY DEF Init, LinksKnown, Idle, RowSteps, CodeSteps
  <2>2. ASSUME NEW t \in Tokens
        PROVE  signingLinks[t] = "none" /\ Len(signedVia[t]) <= Cardinality(Marking(t)) + faults
    <3>1. Marking(t) = {}
      BY DEF Init, Marking, At, Idle
    <3> QED  BY <3>1, FS_EmptySet DEF Init
  <2> QED  BY <2>1, <2>2 DEF AnnouncementsDue
<1>2. TypeOK /\ AnnouncementsDue => SignatureIsAnnounced
  <2> SUFFICES ASSUME TypeOK, AnnouncementsDue, NEW t \in Tokens, \A r \in Replicas : Free(r)
               PROVE  /\ signingLinks[t] = "used" =>
                            outbox[LinkDoc[t]] \cap PastSent # {} \/ faults > 0
                      /\ signingLinks[t] = "open" => Len(signedVia[t]) <= faults
    BY DEF SignatureIsAnnounced
  <2>1. Marking(t) = {} /\ \A r \in Replicas : ~At(r, "pepStatus")
    BY DEF Marking, At, Free
  <2>2. Cardinality(Marking(t)) = 0
    BY <2>1, FS_EmptySet
  <2>3. Len(signedVia[t]) \in Nat /\ faults \in Nat
    BY BoundAssumption DEF TypeOK
  <2>4. signingLinks[t] \in {"none", "open"} => Len(signedVia[t]) <= 0 + faults
    BY <2>2 DEF AnnouncementsDue
  <2>5. signingLinks[t] = "used" => outbox[LinkDoc[t]] \cap PastSent # {} \/ faults > 0
    BY <2>1 DEF AnnouncementsDue
  <2> QED  BY <2>3, <2>4, <2>5
<1> QED  BY <1>1, <1>2, KnownStep, AnnouncementsStep, TypeCorrect, LinksHold, PTL DEF Spec
=============================================================================
