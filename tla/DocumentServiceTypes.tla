------------------------ MODULE DocumentServiceTypes ------------------------
(***************************************************************************)
(* TypeOK is an invariant of DocumentService.  It is not inductive alone:  *)
(* a call of a handler uses the document, token and code that an earlier   *)
(* step left in job[r], and the cached document it left in docs[r].        *)
(* JobsOK says what they are at each call, and which status the handler's  *)
(* own check has established there; that status still holds because the    *)
(* mutex keeps every other request of the replica away.  The two together  *)
(* are inductive.                                                          *)
(***************************************************************************)
EXTENDS DocumentService, TLAPS

\* The calls that use the document, the code and the link of the request.
DocSteps == {"put", "saveStatus", "saveLink", "sendStatus", "signPEP", "useLink",
             "pepStatus", "signUKEP"}

CodeSteps == {"loadDocument", "tryOTP", "tryMiss", "checkOTP", "checkMiss"}

LinkSteps == {"saveLink", "sendStatus", "saveOTP", "signPEP", "useLink", "pepStatus"}

\* What the request of replica r has established before its next call.
JobOf(r) ==
    LET j == job[r]
    IN  /\ j.pc \in DocSteps => j.doc \in Docs /\ docs[r][j.doc] \in Record
        /\ j.pc \in CodeSteps \cup LinkSteps => j.token \in Tokens
        /\ j.pc \in CodeSteps \cup {"saveOTP"} => j.code \in Codes
        /\ j.pc \in {"saveLink", "sendStatus", "signPEP", "useLink", "pepStatus"} =>
              j.doc = LinkDoc[j.token]
        /\ j.pc \in CodeSteps /\ j.validLink => j.doc = LinkDoc[j.token]
        /\ j.pc = "loadDocument" => j.validLink /\ docs[r][j.doc] = NoDocument
        /\ j.pc = "put" => j.content \in Contents
        /\ j.pc \in {"put", "saveLink"} => docs[r][j.doc].status = "draft"
        /\ j.pc \in {"sendStatus", "signPEP"} => docs[r][j.doc].status = "sent"
        /\ j.pc \in {"useLink", "pepStatus"} => docs[r][j.doc].status = "pep_signed"
        /\ j.pc = "signUKEP" => docs[r][j.doc].status = "awaiting_ukep"

JobsOK == \A r \in Replicas : JobOf(r)

\* BagAdd puts its element in the domain of the bag and keeps the counts positive.
LEMMA BagGrows ==
    ASSUME NEW B, NEW s, B \in [DOMAIN B -> Nat \ {0}]
    PROVE  /\ DOMAIN BagAdd(B, s) = DOMAIN B \cup {s}
           /\ BagAdd(B, s) \in [DOMAIN B \cup {s} -> Nat \ {0}]
<1>1. CASE s \in DOMAIN B
  <2>1. {s} \subseteq DOMAIN B
    BY <1>1
  <2>2. DOMAIN B \cup {s} = DOMAIN B
    BY <2>1
  <2> QED BY <1>1, <2>2 DEF BagAdd
<1>2. CASE s \notin DOMAIN B
  BY <1>2 DEF BagAdd
<1> QED BY <1>1, <1>2

\* The jobs that the actions build are of type Job.
LEMMA JobTypes ==
    /\ Idle \in Job
    /\ \A j \in Job, s \in Steps : [j EXCEPT !.pc = s] \in Job
    /\ \A j \in Job, s \in Steps, v \in BOOLEAN :
          [j EXCEPT !.pc = s, !.validChallenge = v] \in Job
    /\ \A s \in Steps, d \in Docs \cup {None}, t \in Tokens, u \in Users, c \in Codes,
          v \in BOOLEAN :
          [Idle EXCEPT !.pc = s, !.doc = d, !.token = t, !.user = u, !.code = c,
                       !.validLink = v] \in Job
<1>1. Idle \in Job
  BY DEF Idle, Job, Steps
<1>2. \A j \in Job, s \in Steps : [j EXCEPT !.pc = s] \in Job
  BY DEF Job
<1>3. \A j \in Job, s \in Steps, v \in BOOLEAN :
         [j EXCEPT !.pc = s, !.validChallenge = v] \in Job
  BY DEF Job
<1>4. \A s \in Steps, d \in Docs \cup {None}, t \in Tokens, u \in Users, c \in Codes,
      v \in BOOLEAN :
         [Idle EXCEPT !.pc = s, !.doc = d, !.token = t, !.user = u, !.code = c,
                      !.validLink = v] \in Job
  BY <1>1 DEF Job
<1> QED BY <1>1, <1>2, <1>3, <1>4

\* The three ways a step leaves the job, and the count of faults.
LEMMA FinishType ==
    ASSUME job \in [Replicas -> Job], NEW r \in Replicas, Finish(r)
    PROVE  job' \in [Replicas -> Job]
BY JobTypes DEF Finish

\* The request goes on to another call.
LEMMA GotoType ==
    ASSUME job \in [Replicas -> Job], NEW r \in Replicas, NEW s \in Steps, Goto(r, s)
    PROVE  job' \in [Replicas -> Job]
BY JobTypes DEF Goto

\* The request goes on or ends, by the outcome of the call.
LEMMA ContinueType ==
    ASSUME job \in [Replicas -> Job], NEW r \in Replicas, NEW s \in Steps, NEW o,
           Continue(r, o, s)
    PROVE  job' \in [Replicas -> Job]
BY FinishType, GotoType DEF Continue

\* The bound on faults is kept.
LEMMA TallyType ==
    ASSUME faults \in 0 .. MaxFaults, NEW o \in Outcomes, Tally(o)
    PROVE  faults' \in 0 .. MaxFaults
BY BoundAssumption DEF Tally, Outcomes

\* Issuing a code and counting a miss make challenges.
LEMMA ChallengeTypes ==
    /\ NoChallenge \in Challenge
    /\ \A c \in Codes : Issued(c) \in Challenge
    /\ \A x \in Challenge : Missed(x) \in Challenge
BY LimitAssumption, CodesAssumption DEF Challenge, NoChallenge, Issued, Missed

\* A document is a record exactly when it is not absent.
LEMMA DocumentCases ==
    /\ NoDocument \in Document /\ NoDocument \notin Record
    /\ \A x \in Document : x \in Record <=> x # NoDocument
    /\ \A x \in Document : x.status # "absent" <=> x # NoDocument
BY DEF Document, NoDocument, Record, Statuses

\* A record is a document, and has a status and a content.
LEMMA RecordFields ==
    ASSUME NEW x \in Record
    PROVE  x \in Document /\ x # NoDocument /\ x.status \in Statuses /\ x.hash \in Contents
BY DEF Document, Record, NoDocument, Statuses

\* WithStatus changes the status only.
LEMMA StatusUpdate ==
    ASSUME NEW x \in Record, NEW s \in Statuses
    PROVE  /\ WithStatus(x, s) \in Record
           /\ WithStatus(x, s).status = s
           /\ WithStatus(x, s).hash = x.hash
BY DEF Record, WithStatus

\* WithFile keeps the status.
LEMMA ContentUpdate ==
    ASSUME NEW x \in Record, NEW h \in Contents
    PROVE  /\ WithFile(x, h) \in Record
           /\ WithFile(x, h).status = x.status
BY DEF Record, WithFile

\* A new document is a draft with its content.
LEMMA NewDraftType ==
    ASSUME NEW h \in Contents
    PROVE  NewDraft(h) \in Record /\ NewDraft(h).status = "draft"
BY DEF Record, Statuses, NewDraft

\* The type of docs.
Caches == [Replicas -> [Docs -> Document]]

\* Caching one document changes its entry at its replica.
LEMMA CacheUpdate ==
    ASSUME docs \in Caches, NEW r \in Replicas, NEW d \in Docs, NEW x \in Document
    PROVE  /\ Cached(r, d, x) \in Caches
           /\ Cached(r, d, x)[r][d] = x
           /\ \A q \in Replicas, e \in Docs :
                 q # r \/ e # d => Cached(r, d, x)[q][e] = docs[q][e]
BY DEF Caches, Cached

\* A document with a row is resident as a record, cached or not.
LEMMA ResidentType ==
    ASSUME docs \in Caches, documents \in [Docs -> Document],
           NEW r \in Replicas, NEW d \in Docs, Stored(d)
    PROVE  Resident(r, d) \in Record
BY DocumentCases DEF Resident, Stored, Caches

\* SaveStatus writes a record and its status.
LEMMA SaveStatusType ==
    ASSUME documents \in [Docs -> Document], outbox \in [Docs -> SUBSET Statuses],
           NEW r \in Replicas, NEW d \in Docs,
           docs[r][d] \in Record, NEW o, SaveStatus(r, d, o)
    PROVE  /\ documents' \in [Docs -> Document]
           /\ outbox' \in [Docs -> SUBSET Statuses]
<1>1. docs[r][d] \in Document /\ docs[r][d].status \in Statuses
  BY RecordFields
<1>2. documents' \in [Docs -> Document]
  BY <1>1 DEF SaveStatus
<1>3. outbox' \in [Docs -> SUBSET Statuses]
  BY <1>1 DEF SaveStatus
<1> QED BY <1>2, <1>3

\* The handlers build signatures of type Signature.
LEMMA SignatureType ==
    \A d \in Docs, h \in Contents :
       SignatureOf(d, "PEP", h) \in Signature /\ SignatureOf(d, "UKEP", h) \in Signature
BY DEF SignatureOf, Signature

\* The type of signatures.
SignatureRows ==
    /\ DOMAIN signatures \subseteq Signature
    /\ signatures \in [DOMAIN signatures -> Nat \ {0}]

\* SaveSignature loses no signature, adds at most its own, and adds it when it
\* commits.
LEMMA SaveSignatureType ==
    ASSUME SignatureRows, NEW s \in Signature, NEW o, SaveSignature(s, o)
    PROVE  /\ SignatureRows'
           /\ DOMAIN signatures \subseteq DOMAIN signatures'
           /\ DOMAIN signatures' \subseteq DOMAIN signatures \cup {s}
           /\ Commits(o) => s \in DOMAIN signatures'
<1>1. CASE Commits(o)
  <2>1. signatures' = BagAdd(signatures, s)
    BY <1>1 DEF SaveSignature
  <2>2. /\ DOMAIN BagAdd(signatures, s) = DOMAIN signatures \cup {s}
        /\ BagAdd(signatures, s) \in [DOMAIN signatures \cup {s} -> Nat \ {0}]
    BY BagGrows DEF SignatureRows
  <2>3. DOMAIN signatures' = DOMAIN signatures \cup {s}
    BY <2>1, <2>2
  <2>4. signatures' \in [DOMAIN signatures' -> Nat \ {0}]
    BY <2>1, <2>2, <2>3
  <2>5. DOMAIN signatures' \subseteq Signature
    BY <2>3 DEF SignatureRows
  <2> QED BY <2>3, <2>4, <2>5 DEF SignatureRows
<1>2. CASE ~Commits(o)
  BY <1>2 DEF SaveSignature, SignatureRows
<1> QED BY <1>1, <1>2

\* Every step keeps the type, given what JobsOK says of the job it continues.
LEMMA TypeStep == TypeOK /\ JobsOK /\ [Next]_vars => TypeOK'
<1> SUFFICES ASSUME TypeOK, JobsOK, [Next]_vars PROVE TypeOK'
  OBVIOUS
<1> USE DEF TypeOK
<1>1. ASSUME NEW r \in Replicas, NEW d \in Docs, NEW c \in Contents, CreateDocument(r, d, c)
      PROVE TypeOK'
  <2>1. docs' \in [Replicas -> [Docs -> Document]]
    BY <1>1, NewDraftType, RecordFields, CacheUpdate DEF CreateDocument, Caches
  <2>2. documents' \in [Docs -> Document]
    BY <1>1, NewDraftType, RecordFields, CacheUpdate, ZenonT(40) DEF CreateDocument, Caches
  <2>3. outbox' \in [Docs -> SUBSET Statuses]
    <3>1. outbox' \in {outbox, [outbox EXCEPT ![d] = @ \cup {"draft"}]}
      BY <1>1 DEF CreateDocument
    <3>2. "draft" \in Statuses
      BY DEF Statuses
    <3>3. outbox[d] \cup {"draft"} \in SUBSET Statuses
      BY <3>2
    <3> QED BY <3>1, <3>3
  <2>4. faults' \in 0 .. MaxFaults
    BY <1>1, BoundAssumption DEF CreateDocument, Outcomes, Tally
  <2> QED BY <1>1, <2>1, <2>2, <2>3, <2>4 DEF CreateDocument, history
<1>2. ASSUME NEW r \in Replicas, NEW d \in Docs, NEW c \in Contents, Upload(r, d, c)
      PROVE TypeOK'
  <2>1. docs' \in [Replicas -> [Docs -> Document]]
    BY <1>2, ResidentType, RecordFields, CacheUpdate DEF Upload, Caches
  <2>2. job' \in [Replicas -> Job]
    BY <1>2 DEF Upload, Idle, Job, Steps
  <2> QED BY <1>2, <2>1, <2>2 DEF Upload, store, history
<1>3. ASSUME NEW r \in Replicas, NEW d \in Docs, Download(r, d) PROVE TypeOK'
  <2>1. docs' \in [Replicas -> [Docs -> Document]]
    BY <1>3, ResidentType, RecordFields, CacheUpdate DEF Download, Caches
  <2> QED BY <1>3, <2>1 DEF Download, store, history
<1>4. ASSUME NEW r \in Replicas, NEW d \in Docs, StartUKEP(r, d) PROVE TypeOK'
  <2>1. docs' \in [Replicas -> [Docs -> Document]]
    BY <1>4, ResidentType, RecordFields, CacheUpdate, StatusUpdate
          DEF StartUKEP, Caches, Statuses
  <2>2. job' \in [Replicas -> Job]
    BY <1>4 DEF StartUKEP, Idle, Job, Steps
  <2> QED BY <1>4, <2>1, <2>2 DEF StartUKEP, store, history
<1>5. ASSUME NEW r \in Replicas, NEW d \in Docs, CompleteUKEP(r, d) PROVE TypeOK'
  <2>1. docs' \in [Replicas -> [Docs -> Document]]
    BY <1>5, ResidentType, RecordFields, CacheUpdate DEF CompleteUKEP, Caches
  <2>2. job' \in [Replicas -> Job]
    BY <1>5 DEF CompleteUKEP, Idle, Job, Steps
  <2> QED BY <1>5, <2>1, <2>2 DEF CompleteUKEP, store, history
<1>6. ASSUME NEW r \in Replicas, NEW t \in Tokens, Send(r, t) PROVE TypeOK'
  <2>1. docs' \in [Replicas -> [Docs -> Document]]
    BY <1>6, ResidentType, RecordFields, CacheUpdate, LinkAssumption DEF Send, Caches
  <2>2. tokens' \in [Replicas -> SUBSET Tokens]
    BY <1>6 DEF Send
  <2>3. job' \in [Replicas -> Job]
    BY <1>6, LinkAssumption DEF Send, Idle, Job, Steps
  <2> QED BY <1>6, <2>1, <2>2, <2>3 DEF Send, store, history
<1>7. ASSUME NEW r \in Replicas, NEW t \in Tokens, NEW c \in Codes, RequestPEP(r, t, c)
      PROVE TypeOK'
  <2>1. challenges' \in [Replicas -> SUBSET Tokens]
    BY <1>7 DEF RequestPEP
  <2>2. job' \in [Replicas -> Job]
    BY <1>7 DEF RequestPEP, Idle, Job, Steps
  <2> QED BY <1>7, <2>1, <2>2 DEF RequestPEP, store, history
<1>8. ASSUME NEW r \in Replicas, NEW t \in Tokens, NEW u \in Users, NEW c \in Codes,
      ConfirmPEP(r, t, u, c) PROVE TypeOK'
  <2>1. job' \in [Replicas -> Job]
    <3>1. FirstCheck(r, t) \in Steps /\ "loadDocument" \in Steps
      BY DEF FirstCheck, Steps
    <3>2. \E s \in Steps, d \in Docs \cup {None}, v \in BOOLEAN :
             job' = [job EXCEPT ![r] =
                [Idle EXCEPT !.pc = s, !.doc = d, !.token = t, !.user = u, !.code = c,
                      !.validLink = v]]
      BY <1>8, <3>1, LinkAssumption DEF ConfirmPEP
    <3>3. PICK j \in Job : job' = [job EXCEPT ![r] = j]
      BY <3>2, JobTypes
    <3> QED BY <3>3
  <2>2. faults' \in 0 .. MaxFaults
    BY <1>8, TallyType DEF ConfirmPEP, Outcomes
  <2> QED BY <1>8, <2>1, <2>2 DEF ConfirmPEP, store, history
<1>9. ASSUME NEW r \in Replicas, PutObject(r) PROVE TypeOK'
  <2>f. job[r].doc \in Docs /\ docs[r][job[r].doc] \in Record /\ job[r].content \in Contents
    BY <1>9, LinkAssumption DEF PutObject, At, JobsOK, JobOf, DocSteps, CodeSteps, LinkSteps
  <2>1. docs' \in [Replicas -> [Docs -> Document]]
    BY <1>9, <2>f, ContentUpdate, RecordFields, CacheUpdate DEF PutObject, Caches
  <2>2. objects' \in [Docs -> Contents \cup {None}]
    BY <1>9, <2>f DEF PutObject
  <2>3. job' \in [Replicas -> Job]
    BY <1>9, <2>f, ContinueType DEF PutObject, Steps
  <2>4. faults' \in 0 .. MaxFaults
    BY <1>9, <2>f, TallyType DEF PutObject
  <2> QED BY <1>9, <2>1, <2>2, <2>3, <2>4 DEF PutObject, history
<1>10. ASSUME NEW r \in Replicas, RecordStatus(r) PROVE TypeOK'
  <2>f. job[r].doc \in Docs /\ docs[r][job[r].doc] \in Record
    BY <1>10, LinkAssumption DEF RecordStatus, At, JobsOK, JobOf, DocSteps, CodeSteps, LinkSteps
  <2>1. documents' \in [Docs -> Document]
    BY <1>10, <2>f, SaveStatusType DEF RecordStatus
  <2>2. outbox' \in [Docs -> SUBSET Statuses]
    BY <1>10, <2>f, SaveStatusType DEF RecordStatus
  <2>3. job' \in [Replicas -> Job]
    BY <1>10, <2>f, FinishType DEF RecordStatus
  <2>4. faults' \in 0 .. MaxFaults
    BY <1>10, <2>f, TallyType DEF RecordStatus
  <2> QED BY <1>10, <2>1, <2>2, <2>3, <2>4 DEF RecordStatus, history
<1>11. ASSUME NEW r \in Replicas, SaveSigningLink(r) PROVE TypeOK'
  <2>f. job[r].doc \in Docs /\ docs[r][job[r].doc] \in Record /\ job[r].token \in Tokens
    BY <1>11, LinkAssumption
          DEF SaveSigningLink, At, JobsOK, JobOf, DocSteps, CodeSteps, LinkSteps
  <2>1. signingLinks' \in [Tokens -> LinkStates]
    BY <1>11, <2>f DEF SaveSigningLink, LinkStates
  <2>2. docs' \in [Replicas -> [Docs -> Document]]
    BY <1>11, <2>f, StatusUpdate, RecordFields, CacheUpdate
          DEF SaveSigningLink, Caches, Statuses
  <2>3. sentVersion' \in [Tokens -> Contents \cup {None}]
    BY <1>11, <2>f, RecordFields DEF SaveSigningLink
  <2>4. job' \in [Replicas -> Job]
    BY <1>11, <2>f, ContinueType DEF SaveSigningLink, Steps
  <2>5. faults' \in 0 .. MaxFaults
    BY <1>11, <2>f, TallyType DEF SaveSigningLink
  <2> QED BY <1>11, <2>1, <2>2, <2>3, <2>4, <2>5 DEF SaveSigningLink
<1>12. ASSUME NEW r \in Replicas, SendStatus(r) PROVE TypeOK'
  <2>f. job[r].doc \in Docs /\ docs[r][job[r].doc] \in Record /\ job[r].token \in Tokens
    BY <1>12, LinkAssumption DEF SendStatus, At, JobsOK, JobOf, DocSteps, CodeSteps, LinkSteps
  <2>1. documents' \in [Docs -> Document]
    BY <1>12, <2>f, SaveStatusType DEF SendStatus
  <2>2. outbox' \in [Docs -> SUBSET Statuses]
    BY <1>12, <2>f, SaveStatusType DEF SendStatus
  <2>3. handedOut' \subseteq Tokens
    BY <1>12, <2>f DEF SendStatus
  <2>4. job' \in [Replicas -> Job]
    BY <1>12, <2>f, FinishType DEF SendStatus
  <2>5. faults' \in 0 .. MaxFaults
    BY <1>12, <2>f, TallyType DEF SendStatus
  <2> QED BY <1>12, <2>1, <2>2, <2>3, <2>4, <2>5 DEF SendStatus
<1>13. ASSUME NEW r \in Replicas, SaveOTP(r) PROVE TypeOK'
  <2>f. job[r].token \in Tokens /\ job[r].code \in Codes
    BY <1>13, LinkAssumption DEF SaveOTP, At, JobsOK, JobOf, DocSteps, CodeSteps, LinkSteps
  <2>1. otpChallenges' \in [Tokens -> Challenge]
    BY <1>13, <2>f, ChallengeTypes, ZenonT(40) DEF SaveOTP
  <2>2. codesIssued' \in [Tokens -> Nat]
    BY <1>13, <2>f DEF SaveOTP
  <2>3. job' \in [Replicas -> Job]
    BY <1>13, <2>f, FinishType DEF SaveOTP
  <2>4. faults' \in 0 .. MaxFaults
    BY <1>13, <2>f, TallyType DEF SaveOTP
  <2> QED BY <1>13, <2>1, <2>2, <2>3, <2>4 DEF SaveOTP
<1>14. ASSUME NEW r \in Replicas, LoadDocument(r) PROVE TypeOK'
  <2>f. job[r].doc \in Docs
    BY <1>14, LinkAssumption DEF LoadDocument, At, JobsOK, JobOf, DocSteps, CodeSteps, LinkSteps
  <2>1. docs' \in [Replicas -> [Docs -> Document]]
    BY <1>14, <2>f, DocumentCases, CacheUpdate DEF LoadDocument, Caches, Stored
  <2>2. job' \in [Replicas -> Job]
    BY <1>14, <2>f, GotoType DEF LoadDocument, FirstCheck, Steps
  <2>3. faults' \in 0 .. MaxFaults
    BY <1>14, <2>f, TallyType DEF LoadDocument, Outcomes
  <2> QED BY <1>14, <2>1, <2>2, <2>3 DEF LoadDocument, store, history
<1>15. ASSUME NEW r \in Replicas, TryOTP(r) PROVE TypeOK'
  <2>f. job[r].token \in Tokens
    BY <1>15, LinkAssumption DEF TryOTP, At, JobsOK, JobOf, DocSteps, CodeSteps, LinkSteps
  <2>1. otpChallenges' \in [Tokens -> Challenge]
    BY <1>15, <2>f, ChallengeTypes DEF TryOTP, DeleteOTP
  <2>2. job' \in [Replicas -> Job]
    <3>1. \E s \in Steps, v \in BOOLEAN :
             job' = [job EXCEPT ![r] = [@ EXCEPT !.pc = s, !.validChallenge = v]]
      BY <1>15 DEF TryOTP, Steps
    <3>2. PICK j \in Job : job' = [job EXCEPT ![r] = j]
      BY <3>1, JobTypes
    <3> QED BY <3>2
  <2>3. faults' \in 0 .. MaxFaults
    BY <1>15, <2>f, TallyType DEF TryOTP
  <2> QED BY <1>15, <2>1, <2>2, <2>3 DEF TryOTP, history
<1>16. ASSUME NEW r \in Replicas, TryMiss(r) PROVE TypeOK'
  <2>f. job[r].token \in Tokens
    BY <1>16, LinkAssumption DEF TryMiss, At, JobsOK, JobOf, DocSteps, CodeSteps, LinkSteps
  <2>1. otpChallenges' \in [Tokens -> Challenge]
    BY <1>16, <2>f, ChallengeTypes DEF TryMiss, CountMiss
  <2>2. job' \in [Replicas -> Job]
    BY <1>16, <2>f, GotoType DEF TryMiss, Steps
  <2>3. faults' \in 0 .. MaxFaults
    BY <1>16, <2>f, TallyType DEF TryMiss
  <2> QED BY <1>16, <2>1, <2>2, <2>3 DEF TryMiss, history
<1>17. ASSUME NEW r \in Replicas, CheckOTP(r) PROVE TypeOK'
  <2>f. job[r].token \in Tokens
    BY <1>17, LinkAssumption DEF CheckOTP, At, JobsOK, JobOf, DocSteps, CodeSteps, LinkSteps
  <2>1. otpChallenges' \in [Tokens -> Challenge]
    BY <1>17, <2>f, ChallengeTypes DEF CheckOTP, DeleteOTP
  <2>2. job' \in [Replicas -> Job]
    BY <1>17, <2>f, GotoType, FinishType DEF CheckOTP, Steps
  <2>3. faults' \in 0 .. MaxFaults
    BY <1>17, <2>f, TallyType DEF CheckOTP
  <2> QED BY <1>17, <2>1, <2>2, <2>3 DEF CheckOTP, history
<1>18. ASSUME NEW r \in Replicas, CheckMiss(r) PROVE TypeOK'
  <2>f. job[r].token \in Tokens
    BY <1>18, LinkAssumption DEF CheckMiss, At, JobsOK, JobOf, DocSteps, CodeSteps, LinkSteps
  <2>1. otpChallenges' \in [Tokens -> Challenge]
    BY <1>18, <2>f, ChallengeTypes DEF CheckMiss, CountMiss
  <2>2. job' \in [Replicas -> Job]
    BY <1>18, <2>f, FinishType DEF CheckMiss
  <2>3. faults' \in 0 .. MaxFaults
    BY <1>18, <2>f, TallyType DEF CheckMiss
  <2> QED BY <1>18, <2>1, <2>2, <2>3 DEF CheckMiss, history
<1>19. ASSUME NEW r \in Replicas, SignPEP(r) PROVE TypeOK'
  <2>f. job[r].doc \in Docs /\ docs[r][job[r].doc] \in Record /\ job[r].token \in Tokens
    BY <1>19, LinkAssumption DEF SignPEP, At, JobsOK, JobOf, DocSteps, CodeSteps, LinkSteps
  <2>1. SignatureRows'
    <3>1. PICK o \in Outcomes :
             SaveSignature(SignatureOf(job[r].doc, "PEP", docs[r][job[r].doc].hash), o)
      BY <1>19 DEF SignPEP
    <3>2. PICK s \in Signature : s = SignatureOf(job[r].doc, "PEP", docs[r][job[r].doc].hash)
      BY <2>f, SignatureType, RecordFields
    <3>3. SignatureRows
      BY DEF SignatureRows
    <3>4. SaveSignature(s, o)
      BY <3>1, <3>2
    <3> QED BY <3>3, <3>4, SaveSignatureType
  <2>2. signedVia' \in [Tokens -> Seq(Contents)]
    BY <1>19, <2>f, RecordFields DEF SignPEP
  <2>3. docs' \in [Replicas -> [Docs -> Document]]
    BY <1>19, <2>f, StatusUpdate, RecordFields, CacheUpdate DEF SignPEP, Caches, Statuses
  <2>4. challenges' \in [Replicas -> SUBSET Tokens]
    <3>1. challenges' \in {challenges, [challenges EXCEPT ![r] = @ \ {job[r].token}]}
      BY <1>19 DEF SignPEP
    <3> QED BY <3>1, ZenonT(40)
  <2>5. job' \in [Replicas -> Job]
    BY <1>19, <2>f, ContinueType DEF SignPEP, Steps
  <2>6. faults' \in 0 .. MaxFaults
    BY <1>19, <2>f, TallyType DEF SignPEP
  <2> QED BY <1>19, <2>1, <2>2, <2>3, <2>4, <2>5, <2>6 DEF SignPEP, SignatureRows
<1>20. ASSUME NEW r \in Replicas, UseSigningLink(r) PROVE TypeOK'
  <2>f. job[r].token \in Tokens
    BY <1>20, LinkAssumption
          DEF UseSigningLink, At, JobsOK, JobOf, DocSteps, CodeSteps, LinkSteps
  <2>1. signingLinks' \in [Tokens -> LinkStates]
    BY <1>20, <2>f DEF UseSigningLink, LinkStates
  <2>2. job' \in [Replicas -> Job]
    BY <1>20, <2>f, GotoType, FinishType DEF UseSigningLink, Steps
  <2>3. faults' \in 0 .. MaxFaults
    BY <1>20, <2>f, TallyType DEF UseSigningLink
  <2> QED BY <1>20, <2>1, <2>2, <2>3 DEF UseSigningLink, history
<1>21. ASSUME NEW r \in Replicas, PepStatus(r) PROVE TypeOK'
  <2>f. job[r].doc \in Docs /\ docs[r][job[r].doc] \in Record /\ job[r].token \in Tokens
    BY <1>21, LinkAssumption DEF PepStatus, At, JobsOK, JobOf, DocSteps, CodeSteps, LinkSteps
  <2>1. documents' \in [Docs -> Document]
    BY <1>21, <2>f, SaveStatusType DEF PepStatus
  <2>2. outbox' \in [Docs -> SUBSET Statuses]
    BY <1>21, <2>f, SaveStatusType DEF PepStatus
  <2>3. confirmed' \in [Tokens -> Nat]
    BY <1>21, <2>f DEF PepStatus
  <2>4. job' \in [Replicas -> Job]
    BY <1>21, <2>f, FinishType DEF PepStatus
  <2>5. faults' \in 0 .. MaxFaults
    BY <1>21, <2>f, TallyType DEF PepStatus
  <2> QED BY <1>21, <2>1, <2>2, <2>3, <2>4, <2>5 DEF PepStatus
<1>22. ASSUME NEW r \in Replicas, SignUKEP(r) PROVE TypeOK'
  <2>f. job[r].doc \in Docs /\ docs[r][job[r].doc] \in Record
    BY <1>22, LinkAssumption DEF SignUKEP, At, JobsOK, JobOf, DocSteps, CodeSteps, LinkSteps
  <2>1. SignatureRows'
    <3>1. PICK o \in Outcomes :
             SaveSignature(SignatureOf(job[r].doc, "UKEP", docs[r][job[r].doc].hash), o)
      BY <1>22 DEF SignUKEP
    <3>2. PICK s \in Signature : s = SignatureOf(job[r].doc, "UKEP", docs[r][job[r].doc].hash)
      BY <2>f, SignatureType, RecordFields
    <3>3. SignatureRows
      BY DEF SignatureRows
    <3>4. SaveSignature(s, o)
      BY <3>1, <3>2
    <3> QED BY <3>3, <3>4, SaveSignatureType
  <2>2. docs' \in [Replicas -> [Docs -> Document]]
    BY <1>22, <2>f, StatusUpdate, RecordFields, CacheUpdate DEF SignUKEP, Caches, Statuses
  <2>3. job' \in [Replicas -> Job]
    BY <1>22, <2>f, ContinueType DEF SignUKEP, Steps
  <2>4. faults' \in 0 .. MaxFaults
    BY <1>22, <2>f, TallyType DEF SignUKEP
  <2> QED BY <1>22, <2>1, <2>2, <2>3, <2>4 DEF SignUKEP, SignatureRows, history
<1>23. ASSUME NEW r \in Replicas, Crash(r) PROVE TypeOK'
  <2>1. docs' \in [Replicas -> [Docs -> Document]]
    BY <1>23, DocumentCases DEF Crash
  <2>2. tokens' \in [Replicas -> SUBSET Tokens]
    BY <1>23 DEF Crash
  <2>3. challenges' \in [Replicas -> SUBSET Tokens]
    BY <1>23 DEF Crash
  <2>4. job' \in [Replicas -> Job]
    BY <1>23, FinishType DEF Crash
  <2>5. faults' \in 0 .. MaxFaults
    BY <1>23, BoundAssumption DEF Crash
  <2> QED BY <1>23, <2>1, <2>2, <2>3, <2>4, <2>5 DEF Crash, store, history
<1>24. ASSUME NEW t \in Tokens, ExpireLink(t) PROVE TypeOK'
  <2> QED BY <1>24 DEF ExpireLink, memory, store, history
<1>25. ASSUME NEW t \in Tokens, ExpireOTP(t) PROVE TypeOK'
  <2>1. otpChallenges' \in [Tokens -> Challenge]
    BY <1>25, ChallengeTypes DEF ExpireOTP
  <2> QED BY <1>25, <2>1 DEF ExpireOTP, memory, history
<1>26. ASSUME CleanupExpired PROVE TypeOK'
  <2>1. signingLinks' \in [Tokens -> LinkStates]
    BY <1>26 DEF CleanupExpired, LinkStates
  <2> QED BY <1>26, <2>1 DEF CleanupExpired, memory, history
<1>27. CASE UNCHANGED vars
  BY <1>27 DEF vars, memory, store, history
<1> QED
  BY <1>1, <1>2, <1>3, <1>4, <1>5, <1>6, <1>7, <1>8, <1>9, <1>10, <1>11, <1>12, <1>13, <1>14,
        <1>15, <1>16, <1>17, <1>18, <1>19, <1>20, <1>21, <1>22, <1>23, <1>24, <1>25, <1>26,
        <1>27 DEF Next, Request, Step


\* A request depends on its own replica's memory only: the mutex of the replica
\* protects what it has established.
LEMMA OtherJobs ==
    ASSUME NEW q \in Replicas, JobOf(q), job'[q] = job[q], docs'[q] = docs[q]
    PROVE  JobOf(q)'
BY DEF JobOf

\* An idle replica has established nothing.
LEMMA IdleJob ==
    ASSUME NEW q \in Replicas, job'[q].pc = "idle"
    PROVE  JobOf(q)'
BY DEF JobOf, DocSteps, CodeSteps, LinkSteps

\* Every step establishes, for the next call of its request, what JobsOK says.
LEMMA JobStep == TypeOK /\ JobsOK /\ [Next]_vars => JobsOK'
<1> SUFFICES ASSUME TypeOK, JobsOK, [Next]_vars PROVE JobsOK'
  OBVIOUS
<1> USE DEF TypeOK, JobsOK
<1>1. ASSUME NEW r \in Replicas, NEW d \in Docs, NEW c \in Contents, CreateDocument(r, d, c)
      PROVE JobsOK'
  <2>1. \A q \in Replicas : q # r => job'[q] = job[q] /\ docs'[q] = docs[q]
    BY <1>1 DEF CreateDocument, Cached
  <2>2. job'[r].pc = "idle"
    BY <1>1 DEF CreateDocument, Free
  <2> QED BY <2>1, <2>2, OtherJobs, IdleJob
<1>2. ASSUME NEW r \in Replicas, NEW d \in Docs, NEW c \in Contents, Upload(r, d, c)
      PROVE JobsOK'
  <2>1. \A q \in Replicas : q # r => job'[q] = job[q] /\ docs'[q] = docs[q]
    BY <1>2 DEF Upload, Cached
  <2>2. JobOf(r)'
    BY <1>2, ResidentType, RecordFields, CacheUpdate, LinkAssumption
          DEF Upload, JobOf, Free, Idle, Caches, DocSteps, CodeSteps, LinkSteps
  <2> QED BY <2>1, <2>2, OtherJobs
<1>3. ASSUME NEW r \in Replicas, NEW d \in Docs, Download(r, d) PROVE JobsOK'
  <2>1. \A q \in Replicas : q # r => job'[q] = job[q] /\ docs'[q] = docs[q]
    BY <1>3 DEF Download, Cached
  <2>2. job'[r].pc = "idle"
    BY <1>3 DEF Download, Free
  <2> QED BY <2>1, <2>2, OtherJobs, IdleJob
<1>4. ASSUME NEW r \in Replicas, NEW d \in Docs, StartUKEP(r, d) PROVE JobsOK'
  <2>1. \A q \in Replicas : q # r => job'[q] = job[q] /\ docs'[q] = docs[q]
    BY <1>4 DEF StartUKEP, Cached
  <2>2. JobOf(r)'
    <3>1. Resident(r, d) \in Record
      BY <1>4, ResidentType DEF StartUKEP, Caches
    <3>2. WithStatus(Resident(r, d), "awaiting_ukep") \in Record
      BY <3>1, StatusUpdate DEF Statuses
    <3>3. docs'[r][d] \in Record
      BY <1>4, <3>2, CacheUpdate, RecordFields DEF StartUKEP, Caches
    <3>4. job'[r].pc = "saveStatus" /\ job'[r].doc = d
      BY <1>4 DEF StartUKEP, Idle
    <3> QED BY <3>1, <3>3, <3>4 DEF JobOf, DocSteps, CodeSteps, LinkSteps
  <2> QED BY <2>1, <2>2, OtherJobs
<1>5. ASSUME NEW r \in Replicas, NEW d \in Docs, CompleteUKEP(r, d) PROVE JobsOK'
  <2>1. \A q \in Replicas : q # r => job'[q] = job[q] /\ docs'[q] = docs[q]
    BY <1>5 DEF CompleteUKEP, Cached
  <2>2. JobOf(r)'
    BY <1>5, ResidentType, RecordFields, CacheUpdate, LinkAssumption
          DEF CompleteUKEP, JobOf, Free, Idle, Caches, DocSteps, CodeSteps, LinkSteps
  <2> QED BY <2>1, <2>2, OtherJobs
<1>6. ASSUME NEW r \in Replicas, NEW t \in Tokens, Send(r, t) PROVE JobsOK'
  <2>1. \A q \in Replicas : q # r => job'[q] = job[q] /\ docs'[q] = docs[q]
    BY <1>6 DEF Send, Cached
  <2>2. JobOf(r)'
    BY <1>6, ResidentType, RecordFields, CacheUpdate, LinkAssumption
          DEF Send, JobOf, Free, Idle, Caches, DocSteps, CodeSteps, LinkSteps
  <2> QED BY <2>1, <2>2, OtherJobs
<1>7. ASSUME NEW r \in Replicas, NEW t \in Tokens, NEW c \in Codes, RequestPEP(r, t, c)
      PROVE JobsOK'
  <2>1. \A q \in Replicas : q # r => job'[q] = job[q] /\ docs'[q] = docs[q]
    BY <1>7 DEF RequestPEP
  <2>2. JobOf(r)'
    BY <1>7, LinkAssumption DEF RequestPEP, JobOf, Free, Idle, DocSteps, CodeSteps, LinkSteps
  <2> QED BY <2>1, <2>2, OtherJobs
<1>8. ASSUME NEW r \in Replicas, NEW t \in Tokens, NEW u \in Users, NEW c \in Codes,
      ConfirmPEP(r, t, u, c) PROVE JobsOK'
  <2>1. \A q \in Replicas : q # r => job'[q] = job[q] /\ docs'[q] = docs[q]
    BY <1>8 DEF ConfirmPEP
  <2>2. JobOf(r)'
    <3>1. FirstCheck(r, t) \in {"checkOTP", "tryOTP"}
      BY DEF FirstCheck
    <3>2. PICK s \in {"loadDocument", "checkOTP", "tryOTP"}, d \in {LinkDoc[t], None},
          v \in BOOLEAN :
             /\ job' = [job EXCEPT ![r] =
                   [Idle EXCEPT !.pc = s, !.doc = d, !.token = t, !.user = u, !.code = c,
                         !.validLink = v]]
             /\ s = "loadDocument" => v /\ docs[r][LinkDoc[t]] = NoDocument
             /\ v => d = LinkDoc[t]
      BY <1>8, <3>1 DEF ConfirmPEP
    <3>3. /\ job'[r].pc = s /\ job'[r].doc = d /\ job'[r].token = t /\ job'[r].code = c
          /\ job'[r].validLink = v
      BY <3>2 DEF Idle
    <3>4. docs' = docs
      BY <1>8 DEF ConfirmPEP
    <3> QED BY <3>2, <3>3, <3>4, LinkAssumption DEF JobOf, DocSteps, CodeSteps, LinkSteps
  <2> QED BY <2>1, <2>2, OtherJobs
<1>9. ASSUME NEW r \in Replicas, PutObject(r) PROVE JobsOK'
  <2>1. \A q \in Replicas : q # r => job'[q] = job[q] /\ docs'[q] = docs[q]
    BY <1>9 DEF PutObject, Cached, Goto, Finish, Continue
  <2>2. JobOf(r)'
    <3>1. /\ job[r].doc \in Docs /\ docs[r][job[r].doc] \in Record /\ job[r].content \in Contents
          /\ docs[r][job[r].doc].status = "draft"
      BY <1>9 DEF PutObject, At, JobOf, DocSteps, CodeSteps, LinkSteps
    <3>2. CASE job'[r] = Idle
      BY <3>2, IdleJob DEF Idle
    <3>3. CASE job'[r] # Idle
      <4>1. /\ job' = [job EXCEPT ![r].pc = "saveStatus"]
            /\ docs' = Cached(r, job[r].doc, WithFile(docs[r][job[r].doc], job[r].content))
        BY <1>9, <3>3 DEF PutObject, Continue, Finish, Goto
      <4>2. WithFile(docs[r][job[r].doc], job[r].content) \in Record
        BY <3>1, ContentUpdate
      <4>3. docs'[r][job[r].doc] \in Record
        BY <3>1, <4>1, <4>2, CacheUpdate, RecordFields DEF Caches
      <4>4. job'[r].pc = "saveStatus" /\ job'[r].doc = job[r].doc
        BY <4>1 DEF Job
      <4> QED BY <3>1, <4>3, <4>4 DEF JobOf, DocSteps, CodeSteps, LinkSteps
    <3> QED BY <3>2, <3>3
  <2> QED BY <2>1, <2>2, OtherJobs
<1>10. ASSUME NEW r \in Replicas, RecordStatus(r) PROVE JobsOK'
  <2>1. \A q \in Replicas : q # r => job'[q] = job[q] /\ docs'[q] = docs[q]
    BY <1>10 DEF RecordStatus, Finish
  <2>2. job'[r].pc = "idle"
    BY <1>10 DEF RecordStatus, Finish, Idle
  <2> QED BY <2>1, <2>2, OtherJobs, IdleJob
<1>11. ASSUME NEW r \in Replicas, SaveSigningLink(r) PROVE JobsOK'
  <2>1. \A q \in Replicas : q # r => job'[q] = job[q] /\ docs'[q] = docs[q]
    BY <1>11 DEF SaveSigningLink, Cached, Goto, Finish, Continue
  <2>2. JobOf(r)'
    <3>1. /\ job[r].doc \in Docs /\ docs[r][job[r].doc] \in Record
          /\ job[r].token \in Tokens /\ job[r].doc = LinkDoc[job[r].token]
      BY <1>11 DEF SaveSigningLink, At, JobOf, DocSteps, CodeSteps, LinkSteps
    <3>2. CASE job'[r] = Idle
      BY <3>2, IdleJob DEF Idle
    <3>3. CASE job'[r] # Idle
      <4>1. /\ job' = [job EXCEPT ![r].pc = "sendStatus"]
            /\ docs' = Cached(r, job[r].doc, WithStatus(docs[r][job[r].doc], "sent"))
        BY <1>11, <3>3 DEF SaveSigningLink, Continue, Finish, Goto
      <4>2. /\ WithStatus(docs[r][job[r].doc], "sent") \in Record
            /\ WithStatus(docs[r][job[r].doc], "sent").status = "sent"
        BY <3>1, StatusUpdate DEF Statuses
      <4>3. docs'[r][job[r].doc] \in Record /\ docs'[r][job[r].doc].status = "sent"
        BY <3>1, <4>1, <4>2, CacheUpdate, RecordFields DEF Caches
      <4>4. job'[r].pc = "sendStatus" /\ job'[r].doc = job[r].doc /\ job'[r].token = job[r].token
        BY <4>1 DEF Job
      <4> QED BY <3>1, <4>3, <4>4 DEF JobOf, DocSteps, CodeSteps, LinkSteps
    <3> QED BY <3>2, <3>3
  <2> QED BY <2>1, <2>2, OtherJobs
<1>12. ASSUME NEW r \in Replicas, SendStatus(r) PROVE JobsOK'
  <2>1. \A q \in Replicas : q # r => job'[q] = job[q] /\ docs'[q] = docs[q]
    BY <1>12 DEF SendStatus, Finish
  <2>2. job'[r].pc = "idle"
    BY <1>12 DEF SendStatus, Finish, Idle
  <2> QED BY <2>1, <2>2, OtherJobs, IdleJob
<1>13. ASSUME NEW r \in Replicas, SaveOTP(r) PROVE JobsOK'
  <2>1. \A q \in Replicas : q # r => job'[q] = job[q] /\ docs'[q] = docs[q]
    BY <1>13 DEF SaveOTP, Finish
  <2>2. job'[r].pc = "idle"
    BY <1>13 DEF SaveOTP, Finish, Idle
  <2> QED BY <2>1, <2>2, OtherJobs, IdleJob
<1>14. ASSUME NEW r \in Replicas, LoadDocument(r) PROVE JobsOK'
  <2>1. \A q \in Replicas : q # r => job'[q] = job[q] /\ docs'[q] = docs[q]
    BY <1>14 DEF LoadDocument, Cached, Goto
  <2>2. JobOf(r)'
    BY <1>14, RecordFields, CacheUpdate, LinkAssumption
          DEF LoadDocument, JobOf, At, Goto, FirstCheck, Caches, DocSteps, CodeSteps, LinkSteps
  <2> QED BY <2>1, <2>2, OtherJobs
<1>15. ASSUME NEW r \in Replicas, TryOTP(r) PROVE JobsOK'
  <2>1. \A q \in Replicas : q # r => job'[q] = job[q] /\ docs'[q] = docs[q]
    BY <1>15 DEF TryOTP
  <2>2. JobOf(r)'
    BY <1>15, LinkAssumption DEF TryOTP, JobOf, At, DocSteps, CodeSteps, LinkSteps
  <2> QED BY <2>1, <2>2, OtherJobs
<1>16. ASSUME NEW r \in Replicas, TryMiss(r) PROVE JobsOK'
  <2>1. \A q \in Replicas : q # r => job'[q] = job[q] /\ docs'[q] = docs[q]
    BY <1>16 DEF TryMiss, Goto
  <2>2. JobOf(r)'
    BY <1>16, LinkAssumption DEF TryMiss, JobOf, At, Goto, DocSteps, CodeSteps, LinkSteps
  <2> QED BY <2>1, <2>2, OtherJobs
<1>17. ASSUME NEW r \in Replicas, CheckOTP(r) PROVE JobsOK'
  <2>1. \A q \in Replicas : q # r => job'[q] = job[q] /\ docs'[q] = docs[q]
    BY <1>17 DEF CheckOTP, Goto, Finish
  <2>2. JobOf(r)'
    <3>1. CASE job'[r] = Idle
      BY <3>1, IdleJob DEF Idle
    <3>2. CASE job' = [job EXCEPT ![r].pc = "checkMiss"]
      BY <1>17, <3>2, LinkAssumption
            DEF CheckOTP, At, Job, JobOf, DocSteps, CodeSteps, LinkSteps
    <3>3. CASE job' = [job EXCEPT ![r].pc = "signPEP"] /\ Signable(r)
      <4>1. /\ job[r].token \in Tokens /\ job[r].doc = LinkDoc[job[r].token]
            /\ docs[r][job[r].doc].status = "sent"
        BY <1>17, <3>3 DEF CheckOTP, At, Signable, JobOf, DocSteps, CodeSteps, LinkSteps
      <4>2. job[r].doc \in Docs /\ docs[r][job[r].doc] \in Record
        BY <4>1, LinkAssumption, DocumentCases
      <4>3. job'[r].pc = "signPEP" /\ job'[r].doc = job[r].doc /\ job'[r].token = job[r].token
        BY <3>3 DEF Job
      <4>4. docs' = docs
        BY <1>17 DEF CheckOTP
      <4> QED BY <4>1, <4>2, <4>3, <4>4 DEF JobOf, DocSteps, CodeSteps, LinkSteps
    <3> QED BY <1>17, <3>1, <3>2, <3>3 DEF CheckOTP, Goto, Finish
  <2> QED BY <2>1, <2>2, OtherJobs
<1>18. ASSUME NEW r \in Replicas, CheckMiss(r) PROVE JobsOK'
  <2>1. \A q \in Replicas : q # r => job'[q] = job[q] /\ docs'[q] = docs[q]
    BY <1>18 DEF CheckMiss, Finish
  <2>2. job'[r].pc = "idle"
    BY <1>18 DEF CheckMiss, Finish, Idle
  <2> QED BY <2>1, <2>2, OtherJobs, IdleJob
<1>19. ASSUME NEW r \in Replicas, SignPEP(r) PROVE JobsOK'
  <2>1. \A q \in Replicas : q # r => job'[q] = job[q] /\ docs'[q] = docs[q]
    BY <1>19 DEF SignPEP, Cached, Goto, Finish, Continue
  <2>2. JobOf(r)'
    <3>1. /\ job[r].doc \in Docs /\ docs[r][job[r].doc] \in Record
          /\ job[r].token \in Tokens /\ job[r].doc = LinkDoc[job[r].token]
      BY <1>19 DEF SignPEP, At, JobOf, DocSteps, CodeSteps, LinkSteps
    <3>2. CASE job'[r] = Idle
      BY <3>2, IdleJob DEF Idle
    <3>3. CASE job'[r] # Idle
      <4>1. /\ job' = [job EXCEPT ![r].pc = "useLink"]
            /\ docs' = Cached(r, job[r].doc, WithStatus(docs[r][job[r].doc], "pep_signed"))
        BY <1>19, <3>3 DEF SignPEP, Continue, Finish, Goto
      <4>2. /\ WithStatus(docs[r][job[r].doc], "pep_signed") \in Record
            /\ WithStatus(docs[r][job[r].doc], "pep_signed").status = "pep_signed"
        BY <3>1, StatusUpdate DEF Statuses
      <4>3. docs'[r][job[r].doc] \in Record /\ docs'[r][job[r].doc].status = "pep_signed"
        BY <3>1, <4>1, <4>2, CacheUpdate, RecordFields DEF Caches
      <4>4. job'[r].pc = "useLink" /\ job'[r].doc = job[r].doc /\ job'[r].token = job[r].token
        BY <4>1 DEF Job
      <4> QED BY <3>1, <4>3, <4>4 DEF JobOf, DocSteps, CodeSteps, LinkSteps
    <3> QED BY <3>2, <3>3
  <2> QED BY <2>1, <2>2, OtherJobs
<1>20. ASSUME NEW r \in Replicas, UseSigningLink(r) PROVE JobsOK'
  <2>1. \A q \in Replicas : q # r => job'[q] = job[q] /\ docs'[q] = docs[q]
    BY <1>20 DEF UseSigningLink, Goto, Finish
  <2>2. JobOf(r)'
    <3>1. /\ job[r].doc \in Docs /\ docs[r][job[r].doc] \in Record
          /\ job[r].token \in Tokens /\ docs[r][job[r].doc].status = "pep_signed"
          /\ job[r].doc = LinkDoc[job[r].token]
      BY <1>20 DEF UseSigningLink, At, JobOf, DocSteps, CodeSteps, LinkSteps
    <3>2. CASE job'[r] = Idle
      BY <3>2, IdleJob DEF Idle
    <3>3. CASE job' = [job EXCEPT ![r].pc = "pepStatus"]
      <4>1. job'[r].pc = "pepStatus" /\ job'[r].doc = job[r].doc /\ job'[r].token = job[r].token
        BY <3>3 DEF Job
      <4>2. docs' = docs
        BY <1>20 DEF UseSigningLink
      <4> QED BY <3>1, <4>1, <4>2 DEF JobOf, DocSteps, CodeSteps, LinkSteps
    <3> QED BY <1>20, <3>2, <3>3 DEF UseSigningLink, Goto, Finish
  <2> QED BY <2>1, <2>2, OtherJobs
<1>21. ASSUME NEW r \in Replicas, PepStatus(r) PROVE JobsOK'
  <2>1. \A q \in Replicas : q # r => job'[q] = job[q] /\ docs'[q] = docs[q]
    BY <1>21 DEF PepStatus, Finish
  <2>2. job'[r].pc = "idle"
    BY <1>21 DEF PepStatus, Finish, Idle
  <2> QED BY <2>1, <2>2, OtherJobs, IdleJob
<1>22. ASSUME NEW r \in Replicas, SignUKEP(r) PROVE JobsOK'
  <2>1. \A q \in Replicas : q # r => job'[q] = job[q] /\ docs'[q] = docs[q]
    BY <1>22 DEF SignUKEP, Cached, Goto, Finish, Continue
  <2>2. JobOf(r)'
    <3>1. /\ job[r].doc \in Docs /\ docs[r][job[r].doc] \in Record
          /\ job[r].pc = "signUKEP"
      BY <1>22 DEF SignUKEP, At, JobOf, DocSteps, CodeSteps, LinkSteps
    <3>2. CASE job'[r] = Idle
      BY <3>2, IdleJob DEF Idle
    <3>3. CASE job'[r] # Idle
      <4>1. /\ job' = [job EXCEPT ![r].pc = "saveStatus"]
            /\ docs' = Cached(r, job[r].doc, WithStatus(docs[r][job[r].doc], "completed"))
        BY <1>22, <3>3 DEF SignUKEP, Continue, Finish, Goto
      <4>2. /\ WithStatus(docs[r][job[r].doc], "completed") \in Record
            /\ WithStatus(docs[r][job[r].doc], "completed").status = "completed"
        BY <3>1, StatusUpdate DEF Statuses
      <4>3. docs'[r][job[r].doc] \in Record /\ docs'[r][job[r].doc].status = "completed"
        BY <3>1, <4>1, <4>2, CacheUpdate, RecordFields DEF Caches
      <4>4. job'[r].pc = "saveStatus" /\ job'[r].doc = job[r].doc /\ job'[r].token = job[r].token
        BY <4>1 DEF Job
      <4> QED BY <3>1, <4>3, <4>4 DEF JobOf, DocSteps, CodeSteps, LinkSteps
    <3> QED BY <3>2, <3>3
  <2> QED BY <2>1, <2>2, OtherJobs
<1>23. ASSUME NEW r \in Replicas, Crash(r) PROVE JobsOK'
  <2>1. \A q \in Replicas : q # r => job'[q] = job[q] /\ docs'[q] = docs[q]
    BY <1>23 DEF Crash, Finish
  <2>2. job'[r].pc = "idle"
    BY <1>23 DEF Crash, Finish, Idle
  <2> QED BY <2>1, <2>2, OtherJobs, IdleJob
<1>24. ASSUME NEW t \in Tokens, ExpireLink(t) PROVE JobsOK'
  <2>1. UNCHANGED <<job, docs>>
    BY <1>24 DEF ExpireLink, memory
  <2> QED BY <2>1, OtherJobs
<1>25. ASSUME NEW t \in Tokens, ExpireOTP(t) PROVE JobsOK'
  <2>1. UNCHANGED <<job, docs>>
    BY <1>25 DEF ExpireOTP, memory
  <2> QED BY <2>1, OtherJobs
<1>26. ASSUME CleanupExpired PROVE JobsOK'
  <2>1. UNCHANGED <<job, docs>>
    BY <1>26 DEF CleanupExpired, memory
  <2> QED BY <2>1, OtherJobs
<1>27. CASE UNCHANGED vars
  <2>1. UNCHANGED <<job, docs>>
    BY <1>27 DEF vars, memory
  <2> QED BY <2>1, OtherJobs
<1> QED
  BY <1>1, <1>2, <1>3, <1>4, <1>5, <1>6, <1>7, <1>8, <1>9, <1>10, <1>11, <1>12, <1>13, <1>14,
        <1>15, <1>16, <1>17, <1>18, <1>19, <1>20, <1>21, <1>22, <1>23, <1>24, <1>25, <1>26,
        <1>27 DEF Next, Request, Step

\* Both hold at the start.
LEMMA TypeInit == Init => TypeOK /\ JobsOK
<1> SUFFICES ASSUME Init PROVE TypeOK /\ JobsOK
  OBVIOUS
<1>1. NoDocument \in Document /\ Idle \in Job /\ NoChallenge \in Challenge
  BY DocumentCases, JobTypes, ChallengeTypes
<1>2. /\ docs \in [Replicas -> [Docs -> Document]]
      /\ job \in [Replicas -> Job]
      /\ documents \in [Docs -> Document]
      /\ otpChallenges \in [Tokens -> Challenge]
  BY <1>1 DEF Init
<1>3. /\ DOMAIN signatures \subseteq Signature
      /\ signatures \in [DOMAIN signatures -> Nat \ {0}]
  BY DEF Init
<1>4. signingLinks \in [Tokens -> LinkStates]
  BY DEF Init, LinkStates
<1>5. signedVia \in [Tokens -> Seq(Contents)]
  BY DEF Init
<1>6. faults \in 0 .. MaxFaults
  BY BoundAssumption DEF Init
<1>7. TypeOK
  BY <1>2, <1>3, <1>4, <1>5, <1>6 DEF Init, TypeOK
<1>8. JobsOK
  BY DEF Init, JobsOK, JobOf, Idle, DocSteps, CodeSteps, LinkSteps
<1> QED BY <1>7, <1>8

\* The state of every replica and table has its type in every behaviour, and a
\* handler reaches a call only with what the call needs: the document, link and
\* code of its request, and a cached document in the status that it checked.
THEOREM TypeCorrect == Spec => [](TypeOK /\ JobsOK)
<1>1. Init => TypeOK /\ JobsOK
  BY TypeInit
<1>2. TypeOK /\ JobsOK /\ [Next]_vars => (TypeOK /\ JobsOK)'
  BY TypeStep, JobStep
<1> QED BY <1>1, <1>2, PTL DEF Spec
=============================================================================
