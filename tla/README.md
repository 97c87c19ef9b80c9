# Formal model of the digital notary

TLA+ models of the document-signing service in this repository (Go: `cmd/`,
`internal/`), the TLC runs that check them on small instances, and TLAPS proofs
of what matters most for every instance. Paths below are relative to `src/`.

## 1. The system

Customers create documents, upload the original, and send a one-time signing
link; the contractor confirms with a one-time code (PEP); the customer may add a
qualified signature through an external provider (UKEP). Three API replicas
(up to twelve under the autoscaler) share one PostgreSQL database and one
object store. Status changes go through an outbox, Kafka and RabbitMQ to SMS.

| Component | State | Operations | Talks to |
|---|---|---|---|
| Document service, `internal/service/app.go` | per process: `docs`, `tokens`, `challenges` (caches), `signatures`, `audit`; one mutex | CreateDocument, Upload, Download, Send, RequestPEP, ConfirmPEP, StartUKEP, CompleteUKEP, Get, List, Evidence, VerifyAudit | repository, object store, under the mutex |
| Sessions, same file | per process: `sessions` | CreateSession, User, Logout, LogoutAll | repository |
| Repository, `internal/persistence/repository.go` | ten tables | one transaction or statement per method | PostgreSQL |
| Outbox publisher, `cmd/outbox-publisher` | the open transaction | PublishPending: select, publish each, mark, commit | PostgreSQL, Kafka |
| Notification dispatcher, `cmd/notification-dispatcher` | reader position, one AMQP channel | fetch, targets, publish two tasks, commit the offset | Kafka, PostgreSQL, RabbitMQ |
| Notification worker, `cmd/notification-worker` | one delivery at a time | take, send, acknowledge | RabbitMQ, SMS gateway |
| Cleanup, `cmd/cleanup` | none | deletes expired codes, links and sessions | PostgreSQL |
| Billing, `internal/billing`, webhook in `internal/httpapi/router.go` | table subscriptions | UpsertSubscription, consumeDocumentAllowance | PostgreSQL |
| Audit trail, `app.go` | `audit`: one hash chain per process; table audit_events | auditLocked, VerifyAudit | repository |
| Rate limiter, `internal/httpapi/ratelimit.go` | windows per address and path | Allow | none |
| OIDC login, `internal/auth/sber.go` | a signed state cookie in the browser | Start, Complete | provider, Sessions |
| Migrations, `internal/persistence/migrate.go` | table schema_migrations | Migrate | PostgreSQL |

What makes the code hard to test:

- **Replicas with caches.** A document is cached when it is first touched and is
  never invalidated. Guards are decided on the cached copy and SaveStatus writes
  the copy over the row without a condition.
- **One request, several transactions.** Send makes two calls, ConfirmPEP up to
  eight (link, document, two validations of up to two statements each, signature,
  link used, status), Upload and CompleteUKEP two. The mutex only orders requests of one process; a
  crash, an error or another replica comes between any two calls.
- **Errors that are not what they seem.** A call may commit and be reported as an
  error; some errors are ignored (LoadDocument and the first ValidateOTP in
  ConfirmPEP, the handler's error in the worker).
- **At-least-once delivery** through three brokers with a different way to lose
  and repeat at each hop.
- **Updates and requests from outside in any order**: the billing service repeats
  and reorders its webhooks while documents are counted; any browser may open the
  address of any login callback, twice and at two replicas; a client spreads its
  guesses of a code over replicas that count requests each for itself.
- **One chain, many readers**: audit events of all documents of a process are
  linked to each other, and read back one document at a time.

What makes each component correct: a record never claims a signature the table
lacks; the content is frozen by sending; a link and a code are good for one
confirmation; a saved signature is announced; every outbox row reaches
the topic and, unless an error drops it, both participants; a revoked session is refused;
a sign-in logs in one browser, once; the plan's limit is kept; a code takes a
bounded number of guesses; what the audit trail confirms was recorded that way.
`PROJECT.json` lists the hazards line by line with the properties that watch them.

## 2. The modules

| Module | Models |
|---|---|
| `OneTimeCode` | a row of otp_challenges and the three statements on it |
| `DocumentService` | the replicas, their caches and calls, the tables, the object store |
| `DocumentLifecycle` | abstract specification: what the database promises about a document |
| `Delivery` | outbox, publishers, topic, dispatcher, queue, workers, gateway |
| `Sessions` | session caches and the sessions table |
| `Login` | extends `Sessions`: the identity provider, browsers with their cookies, the login callback |
| `AuditTrail` | the chain of each process, table audit_events, VerifyAudit |
| `Billing` | subscriptions, their row locks, and the two transactions that change them |
| `RateLimiter` | the windows of each API process |
| `Throttling` | extends `RateLimiter` and `OneTimeCode`: a client trying codes of one link |
| `DocumentServiceTypes` | proof of type correctness, with what each pending call carries |
| `DocumentServiceProofs` | proofs about records, links, codes and sent versions; one replica implements DocumentLifecycle |
| `DocumentLifecycleProofs` | proof that the lifecycle keeps its invariants |
| `LoginProofs` | proofs about sessions, and about logins with them |
| `AuditTrailProofs`, `BillingProofs`, `ThrottlingProofs`, `DeliveryProofs` | proofs about the module of that name |
| `MCDocumentService`, `MCDelivery`, `MCLogin`, `MCAuditTrail`, `MCBilling`, `MCThrottling` | instances for TLC |

### DocumentService

`docs`, `tokens` and `challenges` are the maps of each App, `job[r]` the
request that holds `a.mu` of replica `r` and its next call, and `documents`,
`signatures`, `signingLinks`, `otpChallenges`, `outbox`, `objects` the shared
stores. An action is **one call with the local code up to the next call**, so
that everything that can come between two calls does:

- `CreateDocument`: one action (one transaction; nobody else knows the id).
- `Upload`, `PutObject`, `RecordStatus`; `Send`, `SaveSigningLink`, `SendStatus`.
- `RequestPEP`, `SaveOTP`.
- `ConfirmPEP` (link), `LoadDocument`, `TryOTP`/`TryMiss` (the first
  ValidateOTP: its DELETE and its UPDATE), `CheckOTP`/`CheckMiss` (the second),
  `SignPEP`, `UseSigningLink`, `PepStatus`.
- `StartUKEP`, `RecordStatus`; `CompleteUKEP`, `SignUKEP`, `RecordStatus`.
- `Download`, which only fills the cache. Get, List and Evidence change nothing.
- `ExpireLink`, `ExpireOTP`, `CleanupExpired`, `Crash`.

Each call has an outcome: `ok`, `failed`, or `lost` (it committed, the answer was
an error). `failed`, `lost` and `Crash` use up `MaxFaults`.

Abstractions: a content, its SHA-256 and the evidence hash over it are one value;
a link's document is the constant `LinkDoc`; codes and tokens are model values.
`newID` draws a value that has no trace anywhere. A request names documents that
have a row and links that Send returned: a client cannot know the id of a
document whose creation failed. The objects are shared, as with S3 or the HTTP
gateway. The audit rows are in `AuditTrail` and the allowance of a plan in
`Billing`: here SaveDocument may just be refused. The mode without a database is left out.
`handedOut`, `sentVersion`, `signedVia`, `codesIssued` and `confirmed` are history.

### Delivery

Events are numbered by `created_at` and may commit in any order. `SelectBatch`,
`PublishNext` and `CommitBatch` are the one transaction of PublishPending: row
locks, SKIP LOCKED, rollback on any error, at-least-once. The dispatcher skips a
message on an error and still commits later offsets; its channel is opened once
(`Disconnect` is for good). A worker acknowledges a task whatever the sender said,
as the shadowed `err` of `internal/notifications/rabbit.go:69` has it. The topic
is one partition and the queue a bag, since workers prefetch. `dropped` is history:
it is set by the three errors that lose a notification for good, namely an error of
NotificationTargets (the message is skipped), a message that RabbitMQ never gets
although Publish reported none, and an SMS that the gateway refuses.

### Sessions

A session lives in the cache of the replica that created it and in the table;
another replica asks the table each time. CreateSession, Logout and LogoutAll are
one action each. logout-all authenticates in one lock section (`Authenticate`)
and revokes in another. RequestLogin and VerifyLogin are not modelled, because
no route calls them.

### Login

`Login` EXTENDS `Sessions` and drives its CreateSession, Logout and Authenticate
from browsers. State, nonce and PKCE verifier of one login are one value, drawn
by `Start` into the one cookie of a browser. `SignIn` is the provider. `Callback`
is Complete up to the provider's answer and `Finish` the rest of the handler: two
steps, between which the same callback may run at another replica, another login
may start in the browser, or the replica may stop. The verification of cookie and
ID token is a guard: the key is shared by the replicas and the code is bound to
the nonce and the verifier. A code is good for one exchange, as the provider has it.
`Foreign` users have a number that CreateSession refuses: their callback ends in
`FinishRefused`, with the code and the cookie used up.

### AuditTrail

`audit[r]` is the chain of a process and `rows` the table. An operation appends in
one action and saves in the next, since another process may act in between;
`RequestPEP` and the accepted agreement of `ConfirmPEP` are never saved. A hash is
as good as the unique time of its event. The code hashes nanoseconds and the
column keeps microseconds, so an event is `fine` when a row of it does not hash to
what it says; the constant `FineTimes` says whether clocks have such digits.
`VerifyAudit` follows the events of memory or of the table, as Get does.
The list that VerifyAudit sorts and walks is the set of its events (`Listed`), whose
times differ: each must name the latest of the earlier ones, or none if it is the
first (`Follows`), which is what the loop compares hash by hash.

### Billing

`tx[c]` is the transaction of a database connection and its next statement.
ensureUser is an upsert and so locks the row of the user, SELECT ... FOR UPDATE
that of the subscription; `End` is commit or rollback. `start` is now(), which
PostgreSQL fixes when the transaction begins. Webhooks carry any update at any
time: old, repeated, or with an unknown plan, which is refused. `log` is history:
the documents and updates that were committed for a user, in order.

### RateLimiter and Throttling

`Accept` and `Refuse` are the two answers of Allow, with the purge of a full table
done in both and after the entry was read. `accepted` is history: when each request
of a key was let through; it belongs to a process, and `Restart` is another process
with an empty table. `Throttling` puts the limiter of each
replica in front of the two statements of ValidateOTP on the shared row of
`OneTimeCode`, called twice at a replica that did not issue the code. The UPDATE
that counts a miss is a step of its own, either statement and SaveOTP may fail or
lose its answer, and the process may stop between them (`Crash`).

Operators commented "Mutant" stand next to the definition they change: each is a
plausible bug of that code, and a property of the project refutes it.

## 3. Runs

| Run | Instance | Properties |
|---|---|---|
| `documents_cluster` | 2 replicas, 1 document, 1 link that may expire, 1 code, 2 contents, 1 fault | TypeOK, RecordBacked, OneConfirmationPerLink, CodeSignsOnce, SignedVersionWasSent, SignatureIsAnnounced |
| `documents_replica` | 1 replica, 2 links, 2 codes, 2 contents, 2 faults | LinkSignsItsVersion, SignsOncePerReplica, OriginalStaysOnceSent, ImplementsLifecycle |
| `documents_stale` | 2 replicas, 2 links, no faults | StatusNeverRegresses is **violated** |
| `documents_code` | 2 replicas, 1 link, no faults | ValidCodeNotRejected is **violated** |
| `delivery_pipeline` | 2 events, 2 publishers, 1 worker, batches of 2, 1 fault, fair | TypeOK, PublishedIsInTopic, RepeatsNeedFaults, ExactlyOnceUntilFault, CommittedIsNotified, EventuallyInTopic, EventuallyNotified |
| `delivery_worker` | 1 event, 1 fault | AckedWasSent is **violated** |
| `login` | 2 replicas, 2 browsers, 3 users (one with a foreign number), 2 logins, 3 sessions, 2 faults | LoginTypeOK, LoggedInWhereStarted, OneSessionPerSignIn, CachedOnce, LoggedOutHere |
| `login_everywhere` | the same without faults | LoggedOutEverywhere is **violated** |
| `audit` | 2 replicas, 2 documents, 4 events, times with and without digits that the column drops, 1 fault | TypeOK, VerifiesPrefixesOfChains |
| `audit_untouched` | 2 events, no such digits, no faults | UntouchedVerifies is **violated** |
| `billing` | 2 connections, 1 user, plans of 1, 2 and unlimited documents, an unknown plan and status, 2 periods, 4 commits, fair | TypeOK, WithinLimit, HoldersGoOn, UsedIsCount, QuotaPerPeriod, TransactionsEnd |
| `throttling` | 2 replicas, 2 codes, limits of 1 and 2 in a minute of 2 ticks, 4 ticks, a table of 1 window, 1 fault | TypeOK, WrongCodesAreBounded, AtMostTwoWindows, RefusalsAreEarned, FullOfLiveWindows |

Why the bounds suffice to see the cases of interest.

- *Documents* do not interact, so one is enough. Two replicas give a stale cache
  and its overwriting; a third would only be another stale cache. Two contents tell a
  replaced original from the sent one. One fault puts an error, a lost answer or a
  crash at any call; the one-replica run has two, which covers a fault while
  recovering from a fault. `MaxCodes` is 1 with two replicas, where two requests for
  a code at once still issue two, so that two confirmations race through one link.
  `OtpAttemptLimit` is 2 instead of 5: one miss that
  counts and one that voids.
- *Delivery*: two publishers and two events cover overlapping batches and rows
  that appear out of order. Workers meet only through the queue, so one is enough. A
  message passed over takes an error at one event and the commit of the other.
- *Login*: two logins are one overwriting the cookie of the other; one user has two
  sessions, so that LogoutAll and Logout differ. Two faults cover a lost answer
  and a restart after it. The violated run has no faults, so that a plain Logout shows it.
- *Audit*: four events are two of one document with another document's, or an
  unsaved one, in between, and one more from the second process or after a restart. The
  violated run has times that the column keeps, so that only the order of events is left.
- *Billing*: four commits are an update, the documents up to the limit, and an
  old update coming back. Users share nothing, and a third connection would queue
  behind the second.
- *Throttling*: four ticks let two windows of two ticks follow each other and
  touch. A table of one entry is full with the second path of the client.

Deadlock checking is off because users need not act and every bound may be used
up; that transactions do not wait for each other is HoldersGoOn and TransactionsEnd.
Symmetry is used only in runs without liveness, over replicas, contents,
documents, browsers, logins or codes that no definition tells apart (in
`ImplementsLifecycle` contents only, which the abstract specification does not
tell apart either).

Fairness. Nothing obliges a user to act, so DocumentService has no liveness property:
what its requests leave behind is an invariant of the states between them
(SignatureIsAnnounced).
`Delivery!FairSpec` says that each of the three programs keeps running its loop,
which is an endless `for` under a Deployment that restarts it. `Billing!FairSpec`
is strong for each connection: a statement returns, and one that waits for a row
lock gets it in its turn however often others take it before, since PostgreSQL
queues them. No fairness is given to faults, rollbacks, expiry, the clock,
or the arrival of requests, events and webhooks.

### What the violated properties show

They are the findings of `PROJECT.json`, each a disagreement between a document of
the repository and the code:

1. *StatusNeverRegresses*: replica 2 has cached a draft; replica 1 sends the
   document; replica 2 accepts an upload and writes `draft` and the new hash over
   the sent row.
2. *ValidCodeNotRejected*: a replica that did not issue the code validates it
   twice and the first validation deletes it. With three replicas behind one
   address, most confirmations meet this.
3. *AckedWasSent*: the worker never returns a task whose SMS failed.
4. *LoggedOutEverywhere*: a session that was created at one replica and logged out at
   another goes on being accepted by the first, which answers from its own cache.
   Another replica asks the table each time and refuses it (CachedOnce says that only
   one replica has it cached, LoggedOutHere that where it was logged out it stays so).
5. *UntouchedVerifies*: the event of another document before or between those of this
   one breaks the chain that VerifyAudit follows. The same model shows, with
   `VerifiesPrefixesOfChains`, what else does: an event that is never saved, a second
   process, and a time with digits that the column does not keep.

### What the properties do not promise

Read next to the code, the models also show behaviour that the properties are worded
around. The first three are at odds with what a document says, and have no run of their own:

- A link may carry two signatures, although `openapi.yaml:32` calls it a "one-time
  signing URL": each replica may save one, since the signature is inserted before the
  link is marked (SignsOncePerReplica). Only one confirmation of them is answered with
  success (OneConfirmationPerLink), and each took a code of its own (CodeSignsOnce).
- `docs/project-status.md:44` says that five wrong codes void a code. Misses are counted
  by a second statement, so that each further replica may compare one more
  (WrongCodesAreBounded).
- The events of RequestPEP and of the accepted agreement (`app.go:300` and `:414`) are
  recorded in the chain of the process and never saved, although
  `docs/project-status.md:13` lists an audit event as evidence of the PEP. No property
  therefore says that what was recorded is in the table, and VerifyAudit refuses every
  stored trail that goes on after such an event (VerifiesPrefixesOfChains).
- The dispatcher commits past a message that it skipped after an error of
  NotificationTargets, so CommittedIsNotified and EventuallyNotified promise nothing
  once an error has dropped one. While its connection is broken it notifies nobody;
  what it skips then is not committed, and comes again after a restart.
- An old webhook delivered late starts the count of a former period again:
  QuotaPerPeriod allows one limit for each time that an update came back.
- Two limits' worth of requests may fall into one minute (AtMostTwoWindows), and a
  restart of the process starts the count again.

## 4. Proofs

For all values of the constants, under the named assumptions of the modules (the
participants, owners and links are functions into their sets, `None` is none of
the values, bounds are naturals, the attempt limit is positive, replicas are
finitely many where they are counted):

- `TypeCorrect` (`DocumentServiceTypes`): `Spec => [](TypeOK /\ JobsOK)`. TypeOK
  alone is not inductive: that a cached status or hash stays one of the code's
  values depends on what the pending call assumes, for example that a request
  about to upload has a document in the cache. `JobsOK` says this of each call.
- `DocumentServiceProofs`, each on top of the types:
  - `RecordsAreBacked`: each cached copy and row is backed, rows only grow in
    `signatures`, and the two places where a status past `sent` is first
    written into a copy are reached only after SaveSignature returned `ok`. It
    survives all the staleness: a stale copy is an old claim, and old claims stay true.
  - `LinksConfirmOnce`: a link is confirmed at most once. `LinksOK` follows the
    link: one replica drew it, its row is written once, and from the conditional
    UPDATE that uses it to the end of the request it has one user.
  - `CodesSignOnce`: by counting. Every code issued for a link is in the table, at
    one replica about to sign, or in a signature (`CodesCounted`): the DELETE moves it.
  - `SignedVersionsWereSent`: `VersionsSent` says of each row, copy and
    signature past draft that its version was sent; it needs `LinksOK`, or a link
    could be sent again over another version.
  - `OneReplicaImplementsLifecycle`, assuming `OneReplica`: the refinement. What
    the only replica has cached is ahead of its row, never behind (`CachesAhead`):
    a status further, a draft still to be saved, or the same content. Nobody
    signs a document whose row is a draft, because a request that signs has a link
    that was handed out (`RequestsOK`), and by then the row is frozen at the version
    of the link (`HandedOutOK`). A SaveStatus is thus a step of the lifecycle or a
    stutter. With two replicas it is not (`documents_stale`).
  - `LinksSignTheirVersion`, from the same invariant: what a link signs is the
    frozen version, the one it was made for.
  - `OriginalsStay`, an action property from the same invariant: what PutObject
    overwrites is the file of a document that is a draft in the cache, and the row is
    never ahead of the only cache.
  - `ReplicasSignOnce`, for any number of replicas: each signature leaves its replica with
    the signed document in the cache, where ConfirmPEP refuses to sign it again, or
    was a fault; only a restart takes it away, another fault (`SignaturesCounted`).
  - `SignaturesAnnounced`: `AnnouncementsDue` follows a signature through the calls
    after it. Through an open link it is that of a request about to mark it, or of a
    fault. A marked one is announced, or its request is about to do so, or a fault
    kept it from that. `LinksKnown` says that a link has a row before it is used.
- `LifecycleIsSound` (`DocumentLifecycleProofs`): the abstract specification
  keeps TypeOK, EvidenceIsCurrent and StatusIsBacked, so `ImplementsLifecycle`
  is worth having.
- `LoginProofs`, first for the sessions alone and then for logins with them:
  - `SessionsCachedOnce` and `LogoutIsFinalHere`: the second needs that a session
    a replica ended is out of its cache and that its row is revoked or purged,
    neither of which is ever undone (`Ended`).
  - `LoginTypeCorrect`, `LoginStaysInBrowser` and `SignInsAreUsedOnce`: what a
    callback does after the exchange depends on how it got there. `CallbacksOK`
    says that it came from the browser whose login it is and that it is the only
    one of this login, because the code was redeemed once.
  - `LogoutsHold` carries the invariant of the sessions over to `LoginSpec`.
- `AuditTrailTypes` and `VerifiesOnlyPrefixes` (`AuditTrailProofs`): that a verified
  trail is an unbroken piece of one chain
  needs that every chain is linked from its first event in the order of the times
  (`Linked`), and that no two events share a time (`OnePerTime`), so that a hash
  names one event; also for the chains of stopped processes, whose rows are still
  read. The walk over a verified trail is an induction over its events: an event
  that is not followed has a least time, and contradicts its predecessor (`Least`).
- `BillingProofs`:
  - `BillingTypeCorrect` and `LimitIsKept`: a document is counted by a later
    statement than the one that looked at the limit. `SavesAllowed` says that what
    it saw still holds, because the transaction kept the row of the subscription
    locked in between.
  - `CountIsExact` and `QuotaIsKept`: the log and the row tell the same story
    (`LogTells`). The last update of the log is the one in force (`InForceNow`),
    the row counts the documents after it, and what was saved under each update is
    within its limit times the number of its arrivals, with what the row still
    allows to spare (`QuotaOf`).
  - `BillingNeverDeadlocks`: whoever is waited for does not wait, because only a
    transaction that holds the row of the user gets as far as that of the
    subscription, and then has all its locks (`LocksOwned`).
- `ThrottlingProofs`:
  - `ThrottlingTypeCorrect` and `GuessesAreBounded`: the attempts in the row lag
    behind the guesses by the UPDATEs still to run, one per replica at most, and
    by those that a failure or a restart prevented (`MissesCounted`).
  - `RateIsBounded`: a minute may touch three windows, and the entry of the first
    may be gone. `WindowTells` says of a window what it implies of the log: how many
    of the last requests are in it, and that those one limit further back are over a
    minute before its start; two limits apart is then more than a minute (`Spread`).
  - `RefusalsHaveCause` and `TableIsPurged` (an action property): a refusal has a
    full limit behind it within a minute, and a table that has grown past its size
    holds only windows that are still open.
- `DeliveryProofs`:
  - `DeliveryTypeCorrect` needs that publishers lock different rows.
  - `PublishedAtLeastOnce` and `RepeatsAreFaults` need what only the open
    transaction knows: which of its rows are in the topic already
    (`SentIsInTopic`), and that any further copy is charged to a fault
    (`RepeatsAreCounted`).
  - `NotifiedExactlyOnce`: until something fails, the tasks that exist are those
    that the dispatcher has queued, each once, wherever it is now
    (`CopiesAreHandled`). `Handled` includes the message it works on, with the
    recipients it is past, and queueing one more task relies on `RepeatsAreFaults`:
    the message was not in the topic before. It assumes finitely many workers,
    which are processes.
  - `CommittedAreNotified` holds through all faults: `NotifiedInv` says how far the
    dispatcher has queued the tasks of what it fetched. On a closed connection it skips
    messages, so this holds only while the connection is open; but on a closed one
    it never comes to a commit. No task ceases to exist unless it is dropped: a dead
    worker's is queued again (`CopiesStay`).

Every invariant and action property of a passing run is thus a theorem, each for the
specification that the run checks; of the run with one replica, all but
SignsOncePerReplica assume `OneReplica`, as they are meant for it. Only model-checked
is all liveness, EventuallyInTopic, EventuallyNotified and TransactionsEnd: the prover
has no fairness or ENABLED reasoning. Each inductive invariant was checked by TLC on a
small instance before it was proved.

## 5. Plan

Done, in this order: OneTimeCode and DocumentService with DocumentLifecycle,
their runs and first proofs; Delivery; Sessions; AuditTrail; Billing; RateLimiter
and Throttling; Login over Sessions; the proofs of section 4.

Next, most important first:

1. DocumentService with Delivery: the outbox row of a status change as the event
   that Delivery starts from. Today the two meet in the variable `outbox` alone.
2. The parts of ImplementsLifecycle that survive with two replicas.

## 6. Not modelled

- *Migrations* (`internal/persistence/migrate.go`): one job and one transaction.
  Two jobs at once would both try the same file; the second fails and is rolled
  back, which PostgreSQL decides and not this code.
- *API process* (`cmd/api`): wiring, environment, shutdown. What a restart
  means for the state of each component is in `Crash` of `DocumentService`, `Sessions`,
  `AuditTrail` and `Throttling` and in `Restart` of `RateLimiter`; the other programs
  have `PublisherCrash`, `DispatcherCrash` and `WorkerCrash`, and a transaction that
  dies with its connection is `Rollback` of `Billing`.
- *Object storage* is modelled as the one key of a document with its shared
  content; TLS, retries and HTTP details of the adapters are I/O.
- *Router*: which handler calls what, cookies and the authentication step are
  in the models of the components; decoding, headers and metrics are not.
- *Login codes* (RequestLogin, VerifyLogin): no route calls them.
- *Templates* (a constant catalogue), the *web page* and the *deployment* files,
  which were read for the number of replicas and the restart policies.

Hazards of `PROJECT.json` without a property: the
data race on the document that Get returns, which only affects an answer;
database calls without a deadline, where the models assume that calls return or
fail; and a document cached before its creation was refused, whose id no client has.

## 7. Running

In this directory, with the community modules and the TLAPS library on the path:
`tlc -workers 2 -config MCLogin_login.cfg MCLogin` for a run, and
`tlapm LoginProofs.tla` for a proof.
