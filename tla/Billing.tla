------------------------------ MODULE Billing -------------------------------
(***************************************************************************)
(* Subscriptions: the billing service sends updates to a webhook, and      *)
(* SaveDocument counts each new document against the plan in force.        *)
(*                                                                         *)
(* Both run as one transaction over several statements.  Their first       *)
(* statement, ensureUser, upserts the row of the user and thereby locks it *)
(* until the transaction ends; the SELECT ... FOR UPDATE of the allowance  *)
(* locks the row of the subscription besides.  now() is the start of the   *)
(* transaction, however long it waits for a lock.                          *)
(*                                                                         *)
(* The billing service repeats updates and they overtake each other: any   *)
(* update may arrive at any time.                                          *)
(***************************************************************************)
EXTENDS Naturals, Sequences, FiniteSets

CONSTANTS
    Connections,    \* database connections, each with one transaction at a time
    Users,          \* phone numbers
    Limit,          \* DocumentsPerMonth of each plan of the catalogue; 0: no limit
    PlanCodes,      \* the plan codes that updates carry
    StatusCodes,    \* the statuses that updates carry
    MaxTime,        \* bound: periods end at 1, 2, .. MaxTime
    MaxCommits,     \* bound: transactions committed for one user
    None            \* nobody

Plans == DOMAIN Limit

ASSUME LimitAssumption == Limit \in [Plans -> Nat]
ASSUME BillingBoundAssumption == MaxTime \in Nat /\ MaxCommits \in Nat
ASSUME NoneAssumption == None \notin Connections \cup Users

VARIABLES
    subscriptions,  \* table subscriptions
    userLock,       \* the transaction that holds the row of each user
    rowLock,        \* the one that holds the row of each subscription
    tx,             \* the transaction of each connection
    now,            \* the time
    log             \* history: what was committed for each user, in order

vars == <<subscriptions, userLock, rowLock, tx, now, log>>

Times == 0 .. MaxTime

Update == [plan : PlanCodes, status : StatusCodes, ends : Times \ {0}]

Subscription == [plan : PlanCodes \cup {"none"}, status : StatusCodes \cup {"none"},
                 ends : Times, used : Nat]

NoSubscription == [plan |-> "none", status |-> "none", ends |-> 0, used |-> 0]

\* pc is the next statement of a SaveDocument or of an UpsertSubscription (webhook);
\* start is now(), which the latter only writes to updated_at.
Transaction == [pc : {"ensureUser", "allowance", "save", "upsert"}, user : Users,
                webhook : BOOLEAN, start : Times]

NoTransaction == [pc |-> "none", user |-> None, webhook |-> FALSE, start |-> 0]

\* What a transaction leaves in the log: a document, or the plan and the period
\* that an update set.
Document == [plan |-> "none", ends |-> 0]

Entry == [plan : PlanCodes, ends : Times] \cup {Document}

Init ==
    /\ subscriptions = [u \in Users |-> NoSubscription]
    /\ userLock = [u \in Users |-> None]
    /\ rowLock = [u \in Users |-> None]
    /\ tx = [c \in Connections |-> NoTransaction]
    /\ now = 0
    /\ log = [u \in Users |-> <<>>]

DocumentLimit(plan) == IF plan \in Plans THEN Limit[plan] ELSE 0

ValidStatus(status) == status \in {"active", "past_due", "cancelled", "trial"}

----------------------------------------------------------------------------
(* The transactions.                                                       *)

Begin(c, t) ==
    /\ tx[c] = NoTransaction
    /\ Len(log[t.user]) < MaxCommits
    /\ tx' = [tx EXCEPT ![c] = t]
    /\ UNCHANGED <<subscriptions, userLock, rowLock, now, log>>

BeginDocument(c, u) ==
    Begin(c, [pc |-> "ensureUser", user |-> u, webhook |-> FALSE, start |-> now])

\* The update that is delivered is chosen where it is written, in UpsertSubscription.
BeginWebhook(c, u) ==
    Begin(c, [pc |-> "ensureUser", user |-> u, webhook |-> TRUE, start |-> 0])

\* Plan and status are checked before the transaction begins.
Accepted(update) ==
    /\ DocumentLimit(update.plan) # 0 \/ update.plan = "enterprise"
    /\ ValidStatus(update.status)

\* Mutant: ON CONFLICT DO NOTHING, which locks no row.
EnsureUserUnlocked(c) ==
    LET u == tx[c].user
    IN  /\ tx[c].pc = "ensureUser"
        /\ tx' = [tx EXCEPT ![c].pc = IF tx[c].webhook THEN "upsert" ELSE "allowance"]
        /\ UNCHANGED <<subscriptions, userLock, rowLock, now, log>>

\* Mutant: a webhook's transaction begins with the row of the subscription.
EnsureUserLast(c) ==
    LET u == tx[c].user
    IN  /\ tx[c].pc = "ensureUser"
        /\ IF ~tx[c].webhook
           THEN userLock[u] = None /\ userLock' = [userLock EXCEPT ![u] = c]
                                   /\ UNCHANGED rowLock
           ELSE IF rowLock[u] # c
           THEN rowLock[u] = None /\ rowLock' = [rowLock EXCEPT ![u] = c]
                                  /\ UNCHANGED userLock
           ELSE userLock[u] = None /\ userLock' = [userLock EXCEPT ![u] = c]
                                   /\ rowLock' = [rowLock EXCEPT ![u] = None]
        /\ tx' = [tx EXCEPT ![c].pc = IF ~tx[c].webhook THEN "allowance"
                                      ELSE IF rowLock[u] # c THEN "ensureUser" ELSE "upsert"]
        /\ UNCHANGED <<subscriptions, now, log>>

\* ensureUser waits until no other transaction holds the user's row.
EnsureUser(c) ==
    LET u == tx[c].user
    IN  /\ tx[c].pc = "ensureUser"
        /\ userLock[u] = None
        /\ userLock' = [userLock EXCEPT ![u] = c]
        /\ tx' = [tx EXCEPT ![c].pc = IF tx[c].webhook THEN "upsert" ELSE "allowance"]
        /\ UNCHANGED <<subscriptions, rowLock, now, log>>

\* Commit or rollback releases the locks.
End(c) ==
    /\ tx' = [tx EXCEPT ![c] = NoTransaction]
    /\ userLock' = [u \in Users |-> IF userLock[u] = c THEN None ELSE userLock[u]]
    /\ rowLock' = [u \in Users |-> IF rowLock[u] = c THEN None ELSE rowLock[u]]

\* An error of a statement, a broken connection or a stopped process.
Rollback(c) ==
    /\ tx[c] # NoTransaction
    /\ End(c)
    /\ UNCHANGED <<subscriptions, now, log>>

\* The WHERE clause of the allowance.
InForce(s, start) == s.status \in {"active", "trial"} /\ s.ends > start

\* Mutant: off by one.
AllowsOneMore(s) == DocumentLimit(s.plan) = 0 \/ s.used <= DocumentLimit(s.plan)

Allows(s) == DocumentLimit(s.plan) = 0 \/ s.used < DocumentLimit(s.plan)

\* consumeDocumentAllowance locks the subscription and looks at it.  A user without
\* one in force, or at the limit, is refused.  The UPDATE that counts is not seen
\* by anybody until the commit, and is part of SaveDocument below.
Allowance(c) ==
    LET u == tx[c].user
    IN  /\ tx[c].pc = "allowance" /\ rowLock[u] = None
        /\ IF InForce(subscriptions[u], tx[c].start) /\ Allows(subscriptions[u])
           THEN /\ rowLock' = [rowLock EXCEPT ![u] = c]
                /\ tx' = [tx EXCEPT ![c].pc = "save"]
                /\ UNCHANGED userLock
           ELSE End(c)
        /\ UNCHANGED <<subscriptions, now, log>>

\* Mutant: the UPDATE that counts has the condition on the period too, with the time
\* of the statement instead of the transaction's.
SaveDocumentLate(c) ==
    LET u == tx[c].user
    IN  /\ tx[c].pc = "save"
        /\ subscriptions' = IF subscriptions[u].ends > now
                            THEN [subscriptions EXCEPT ![u].used = @ + 1] ELSE subscriptions
        /\ log' = [log EXCEPT ![u] = Append(@, Document)]
        /\ End(c)
        /\ UNCHANGED now

\* The document is inserted, with its audit row and outbox event, and committed.
SaveDocument(c) ==
    LET u == tx[c].user
    IN  /\ tx[c].pc = "save"
        /\ subscriptions' = [subscriptions EXCEPT ![u].used = @ + 1]
        /\ log' = [log EXCEPT ![u] = Append(@, Document)]
        /\ End(c)
        /\ UNCHANGED now

\* Mutant: every update starts the count again.
AppliedAndReset(s, update) ==
    [plan |-> update.plan, status |-> update.status, ends |-> update.ends, used |-> 0]

\* INSERT ... ON CONFLICT: the count starts again when the plan or the period is
\* another one.
Applied(s, update) ==
    [plan |-> update.plan, status |-> update.status, ends |-> update.ends,
     used |-> IF s.plan = update.plan /\ s.ends = update.ends THEN s.used ELSE 0]

UpsertSubscription(c) ==
    LET u == tx[c].user
    IN  /\ tx[c].pc = "upsert" /\ rowLock[u] = None
        /\ \E update \in Update :
              /\ Accepted(update)
              /\ subscriptions' = [subscriptions EXCEPT ![u] = Applied(@, update)]
              /\ log' = [log EXCEPT ![u] =
                            Append(@, [plan |-> update.plan, ends |-> update.ends])]
        /\ End(c)
        /\ UNCHANGED now

Tick ==
    /\ now < MaxTime
    /\ now' = now + 1
    /\ UNCHANGED <<subscriptions, userLock, rowLock, tx, log>>

Step(c) == EnsureUser(c) \/ Allowance(c) \/ SaveDocument(c) \/ UpsertSubscription(c)

Next ==
    \/ \E c \in Connections :
          \/ \E u \in Users : BeginDocument(c, u) \/ BeginWebhook(c, u)
          \/ Step(c)
          \/ Rollback(c)
    \/ Tick

Spec == Init /\ [][Next]_vars

\* Statements return, and those that wait for one lock get it in their order.
FairSpec == Spec /\ \A c \in Connections : SF_vars(Step(c))

----------------------------------------------------------------------------
(* Properties.                                                             *)

\* The state has its shape, and a transaction past its first statement holds the
\* user's row, and about to save the subscription's row too.
TypeOK ==
    /\ subscriptions \in [Users -> Subscription]
    /\ userLock \in [Users -> Connections \cup {None}]
    /\ rowLock \in [Users -> Connections \cup {None}]
    /\ tx \in [Connections -> Transaction \cup {NoTransaction}]
    /\ \A c \in Connections :
          /\ tx[c].pc \in {"allowance", "upsert", "save"} => userLock[tx[c].user] = c
          /\ tx[c].pc = "save" => rowLock[tx[c].user] = c
    /\ now \in Times
    /\ log \in [Users -> Seq(Entry)]

\* Whatever updates arrive while documents are being counted, no more are in use
\* than the plan in force allows.
WithinLimit ==
    \A u \in Users : LET limit == DocumentLimit(subscriptions[u].plan)
                     IN  limit # 0 => subscriptions[u].used <= limit

\* The updates of a log that set another plan or period than the one before did.
Changes(l) ==
    {i \in DOMAIN l : l[i] # Document
                      /\ \A j \in 1 .. i - 1 :
                            l[j] = l[i] => \E k \in j + 1 .. i - 1 : l[k] \notin {Document, l[i]}}

\* The updates of a log that made e the plan and the period in force.
ChangesTo(e, l) == {i \in Changes(l) : l[i] = e}

\* The documents of a log that were saved since the plan or the period changed.
Counted(l) == {i \in DOMAIN l : l[i] = Document /\ \A j \in Changes(l) : j < i}

\* documents_used is the number of documents that were committed since the plan or
\* the period changed: none is counted without being saved or saved uncounted,
\* and repeating the current update does not start the count again.
UsedIsCount ==
    \A u \in Users : subscriptions[u].used = Cardinality(Counted(log[u]))

\* The documents of a log that were saved while the update e was in force.
SavedUnder(e, l) ==
    {i \in DOMAIN l : l[i] = Document
                      /\ \E j \in 1 .. i - 1 : l[j] = e /\ \A k \in j + 1 .. i - 1 :
                                                              l[k] \in {Document, e}}

\* A user gets no more documents under a plan in a period than its limit times the
\* number of times that updates have come to it: an old update delivered late is
\* the only way to more than one limit.
QuotaPerPeriod ==
    \A u \in Users : \A e \in Entry \ {Document} : DocumentLimit(e.plan) # 0 =>
       Cardinality(SavedUnder(e, log[u]))
          <= DocumentLimit(e.plan) * Cardinality(ChangesTo(e, log[u]))

\* The transaction of c cannot go on until that of d ends, which holds its next row.
Waits(c, d) ==
    LET u == tx[c].user
    IN  \/ tx[c].pc = "ensureUser" /\ userLock[u] = d
        \/ tx[c].pc \in {"allowance", "upsert"} /\ rowLock[u] = d

\* A transaction that another one waits for does not wait itself, so no circle of
\* transactions waits for each other: each locks the user before the subscription.
HoldersGoOn ==
    \A c, d \in Connections : Waits(c, d) => \A e \in Connections : ~Waits(d, e)

\* Transactions of different connections never wait for each other for good: every
\* one ends.
TransactionsEnd == \A c \in Connections : (tx[c] # NoTransaction) ~> (tx[c] = NoTransaction)
=============================================================================
