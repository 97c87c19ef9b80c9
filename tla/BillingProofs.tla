--------------------------- MODULE BillingProofs ----------------------------
(***************************************************************************)
(* Subscriptions for any plans, limits, users, updates and connections.    *)
(*                                                                         *)
(* WithinLimit is not inductive: a document is counted by a later statement*)
(* than the one that looked at the limit.  SavesAllowed says that what the *)
(* earlier one found still holds, because the transaction has kept the row *)
(* of the subscription locked ever since.                                  *)
(*                                                                         *)
(* What the log of a user says of the documents needs what the row of the  *)
(* subscription says of the log: which update is in force, and that of the *)
(* allowance that this update brought no more is gone than is counted.     *)
(*                                                                         *)
(* That nobody waits for a transaction that waits needs that every lock is *)
(* held by a transaction past the statement that takes it.                 *)
(***************************************************************************)
EXTENDS Billing, FiniteSetTheorems, TLAPS

\* A document about to be counted is still allowed.
SavesAllowed ==
    \A c \in Connections : tx[c].pc = "save" => Allows(subscriptions[tx[c].user])

BillingInv == TypeOK /\ SavesAllowed /\ WithinLimit

\* The limit of a plan is a number.
LEMMA LimitType == \A plan \in PlanCodes \cup {"none"} : DocumentLimit(plan) \in Nat
BY LimitAssumption DEF DocumentLimit

\* A transaction that begins holds nothing yet.
LEMMA BeginKeeps ==
    ASSUME BillingInv, NEW c \in Connections, NEW t \in Transaction,
           t.pc = "ensureUser", Begin(c, t)
    PROVE  BillingInv'
<1> USE DEF BillingInv, TypeOK
<1>1. /\ tx' = [tx EXCEPT ![c] = t]
      /\ UNCHANGED <<subscriptions, userLock, rowLock, now, log>>
  BY DEF Begin
<1>2. TypeOK'
  BY <1>1
<1>3. SavesAllowed' /\ WithinLimit'
  BY <1>1 DEF SavesAllowed, WithinLimit, Allows
<1> QED BY <1>2, <1>3

\* Moving on to another statement keeps a transaction one.
LEMMA TransactionPc ==
    \A t \in Transaction, s \in {"ensureUser", "allowance", "save", "upsert"} :
       [t EXCEPT !.pc = s] \in Transaction
BY DEF Transaction

\* Taking the lock of a free user disturbs no transaction that holds one.
LEMMA EnsureUserKeeps ==
    ASSUME BillingInv, NEW c \in Connections, EnsureUser(c)
    PROVE  BillingInv'
<1> USE DEF BillingInv, TypeOK
<1> DEFINE u == tx[c].user
<1>1. tx[c] \in Transaction
  BY DEF EnsureUser, NoTransaction
<1>2. u \in Users
  BY <1>1 DEF Transaction
<1>3. PICK s \in {"allowance", "upsert"} : tx' = [tx EXCEPT ![c].pc = s]
  BY DEF EnsureUser
<1>4. /\ userLock[u] = None /\ userLock' = [userLock EXCEPT ![u] = c]
      /\ UNCHANGED <<subscriptions, rowLock, now, log>>
  BY DEF EnsureUser
<1>5. /\ tx' \in [Connections -> Transaction \cup {NoTransaction}]
      /\ tx'[c].pc = s /\ tx'[c].user = u
      /\ \A d \in Connections : d # c => tx'[d] = tx[d]
  BY <1>1, <1>3, TransactionPc, ZenonT(40) DEF Transaction
<1>6. \A d \in Connections : d # None
  BY NoneAssumption
<1>7. \A d \in Connections :
         /\ tx'[d].pc \in {"allowance", "upsert", "save"} => userLock'[tx'[d].user] = d
         /\ tx'[d].pc = "save" => rowLock'[tx'[d].user] = d
  <2> SUFFICES ASSUME NEW d \in Connections
               PROVE  /\ tx'[d].pc \in {"allowance", "upsert", "save"} => userLock'[tx'[d].user] = d
                      /\ tx'[d].pc = "save" => rowLock'[tx'[d].user] = d
    OBVIOUS
  <2>1. CASE d = c
    BY <2>1, <1>2, <1>4, <1>5
  <2>2. CASE d # c
    BY <2>2, <1>2, <1>4, <1>5, <1>6
  <2> QED BY <2>1, <2>2
<1>8. TypeOK'
  BY <1>2, <1>4, <1>5, <1>7
<1>9. SavesAllowed' /\ WithinLimit'
  BY <1>4, <1>5 DEF SavesAllowed, WithinLimit, Allows
<1> QED BY <1>8, <1>9

\* A transaction that ends releases its own locks only.
LEMMA EndKeeps ==
    ASSUME BillingInv, NEW c \in Connections, End(c), now' = now,
           subscriptions' = subscriptions, log' = log
    PROVE  BillingInv'
<1> USE DEF BillingInv, TypeOK
<1>1. /\ tx' = [tx EXCEPT ![c] = NoTransaction]
      /\ userLock' = [u \in Users |-> IF userLock[u] = c THEN None ELSE userLock[u]]
      /\ rowLock' = [u \in Users |-> IF rowLock[u] = c THEN None ELSE rowLock[u]]
  BY DEF End
<1>2. \A d \in Connections : d # c => tx'[d] = tx[d]
  BY <1>1
<1>3. tx'[c].pc = "none"
  BY <1>1 DEF NoTransaction
<1>4. \A d \in Connections : tx[d].pc \in {"allowance", "upsert", "save"} => tx[d].user \in Users
  BY DEF Transaction, NoTransaction
<1>5. \A d \in Connections :
         /\ tx'[d].pc \in {"allowance", "upsert", "save"} => userLock'[tx'[d].user] = d
         /\ tx'[d].pc = "save" => rowLock'[tx'[d].user] = d
  BY <1>1, <1>2, <1>3, <1>4
<1>6. TypeOK'
  BY <1>1, <1>5
<1>7. SavesAllowed' /\ WithinLimit'
  BY <1>2, <1>3 DEF SavesAllowed, WithinLimit, Allows
<1> QED BY <1>6, <1>7

\* A transaction that found the limit not reached has the row locked.
LEMMA AllowanceKeeps ==
    ASSUME BillingInv, NEW c \in Connections, Allowance(c)
    PROVE  BillingInv'
<1> USE DEF BillingInv, TypeOK
<1> DEFINE u == tx[c].user
<1>1. tx[c] \in Transaction /\ u \in Users
  BY DEF Allowance, NoTransaction, Transaction
<1>2. CASE End(c) /\ UNCHANGED <<subscriptions, now, log>>
  BY <1>2, EndKeeps
<1>3. CASE /\ Allows(subscriptions[u])
           /\ rowLock[u] = None /\ rowLock' = [rowLock EXCEPT ![u] = c]
           /\ tx' = [tx EXCEPT ![c].pc = "save"]
           /\ UNCHANGED <<subscriptions, userLock, now, log>>
           /\ tx[c].pc = "allowance"
  <2>1. /\ tx' \in [Connections -> Transaction \cup {NoTransaction}]
        /\ tx'[c].pc = "save" /\ tx'[c].user = u
        /\ \A d \in Connections : d # c => tx'[d] = tx[d]
    BY <1>1, <1>3, TransactionPc, ZenonT(40) DEF Transaction
  <2>2. \A d \in Connections : d # None
    BY NoneAssumption
  <2>3. ASSUME NEW d \in Connections
        PROVE  /\ tx'[d].pc \in {"allowance", "upsert", "save"} => userLock'[tx'[d].user] = d
               /\ tx'[d].pc = "save" => rowLock'[tx'[d].user] = d
    <3>1. CASE d = c
      BY <3>1, <1>1, <1>3, <2>1
    <3>2. CASE d # c
      BY <3>2, <1>1, <1>3, <2>1, <2>2
    <3> QED BY <3>1, <3>2
  <2>4. TypeOK'
    BY <1>1, <1>3, <2>1, <2>3
  <2>5. SavesAllowed'
    BY <1>3, <2>1 DEF SavesAllowed, Allows
  <2>6. WithinLimit'
    BY <1>3 DEF WithinLimit
  <2> QED BY <2>4, <2>5, <2>6
<1> QED BY <1>2, <1>3 DEF Allowance

\* A transaction that changes the one subscription it has locked, and ends.
LEMMA CommitKeeps ==
    ASSUME BillingInv, NEW c \in Connections, NEW u \in Users, NEW s \in Subscription,
           NEW e \in Entry, End(c), now' = now,
           subscriptions' = [subscriptions EXCEPT ![u] = s],
           log' = [log EXCEPT ![u] = Append(@, e)],
           \A d \in Connections : d # c /\ tx[d].pc = "save" => tx[d].user # u,
           DocumentLimit(s.plan) # 0 => s.used <= DocumentLimit(s.plan)
    PROVE  BillingInv'
<1> USE DEF BillingInv, TypeOK
<1>1. /\ tx' = [tx EXCEPT ![c] = NoTransaction]
      /\ userLock' = [v \in Users |-> IF userLock[v] = c THEN None ELSE userLock[v]]
      /\ rowLock' = [v \in Users |-> IF rowLock[v] = c THEN None ELSE rowLock[v]]
  BY DEF End
<1>2. \A d \in Connections : d # c => tx'[d] = tx[d]
  BY <1>1
<1>3. tx'[c].pc = "none"
  BY <1>1 DEF NoTransaction
<1>4. \A d \in Connections : tx[d].pc \in {"allowance", "upsert", "save"} => tx[d].user \in Users
  BY DEF Transaction, NoTransaction
<1>5. \A d \in Connections :
         /\ tx'[d].pc \in {"allowance", "upsert", "save"} => userLock'[tx'[d].user] = d
         /\ tx'[d].pc = "save" => rowLock'[tx'[d].user] = d
  BY <1>1, <1>2, <1>3, <1>4
<1>6. log' \in [Users -> Seq(Entry)]
  OBVIOUS
<1>7. TypeOK'
  BY <1>1, <1>5, <1>6
<1>8. SavesAllowed'
  BY <1>2, <1>3, <1>4 DEF SavesAllowed, Allows
<1>9. WithinLimit'
  BY DEF WithinLimit
<1> QED BY <1>7, <1>8, <1>9

\* Counting a document that is allowed keeps the count within the limit.
LEMMA SaveDocumentKeeps ==
    ASSUME BillingInv, NEW c \in Connections, SaveDocument(c)
    PROVE  BillingInv'
<1> DEFINE u == tx[c].user
           s == [subscriptions[u] EXCEPT !.used = @ + 1]
<1>1. u \in Users /\ rowLock[u] = c
  BY DEF BillingInv, TypeOK, SaveDocument, NoTransaction, Transaction
<1>2. subscriptions[u] \in Subscription
  BY <1>1 DEF BillingInv, TypeOK
<1>3. s \in Subscription /\ s.plan = subscriptions[u].plan /\ s.used = subscriptions[u].used + 1
  BY <1>2 DEF Subscription
<1>4. Allows(subscriptions[u])
  BY DEF BillingInv, SavesAllowed, SaveDocument
<1>5. subscriptions[u].used \in Nat /\ DocumentLimit(s.plan) \in Nat
  BY <1>2, <1>3, LimitType DEF Subscription
<1>6. DocumentLimit(s.plan) # 0 => s.used <= DocumentLimit(s.plan)
  BY <1>3, <1>4, <1>5 DEF Allows
<1>7. \A d \in Connections : d # c /\ tx[d].pc = "save" => tx[d].user # u
  BY <1>1 DEF BillingInv, TypeOK
<1>8. subscriptions' = [subscriptions EXCEPT ![u] = s]
  BY <1>1 DEF SaveDocument, BillingInv, TypeOK
<1>9. Document \in Entry
  BY DEF Entry
<1> QED BY <1>1, <1>3, <1>6, <1>7, <1>8, <1>9, CommitKeeps DEF SaveDocument

\* An update either starts the count again or changes neither the count nor the plan.
LEMMA UpsertKeeps ==
    ASSUME BillingInv, NEW c \in Connections, UpsertSubscription(c)
    PROVE  BillingInv'
<1> DEFINE u == tx[c].user
<1>1. u \in Users /\ rowLock[u] = None
  BY DEF BillingInv, TypeOK, UpsertSubscription, NoTransaction, Transaction
<1>2. PICK update \in Update :
         /\ subscriptions' = [subscriptions EXCEPT ![u] = Applied(@, update)]
         /\ log' = [log EXCEPT ![u] = Append(@, [plan |-> update.plan, ends |-> update.ends])]
  BY DEF UpsertSubscription
<1> DEFINE s == Applied(subscriptions[u], update)
<1>3. subscriptions[u] \in Subscription
  BY <1>1 DEF BillingInv, TypeOK
<1>4. /\ s \in Subscription /\ s.plan = update.plan
      /\ s.used = 0 \/ (s.used = subscriptions[u].used /\ s.plan = subscriptions[u].plan)
  BY <1>3 DEF Applied, Subscription, Update
<1>5. DocumentLimit(s.plan) \in Nat
  BY <1>4, LimitType DEF Update
<1>6. DocumentLimit(s.plan) # 0 => s.used <= DocumentLimit(s.plan)
  BY <1>1, <1>4, <1>5 DEF BillingInv, WithinLimit
<1>7. \A d \in Connections : d # c /\ tx[d].pc = "save" => tx[d].user # u
  BY <1>1, NoneAssumption DEF BillingInv, TypeOK
<1>8. subscriptions' = [subscriptions EXCEPT ![u] = s]
  BY <1>1, <1>2 DEF BillingInv, TypeOK
<1>9. [plan |-> update.plan, ends |-> update.ends] \in Entry
  BY DEF Entry, Update
<1> QED BY <1>1, <1>2, <1>4, <1>6, <1>7, <1>8, <1>9, CommitKeeps DEF UpsertSubscription

\* Every step keeps the invariant.
LEMMA BillingInvStep == BillingInv /\ [Next]_vars => BillingInv'
<1> SUFFICES ASSUME BillingInv, [Next]_vars PROVE BillingInv'
  OBVIOUS
<1>1. ASSUME NEW c \in Connections, NEW u \in Users, BeginDocument(c, u) \/ BeginWebhook(c, u)
      PROVE  BillingInv'
  <2>1. \A w \in BOOLEAN, t \in Times :
           [pc |-> "ensureUser", user |-> u, webhook |-> w, start |-> t] \in Transaction
    BY DEF Transaction
  <2>2. 0 \in Times /\ now \in Times
    BY BillingBoundAssumption DEF BillingInv, TypeOK, Times
  <2> QED BY <1>1, <2>1, <2>2, BeginKeeps DEF BeginDocument, BeginWebhook
<1>2. ASSUME NEW c \in Connections, Step(c) PROVE BillingInv'
  BY <1>2, EnsureUserKeeps, AllowanceKeeps, SaveDocumentKeeps, UpsertKeeps DEF Step
<1>3. ASSUME NEW c \in Connections, Rollback(c) PROVE BillingInv'
  BY <1>3, EndKeeps DEF Rollback
<1>4. CASE Tick
  <2>1. now' \in Times
    BY <1>4, BillingBoundAssumption DEF Tick, BillingInv, TypeOK, Times
  <2> QED BY <1>4, <2>1 DEF Tick, BillingInv, TypeOK, SavesAllowed, WithinLimit, Allows
<1>5. CASE UNCHANGED vars
  BY <1>5 DEF vars, BillingInv, TypeOK, SavesAllowed, WithinLimit, Allows
<1> QED BY <1>1, <1>2, <1>3, <1>4, <1>5 DEF Next

\* The invariant holds at the start.
LEMMA BillingInvInit == Init => BillingInv
<1> SUFFICES ASSUME Init PROVE BillingInv
  OBVIOUS
<1>1. NoSubscription \in Subscription /\ 0 \in Times
  BY BillingBoundAssumption DEF NoSubscription, Subscription, Times
<1>2. DocumentLimit("none") \in Nat
  BY LimitType
<1>3. TypeOK
  BY <1>1 DEF Init, TypeOK, NoTransaction
<1>4. SavesAllowed /\ WithinLimit
  BY <1>2 DEF Init, SavesAllowed, WithinLimit, NoTransaction, NoSubscription
<1> QED BY <1>3, <1>4 DEF BillingInv

----------------------------------------------------------------------------
(* The log.                                                                *)

\* The update in force; before the first one, what a document leaves in the log.
Current(s) == [plan |-> s.plan, ends |-> s.ends]

\* The last update of the log, if any, is the one in force.
InForceNow(s, l) ==
    \/ Current(s) = Document /\ \A i \in 1 .. Len(l) : l[i] = Document
    \/ /\ Current(s) # Document
       /\ \E j \in 1 .. Len(l) :
             /\ l[j] = Current(s)
             /\ \A k \in j + 1 .. Len(l) : l[k] \in {Document, Current(s)}

\* No update brought more documents than its limit each time, and the one in force
\* has brought this time no more than are counted.
QuotaOf(s, l) ==
    \A e \in Entry \ {Document} : DocumentLimit(e.plan) # 0 =>
       LET limit == DocumentLimit(e.plan)
           saved == Cardinality(SavedUnder(e, l))
           all == limit * Cardinality(ChangesTo(e, l))
       IN  saved <= all /\ (e = Current(s) => saved + limit <= all + s.used)

LogTells(s, l) ==
    /\ InForceNow(s, l)
    /\ s.used = Cardinality(Counted(l))
    /\ QuotaOf(s, l)

LogInv == \A u \in Users : LogTells(subscriptions[u], log[u])

\* Sets of positions of a log are finite.
LEMMA PositionsFinite ==
    ASSUME NEW l \in Seq(Entry), NEW S, S \subseteq DOMAIN l
    PROVE  /\ IsFiniteSet(S) /\ Cardinality(S) \in Nat
           /\ Len(l) + 1 \notin S
           /\ IsFiniteSet(S \cup {Len(l) + 1})
           /\ Cardinality(S \cup {Len(l) + 1}) = Cardinality(S) + 1
<1>1. DOMAIN l = 1 .. Len(l) /\ Len(l) \in Nat /\ Len(l) \in Int /\ 1 \in Int
  OBVIOUS
<1>2. IsFiniteSet(1 .. Len(l))
  BY <1>1, FS_Interval
<1>3. IsFiniteSet(S)
  BY <1>1, <1>2, FS_Subset
<1>4. Cardinality(S) \in Nat
  BY <1>3, FS_CardinalityType
<1>5. Len(l) + 1 \notin S
  BY <1>1
<1> QED BY <1>3, <1>4, <1>5, FS_AddElement

LEMMA Positions ==
    ASSUME NEW l \in Seq(Entry), NEW x \in Entry
    PROVE  /\ Append(l, x) \in Seq(Entry)
           /\ DOMAIN l = 1 .. Len(l) /\ Len(l) \in Nat
           /\ DOMAIN Append(l, x) = 1 .. (Len(l) + 1)
           /\ Append(l, x)[Len(l) + 1] = x
           /\ \A i \in 1 .. Len(l) : Append(l, x)[i] = l[i]
OBVIOUS

\* An entry is a change or not whatever is appended to it.
LEMMA ChangesAppend ==
    ASSUME NEW l \in Seq(Entry), NEW x \in Entry
    PROVE  LET n == Len(l) + 1
               new == /\ x # Document
                      /\ \A j \in 1 .. Len(l) : l[j] = x =>
                            \E k \in j + 1 .. Len(l) : l[k] \notin {Document, x}
           IN  Changes(Append(l, x)) = IF new THEN Changes(l) \cup {n} ELSE Changes(l)
<1> DEFINE m == Append(l, x)
           n == Len(l) + 1
           new == /\ x # Document
                  /\ \A j \in 1 .. Len(l) : l[j] = x =>
                        \E k \in j + 1 .. Len(l) : l[k] \notin {Document, x}
<1>1. /\ DOMAIN l = 1 .. Len(l) /\ Len(l) \in Nat /\ DOMAIN m = 1 .. n
      /\ m[n] = x /\ \A i \in 1 .. Len(l) : m[i] = l[i]
  BY Positions
<1> HIDE DEF m
<1>2. ASSUME NEW i \in 1 .. Len(l) PROVE i \in Changes(m) <=> i \in Changes(l)
  <2>1. \A j \in 1 .. i - 1 : j \in 1 .. Len(l) /\ \A k \in j + 1 .. i - 1 : k \in 1 .. Len(l)
    BY <1>1
  <2>2. i \in DOMAIN m /\ i \in DOMAIN l /\ m[i] = l[i]
    BY <1>1
  <2> QED BY <1>1, <2>1, <2>2 DEF Changes
<1>3. n \in Changes(m) <=> new
  <2>1. n - 1 = Len(l) /\ n \in DOMAIN m
    BY <1>1
  <2>2. \A j \in 1 .. Len(l) : m[j] = l[j] /\ \A k \in j + 1 .. Len(l) : m[k] = l[k]
    BY <1>1
  <2>3. n \in Changes(m) <=>
           /\ x # Document
           /\ \A j \in 1 .. Len(l) : m[j] = x =>
                 \E k \in j + 1 .. Len(l) : m[k] \notin {Document, x}
    BY <1>1, <2>1 DEF Changes
  <2> QED BY <2>2, <2>3
<1>4. \A i \in Changes(m) : i \in 1 .. Len(l) \/ i = n
  BY <1>1 DEF Changes
<1>5. \A i \in Changes(l) : i \in 1 .. Len(l)
  BY <1>1 DEF Changes
<1> HIDE DEF new, n
<1>6. CASE new
  <2>1. \A i : i \in Changes(m) <=> i \in Changes(l) \/ i = n
    BY <1>2, <1>3, <1>4, <1>5, <1>6
  <2> QED BY <1>6, <2>1 DEF m, n, new
<1>7. CASE ~new
  <2>1. \A i : i \in Changes(m) <=> i \in Changes(l)
    BY <1>2, <1>3, <1>4, <1>5, <1>7
  <2> QED BY <1>7, <2>1 DEF m, n, new
<1> QED BY <1>6, <1>7

\* The documents that were saved while e was in force, after one more entry.
LEMMA SavedUnderAppend ==
    ASSUME NEW l \in Seq(Entry), NEW x \in Entry, NEW e
    PROVE  LET n == Len(l) + 1
               new == /\ x = Document
                      /\ \E j \in 1 .. Len(l) :
                            l[j] = e /\ \A k \in j + 1 .. Len(l) : l[k] \in {Document, e}
           IN  SavedUnder(e, Append(l, x)) =
                  IF new THEN SavedUnder(e, l) \cup {n} ELSE SavedUnder(e, l)
<1> DEFINE m == Append(l, x)
           n == Len(l) + 1
           new == /\ x = Document
                  /\ \E j \in 1 .. Len(l) :
                        l[j] = e /\ \A k \in j + 1 .. Len(l) : l[k] \in {Document, e}
<1>1. /\ DOMAIN l = 1 .. Len(l) /\ Len(l) \in Nat /\ DOMAIN m = 1 .. n
      /\ m[n] = x /\ \A i \in 1 .. Len(l) : m[i] = l[i]
  BY Positions
<1> HIDE DEF m
<1>2. ASSUME NEW i \in 1 .. Len(l) PROVE i \in SavedUnder(e, m) <=> i \in SavedUnder(e, l)
  <2>1. \A j \in 1 .. i - 1 : j \in 1 .. Len(l) /\ \A k \in j + 1 .. i - 1 : k \in 1 .. Len(l)
    BY <1>1
  <2>2. i \in DOMAIN m /\ i \in DOMAIN l /\ m[i] = l[i]
    BY <1>1
  <2> QED BY <1>1, <2>1, <2>2 DEF SavedUnder
<1>3. n \in SavedUnder(e, m) <=> new
  <2>1. n - 1 = Len(l) /\ n \in DOMAIN m
    BY <1>1
  <2>2. \A j \in 1 .. Len(l) : m[j] = l[j] /\ \A k \in j + 1 .. Len(l) : m[k] = l[k]
    BY <1>1
  <2>3. n \in SavedUnder(e, m) <=>
           /\ x = Document
           /\ \E j \in 1 .. Len(l) :
                 m[j] = e /\ \A k \in j + 1 .. Len(l) : m[k] \in {Document, e}
    BY <1>1, <2>1 DEF SavedUnder
  <2> QED BY <2>2, <2>3
<1>4. \A i \in SavedUnder(e, m) : i \in 1 .. Len(l) \/ i = n
  BY <1>1 DEF SavedUnder
<1>5. \A i \in SavedUnder(e, l) : i \in 1 .. Len(l)
  BY <1>1 DEF SavedUnder
<1> HIDE DEF new, n
<1>6. CASE new
  <2>1. \A i : i \in SavedUnder(e, m) <=> i \in SavedUnder(e, l) \/ i = n
    BY <1>2, <1>3, <1>4, <1>5, <1>6
  <2> QED BY <1>6, <2>1 DEF m, n, new
<1>7. CASE ~new
  <2>1. \A i : i \in SavedUnder(e, m) <=> i \in SavedUnder(e, l)
    BY <1>2, <1>3, <1>4, <1>5, <1>7
  <2> QED BY <1>7, <2>1 DEF m, n, new
<1> QED BY <1>6, <1>7

\* When one update is in force, every other one has been followed by it.
LEMMA OthersAreOver ==
    ASSUME NEW s, NEW l \in Seq(Entry), InForceNow(s, l),
           NEW e \in Entry, e # Document
    PROVE  (\E j \in 1 .. Len(l) : l[j] = e /\ \A k \in j + 1 .. Len(l) : l[k] \in {Document, e})
              <=> e = Current(s)
<1>1. CASE Current(s) = Document /\ \A i \in 1 .. Len(l) : l[i] = Document
  BY <1>1
<1>2. ASSUME Current(s) # Document,
             NEW p \in 1 .. Len(l), l[p] = Current(s),
             \A k \in p + 1 .. Len(l) : l[k] \in {Document, Current(s)}
      PROVE  (\E j \in 1 .. Len(l) : l[j] = e /\ \A k \in j + 1 .. Len(l) : l[k] \in {Document, e})
                <=> e = Current(s)
  <2>1. CASE e = Current(s)
    BY <1>2, <2>1
  <2>2. CASE e # Current(s)
    <3> SUFFICES ASSUME NEW j \in 1 .. Len(l), l[j] = e,
                        \A k \in j + 1 .. Len(l) : l[k] \in {Document, e}
                 PROVE  FALSE
      BY <2>2
    <3>1. j # p
      BY <1>2, <2>2
    <3>2. CASE j < p
      <4>1. p \in j + 1 .. Len(l)
        BY <3>2
      <4> QED BY <1>2, <2>2, <4>1
    <3>3. CASE p < j
      <4>1. j \in p + 1 .. Len(l)
        BY <3>3
      <4> QED BY <1>2, <2>2, <4>1
    <3> QED BY <3>1, <3>2, <3>3
  <2> QED BY <2>1, <2>2
<1> QED BY <1>1, <1>2 DEF InForceNow

LEMMA Product ==
    ASSUME NEW a \in Nat, NEW b \in Nat
    PROVE  a * b \in Nat /\ a * (b + 1) = a * b + a
OBVIOUS

\* A document that is saved and counted.
LEMMA DocumentTells ==
    ASSUME NEW s \in Subscription, NEW l \in Seq(Entry), LogTells(s, l), Allows(s)
    PROVE  LogTells([s EXCEPT !.used = @ + 1], Append(l, Document))
<1> DEFINE t == [s EXCEPT !.used = @ + 1]
           m == Append(l, Document)
           n == Len(l) + 1
<1>1. Document \in Entry
  BY DEF Entry
<1>2. Current(t) = Current(s) /\ t.used = s.used + 1 /\ s.used \in Nat
  BY DEF Current, Subscription
<1>3. /\ DOMAIN l = 1 .. Len(l) /\ Len(l) \in Nat /\ DOMAIN m = 1 .. n
      /\ m[n] = Document /\ \A i \in 1 .. Len(l) : m[i] = l[i]
      /\ Len(m) = n
  BY <1>1, Positions
<1>4. Changes(m) = Changes(l)
  BY <1>1, ChangesAppend
<1>5. \A e \in Entry \ {Document} :
         SavedUnder(e, m) = IF e = Current(s) THEN SavedUnder(e, l) \cup {n} ELSE SavedUnder(e, l)
  <2> TAKE e \in Entry \ {Document}
  <2>1. CASE e = Current(s)
    <3>1. \E j \in 1 .. Len(l) : l[j] = e /\ \A k \in j + 1 .. Len(l) : l[k] \in {Document, e}
      BY <2>1, OthersAreOver DEF LogTells
    <3> QED BY <1>1, <2>1, <3>1, SavedUnderAppend
  <2>2. CASE e # Current(s)
    <3>1. ~ \E j \in 1 .. Len(l) : l[j] = e /\ \A k \in j + 1 .. Len(l) : l[k] \in {Document, e}
      BY <2>2, OthersAreOver DEF LogTells
    <3> QED BY <1>1, <2>2, <3>1, SavedUnderAppend
  <2> QED BY <2>1, <2>2
<1> HIDE DEF t, m
<1>6. InForceNow(t, m)
  <2>1. CASE Current(s) = Document /\ \A i \in 1 .. Len(l) : l[i] = Document
    BY <1>2, <1>3, <2>1 DEF InForceNow
  <2>2. ASSUME Current(s) # Document, NEW j \in 1 .. Len(l), l[j] = Current(s),
               \A k \in j + 1 .. Len(l) : l[k] \in {Document, Current(s)}
        PROVE  InForceNow(t, m)
    <3>1. j \in 1 .. Len(m) /\ m[j] = Current(t)
      BY <1>2, <1>3, <2>2
    <3>2. ASSUME NEW k \in j + 1 .. Len(m) PROVE m[k] \in {Document, Current(t)}
      <4>1. k = n \/ k \in j + 1 .. Len(l)
        BY <1>3
      <4>2. k \in j + 1 .. Len(l) => k \in 1 .. Len(l)
        BY <1>3
      <4> QED BY <1>2, <1>3, <2>2, <4>1, <4>2
    <3> QED BY <1>2, <2>2, <3>1, <3>2 DEF InForceNow
  <2> QED BY <2>1, <2>2 DEF LogTells, InForceNow
<1>7. t.used = Cardinality(Counted(m))
  <2>1. \A j \in Changes(l) : j < n
    BY <1>3 DEF Changes
  <2>2. \A i : i \in Counted(m) <=> i \in Counted(l) \/ i = n
    BY <1>3, <1>4, <2>1 DEF Counted
  <2>3. Counted(m) = Counted(l) \cup {n} /\ Counted(l) \subseteq DOMAIN l
    BY <2>2 DEF Counted
  <2> QED BY <1>2, <2>3, PositionsFinite DEF LogTells
<1>8. QuotaOf(t, m)
  <2> SUFFICES ASSUME NEW e \in Entry \ {Document}, DocumentLimit(e.plan) # 0
               PROVE  LET limit == DocumentLimit(e.plan)
                          saved == Cardinality(SavedUnder(e, m))
                          all == limit * Cardinality(ChangesTo(e, m))
                      IN  saved <= all /\ (e = Current(t) => saved + limit <= all + t.used)
    BY DEF QuotaOf
  <2>1. ChangesTo(e, m) = ChangesTo(e, l)
    BY <1>3, <1>4 DEF ChangesTo, Changes
  <2>2. SavedUnder(e, l) \subseteq DOMAIN l /\ ChangesTo(e, l) \subseteq DOMAIN l
    BY DEF SavedUnder, ChangesTo, Changes
  <2>3. /\ Cardinality(SavedUnder(e, l)) \in Nat /\ Cardinality(ChangesTo(e, l)) \in Nat
        /\ Cardinality(SavedUnder(e, l) \cup {n}) = Cardinality(SavedUnder(e, l)) + 1
    BY <2>2, PositionsFinite
  <2>4. DocumentLimit(e.plan) \in Nat
    BY LimitAssumption DEF DocumentLimit
  <2>5. DocumentLimit(e.plan) * Cardinality(ChangesTo(e, l)) \in Nat
    BY <2>3, <2>4, Product
  <2>6. /\ Cardinality(SavedUnder(e, l)) <= DocumentLimit(e.plan) * Cardinality(ChangesTo(e, l))
        /\ e = Current(s) =>
              Cardinality(SavedUnder(e, l)) + DocumentLimit(e.plan)
                 <= DocumentLimit(e.plan) * Cardinality(ChangesTo(e, l)) + s.used
    BY DEF LogTells, QuotaOf
  <2>7. CASE e # Current(s)
    BY <1>2, <1>5, <2>1, <2>6, <2>7
  <2>8. CASE e = Current(s)
    <3>1. Cardinality(SavedUnder(e, m)) = Cardinality(SavedUnder(e, l)) + 1
      BY <1>5, <2>3, <2>8
    <3>2. s.used + 1 <= DocumentLimit(e.plan)
      BY <1>2, <2>4, <2>8 DEF Allows, Current
    <3>3. Cardinality(SavedUnder(e, l)) + 1 <= DocumentLimit(e.plan) * Cardinality(ChangesTo(e, l))
      BY <1>2, <2>3, <2>4, <2>5, <2>6, <2>8, <3>2
    <3> QED BY <1>2, <2>1, <2>3, <2>4, <2>5, <2>6, <2>8, <3>1, <3>3
  <2> QED BY <2>7, <2>8
<1> QED BY <1>6, <1>7, <1>8 DEF LogTells, t, m

\* An update that is applied.
LEMMA UpdateTells ==
    ASSUME NEW s \in Subscription, NEW l \in Seq(Entry), LogTells(s, l), NEW update \in Update
    PROVE  LogTells(Applied(s, update), Append(l, [plan |-> update.plan, ends |-> update.ends]))
<1> DEFINE t == Applied(s, update)
           x == [plan |-> update.plan, ends |-> update.ends]
           m == Append(l, x)
           n == Len(l) + 1
<1>1. x \in Entry /\ x # Document
  BY DEF Entry, Update, Document, Times
<1>2. /\ Current(t) = x /\ s.used \in Nat
      /\ t.used = IF Current(s) = x THEN s.used ELSE 0
  BY DEF Current, Applied, Subscription
<1>3. /\ DOMAIN l = 1 .. Len(l) /\ Len(l) \in Nat /\ DOMAIN m = 1 .. n
      /\ m[n] = x /\ \A i \in 1 .. Len(l) : m[i] = l[i]
      /\ Len(m) = n
  BY <1>1, Positions
<1>4. \A e : SavedUnder(e, m) = SavedUnder(e, l)
  BY <1>1, SavedUnderAppend
<1>5. Changes(m) = IF x = Current(s) THEN Changes(l) ELSE Changes(l) \cup {n}
  <2>1. (\E j \in 1 .. Len(l) : l[j] = x /\ \A k \in j + 1 .. Len(l) : l[k] \in {Document, x})
           <=> x = Current(s)
    BY <1>1, OthersAreOver DEF LogTells
  <2> QED BY <1>1, <2>1, ChangesAppend
<1> HIDE DEF t, m, x
<1>6. InForceNow(t, m)
  <2>1. n \in 1 .. Len(m) /\ \A k \in n + 1 .. Len(m) : FALSE
    BY <1>3
  <2> QED BY <1>1, <1>2, <1>3, <2>1 DEF InForceNow
<1>7. t.used = Cardinality(Counted(m))
  <2>1. CASE x = Current(s)
    <3>1. \A j \in Changes(l) : j < n
      BY <1>3 DEF Changes
    <3>2. \A i : i \in Counted(m) <=> i \in Counted(l)
      BY <1>1, <1>3, <1>5, <2>1 DEF Counted
    <3>3. Counted(m) = Counted(l)
      BY <3>2
    <3> QED BY <1>2, <2>1, <3>3 DEF LogTells
  <2>2. CASE x # Current(s)
    <3>1. n \in Changes(m) /\ \A i \in DOMAIN m : ~ (n < i)
      BY <1>3, <1>5, <2>2
    <3>2. \A i \in DOMAIN m : i \notin Counted(m)
      BY <3>1 DEF Counted
    <3>3. Counted(m) = {}
      BY <3>2 DEF Counted
    <3> QED BY <1>2, <2>2, <3>3, FS_EmptySet
  <2> QED BY <2>1, <2>2
<1>8. QuotaOf(t, m)
  <2> SUFFICES ASSUME NEW e \in Entry \ {Document}, DocumentLimit(e.plan) # 0
               PROVE  LET limit == DocumentLimit(e.plan)
                          saved == Cardinality(SavedUnder(e, m))
                          all == limit * Cardinality(ChangesTo(e, m))
                      IN  saved <= all /\ (e = Current(t) => saved + limit <= all + t.used)
    BY DEF QuotaOf
  <2>1. SavedUnder(e, l) \subseteq DOMAIN l /\ ChangesTo(e, l) \subseteq DOMAIN l
    BY DEF SavedUnder, ChangesTo, Changes
  <2>2. /\ Cardinality(SavedUnder(e, l)) \in Nat /\ Cardinality(ChangesTo(e, l)) \in Nat
        /\ Cardinality(ChangesTo(e, l) \cup {n}) = Cardinality(ChangesTo(e, l)) + 1
    BY <2>1, PositionsFinite
  <2>3. DocumentLimit(e.plan) \in Nat
    BY LimitAssumption DEF DocumentLimit
  <2>4. /\ DocumentLimit(e.plan) * Cardinality(ChangesTo(e, l)) \in Nat
        /\ DocumentLimit(e.plan) * (Cardinality(ChangesTo(e, l)) + 1)
              = DocumentLimit(e.plan) * Cardinality(ChangesTo(e, l)) + DocumentLimit(e.plan)
    BY <2>2, <2>3, Product
  <2>5. /\ Cardinality(SavedUnder(e, l)) <= DocumentLimit(e.plan) * Cardinality(ChangesTo(e, l))
        /\ e = Current(s) =>
              Cardinality(SavedUnder(e, l)) + DocumentLimit(e.plan)
                 <= DocumentLimit(e.plan) * Cardinality(ChangesTo(e, l)) + s.used
    BY DEF LogTells, QuotaOf
  <2>6. \A i \in Changes(l) : m[i] = l[i]
    BY <1>3 DEF Changes
  <2>7. CASE e = x /\ x # Current(s)
    <3>1. ChangesTo(e, m) = ChangesTo(e, l) \cup {n}
      BY <1>3, <1>5, <2>6, <2>7 DEF ChangesTo
    <3>2. Cardinality(ChangesTo(e, m)) = Cardinality(ChangesTo(e, l)) + 1
      BY <2>2, <3>1
    <3>3. Cardinality(SavedUnder(e, m)) = Cardinality(SavedUnder(e, l)) /\ t.used = 0
      BY <1>2, <1>4, <2>7
    <3> QED BY <2>2, <2>3, <2>4, <2>5, <3>2, <3>3
  <2>8. CASE e # x \/ x = Current(s)
    <3>1. ChangesTo(e, m) = ChangesTo(e, l)
      BY <1>3, <1>5, <2>6, <2>8 DEF ChangesTo
    <3> QED BY <1>2, <1>4, <2>5, <2>8, <3>1
  <2> QED BY <2>7, <2>8
<1> QED BY <1>6, <1>7, <1>8 DEF LogTells, t, m, x

\* Every step keeps what the logs tell.
LEMMA LogInvStep == BillingInv /\ LogInv /\ [Next]_vars => LogInv'
<1> SUFFICES ASSUME BillingInv, LogInv, [Next]_vars PROVE LogInv'
  OBVIOUS
<1>1. \A u \in Users : subscriptions[u] \in Subscription /\ log[u] \in Seq(Entry)
  BY DEF BillingInv, TypeOK
<1>2. subscriptions \in [Users -> Subscription] /\ log \in [Users -> Seq(Entry)]
  BY DEF BillingInv, TypeOK
<1>3. CASE UNCHANGED <<subscriptions, log>>
  BY <1>3 DEF LogInv
<1>4. ASSUME NEW u \in Users, NEW s, NEW l, LogTells(s, l),
             subscriptions' = [subscriptions EXCEPT ![u] = s],
             log' = [log EXCEPT ![u] = l]
      PROVE  LogInv'
  <2>1. \A v \in Users : /\ subscriptions'[v] = IF v = u THEN s ELSE subscriptions[v]
                         /\ log'[v] = IF v = u THEN l ELSE log[v]
    BY <1>2, <1>4
  <2> QED BY <1>4, <2>1 DEF LogInv
<1>5. ASSUME NEW c \in Connections, SaveDocument(c) PROVE LogInv'
  <2> DEFINE u == tx[c].user
             s == [subscriptions[u] EXCEPT !.used = @ + 1]
             l == Append(log[u], Document)
  <2>1. u \in Users
    BY <1>5 DEF BillingInv, TypeOK, SaveDocument, NoTransaction, Transaction
  <2>2. Allows(subscriptions[u])
    BY <1>5 DEF BillingInv, SavesAllowed, SaveDocument
  <2>3. LogTells(s, l)
    BY <1>1, <2>1, <2>2, DocumentTells DEF LogInv
  <2>4. subscriptions' = [subscriptions EXCEPT ![u] = s] /\ log' = [log EXCEPT ![u] = l]
    BY <1>2, <1>5, <2>1 DEF SaveDocument
  <2> HIDE DEF s, l
  <2> QED BY <1>4, <2>1, <2>3, <2>4
<1>6. ASSUME NEW c \in Connections, UpsertSubscription(c) PROVE LogInv'
  <2> DEFINE u == tx[c].user
  <2>1. u \in Users
    BY <1>6 DEF BillingInv, TypeOK, UpsertSubscription, NoTransaction, Transaction
  <2>2. PICK update \in Update :
           /\ subscriptions' = [subscriptions EXCEPT ![u] = Applied(@, update)]
           /\ log' = [log EXCEPT ![u] = Append(@, [plan |-> update.plan, ends |-> update.ends])]
    BY <1>6 DEF UpsertSubscription
  <2> DEFINE s == Applied(subscriptions[u], update)
             l == Append(log[u], [plan |-> update.plan, ends |-> update.ends])
  <2>3. LogTells(s, l)
    BY <1>1, <2>1, UpdateTells DEF LogInv
  <2>4. subscriptions' = [subscriptions EXCEPT ![u] = s] /\ log' = [log EXCEPT ![u] = l]
    BY <1>2, <2>1, <2>2
  <2> HIDE DEF s, l
  <2> QED BY <1>4, <2>1, <2>3, <2>4
<1>7. ASSUME NEW c \in Connections, EnsureUser(c) \/ Allowance(c) \/ Rollback(c) \/
             \E u \in Users : BeginDocument(c, u) \/ BeginWebhook(c, u)
      PROVE  UNCHANGED <<subscriptions, log>>
  BY <1>7 DEF EnsureUser, Allowance, Rollback, BeginDocument, BeginWebhook, Begin
<1>8. Tick \/ UNCHANGED vars => UNCHANGED <<subscriptions, log>>
  BY DEF Tick, vars
<1> QED BY <1>3, <1>5, <1>6, <1>7, <1>8 DEF Next, Step

\* The invariant holds at the start.
LEMMA LogInvInit == Init => LogInv
<1> SUFFICES ASSUME Init, NEW u \in Users PROVE LogTells(subscriptions[u], log[u])
  BY DEF LogInv
<1>1. subscriptions[u] = NoSubscription /\ log[u] = <<>>
  BY DEF Init
<1>2. Current(NoSubscription) = Document /\ NoSubscription.used = 0
  BY DEF Current, NoSubscription, Document
<1>3. /\ Len(<<>>) = 0 /\ DOMAIN <<>> = {} /\ \A i \in 1 .. 0 : FALSE
  OBVIOUS
<1>4. InForceNow(NoSubscription, <<>>)
  BY <1>2, <1>3 DEF InForceNow
<1>5. Counted(<<>>) = {} /\ \A e : SavedUnder(e, <<>>) = {} /\ ChangesTo(e, <<>>) = {}
  BY <1>3 DEF Counted, SavedUnder, ChangesTo, Changes
<1>6. \A e \in Entry \ {Document} : e # Current(NoSubscription)
  BY <1>2
<1>7. \A p \in PlanCodes \cup {"none"} : DocumentLimit(p) * 0 = 0
  BY LimitType
<1>8. \A e \in Entry : e.plan \in PlanCodes \cup {"none"}
  BY DEF Entry, Document
<1>9. QuotaOf(NoSubscription, <<>>)
  <2> SUFFICES ASSUME NEW e \in Entry \ {Document}
               PROVE  Cardinality(SavedUnder(e, <<>>))
                         <= DocumentLimit(e.plan) * Cardinality(ChangesTo(e, <<>>))
    BY <1>6 DEF QuotaOf
  <2>1. DocumentLimit(e.plan) * 0 = 0
    BY <1>7, <1>8
  <2>2. Cardinality(SavedUnder(e, <<>>)) = 0 /\ Cardinality(ChangesTo(e, <<>>)) = 0
    BY <1>5, FS_EmptySet, Zenon
  <2> QED BY <2>1, <2>2
<1> QED BY <1>1, <1>2, <1>4, <1>5, <1>9, FS_EmptySet DEF LogTells

----------------------------------------------------------------------------
(* The locks.                                                              *)

\* A lock is held by a transaction on that user which is past the statement that
\* takes it: the lock of the subscription by one with nothing left to wait for.
LocksOwned ==
    \A u \in Users, c \in Connections :
       /\ userLock[u] = c => tx[c].user = u /\ tx[c].pc \in {"allowance", "upsert", "save"}
       /\ rowLock[u] = c => tx[c].user = u /\ tx[c].pc = "save"

\* A transaction that ends holds no lock any more.
LEMMA EndFreesLocks ==
    ASSUME TypeOK, LocksOwned, NEW c \in Connections, End(c)
    PROVE  LocksOwned'
<1>1. \A d \in Connections : d # c => tx'[d] = tx[d]
  BY DEF End, TypeOK
<1>2. \A u \in Users, d \in Connections :
         /\ userLock'[u] = d => d # c /\ userLock[u] = d
         /\ rowLock'[u] = d => d # c /\ rowLock[u] = d
  BY NoneAssumption DEF End
<1> QED BY <1>1, <1>2 DEF LocksOwned

\* Every step keeps the locks with their transactions.
LEMMA LocksStep ==
    ASSUME BillingInv, LocksOwned, [Next]_vars
    PROVE  LocksOwned'
<1> USE DEF BillingInv, TypeOK
<1>1. ASSUME NEW c \in Connections, NEW u \in Users, BeginDocument(c, u) \/ BeginWebhook(c, u)
      PROVE  LocksOwned'
  <2>1. /\ tx[c] = NoTransaction /\ \A d \in Connections : d # c => tx'[d] = tx[d]
        /\ UNCHANGED <<userLock, rowLock>>
    BY <1>1 DEF BeginDocument, BeginWebhook, Begin
  <2>2. tx[c].pc = "none"
    BY <2>1 DEF NoTransaction
  <2> HIDE DEF BillingInv, TypeOK
  <2>3. \A v \in Users : userLock[v] # c /\ rowLock[v] # c
    BY <2>2 DEF LocksOwned
  <2> QED BY <2>1, <2>3 DEF LocksOwned
<1>2. ASSUME NEW c \in Connections, EnsureUser(c) PROVE LocksOwned'
  <2> DEFINE u == tx[c].user
  <2>1. tx[c] \in Transaction /\ u \in Users
    BY <1>2 DEF EnsureUser, NoTransaction, Transaction
  <2>2. /\ tx[c].pc = "ensureUser" /\ userLock[u] = None
        /\ userLock' = [userLock EXCEPT ![u] = c] /\ rowLock' = rowLock
    BY <1>2 DEF EnsureUser
  <2>3. /\ tx'[c].pc \in {"allowance", "upsert"} /\ tx'[c].user = u
        /\ \A d \in Connections : d # c => tx'[d] = tx[d]
    BY <1>2, <2>1 DEF EnsureUser, Transaction
  <2>4. \A v \in Users : rowLock[v] # c
    BY <2>2 DEF LocksOwned
  <2>5. \A v \in Users : v # u => userLock'[v] = userLock[v]
    BY <2>2
  <2>6. \A v \in Users : v # u => userLock[v] # c
    BY <2>2 DEF LocksOwned
  <2>7. userLock'[u] = c
    BY <2>1, <2>2
  <2> HIDE DEF u
  <2> QED BY <2>2, <2>3, <2>4, <2>5, <2>6, <2>7 DEF LocksOwned
<1>3. ASSUME NEW c \in Connections, Allowance(c) PROVE LocksOwned'
  <2> DEFINE u == tx[c].user
  <2>1. tx[c] \in Transaction /\ u \in Users /\ userLock[u] = c /\ tx[c].pc = "allowance"
    BY <1>3 DEF Allowance, NoTransaction, Transaction
  <2>2. CASE End(c)
    BY <2>2, EndFreesLocks
  <2>3. CASE ~End(c)
    <3>1. /\ rowLock' = [rowLock EXCEPT ![u] = c] /\ userLock' = userLock
          /\ tx' = [tx EXCEPT ![c].pc = "save"]
      BY <1>3, <2>3 DEF Allowance
    <3>2. /\ tx'[c].pc = "save" /\ tx'[c].user = u
          /\ \A d \in Connections : d # c => tx'[d] = tx[d]
      BY <2>1, <3>1 DEF Transaction
    <3>3. /\ \A v \in Users : v # u => rowLock'[v] = rowLock[v] /\ rowLock[v] # c
          /\ rowLock'[u] = c
      BY <2>1, <3>1 DEF LocksOwned
    <3>4. \A v \in Users : userLock[v] = c => v = u
      BY DEF LocksOwned
    <3> HIDE DEF u
    <3> QED BY <3>1, <3>2, <3>3, <3>4 DEF LocksOwned
  <2> QED BY <2>2, <2>3
<1>4. ASSUME NEW c \in Connections, SaveDocument(c) \/ UpsertSubscription(c) \/ Rollback(c)
      PROVE  LocksOwned'
  <2>1. End(c)
    BY <1>4 DEF SaveDocument, UpsertSubscription, Rollback
  <2> QED BY <2>1, EndFreesLocks
<1>5. CASE Tick \/ UNCHANGED vars
  BY <1>5 DEF Tick, vars, LocksOwned
<1> QED BY <1>1, <1>2, <1>3, <1>4, <1>5 DEF Next, Step

\* Where locks are with their transactions, nobody waits for a transaction that waits.
LEMMA LocksOwnedGoOn ==
    ASSUME TypeOK, LocksOwned
    PROVE  HoldersGoOn
<1> SUFFICES ASSUME NEW c \in Connections, NEW d \in Connections, NEW e \in Connections,
                    Waits(c, d), Waits(d, e)
             PROVE  FALSE
  BY DEF HoldersGoOn
<1>1. ASSUME NEW x \in Connections, NEW y \in Connections, Waits(x, y)
      PROVE  /\ tx[x].user \in Users
             /\ tx[x].pc = "ensureUser" => userLock[tx[x].user] = y
             /\ tx[x].pc # "ensureUser" => /\ rowLock[tx[x].user] = y
                                           /\ tx[x].pc \in {"allowance", "upsert"}
  BY <1>1 DEF Waits, TypeOK, Transaction, NoTransaction
<1>2. tx[d].pc \in {"allowance", "upsert", "save"}
  BY <1>1 DEF LocksOwned
<1>3. tx[d].pc \in {"allowance", "upsert"} /\ rowLock[tx[d].user] = e
  BY <1>1, <1>2
<1>4. tx[e].pc = "save" /\ tx[e].user = tx[d].user
  BY <1>1, <1>3 DEF LocksOwned
<1>5. userLock[tx[d].user] = e /\ userLock[tx[d].user] = d
  BY <1>3, <1>4 DEF TypeOK
<1> QED BY <1>3, <1>4, <1>5

----------------------------------------------------------------------------
(* The theorems.                                                           *)

\* The tables and the transactions are well typed, and each transaction holds the
\* locks that its statements have taken.
THEOREM BillingTypeCorrect == Spec => []TypeOK
<1>1. BillingInv => TypeOK
  BY DEF BillingInv
<1> QED BY <1>1, BillingInvInit, BillingInvStep, PTL DEF Spec

\* Whatever updates arrive while documents are saved over however many connections,
\* the documents in use never pass the limit of the plan in force.
THEOREM LimitIsKept == Spec => []WithinLimit
<1>1. BillingInv => WithinLimit
  BY DEF BillingInv
<1> QED BY <1>1, BillingInvInit, BillingInvStep, PTL DEF Spec

\* For each user the count in the row of the subscription is the number of documents
\* saved since the plan or the period last changed, over whatever connections.
THEOREM CountIsExact == Spec => []UsedIsCount
<1>1. LogInv => UsedIsCount
  BY DEF LogInv, LogTells, UsedIsCount
<1> QED BY <1>1, BillingInvInit, LogInvInit, BillingInvStep, LogInvStep, PTL DEF Spec

\* However updates are repeated and overtake each other, each time that a plan and
\* period come into force brings its limit of documents once.
THEOREM QuotaIsKept == Spec => []QuotaPerPeriod
<1>1. LogInv => QuotaPerPeriod
  BY DEF LogInv, LogTells, QuotaOf, QuotaPerPeriod
<1> QED BY <1>1, BillingInvInit, LogInvInit, BillingInvStep, LogInvStep, PTL DEF Spec

\* For however many connections: a transaction that holds a row which another one
\* waits for does not wait, so documents and webhooks never deadlock in the database.
THEOREM BillingNeverDeadlocks == Spec => []HoldersGoOn
<1>1. Init => LocksOwned
  BY NoneAssumption DEF Init, LocksOwned
<1>2. BillingInv /\ LocksOwned => HoldersGoOn
  BY LocksOwnedGoOn DEF BillingInv
<1> QED BY <1>1, <1>2, BillingInvInit, BillingInvStep, LocksStep, PTL DEF Spec
=============================================================================
