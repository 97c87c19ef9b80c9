--------------------------- MODULE DeliveryProofs ---------------------------
(***************************************************************************)
(* The outbox is published at least once, and repeated only for a fault;   *)
(* until something fails, both participants are notified exactly once: for *)
(* any events, publishers, workers, batch limit and number of faults.      *)
(*                                                                         *)
(* None of it is inductive as it stands.  TypeOK needs that the publishers *)
(* lock different rows, or the commit of one would leave another with a    *)
(* published row, and that the dispatcher has fetched the message it works *)
(* on.  What a commit will mark as published is known only from the open   *)
(* transaction: Sent names the rows whose message is already in the topic, *)
(* SentIsInTopic says that it is, and RepeatsAreCounted charges each other *)
(* copy to a fault.  What exists exactly once is known only from how far   *)
(* the dispatcher is: Handled names the tasks that it has queued, also for *)
(* the message it works on, and CopiesAreHandled says that those exist     *)
(* once, and no other.  Queueing one more relies on the outbox: a message  *)
(* that was not repeated in the topic was not handled before.              *)
(*                                                                         *)
(* With failures, no committed message is passed over unless one was       *)
(* dropped.  NotifiedInv says how far the dispatcher has queued the tasks  *)
(* of what it fetched, which holds only while its connection is open: on a *)
(* closed one it skips messages, but then never comes to a commit.         *)
(***************************************************************************)
EXTENDS Delivery, TLAPS, FiniteSetTheorems

\* No row is locked by two publishers.
LocksDisjoint ==
    \A p, q \in Publishers : p # q => locked[p] \cap locked[q] = {}

\* The dispatcher works on a message that it has fetched.
HasFetched == dispatch # "fetch" => position > 0

TypeInv == TypeOK /\ LocksDisjoint /\ HasFetched

\* The rows of open transactions that were published already.
Sent == UNION {locked[p] \ unsent[p] : p \in Publishers}

SentIsInTopic == \A e \in Sent : Occurrences(e) > 0

\* A row that waits and is not sent has no more messages than there were faults;
\* one that is published, or sent and about to be, has one message more.
RepeatsAreCounted ==
    \A e \in Events :
       /\ Occurrences(e) <= 1 + faults
       /\ (outbox[e] # "published" /\ e \notin Sent) => Occurrences(e) <= faults

OutboxInv == PublishedIsInTopic /\ SentIsInTopic /\ RepeatsAreCounted

----------------------------------------------------------------------------
(* Types.                                                                  *)

\* A task that is queued leaves a bag of tasks.
LEMMA AddKeepsBag ==
    ASSUME NEW q, DOMAIN q \subseteq Task, \A t \in DOMAIN q : q[t] \in Nat \ {0},
           NEW x \in Task
    PROVE  /\ DOMAIN BagAdd(q, x) \subseteq Task
           /\ \A t \in DOMAIN BagAdd(q, x) : BagAdd(q, x)[t] \in Nat \ {0}
BY DEF BagAdd

\* A task that is taken leaves a bag of tasks.
LEMMA RemoveKeepsBag ==
    ASSUME NEW q, DOMAIN q \subseteq Task, \A t \in DOMAIN q : q[t] \in Nat \ {0},
           NEW x \in Task
    PROVE  /\ DOMAIN BagRemove(q, x) \subseteq Task
           /\ \A t \in DOMAIN BagRemove(q, x) : BagRemove(q, x)[t] \in Nat \ {0}
BY DEF BagRemove

\* The number of faults stays within its bound, and never falls.
LEMMA FaultsBounded ==
    ASSUME faults \in 0 .. MaxFaults
    PROVE  /\ \A o \in Outcomes :
                 Charge(o) \/ Tally(o) \/ TallyLoss(o, "failed") \/ TallyLoss(o, "lost") =>
                    /\ faults' \in 0 .. MaxFaults
                    /\ faults' = IF o = "ok" THEN faults ELSE faults + 1
           /\ Fault => faults' \in 0 .. MaxFaults /\ faults' = faults + 1
<1>1. \A o \in Outcomes :
         Charge(o) => /\ faults' \in 0 .. MaxFaults
                      /\ faults' = IF o = "ok" THEN faults ELSE faults + 1
  BY SizeAssumption DEF Outcomes, Charge
<1>2. \A o \in Outcomes :
         Tally(o) \/ TallyLoss(o, "failed") \/ TallyLoss(o, "lost") => Charge(o)
  BY Zenon DEF Tally, TallyLoss
<1>3. Fault => faults' \in 0 .. MaxFaults /\ faults' = faults + 1
  BY SizeAssumption DEF Fault
<1> QED  BY <1>1, <1>2, <1>3

\* A message was dropped or not, and stays so.
LEMMA DroppedStays ==
    ASSUME dropped \in BOOLEAN, [Next]_vars
    PROVE  dropped' \in BOOLEAN /\ (~dropped' => ~dropped)
<1>1. \/ UNCHANGED dropped
      \/ \E o \in Outcomes : Tally(o) \/ TallyLoss(o, "failed") \/ TallyLoss(o, "lost")
      \/ Fault
  BY DEF Next, Emit, Publisher, SelectBatch, PublishNext, CommitBatch, PublisherCrash,
         Dispatcher, Fetch, Targets, Notify, CommitOffset, Disconnect, DispatcherCrash,
         Worker, Take, SendTask, AckTask, WorkerCrash, vars
<1> QED  BY <1>1, Zenon DEF Tally, TallyLoss, Fault

\* The steps of the publishers keep the types and the locks apart.
LEMMA PublisherKeepsTypes ==
    ASSUME TypeInv, dropped' \in BOOLEAN,
           NEW p \in Publishers, Publisher(p) \/ PublisherCrash(p)
    PROVE  TypeInv'
<1> USE DEF TypeInv, TypeOK
<1>1. CASE SelectBatch(p)
  <2> DEFINE S == Oldest(Pending \ Locked)
  <2>1. S \subseteq Pending \ Locked /\ Pending \subseteq Events
    BY DEF Oldest, Pending
  <2>2. /\ locked' = [locked EXCEPT ![p] = S] /\ unsent' = [unsent EXCEPT ![p] = S]
        /\ UNCHANGED <<outbox, topic, dispatching, queue, working, faults>>
    BY <1>1 DEF SelectBatch
  <2>3. LocksDisjoint'
    <3>1. \A q \in Publishers : S \cap locked[q] = {}
      BY <2>1 DEF Locked
    <3>2. \A q \in Publishers : locked'[q] = IF q = p THEN S ELSE locked[q]
      BY <2>2
    <3> HIDE DEF S
    <3> QED  BY <3>1, <3>2 DEF LocksDisjoint
  <2>4. HasFetched'
    BY <2>2 DEF HasFetched, dispatching
  <2> HIDE DEF S
  <2> QED  BY <2>1, <2>2, <2>3, <2>4 DEF Pending, dispatching, working
<1>2. CASE PublishNext(p)
  <2> PICK e \in unsent[p], o \in Outcomes :
         /\ topic' = IF o = "failed" THEN topic ELSE Append(topic, e)
         /\ IF o = "ok" THEN unsent' = [unsent EXCEPT ![p] = @ \ {e}] /\ UNCHANGED locked
            ELSE Rollback(p)
         /\ Tally(o)
         /\ UNCHANGED <<outbox, dispatching, queue, working>>
    BY <1>2 DEF PublishNext
  <2>1. e \in Events /\ faults' \in 0 .. MaxFaults
    BY FaultsBounded DEF Pending
  <2>2. topic' \in Seq(Events) /\ Len(topic') \in Nat /\ Len(topic') >= Len(topic)
    BY <2>1
  <2>3. LocksDisjoint' /\ HasFetched'
    BY DEF LocksDisjoint, HasFetched, Rollback, dispatching
  <2>4. /\ locked' \in [Publishers -> SUBSET Events] /\ unsent' \in [Publishers -> SUBSET Events]
        /\ \A q \in Publishers : unsent'[q] \subseteq locked'[q] /\ locked'[q] \subseteq Pending'
    <3>1. CASE o = "ok"
      <4>1. /\ unsent' = [unsent EXCEPT ![p] = @ \ {e}]
            /\ locked' = locked /\ Pending' = Pending
        BY <3>1 DEF Pending
      <4>2. \A q \in Publishers : unsent'[q] \subseteq unsent[q]
        BY <4>1
      <4> QED  BY <4>1, <4>2
    <3>2. CASE o # "ok"
      BY <3>2 DEF Rollback, Pending
    <3> QED  BY <3>1, <3>2
  <2> QED  BY <2>1, <2>2, <2>3, <2>4 DEF dispatching, working
<1>3. CASE CommitBatch(p)
  <2>1. /\ outbox' = outbox
           \/ outbox' = [e \in Events |-> IF e \in locked[p] THEN "published" ELSE outbox[e]]
        /\ faults' \in 0 .. MaxFaults
        /\ Rollback(p)
        /\ UNCHANGED <<topic, dispatching, queue, working>>
    BY <1>3, FaultsBounded DEF CommitBatch
  <2>2. LocksDisjoint' /\ HasFetched'
    BY <2>1 DEF LocksDisjoint, HasFetched, Rollback, dispatching
  <2>3. \A q \in Publishers :
           q # p => unsent'[q] \subseteq locked'[q] /\ locked'[q] \subseteq Pending'
    BY <2>1 DEF LocksDisjoint, Rollback, Pending
  <2>4. unsent'[p] \subseteq locked'[p] /\ locked'[p] \subseteq Pending'
    BY <2>1 DEF Rollback
  <2> QED  BY <2>1, <2>2, <2>3, <2>4 DEF Rollback, dispatching, working
<1>4. CASE PublisherCrash(p)
  <2>1. /\ faults' \in 0 .. MaxFaults /\ Rollback(p)
        /\ UNCHANGED <<outbox, topic, dispatching, queue, working>>
    BY <1>4, FaultsBounded DEF PublisherCrash
  <2>2. LocksDisjoint' /\ HasFetched'
    BY <2>1 DEF LocksDisjoint, HasFetched, Rollback, dispatching
  <2> QED  BY <2>1, <2>2 DEF Rollback, Pending, dispatching, working
<1> QED  BY <1>1, <1>2, <1>3, <1>4 DEF Publisher

\* The steps of the dispatcher keep the types: what it queues is a task.
LEMMA DispatcherKeepsTypes ==
    ASSUME TypeInv, dropped' \in BOOLEAN, Dispatcher \/ Disconnect \/ DispatcherCrash
    PROVE  TypeInv'
<1> USE DEF TypeInv, TypeOK
<1>1. /\ UNCHANGED <<publishing, topic, working>>
      /\ LocksDisjoint' /\ Pending' = Pending
  BY DEF Dispatcher, Fetch, Targets, Notify, CommitOffset, Disconnect, DispatcherCrash,
         LocksDisjoint, Pending, publishing
<1>2. Len(topic) \in Nat
  OBVIOUS
<1>3. CASE Fetch
  BY <1>1, <1>2, <1>3 DEF Fetch, HasFetched, publishing, working
<1>4. CASE Targets
  <2>1. /\ dispatch' \in {"customer", "fetch"} /\ dispatch # "fetch"
        /\ faults' \in 0 .. MaxFaults
        /\ UNCHANGED <<offset, position, connected, queue>>
    BY <1>4, FaultsBounded DEF Targets
  <2> QED  BY <1>1, <2>1 DEF HasFetched, Recipients, publishing, working
<1>5. CASE \E to \in Recipients : Notify(to)
  <2> PICK to \in Recipients : Notify(to)
    BY <1>5
  <2>1. TaskOf(topic[position], to) \in Task
    BY <1>2 DEF Notify, HasFetched, TaskOf, Task, Recipients
  <2>2. /\ dispatch' \in {"fetch", "contractor", "commit"} /\ position > 0
        /\ faults' \in 0 .. MaxFaults
        /\ queue' = queue \/ queue' = BagAdd(queue, TaskOf(topic[position], to))
        /\ UNCHANGED <<offset, position, connected>>
    BY <1>2, FaultsBounded DEF Notify, HasFetched, Recipients
  <2>3. DOMAIN queue' \subseteq Task /\ \A t \in DOMAIN queue' : queue'[t] \in Nat \ {0}
    BY <2>1, <2>2, AddKeepsBag
  <2> QED  BY <1>1, <2>2, <2>3 DEF HasFetched, Recipients, publishing, working
<1>6. CASE CommitOffset
  <2>1. /\ offset' \in {offset, position} /\ dispatch' = "fetch"
        /\ faults' \in 0 .. MaxFaults
        /\ UNCHANGED <<position, connected, queue>>
    BY <1>6, FaultsBounded DEF CommitOffset
  <2> QED  BY <1>1, <2>1 DEF HasFetched, publishing, working
<1>7. CASE Disconnect
  BY <1>1, <1>7, FaultsBounded DEF Disconnect, HasFetched, publishing, working
<1>8. CASE DispatcherCrash
  BY <1>1, <1>8, FaultsBounded DEF DispatcherCrash, HasFetched, publishing, working
<1> QED  BY <1>3, <1>4, <1>5, <1>6, <1>7, <1>8 DEF Dispatcher

\* The steps of the workers keep the types: only a task is sent and acknowledged.
LEMMA WorkerKeepsTypes ==
    ASSUME TypeInv, dropped' \in BOOLEAN, NEW w \in Workers, Worker(w) \/ WorkerCrash(w)
    PROVE  TypeInv'
<1> USE DEF TypeInv, TypeOK
<1>1. /\ UNCHANGED <<publishing, topic, dispatching>>
      /\ LocksDisjoint' /\ HasFetched' /\ Pending' = Pending
  BY DEF Worker, Take, SendTask, AckTask, WorkerCrash, LocksDisjoint, HasFetched, Pending,
         publishing, dispatching
<1>2. worker[w] # Resting => worker[w].task \in Task
  OBVIOUS
<1>3. CASE Take(w)
  <2> PICK t \in DOMAIN queue :
         /\ queue' = BagRemove(queue, t)
         /\ worker' = [worker EXCEPT ![w] = [pc |-> "send", task |-> t]]
         /\ UNCHANGED <<sms, acked, faults>>
    BY <1>3 DEF Take
  <2>1. DOMAIN queue' \subseteq Task /\ \A x \in DOMAIN queue' : queue'[x] \in Nat \ {0}
    BY RemoveKeepsBag
  <2>2. worker' \in [Workers -> {Resting} \cup [pc : {"send", "ack"}, task : Task]]
    OBVIOUS
  <2> QED  BY <1>1, <2>1, <2>2 DEF publishing, dispatching
<1>4. CASE SendTask(w)
  <2>1. worker[w].task \in Task /\ worker[w] \in [pc : {"send", "ack"}, task : Task]
    BY <1>2, <1>4 DEF SendTask, Resting
  <2>2. /\ sms' = sms \/ sms' = [sms EXCEPT ![worker[w].task] = @ + 1]
        /\ faults' \in 0 .. MaxFaults
        /\ worker' = [worker EXCEPT ![w].pc = "ack"]
        /\ UNCHANGED <<queue, acked>>
    BY <1>4, FaultsBounded DEF SendTask
  <2>3. worker' \in [Workers -> {Resting} \cup [pc : {"send", "ack"}, task : Task]]
    BY <2>1, <2>2
  <2>4. sms' \in [Task -> Nat]
    <3>1. sms \in [Task -> Nat] /\ sms[worker[w].task] + 1 \in Nat
      BY <2>1
    <3> HIDE DEF TypeInv, TypeOK
    <3> QED  BY <2>1, <2>2, <3>1
  <2> QED  BY <1>1, <2>2, <2>3, <2>4 DEF publishing, dispatching
<1>5. CASE AckTask(w)
  <2>1. worker[w].task \in Task
    BY <1>2, <1>5 DEF AckTask, Resting
  <2> QED  BY <1>1, <1>5, <2>1 DEF AckTask, publishing, dispatching
<1>6. CASE WorkerCrash(w)
  <2>1. /\ worker' = [worker EXCEPT ![w] = Resting]
        /\ faults' \in 0 .. MaxFaults
        /\ queue' = IF worker[w] = Resting THEN queue ELSE BagAdd(queue, worker[w].task)
        /\ UNCHANGED <<sms, acked>>
    BY <1>6, FaultsBounded DEF WorkerCrash
  <2>2. DOMAIN queue' \subseteq Task /\ \A t \in DOMAIN queue' : queue'[t] \in Nat \ {0}
    BY <1>2, <2>1, AddKeepsBag
  <2> QED  BY <1>1, <2>1, <2>2 DEF publishing, dispatching
<1> QED  BY <1>3, <1>4, <1>5, <1>6 DEF Worker

\* TypeInv is an invariant.
LEMMA TypesHold == Spec => []TypeInv
<1>1. Init => TypeInv
  <2>1. Init => dropped \in BOOLEAN
    BY DEF Init
  <2> QED  BY <2>1, SizeAssumption DEF Init, TypeInv, TypeOK, LocksDisjoint, HasFetched,
                                       Pending, Resting, Recipients, Task
<1>2. TypeInv /\ [Next]_vars => TypeInv'
  <2> SUFFICES ASSUME TypeInv, [Next]_vars PROVE TypeInv'
    OBVIOUS
  <2>0. dropped' \in BOOLEAN
    BY DroppedStays DEF TypeInv, TypeOK
  <2>1. ASSUME NEW e \in Events, Emit(e) PROVE TypeInv'
    <3>1. /\ outbox' = [outbox EXCEPT ![e] = "pending"]
          /\ UNCHANGED <<locked, unsent, topic, dispatching, queue, working, faults>>
      BY <2>1 DEF Emit
    <3>2. Pending \subseteq Pending'
      BY <3>1 DEF Pending, TypeInv, TypeOK
    <3> QED  BY <2>0, <3>1, <3>2 DEF TypeInv, TypeOK, LocksDisjoint, HasFetched, dispatching, working
  <2>2. ASSUME NEW p \in Publishers, Publisher(p) \/ PublisherCrash(p) PROVE TypeInv'
    BY <2>0, <2>2, PublisherKeepsTypes
  <2>3. CASE Dispatcher \/ Disconnect \/ DispatcherCrash
    BY <2>0, <2>3, DispatcherKeepsTypes
  <2>4. ASSUME NEW w \in Workers, Worker(w) \/ WorkerCrash(w) PROVE TypeInv'
    BY <2>0, <2>4, WorkerKeepsTypes
  <2>5. CASE UNCHANGED vars
    BY <2>0, <2>5 DEF TypeInv, TypeOK, LocksDisjoint, HasFetched, Pending,
                vars, publishing, dispatching, working
  <2> QED  BY <2>1, <2>2, <2>3, <2>4, <2>5 DEF Next
<1> QED  BY <1>1, <1>2, PTL DEF Spec

\* In every reachable state of the delivery each stage has its type, and no row is
\* locked by two publishers, however they fail and restart.
THEOREM DeliveryTypeCorrect == Spec => [](TypeOK /\ LocksDisjoint)
<1>1. TypeInv => TypeOK /\ LocksDisjoint
  BY DEF TypeInv
<1> QED  BY <1>1, TypesHold, PTL

----------------------------------------------------------------------------
(* Publication.                                                            *)

\* A message appended to the topic occurs once more, and no other does.
LEMMA AppendCounts ==
    ASSUME topic \in Seq(Events), NEW e \in Events, topic' = Append(topic, e), NEW f \in Events
    PROVE  /\ Occurrences(f) \in Nat
           /\ Occurrences(f)' = IF f = e THEN Occurrences(f) + 1 ELSE Occurrences(f)
<1> DEFINE At == {i \in DOMAIN topic : topic[i] = f}
           n  == Len(topic) + 1
<1>1. IsFiniteSet(At) /\ Cardinality(At) \in Nat
  <2>1. Len(topic) \in Nat /\ DOMAIN topic = 1 .. Len(topic)
    OBVIOUS
  <2>2. IsFiniteSet(1 .. Len(topic))
    BY <2>1, FS_Interval
  <2>3. At \subseteq 1 .. Len(topic)
    BY <2>1
  <2> QED  BY <2>2, <2>3, FS_Subset, FS_CardinalityType
<1>2. {i \in DOMAIN topic : topic[i] = f}' = IF f = e THEN At \cup {n} ELSE At
  <2>1. DOMAIN topic' = 1 .. n /\ DOMAIN topic = 1 .. Len(topic) /\ Len(topic) \in Nat
    OBVIOUS
  <2>2. topic'[n] = e /\ \A i \in 1 .. Len(topic) : topic'[i] = topic[i]
    OBVIOUS
  <2> QED  BY <2>1, <2>2
<1>3. n \notin At
  OBVIOUS
<1>4. Cardinality(At \cup {n}) = Cardinality(At) + 1
  BY <1>1, <1>3, FS_AddElement
<1> QED  BY <1>1, <1>2, <1>4 DEF Occurrences

\* A number of occurrences is a natural number.
LEMMA CountsAreNatural ==
    ASSUME topic \in Seq(Events), NEW f \in Events
    PROVE  Occurrences(f) \in Nat
<1>1. Len(topic) \in Nat /\ DOMAIN topic = 1 .. Len(topic)
  OBVIOUS
<1>2. IsFiniteSet(1 .. Len(topic))
  BY <1>1, FS_Interval
<1>3. {i \in DOMAIN topic : topic[i] = f} \subseteq 1 .. Len(topic)
  BY <1>1
<1> QED  BY <1>2, <1>3, FS_Subset, FS_CardinalityType DEF Occurrences

\* A step that leaves the topic and the outbox alone, forgets what was sent or not,
\* and forgets it only for a fault, keeps the invariant.
LEMMA SameTopicKeepsInv ==
    ASSUME TypeInv, TypeInv', OutboxInv, UNCHANGED <<outbox, topic>>, Sent' \subseteq Sent,
           \/ Sent' = Sent /\ faults' >= faults
           \/ faults' = faults + 1
    PROVE  OutboxInv'
<1> USE SizeAssumption DEF TypeInv, TypeOK
<1>1. \A e \in Events : Occurrences(e)' = Occurrences(e) /\ Occurrences(e) \in Nat
  BY CountsAreNatural DEF Occurrences
<1>2. Sent \subseteq Events
  BY DEF Sent
<1>3. PublishedIsInTopic' /\ SentIsInTopic'
  BY <1>1, <1>2 DEF OutboxInv, PublishedIsInTopic, SentIsInTopic
<1>4. faults \in Nat /\ faults' \in Nat
  OBVIOUS
<1>5. RepeatsAreCounted'
  BY <1>1, <1>4 DEF OutboxInv, RepeatsAreCounted
<1> QED  BY <1>3, <1>5 DEF OutboxInv

\* A publisher that rolls back leaves the rows that the others have sent.
LEMMA RollbackForgets ==
    ASSUME TypeInv, NEW p \in Publishers, Rollback(p)
    PROVE  /\ Sent' \subseteq Sent
           /\ Sent' = Sent \ locked[p]
<1> USE DEF TypeInv, TypeOK
<1>1. \A q \in Publishers : (locked[q] \ unsent[q])' = IF q = p THEN {} ELSE locked[q] \ unsent[q]
  BY DEF Rollback
<1>2. \A q \in Publishers : q # p => (locked[q] \ unsent[q]) \cap locked[p] = {}
  BY DEF LocksDisjoint
<1> QED  BY <1>1, <1>2 DEF Sent

\* One message more: its row was not sent, so it had no more than the faults.
LEMMA PublishKeepsInv ==
    ASSUME TypeInv, TypeInv', OutboxInv, NEW p \in Publishers, PublishNext(p)
    PROVE  OutboxInv'
<1> USE SizeAssumption DEF TypeInv, TypeOK
<1> PICK e \in unsent[p], o \in Outcomes :
       /\ topic' = IF o = "failed" THEN topic ELSE Append(topic, e)
       /\ IF o = "ok" THEN unsent' = [unsent EXCEPT ![p] = @ \ {e}] /\ UNCHANGED locked
          ELSE Rollback(p)
       /\ Tally(o)
       /\ UNCHANGED outbox
  BY DEF PublishNext
<1>1. e \in Events /\ e \in locked[p] /\ outbox[e] = "pending"
  BY DEF Pending
<1>2. e \notin Sent
  <2> HIDE DEF TypeOK
  <2>1. \A q \in Publishers : e \notin locked[q] \ unsent[q]
    BY <1>1 DEF LocksDisjoint
  <2> QED  BY <2>1 DEF Sent
<1>3. faults' = (IF o = "ok" THEN faults ELSE faults + 1) /\ faults \in Nat /\ faults' \in Nat
  <2>1. faults \in 0 .. MaxFaults
    OBVIOUS
  <2> HIDE DEF TypeInv, TypeOK
  <2>2. faults' = IF o = "ok" THEN faults ELSE faults + 1
    BY <2>1, FaultsBounded
  <2> QED  BY <2>1, <2>2
<1>4. Sent \subseteq Events
  BY DEF Sent
<1>5. CASE o = "failed"
  <2>1. Sent' \subseteq Sent
    BY <1>5, RollbackForgets
  <2> QED  BY <1>3, <1>5, <2>1, SameTopicKeepsInv
<1>6. CASE o # "failed"
  <2>1. \A f \in Events :
           /\ Occurrences(f) \in Nat
           /\ Occurrences(f)' = IF f = e THEN Occurrences(f) + 1 ELSE Occurrences(f)
    BY <1>1, <1>6, AppendCounts
  <2>2. Sent' \subseteq Sent \cup {e} /\ (o = "ok" => Sent' = Sent \cup {e})
    <3>1. CASE o = "ok"
      <4>1. \A q \in Publishers : (locked[q] \ unsent[q])'
               = IF q = p THEN (locked[q] \ unsent[q]) \cup {e} ELSE locked[q] \ unsent[q]
        BY <1>1, <3>1
      <4> QED  BY <4>1 DEF Sent
    <3>2. CASE o # "ok"
      BY <3>2, RollbackForgets
    <3> QED  BY <3>1, <3>2
  <2>3. PublishedIsInTopic' /\ SentIsInTopic'
    <3>1. \A f \in Events : Occurrences(f) > 0 \/ f = e => Occurrences(f)' > 0
      BY <2>1
    <3> QED  BY <1>1, <1>4, <2>2, <3>1 DEF OutboxInv, PublishedIsInTopic, SentIsInTopic
  <2>4. Occurrences(e) <= faults
    BY <1>1, <1>2 DEF OutboxInv, RepeatsAreCounted
  <2>5. RepeatsAreCounted'
    <3> SUFFICES ASSUME NEW f \in Events
                 PROVE  /\ Occurrences(f)' <= 1 + faults'
                        /\ outbox[f] # "published" /\ f \notin Sent' => Occurrences(f)' <= faults'
      BY DEF RepeatsAreCounted
    <3>1. /\ Occurrences(f) <= 1 + faults
          /\ outbox[f] # "published" /\ f \notin Sent => Occurrences(f) <= faults
      BY DEF OutboxInv, RepeatsAreCounted
    <3>2. CASE f = e
      BY <1>3, <2>1, <2>2, <2>4, <3>2
    <3>3. CASE f # e
      BY <1>3, <2>1, <2>2, <3>1, <3>3
    <3> QED  BY <3>2, <3>3
  <2> QED  BY <2>3, <2>5 DEF OutboxInv
<1> QED  BY <1>5, <1>6

\* A commit marks only rows that were all sent.
LEMMA CommitKeepsInv ==
    ASSUME TypeInv, TypeInv', OutboxInv, NEW p \in Publishers, CommitBatch(p)
    PROVE  OutboxInv'
<1> USE SizeAssumption DEF TypeInv, TypeOK
<1>1. PICK o \in Outcomes :
         /\ outbox' = IF o = "failed" THEN outbox
                      ELSE [e \in Events |-> IF e \in locked[p] THEN "published" ELSE outbox[e]]
         /\ Tally(o)
  BY DEF CommitBatch
<1>2. /\ Rollback(p) /\ UNCHANGED topic
      /\ locked[p] \subseteq Sent
  BY DEF CommitBatch, Sent
<1>3. faults' = (IF o = "ok" THEN faults ELSE faults + 1) /\ faults \in Nat /\ faults' \in Nat
  BY <1>1, FaultsBounded
<1>4. Sent' = Sent \ locked[p]
  BY <1>2, RollbackForgets
<1>5. CASE o = "failed"
  BY <1>1, <1>2, <1>3, <1>4, <1>5, SameTopicKeepsInv
<1>6. CASE o # "failed"
  <2>1. \A e \in Events : Occurrences(e)' = Occurrences(e) /\ Occurrences(e) \in Nat
    BY <1>2, CountsAreNatural DEF Occurrences
  <2>2. Sent \subseteq Events
    BY DEF Sent
  <2>3. \A e \in Events :
           outbox'[e] = IF e \in locked[p] THEN "published" ELSE outbox[e]
    BY <1>1, <1>6
  <2>4. PublishedIsInTopic' /\ SentIsInTopic'
    BY <1>2, <1>4, <2>1, <2>2, <2>3 DEF OutboxInv, PublishedIsInTopic, SentIsInTopic
  <2>5. RepeatsAreCounted'
    BY <1>3, <1>4, <2>1, <2>3 DEF OutboxInv, RepeatsAreCounted
  <2> QED  BY <2>4, <2>5 DEF OutboxInv
<1> QED  BY <1>5, <1>6

\* Every step of the publishers keeps the invariant.
LEMMA PublisherKeepsInv ==
    ASSUME TypeInv, TypeInv', OutboxInv, NEW p \in Publishers, Publisher(p) \/ PublisherCrash(p)
    PROVE  OutboxInv'
<1>1. CASE SelectBatch(p)
  <2>1. locked[p] = {} /\ unsent[p] = {}
    BY <1>1 DEF SelectBatch, TypeInv, TypeOK
  <2>2. \A q \in Publishers : (locked[q] \ unsent[q])' = locked[q] \ unsent[q]
    BY <1>1, <2>1 DEF SelectBatch, TypeInv, TypeOK
  <2>3. Sent' = Sent
    BY <2>2 DEF Sent
  <2>4. faults' >= faults
    BY <1>1 DEF SelectBatch, TypeInv, TypeOK
  <2> QED  BY <1>1, <2>3, <2>4, SameTopicKeepsInv DEF SelectBatch
<1>2. CASE PublishNext(p)
  BY <1>2, PublishKeepsInv
<1>3. CASE CommitBatch(p)
  BY <1>3, CommitKeepsInv
<1>4. CASE PublisherCrash(p)
  BY <1>4, RollbackForgets, SameTopicKeepsInv DEF PublisherCrash, Fault
<1> QED  BY <1>1, <1>2, <1>3, <1>4 DEF Publisher

\* A new row has no message yet, and is not locked.
LEMMA EmitKeepsInv ==
    ASSUME TypeInv, OutboxInv, NEW e \in Events, Emit(e)
    PROVE  OutboxInv'
<1> USE DEF TypeInv, TypeOK
<1>1. /\ outbox' = [outbox EXCEPT ![e] = "pending"] /\ outbox[e] = "none"
      /\ UNCHANGED <<locked, unsent, topic, faults>>
  BY DEF Emit
<1>2. Sent' = Sent /\ \A f \in Events : Occurrences(f)' = Occurrences(f)
  BY <1>1 DEF Sent, Occurrences
<1>3. PublishedIsInTopic' /\ SentIsInTopic'
  <2>1. Sent \subseteq Events
    BY DEF Sent
  <2> QED  BY <1>1, <1>2, <2>1 DEF OutboxInv, PublishedIsInTopic, SentIsInTopic
<1>4. RepeatsAreCounted'
  BY <1>1, <1>2 DEF OutboxInv, RepeatsAreCounted
<1> QED  BY <1>3, <1>4 DEF OutboxInv

\* The dispatcher and the workers leave the topic and its publishers alone.
LEMMA ConsumersKeepInv ==
    ASSUME TypeInv, TypeInv', OutboxInv,
           \/ Dispatcher \/ Disconnect \/ DispatcherCrash
           \/ \E w \in Workers : Worker(w) \/ WorkerCrash(w)
    PROVE  OutboxInv'
<1>1. UNCHANGED <<publishing, topic>>
  BY DEF Dispatcher, Fetch, Targets, Notify, CommitOffset, Disconnect, DispatcherCrash,
         Worker, Take, SendTask, AckTask, WorkerCrash
<1>2. faults' >= faults
  <2> USE FaultsBounded DEF TypeInv, TypeOK
  <2>1. \/ \E o \in Outcomes : Tally(o) \/ TallyLoss(o, "failed") \/ TallyLoss(o, "lost")
        \/ Fault \/ UNCHANGED faults
    BY DEF Dispatcher, Fetch, Targets, Notify, CommitOffset, Disconnect, DispatcherCrash,
           Worker, Take, SendTask, AckTask, WorkerCrash
  <2> QED  BY <2>1
<1>3. Sent' = Sent
  BY <1>1 DEF Sent, publishing
<1> QED  BY <1>1, <1>2, <1>3, SameTopicKeepsInv DEF publishing

\* OutboxInv is an invariant.
LEMMA OutboxHolds == Spec => []OutboxInv
<1>1. Init => OutboxInv
  <2> SUFFICES ASSUME Init PROVE OutboxInv
    OBVIOUS
  <2>1. \A e \in Events : Occurrences(e) = 0
    <3> SUFFICES ASSUME NEW e \in Events PROVE Occurrences(e) = 0
      OBVIOUS
    <3>1. {i \in DOMAIN topic : topic[i] = e} = {}
      BY DEF Init
    <3> QED  BY <3>1, FS_EmptySet DEF Occurrences
  <2> QED  BY <2>1 DEF Init, OutboxInv, PublishedIsInTopic, SentIsInTopic, Sent, RepeatsAreCounted
<1>2. TypeInv /\ TypeInv' /\ OutboxInv /\ [Next]_vars => OutboxInv'
  <2> SUFFICES ASSUME TypeInv, TypeInv', OutboxInv, [Next]_vars PROVE OutboxInv'
    OBVIOUS
  <2>1. ASSUME NEW e \in Events, Emit(e) PROVE OutboxInv'
    BY <2>1, EmitKeepsInv
  <2>2. ASSUME NEW p \in Publishers, Publisher(p) \/ PublisherCrash(p) PROVE OutboxInv'
    BY <2>2, PublisherKeepsInv
  <2>3. CASE \/ Dispatcher \/ Disconnect \/ DispatcherCrash
             \/ \E w \in Workers : Worker(w) \/ WorkerCrash(w)
    BY <2>3, ConsumersKeepInv
  <2>4. CASE UNCHANGED vars
    <3>1. Sent' = Sent /\ faults' >= faults
      BY <2>4 DEF Sent, TypeInv, TypeOK, vars, publishing
    <3> QED  BY <2>4, <3>1, SameTopicKeepsInv DEF vars, publishing
  <2> QED  BY <2>1, <2>2, <2>3, <2>4 DEF Next
<1> QED  BY <1>1, <1>2, TypesHold, PTL DEF Spec

\* PublishPending is at least once: a row marked as published is in the topic.
THEOREM PublishedAtLeastOnce == Spec => []PublishedIsInTopic
<1>1. OutboxInv => PublishedIsInTopic
  BY DEF OutboxInv
<1> QED  BY <1>1, OutboxHolds, PTL

\* Each repetition of a message in the topic is due to a fault: no message is there
\* more often than once for its row and once for every failed call or crash.
THEOREM RepeatsAreFaults == Spec => []RepeatsNeedFaults
<1>1. OutboxInv => RepeatsNeedFaults
  BY DEF OutboxInv, RepeatsAreCounted, RepeatsNeedFaults
<1> QED  BY <1>1, OutboxHolds, PTL

----------------------------------------------------------------------------
(* Exactly once, until something fails.                                    *)

\* The recipients for whom the dispatcher has queued the message it works on.
NotifiedOf ==
    IF dispatch = "commit" THEN Recipients
    ELSE IF dispatch = "contractor" THEN {"customer"} ELSE {}

\* The tasks that the dispatcher has queued: those of each message before the
\* committed offset, and those of the message it works on.
Handled ==
    {t \in Task : \E i \in DOMAIN topic :
        /\ topic[i] = t.event
        /\ i <= offset \/ (i = position /\ t.to \in NotifiedOf)}

\* The offset is committed up to the message that the dispatcher works on.
OffsetFollows == position = IF dispatch = "fetch" THEN offset ELSE offset + 1

\* Exactly the tasks that the dispatcher has queued exist, each of them once.
CopiesAreHandled == \A t \in Task : Copies(t) = IF t \in Handled THEN 1 ELSE 0

OnceInv == faults = 0 => connected /\ OffsetFollows /\ CopiesAreHandled

\* The copies of a task that wait in a bag of tasks.
Waiting(q, t) == IF t \in DOMAIN q THEN q[t] ELSE 0

\* The workers that are about to send a task.
Sending(t) == {w \in Workers : worker[w].pc = "send" /\ worker[w].task = t}

\* A task that is queued waits once more, and no other does.
LEMMA AddCounts ==
    ASSUME NEW q, \A t \in DOMAIN q : q[t] \in Nat \ {0}, NEW x, NEW t
    PROVE  /\ Waiting(q, t) \in Nat
           /\ Waiting(BagAdd(q, x), t) = IF t = x THEN Waiting(q, t) + 1 ELSE Waiting(q, t)
BY DEF BagAdd, Waiting

\* A task that is taken waits once less, and no other does.
LEMMA RemoveCounts ==
    ASSUME NEW q, \A t \in DOMAIN q : q[t] \in Nat \ {0}, NEW x \in DOMAIN q, NEW t
    PROVE  /\ Waiting(q, x) > 0
           /\ Waiting(BagRemove(q, x), t) = IF t = x THEN Waiting(q, t) - 1 ELSE Waiting(q, t)
BY DEF BagRemove, Waiting

\* The copies of a task are those that wait, are being sent and were sent.
LEMMA CopiesAre ==
    ASSUME TypeOK, NEW t \in Task
    PROVE  /\ Copies(t) = Waiting(queue, t) + Cardinality(Sending(t)) + sms[t]
           /\ Waiting(queue, t) \in Nat /\ Cardinality(Sending(t)) \in Nat /\ sms[t] \in Nat
           /\ IsFiniteSet(Sending(t))
<1>1. IsFiniteSet(Sending(t)) /\ Cardinality(Sending(t)) \in Nat
  BY WorkersAssumption, FS_Subset, FS_CardinalityType DEF Sending
<1>2. Copies(t) = Waiting(queue, t) + Cardinality(Sending(t)) + sms[t]
  BY DEF Copies, Waiting, Sending
<1>3. Waiting(queue, t) \in Nat /\ sms[t] \in Nat
  BY DEF TypeOK, Waiting
<1> QED BY <1>1, <1>2, <1>3

\* The same after a step.
LEMMA CopiesAreAfter ==
    ASSUME TypeOK', NEW t \in Task
    PROVE  Copies(t)' = Waiting(queue', t) + Cardinality(Sending(t)') + sms'[t]
BY DEF Copies, Waiting, Sending

\* A worker that turns from one task to another sends the one no more and the other
\* instead.
LEMMA SendingStep ==
    ASSUME TypeOK, NEW t \in Task, NEW w \in Workers,
           \A u \in Workers : u # w => worker'[u] = worker[u]
    PROVE  Cardinality(Sending(t)') = Cardinality(Sending(t))
                                      - (IF w \in Sending(t) THEN 1 ELSE 0)
                                      + (IF w \in Sending(t)' THEN 1 ELSE 0)
<1> DEFINE S == Sending(t)
<1>1. IsFiniteSet(S) /\ Cardinality(S) \in Nat
  BY CopiesAre
<1>2. Sending(t)' = IF w \in Sending(t)' THEN (S \ {w}) \cup {w} ELSE S \ {w}
  BY DEF Sending
<1>3. /\ IsFiniteSet(S \ {w})
      /\ Cardinality(S \ {w}) = Cardinality(S) - IF w \in S THEN 1 ELSE 0
  BY <1>1, FS_RemoveElement
<1>4. Cardinality((S \ {w}) \cup {w}) = Cardinality(S \ {w}) + 1
  BY <1>3, FS_AddElement
<1>5. CASE w \in Sending(t)'
  BY <1>1, <1>2, <1>3, <1>4, <1>5
<1>6. CASE w \notin Sending(t)'
  BY <1>1, <1>2, <1>3, <1>6
<1> QED BY <1>5, <1>6

\* Unless the gateway refuses an SMS, a worker makes and loses no copy of a task.
LEMMA WorkerKeepsCopies ==
    ASSUME TypeOK, TypeOK', NEW w \in Workers, Worker(w), faults' = faults \/ ~dropped',
           NEW t \in Task
    PROVE  Copies(t)' = Copies(t)
<1>1. faults \in Nat
  BY SizeAssumption DEF TypeOK
<1>2. /\ Copies(t) = Waiting(queue, t) + Cardinality(Sending(t)) + sms[t]
      /\ Copies(t)' = Waiting(queue', t) + Cardinality(Sending(t)') + sms'[t]
      /\ Waiting(queue, t) \in Nat /\ Cardinality(Sending(t)) \in Nat /\ sms[t] \in Nat
  BY CopiesAre, CopiesAreAfter
<1>3. CASE Take(w)
  <2> PICK x \in DOMAIN queue :
         /\ worker[w] = Resting
         /\ queue' = BagRemove(queue, x)
         /\ worker' = [worker EXCEPT ![w] = [pc |-> "send", task |-> x]]
         /\ sms' = sms
    BY <1>3 DEF Take, working
  <2>1. w \notin Sending(t) /\ (w \in Sending(t)' <=> t = x)
    BY DEF Sending, Resting, TypeOK
  <2>2. \A u \in Workers : u # w => worker'[u] = worker[u]
    BY DEF TypeOK
  <2>3. Cardinality(Sending(t)') = Cardinality(Sending(t)) + IF t = x THEN 1 ELSE 0
    BY <1>2, <2>1, <2>2, SendingStep
  <2>4. /\ Waiting(queue', t) = IF t = x THEN Waiting(queue, t) - 1 ELSE Waiting(queue, t)
        /\ Waiting(queue, x) > 0
    BY RemoveCounts DEF TypeOK
  <2> QED BY <1>2, <2>3, <2>4
<1>4. CASE SendTask(w)
  <2> DEFINE x == worker[w].task
  <2>1. /\ sms' = [sms EXCEPT ![x] = @ + 1]
        /\ worker' = [worker EXCEPT ![w].pc = "ack"] /\ queue' = queue
        /\ worker[w].pc = "send"
    <3>1. PICK o \in Outcomes :
             /\ sms' = IF o = "failed" THEN sms ELSE [sms EXCEPT ![x] = @ + 1]
             /\ TallyLoss(o, "failed")
      BY <1>4 DEF SendTask
    <3>2. faults' = faults => o # "failed"
      BY <1>1, <3>1 DEF TallyLoss, Charge
    <3>3. ~dropped' => o # "failed"
      BY <3>1, Zenon DEF TallyLoss
    <3> QED BY <1>4, <3>1, <3>2, <3>3 DEF SendTask
  <2>2. worker[w] \in [pc : {"send", "ack"}, task : Task]
    BY <2>1 DEF TypeOK, Resting
  <2>3. \A u \in Workers : u # w => worker'[u] = worker[u]
    BY <2>1 DEF TypeOK
  <2>4. (w \in Sending(t) <=> t = x) /\ w \notin Sending(t)'
    BY <2>1, <2>2 DEF Sending, TypeOK
  <2>5. sms'[t] = sms[t] + IF t = x THEN 1 ELSE 0
    BY <2>1 DEF TypeOK
  <2> HIDE DEF x
  <2>6. Cardinality(Sending(t)') = Cardinality(Sending(t)) - IF t = x THEN 1 ELSE 0
    BY <1>2, <2>3, <2>4, SendingStep
  <2> QED BY <1>2, <2>1, <2>5, <2>6
<1>5. CASE AckTask(w)
  <2>1. /\ worker[w].pc = "ack" /\ worker' = [worker EXCEPT ![w] = Resting]
        /\ queue' = queue /\ sms' = sms
    BY <1>5 DEF AckTask
  <2>2. /\ w \notin Sending(t) /\ w \notin Sending(t)'
        /\ \A u \in Workers : u # w => worker'[u] = worker[u]
    BY <2>1 DEF Sending, Resting, TypeOK
  <2>3. Cardinality(Sending(t)') = Cardinality(Sending(t))
    BY <1>2, <2>1, <2>2, SendingStep
  <2> QED BY <1>2, <2>1, <2>3
<1> QED BY <1>3, <1>4, <1>5 DEF Worker

\* Until something fails, a message is in the topic once.
LEMMA MessagesDiffer ==
    ASSUME TypeOK, OutboxInv, faults = 0,
           NEW i \in DOMAIN topic, NEW j \in DOMAIN topic, topic[i] = topic[j]
    PROVE  i = j
<1> SUFFICES ASSUME i # j PROVE FALSE
  OBVIOUS
<1> DEFINE e  == topic[i]
           At == {k \in DOMAIN topic : topic[k] = e}
<1>1. e \in Events /\ DOMAIN topic = 1 .. Len(topic) /\ Len(topic) \in Nat
  BY DEF TypeOK
<1>2. Cardinality(At) <= 1
  BY <1>1 DEF OutboxInv, RepeatsAreCounted, Occurrences
<1>3. IsFiniteSet(At) /\ {i, j} \subseteq At
  <2>1. IsFiniteSet(DOMAIN topic) /\ At \subseteq DOMAIN topic
    BY <1>1, FS_Interval
  <2> QED BY <2>1, FS_Subset
<1>4. IsFiniteSet({i}) /\ Cardinality({i}) = 1
  BY FS_Singleton
<1>5. Cardinality({i} \cup {j}) = 2
  BY <1>4, FS_AddElement
<1>6. {i, j} = {i} \cup {j}
  OBVIOUS
<1>7. Cardinality({i, j}) <= Cardinality(At)
  BY <1>3, FS_Subset
<1>8. Cardinality(At) \in Nat
  BY <1>3, FS_CardinalityType
<1> QED BY <1>2, <1>5, <1>6, <1>7, <1>8

\* A step that changes neither the copies nor what the dispatcher has queued.
LEMMA SameCopiesKeepOnce ==
    ASSUME faults = 0, OnceInv, connected', OffsetFollows', Handled' = Handled,
           \A t \in Task : Copies(t)' = Copies(t)
    PROVE  OnceInv'
BY DEF OnceInv, CopiesAreHandled

\* The copies depend on the queue, the workers and the gateway alone.
LEMMA CopiesUnchanged ==
    ASSUME UNCHANGED <<queue, worker, sms>>
    PROVE  \A t \in Task : Copies(t)' = Copies(t)
BY DEF Copies

\* A message appended to the topic is not one that the dispatcher has fetched.
LEMMA PublisherKeepsOnce ==
    ASSUME TypeInv, OnceInv, faults = 0, NEW p \in Publishers, Publisher(p)
    PROVE  OnceInv'
<1>1. UNCHANGED <<dispatching, queue, working>>
  BY DEF Publisher, SelectBatch, PublishNext, CommitBatch
<1>2. /\ \A t \in Task : Copies(t)' = Copies(t)
      /\ connected' /\ OffsetFollows'
  BY <1>1, CopiesUnchanged DEF OnceInv, OffsetFollows, dispatching, working
<1>3. topic' = topic \/ \E e \in Events : topic' = Append(topic, e)
  BY DEF Publisher, SelectBatch, PublishNext, CommitBatch, TypeInv, TypeOK, Pending
<1>4. /\ topic \in Seq(Events) /\ Len(topic) \in Nat /\ DOMAIN topic = 1 .. Len(topic)
      /\ offset <= Len(topic) /\ position <= Len(topic) /\ offset \in Nat /\ position \in Nat
  BY DEF TypeInv, TypeOK
<1>5. Handled' = Handled
  <2>1. NotifiedOf' = NotifiedOf /\ offset' = offset /\ position' = position
    BY <1>1 DEF NotifiedOf, dispatching
  <2>2. \A i \in Nat :
           i <= Len(topic) => /\ i \in DOMAIN topic' <=> i \in DOMAIN topic
                              /\ i \in DOMAIN topic => topic'[i] = topic[i]
    BY <1>3, <1>4
  <2>3. DOMAIN topic' \subseteq Nat
    BY <1>3, <1>4
  <2>4. \A t \in Task, i \in Nat :
           (/\ i \in DOMAIN topic' /\ topic'[i] = t.event
            /\ i <= offset \/ (i = position /\ t.to \in NotifiedOf))
           <=> (/\ i \in DOMAIN topic /\ topic[i] = t.event
                /\ i <= offset \/ (i = position /\ t.to \in NotifiedOf))
    BY <1>4, <2>2
  <2> QED BY <1>4, <2>1, <2>3, <2>4 DEF Handled
<1> QED BY <1>2, <1>5, SameCopiesKeepOnce

\* The dispatcher queues each task of its message once, and no other.
LEMMA NotifyKeepsOnce ==
    ASSUME TypeInv, TypeInv', OutboxInv, OnceInv, faults = 0, faults' = 0,
           NEW to \in Recipients, Notify(to)
    PROVE  OnceInv'
<1> DEFINE x == TaskOf(topic[position], to)
<1>1. /\ dispatch = to /\ queue' = BagAdd(queue, x)
      /\ dispatch' = IF to = "customer" THEN "contractor" ELSE "commit"
      /\ UNCHANGED <<topic, offset, position, connected, worker, sms>>
  BY DEF Notify, OnceInv, Outcomes, TallyLoss, Charge, working
<1>2. /\ topic \in Seq(Events) /\ position \in DOMAIN topic /\ topic[position] \in Events
      /\ DOMAIN topic \subseteq Nat
      /\ offset \in Nat /\ position \in Nat /\ position = offset + 1
  BY <1>1 DEF TypeInv, TypeOK, HasFetched, OnceInv, OffsetFollows, Recipients
<1>3. x \in Task /\ x.event = topic[position] /\ x.to = to
  BY <1>2 DEF TaskOf, Task
<1>4. NotifiedOf' = NotifiedOf \cup {to} /\ to \notin NotifiedOf
  BY <1>1 DEF NotifiedOf, Recipients
<1>5. x \notin Handled
  <2> SUFFICES ASSUME NEW i \in DOMAIN topic, topic[i] = topic[position],
                      i <= offset \/ (i = position /\ to \in NotifiedOf)
               PROVE  FALSE
    BY <1>3 DEF Handled
  <2>1. i = position
    BY <1>2, MessagesDiffer DEF TypeInv
  <2> QED BY <1>2, <1>4, <2>1
<1>6. Handled' = Handled \cup {x}
  <2>1. \A t \in Task : topic[position] = t.event /\ t.to = to <=> t = x
    BY <1>3 DEF Task, TaskOf
  <2> HIDE DEF x
  <2> QED BY <1>1, <1>2, <1>3, <1>4, <2>1 DEF Handled
<1>7. \A t \in Task : Copies(t)' = Copies(t) + IF t = x THEN 1 ELSE 0
  <2> SUFFICES ASSUME NEW t \in Task PROVE Copies(t)' = Copies(t) + IF t = x THEN 1 ELSE 0
    OBVIOUS
  <2>0. \A u \in DOMAIN queue : queue[u] \in Nat \ {0}
    BY DEF TypeInv, TypeOK
  <2>1. Waiting(queue', t) = Waiting(queue, t) + IF t = x THEN 1 ELSE 0
    <3> HIDE DEF x
    <3> QED BY <1>1, <2>0, AddCounts
  <2>2. Sending(t)' = Sending(t) /\ sms' = sms
    BY <1>1 DEF Sending
  <2> HIDE DEF x
  <2> QED BY <2>1, <2>2, CopiesAre, CopiesAreAfter DEF TypeInv
<1>8. CopiesAreHandled'
  <2> HIDE DEF x
  <2> QED BY <1>3, <1>5, <1>6, <1>7 DEF OnceInv, CopiesAreHandled
<1>9. connected' /\ OffsetFollows'
  BY <1>1, <1>2 DEF OnceInv, OffsetFollows
<1> QED BY <1>8, <1>9 DEF OnceInv

\* The dispatcher goes on to its next message, or commits its offset, and what it
\* has queued stays the same.
LEMMA DispatcherKeepsOnce ==
    ASSUME TypeInv, TypeInv', OutboxInv, OnceInv, faults = 0, faults' = 0, Dispatcher
    PROVE  OnceInv'
<1>1. /\ offset \in Nat /\ position \in Nat /\ DOMAIN topic \subseteq Nat
      /\ dispatch \in {"fetch", "targets", "commit"} \cup Recipients
  BY DEF TypeInv, TypeOK
<1>2. CASE Fetch
  <2>1. /\ dispatch = "fetch" /\ dispatch' = "targets" /\ position' = position + 1
        /\ UNCHANGED <<topic, offset, connected, queue, worker, sms>>
    BY <1>2 DEF Fetch, working
  <2>2. NotifiedOf = {} /\ NotifiedOf' = {}
    BY <2>1 DEF NotifiedOf
  <2>3. Handled' = Handled
    BY <2>1, <2>2 DEF Handled
  <2>4. connected' /\ OffsetFollows'
    BY <1>1, <2>1 DEF OnceInv, OffsetFollows
  <2> QED BY <2>1, <2>3, <2>4, CopiesUnchanged, SameCopiesKeepOnce
<1>3. CASE Targets
  <2>1. /\ dispatch = "targets" /\ dispatch' = "customer"
        /\ UNCHANGED <<topic, offset, position, connected, queue, worker, sms>>
    BY <1>3 DEF Targets, Outcomes, TallyLoss, Charge, working
  <2>2. NotifiedOf = {} /\ NotifiedOf' = {}
    BY <2>1 DEF NotifiedOf
  <2>3. Handled' = Handled
    BY <2>1, <2>2 DEF Handled
  <2>4. connected' /\ OffsetFollows'
    BY <2>1 DEF OnceInv, OffsetFollows
  <2> QED BY <2>1, <2>3, <2>4, CopiesUnchanged, SameCopiesKeepOnce
<1>4. CASE \E to \in Recipients : Notify(to)
  BY <1>4, NotifyKeepsOnce
<1>5. CASE CommitOffset
  <2>1. /\ dispatch = "commit" /\ dispatch' = "fetch" /\ offset' = position
        /\ UNCHANGED <<topic, position, connected, queue, worker, sms>>
    BY <1>5 DEF CommitOffset, Outcomes, Tally, Charge, working
  <2>2. NotifiedOf = Recipients /\ NotifiedOf' = {} /\ position = offset + 1
    BY <2>1 DEF NotifiedOf, OnceInv, OffsetFollows
  <2>3. \A i \in Nat : i <= position <=> i <= offset \/ i = position
    BY <1>1, <2>2
  <2>4. \A t \in Task : t.to \in Recipients
    BY DEF Task
  <2>5. Handled' = Handled
    BY <1>1, <2>1, <2>2, <2>3, <2>4 DEF Handled
  <2>6. connected' /\ OffsetFollows'
    BY <2>1 DEF OnceInv, OffsetFollows
  <2> QED BY <2>1, <2>5, <2>6, CopiesUnchanged, SameCopiesKeepOnce
<1> QED BY <1>2, <1>3, <1>4, <1>5 DEF Dispatcher

\* A step after which nothing has failed is one of the programs at work.
LEMMA FaultlessStep ==
    ASSUME TypeInv, TypeInv', [Next]_vars, faults' = 0
    PROVE  /\ faults = 0
           /\ \/ \E e \in Events : Emit(e)
              \/ \E p \in Publishers : Publisher(p)
              \/ Dispatcher
              \/ \E w \in Workers : Worker(w)
              \/ UNCHANGED vars
<1>1. faults \in Nat /\ ~Fault
  BY SizeAssumption DEF TypeInv, TypeOK, Fault
<1>2. /\ \A p \in Publishers : ~PublisherCrash(p)
      /\ ~Disconnect /\ ~DispatcherCrash
      /\ \A w \in Workers : ~WorkerCrash(w)
  BY <1>1 DEF PublisherCrash, Disconnect, DispatcherCrash, WorkerCrash
<1>3. \/ \E e \in Events : Emit(e)
      \/ \E p \in Publishers : Publisher(p)
      \/ Dispatcher
      \/ \E w \in Workers : Worker(w)
      \/ UNCHANGED vars
  BY <1>2 DEF Next
<1>4. \/ faults' = faults
      \/ \E o \in Outcomes : Tally(o) \/ TallyLoss(o, "failed") \/ TallyLoss(o, "lost")
  BY <1>3 DEF Emit, Publisher, SelectBatch, PublishNext, CommitBatch, Dispatcher, Fetch, Targets,
              Notify, CommitOffset, Worker, Take, SendTask, AckTask, vars
<1>5. faults = 0
  BY <1>1, <1>4 DEF Tally, TallyLoss, Charge
<1> QED BY <1>3, <1>5

\* Until something fails, each task exists at most once, in the queue, at a worker or
\* as an SMS, and those of a message whose offset is committed exist for both
\* participants: the pipeline itself neither loses nor repeats a notification.
THEOREM NotifiedExactlyOnce == Spec => []ExactlyOnceUntilFault
<1>1. Init => OnceInv
  <2> SUFFICES ASSUME Init PROVE OnceInv
    OBVIOUS
  <2>1. connected /\ OffsetFollows /\ Handled = {}
    BY DEF Init, OffsetFollows, Handled
  <2>2. \A t \in Task : Copies(t) = 0
    <3> SUFFICES ASSUME NEW t \in Task PROVE Copies(t) = 0
      OBVIOUS
    <3>1. {w \in Workers : worker[w].pc = "send" /\ worker[w].task = t} = {}
      BY DEF Init, Resting
    <3>2. sms[t] = 0 /\ t \notin DOMAIN queue
      BY DEF Init
    <3> QED BY <3>1, <3>2, FS_EmptySet DEF Copies
  <2> QED BY <2>1, <2>2 DEF OnceInv, CopiesAreHandled
<1>2. TypeInv /\ TypeInv' /\ OutboxInv /\ OnceInv /\ [Next]_vars => OnceInv'
  <2> SUFFICES ASSUME TypeInv, TypeInv', OutboxInv, OnceInv, [Next]_vars, faults' = 0
               PROVE  OnceInv'
    BY DEF OnceInv
  <2>1. faults = 0
    BY FaultlessStep
  <2>2. ASSUME NEW e \in Events, Emit(e) PROVE OnceInv'
    <3>1. UNCHANGED <<topic, dispatching, queue, working>>
      BY <2>2 DEF Emit
    <3>2. connected' /\ OffsetFollows' /\ Handled' = Handled
      BY <2>1, <3>1 DEF OnceInv, OffsetFollows, Handled, NotifiedOf, dispatching
    <3> QED BY <2>1, <3>1, <3>2, CopiesUnchanged, SameCopiesKeepOnce DEF working
  <2>3. ASSUME NEW p \in Publishers, Publisher(p) PROVE OnceInv'
    BY <2>1, <2>3, PublisherKeepsOnce
  <2>4. CASE Dispatcher
    BY <2>1, <2>4, DispatcherKeepsOnce
  <2>5. ASSUME NEW w \in Workers, Worker(w) PROVE OnceInv'
    <3>1. UNCHANGED <<topic, dispatching>>
      BY <2>5 DEF Worker, Take, SendTask, AckTask
    <3>2. connected' /\ OffsetFollows' /\ Handled' = Handled
      BY <2>1, <3>1 DEF OnceInv, OffsetFollows, Handled, NotifiedOf, dispatching
    <3> QED BY <2>1, <2>5, <3>2, WorkerKeepsCopies, SameCopiesKeepOnce DEF TypeInv
  <2>6. CASE UNCHANGED vars
    <3>1. connected' /\ OffsetFollows' /\ Handled' = Handled
      BY <2>1, <2>6 DEF OnceInv, OffsetFollows, Handled, NotifiedOf, vars, dispatching
    <3> QED BY <2>1, <2>6, <3>1, CopiesUnchanged, SameCopiesKeepOnce DEF vars, working
  <2> QED BY <2>2, <2>3, <2>4, <2>5, <2>6, FaultlessStep
<1>3. TypeInv /\ OnceInv => ExactlyOnceUntilFault
  <2> SUFFICES ASSUME TypeInv, OnceInv, faults = 0
               PROVE  /\ \A t \in Task : Copies(t) <= 1
                      /\ \A i \in 1 .. offset, to \in Recipients :
                            Copies(TaskOf(topic[i], to)) = 1
    BY DEF ExactlyOnceUntilFault
  <2>1. \A t \in Task : Copies(t) = IF t \in Handled THEN 1 ELSE 0
    BY DEF OnceInv, CopiesAreHandled
  <2>2. ASSUME NEW i \in 1 .. offset, NEW to \in Recipients
        PROVE  TaskOf(topic[i], to) \in Handled
    <3>1. i \in DOMAIN topic /\ topic[i] \in Events /\ i <= offset
      BY DEF TypeInv, TypeOK
    <3> QED BY <3>1 DEF Handled, TaskOf, Task
  <2>3. Handled \subseteq Task
    BY DEF Handled
  <2> QED BY <2>1, <2>2, <2>3
<1> QED BY <1>1, <1>2, <1>3, TypesHold, OutboxHolds, PTL DEF Spec
----------------------------------------------------------------------------
(* No message is passed over unless it was dropped.                        *)

\* Both tasks of a message exist.
Notified(i) == \A to \in Recipients : Copies(TaskOf(topic[i], to)) > 0

\* How far the dispatcher has queued the tasks of what it fetched.
Reached == IF dispatch \in {"fetch", "commit"} THEN position ELSE position - 1

\* The messages that the dispatcher went past exist for both participants, as long as
\* its connection was open for all of them, as it was when it reached a commit.
NotifiedInv ==
    ~dropped =>
       /\ \A i \in 1 .. offset : Notified(i)
       /\ connected \/ dispatch = "commit" => \A i \in 1 .. Reached : Notified(i)
       /\ dispatch = "contractor" => Copies(TaskOf(topic[position], "customer")) > 0

\* The task of a worker that dies is queued again.
LEMMA WorkerCrashKeepsCopies ==
    ASSUME TypeOK, TypeOK', NEW w \in Workers, WorkerCrash(w), NEW t \in Task
    PROVE  Copies(t)' \in Int /\ Copies(t)' >= Copies(t)
<1> DEFINE x == worker[w].task
<1>1. /\ queue' = IF worker[w] = Resting THEN queue ELSE BagAdd(queue, x)
      /\ worker' = [worker EXCEPT ![w] = Resting] /\ sms' = sms
  BY DEF WorkerCrash
<1>2. /\ Copies(t) = Waiting(queue, t) + Cardinality(Sending(t)) + sms[t]
      /\ Copies(t)' = Waiting(queue', t) + Cardinality(Sending(t)') + sms'[t]
      /\ Waiting(queue, t) \in Nat /\ Cardinality(Sending(t)) \in Nat /\ sms[t] \in Nat
  BY CopiesAre, CopiesAreAfter
<1>3. /\ w \notin Sending(t)' /\ (w \in Sending(t) => t = x /\ worker[w] # Resting)
      /\ \A u \in Workers : u # w => worker'[u] = worker[u]
  BY <1>1 DEF Sending, Resting, TypeOK
<1>4. Cardinality(Sending(t)') = Cardinality(Sending(t)) - IF w \in Sending(t) THEN 1 ELSE 0
  BY <1>2, <1>3, SendingStep
<1>5. Waiting(queue', t) = Waiting(queue, t) + IF worker[w] # Resting /\ t = x THEN 1 ELSE 0
  <2>1. \A u \in DOMAIN queue : queue[u] \in Nat \ {0}
    BY DEF TypeOK
  <2> HIDE DEF x
  <2> QED BY <1>1, <1>2, <2>1, AddCounts
<1> HIDE DEF x
<1> QED BY <1>1, <1>2, <1>3, <1>4, <1>5

\* Unless it is dropped, no task ever ceases to exist.
LEMMA CopiesStay ==
    ASSUME TypeOK, TypeOK', [Next]_vars, ~dropped', NEW t \in Task
    PROVE  Copies(t)' \in Int /\ Copies(t)' >= Copies(t)
<1>1. Copies(t) \in Nat /\ Waiting(queue, t) \in Nat
  BY CopiesAre
<1>2. CASE UNCHANGED <<queue, worker, sms>>
  BY <1>1, <1>2, CopiesUnchanged
<1>3. ASSUME NEW x, queue' = BagAdd(queue, x), UNCHANGED <<worker, sms>>
      PROVE  Copies(t)' \in Int /\ Copies(t)' >= Copies(t)
  <2>1. Sending(t)' = Sending(t) /\ sms' = sms
    BY <1>3 DEF Sending
  <2>2. \A u \in DOMAIN queue : queue[u] \in Nat \ {0}
    BY DEF TypeOK
  <2>3. Waiting(queue', t) = IF t = x THEN Waiting(queue, t) + 1 ELSE Waiting(queue, t)
    BY <1>3, <2>2, AddCounts
  <2> QED BY <2>1, <2>3, CopiesAre, CopiesAreAfter
<1>4. CASE \E to \in Recipients : Notify(to)
  BY <1>2, <1>3, <1>4 DEF Notify, working
<1>5. CASE \E w \in Workers : Worker(w)
  BY <1>1, <1>5, WorkerKeepsCopies
<1>6. CASE \E w \in Workers : WorkerCrash(w)
  BY <1>6, WorkerCrashKeepsCopies
<1>7. \/ UNCHANGED <<queue, worker, sms>>
      \/ \E to \in Recipients : Notify(to)
      \/ \E w \in Workers : Worker(w) \/ WorkerCrash(w)
  BY DEF Next, Emit, Publisher, SelectBatch, PublishNext, CommitBatch, PublisherCrash,
         Dispatcher, Fetch, Targets, CommitOffset, Disconnect, DispatcherCrash, vars, working
<1> QED BY <1>2, <1>4, <1>5, <1>6, <1>7

\* A message that is in the topic stays at its offset.
LEMMA TopicGrows ==
    ASSUME TypeInv, [Next]_vars
    PROVE  /\ Len(topic) \in Nat /\ DOMAIN topic = 1 .. Len(topic)
           /\ Len(topic') \in Nat /\ DOMAIN topic' = 1 .. Len(topic') /\ Len(topic') >= Len(topic)
           /\ \A i \in 1 .. Len(topic) : topic'[i] = topic[i] /\ topic[i] \in Events
<1>1. topic' = topic \/ \E e \in Events : topic' = Append(topic, e)
  BY DEF Next, Emit, Publisher, SelectBatch, PublishNext, CommitBatch, PublisherCrash,
         Dispatcher, Fetch, Targets, Notify, CommitOffset, Disconnect, DispatcherCrash,
         Worker, Take, SendTask, AckTask, WorkerCrash, vars, TypeInv, TypeOK, Pending
<1>2. topic \in Seq(Events)
  BY DEF TypeInv, TypeOK
<1> QED BY <1>1, <1>2

\* A message that both participants are notified of stays so, unless it is dropped.
LEMMA NotifiedStays ==
    ASSUME TypeInv, TypeInv', [Next]_vars, ~dropped', NEW i \in 1 .. Len(topic)
    PROVE  /\ Notified(i) => Notified(i)'
           /\ \A to \in Recipients :
                 Copies(TaskOf(topic[i], to)) > 0 => Copies(TaskOf(topic[i], to))' > 0
<1>1. topic'[i] = topic[i] /\ topic[i] \in Events
  BY TopicGrows
<1>2. ASSUME NEW to \in Recipients, Copies(TaskOf(topic[i], to)) > 0
      PROVE  Copies(TaskOf(topic[i], to))' > 0
  <2> PICK e \in Events : topic[i] = e
    BY <1>1
  <2>1. TaskOf(e, to) \in Task
    BY DEF TaskOf, Task
  <2>2. /\ Copies(TaskOf(e, to))' \in Int /\ Copies(TaskOf(e, to)) \in Nat
        /\ Copies(TaskOf(e, to))' >= Copies(TaskOf(e, to))
    BY <2>1, CopiesStay, CopiesAre DEF TypeInv
  <2>3. Copies(TaskOf(topic[i], to))' = Copies(TaskOf(e, to))'
    BY <1>1 DEF Copies, TaskOf
  <2>4. Copies(TaskOf(topic[i], to)) = Copies(TaskOf(e, to))
    OBVIOUS
  <2> QED BY <1>2, <2>2, <2>3, <2>4
<1> QED BY <1>1, <1>2 DEF Notified

\* A task that the dispatcher queues exists.
LEMMA QueuedExists ==
    ASSUME TypeInv, TypeInv', NEW i \in 1 .. Len(topic), NEW to \in Recipients,
           queue' = BagAdd(queue, TaskOf(topic[i], to)), UNCHANGED <<topic, worker, sms>>
    PROVE  Copies(TaskOf(topic[i], to))' > 0
<1> PICK e \in Events : topic[i] = e
  BY DEF TypeInv, TypeOK
<1> DEFINE t == TaskOf(e, to)
<1>1. t \in Task
  BY DEF TaskOf, Task
<1>2. \A u \in DOMAIN queue : queue[u] \in Nat \ {0}
  BY DEF TypeInv, TypeOK
<1>3. Copies(TaskOf(topic[i], to))' = Copies(t)'
  BY DEF Copies, TaskOf
<1> HIDE DEF t
<1>4. Sending(t)' = Sending(t) /\ sms' = sms
  BY DEF Sending
<1>5. queue' = BagAdd(queue, t)
  BY DEF t
<1>6. Waiting(queue', t) = Waiting(queue, t) + 1 /\ Waiting(queue, t) \in Nat
  BY <1>2, <1>5, AddCounts
<1>7. /\ Copies(t)' = Waiting(queue', t) + Cardinality(Sending(t)') + sms'[t]
      /\ Cardinality(Sending(t)) \in Nat /\ sms[t] \in Nat
  BY <1>1, CopiesAre, CopiesAreAfter DEF TypeInv
<1> QED BY <1>3, <1>4, <1>6, <1>7

\* The recipients of the message that the dispatcher works on are notified in turn.
LEMMA NotifyKeepsNotified ==
    ASSUME TypeInv, TypeInv', NotifiedInv, [Next]_vars, ~dropped', NEW to \in Recipients, Notify(to)
    PROVE  NotifiedInv'
<1>1. ~dropped /\ dispatch = to /\ UNCHANGED <<topic, offset, position, connected, worker, sms>>
  <2>1. ~dropped
    BY DroppedStays DEF TypeInv, TypeOK
  <2> QED BY <2>1 DEF Notify, working
<1>2. /\ Len(topic) \in Nat /\ offset \in 0 .. Len(topic)
      /\ position \in 1 .. Len(topic) /\ position' = position
  BY <1>1 DEF TypeInv, TypeOK, HasFetched, Recipients
<1>3. \A i \in 1 .. Len(topic) : Notified(i) => Notified(i)'
  BY NotifiedStays
<1>4. \A i \in 1 .. offset' : Notified(i)'
  BY <1>1, <1>2, <1>3 DEF NotifiedInv
<1>5. CASE ~connected
  <2>1. dispatch' = "fetch" /\ ~connected'
    BY <1>1, <1>5 DEF Notify
  <2> QED BY <1>4, <2>1 DEF NotifiedInv
<1>6. CASE connected
  <2>1. PICK o \in Outcomes \ {"failed"} :
           /\ queue' = IF o = "ok" THEN BagAdd(queue, TaskOf(topic[position], to)) ELSE queue
           /\ dispatch' = IF to = "customer" THEN "contractor" ELSE "commit"
           /\ TallyLoss(o, "lost")
    BY <1>6 DEF Notify
  <2>2. o # "lost"
    BY <2>1, Zenon DEF TallyLoss
  <2>3. queue' = BagAdd(queue, TaskOf(topic[position], to))
    BY <2>1, <2>2 DEF Outcomes
  <2>4. Copies(TaskOf(topic[position], to))' > 0
    BY <1>1, <1>2, <2>3, QueuedExists
  <2>5. Reached = position - 1 /\ \A i \in 1 .. position - 1 : Notified(i)'
    BY <1>1, <1>2, <1>3, <1>6 DEF NotifiedInv, Reached, Recipients
  <2>6. CASE to = "customer"
    <3>1. dispatch' = "contractor" /\ Reached' = position - 1
      BY <1>2, <2>1, <2>6 DEF Reached
    <3> QED BY <1>4, <2>4, <2>5, <2>6, <3>1 DEF NotifiedInv
  <2>7. CASE to = "contractor"
    <3>1. dispatch' = "commit" /\ Reached' = position
      BY <1>2, <2>1, <2>7 DEF Reached
    <3>2. Copies(TaskOf(topic[position], "customer"))' > 0
      <4>1. Copies(TaskOf(topic[position], "customer")) > 0
        BY <1>1, <2>7 DEF NotifiedInv
      <4>2. "customer" \in Recipients
        BY DEF Recipients
      <4> QED BY <1>2, <4>1, <4>2, NotifiedStays
    <3>3. Notified(position)'
      BY <1>2, <2>4, <2>7, <3>2 DEF Notified, Recipients
    <3>4. \A i \in 1 .. position : Notified(i)'
      BY <1>2, <2>5, <3>3
    <3> QED BY <1>4, <3>1, <3>4 DEF NotifiedInv
  <2> QED BY <2>6, <2>7 DEF Recipients
<1> QED BY <1>5, <1>6

\* The offset is committed past a message only when both its tasks are queued, at a
\* worker or sent, whatever fails, restarts or disconnects.  Only an error of
\* NotificationTargets, the broker or the gateway drops one.
THEOREM CommittedAreNotified == Spec => []CommittedIsNotified
<1>1. Init => NotifiedInv
  BY DEF Init, NotifiedInv, Reached
<1>2. TypeInv /\ TypeInv' /\ NotifiedInv /\ [Next]_vars => NotifiedInv'
  <2> SUFFICES ASSUME TypeInv, TypeInv', NotifiedInv, [Next]_vars, ~dropped'
               PROVE  NotifiedInv'
    BY DEF NotifiedInv
  <2>1. ~dropped
    BY DroppedStays DEF TypeInv, TypeOK
  <2>2. /\ Len(topic) \in Nat /\ offset \in 0 .. Len(topic) /\ position \in 0 .. Len(topic)
        /\ dispatch # "fetch" => position > 0
    BY DEF TypeInv, TypeOK, HasFetched
  <2>3. \A i \in 1 .. Len(topic) : Notified(i) => Notified(i)'
    BY NotifiedStays
  <2>4. /\ \A i \in 1 .. offset : Notified(i)'
        /\ connected \/ dispatch = "commit" => \A i \in 1 .. Reached : Notified(i)'
    BY <2>1, <2>2, <2>3 DEF NotifiedInv, Reached
  <2>5. CASE UNCHANGED dispatching
    <3>1. /\ offset' = offset /\ position' = position /\ dispatch' = dispatch
          /\ connected' = connected /\ Reached' = Reached
      BY <2>5 DEF dispatching, Reached
    <3>2. dispatch = "contractor" => Copies(TaskOf(topic[position], "customer"))' > 0
      <4>1. "customer" \in Recipients
        BY DEF Recipients
      <4> QED BY <2>1, <2>2, <3>1, <4>1, NotifiedStays DEF NotifiedInv
    <3> QED BY <2>4, <3>1, <3>2 DEF NotifiedInv
  <2>6. CASE Fetch
    <3>1. /\ dispatch = "fetch" /\ dispatch' = "targets" /\ position' = position + 1
          /\ offset' = offset /\ connected' = connected
      BY <2>6 DEF Fetch
    <3>2. Reached' = position /\ Reached = position
      BY <2>2, <3>1 DEF Reached
    <3> QED BY <2>4, <3>1, <3>2 DEF NotifiedInv
  <2>7. CASE Targets
    <3>1. PICK o \in Outcomes \ {"lost"} :
             /\ dispatch' = IF o = "ok" THEN "customer" ELSE "fetch"
             /\ TallyLoss(o, "failed")
      BY <2>7 DEF Targets
    <3>2. o # "failed"
      BY <3>1, Zenon DEF TallyLoss
    <3>3. /\ dispatch = "targets" /\ dispatch' = "customer"
          /\ offset' = offset /\ position' = position /\ connected' = connected
      BY <2>7, <3>1, <3>2 DEF Targets, Outcomes
    <3>4. Reached' = Reached
      BY <3>3 DEF Reached
    <3> QED BY <2>4, <3>3, <3>4 DEF NotifiedInv
  <2>8. CASE \E to \in Recipients : Notify(to)
    BY <2>8, NotifyKeepsNotified
  <2>9. CASE CommitOffset
    <3>1. /\ dispatch = "commit" /\ dispatch' = "fetch" /\ offset' \in {offset, position}
          /\ position' = position /\ connected' = connected
      BY <2>9 DEF CommitOffset
    <3>2. Reached = position /\ Reached' = position
      BY <3>1 DEF Reached
    <3> QED BY <2>4, <3>1, <3>2 DEF NotifiedInv
  <2>10. CASE Disconnect
    <3>1. /\ ~connected' /\ offset' = offset /\ position' = position /\ dispatch' = dispatch
          /\ UNCHANGED <<topic, queue, worker, sms>>
      BY <2>10 DEF Disconnect, working
    <3>2. Reached' = Reached
      BY <3>1 DEF Reached
    <3>3. Copies(TaskOf(topic[position], "customer"))'
             = Copies(TaskOf(topic[position], "customer"))
      BY <3>1 DEF Copies, TaskOf
    <3> QED BY <2>1, <2>4, <3>1, <3>2, <3>3 DEF NotifiedInv
  <2>11. CASE DispatcherCrash
    <3>1. dispatch' = "fetch" /\ offset' = offset /\ position' = offset
      BY <2>11 DEF DispatcherCrash
    <3>2. Reached' = offset
      BY <3>1 DEF Reached
    <3> QED BY <2>4, <3>1, <3>2 DEF NotifiedInv
  <2> QED
    <3>1. \/ UNCHANGED dispatching
          \/ Fetch \/ Targets \/ CommitOffset \/ Disconnect \/ DispatcherCrash
          \/ \E to \in Recipients : Notify(to)
      BY DEF Next, Emit, Publisher, SelectBatch, PublishNext, CommitBatch, PublisherCrash,
             Dispatcher, Worker, Take, SendTask, AckTask, WorkerCrash, vars
    <3> QED BY <2>5, <2>6, <2>7, <2>8, <2>9, <2>10, <2>11, <3>1
<1>3. NotifiedInv => CommittedIsNotified
  BY DEF NotifiedInv, CommittedIsNotified, Notified
<1> QED BY <1>1, <1>2, <1>3, TypesHold, PTL DEF Spec
=============================================================================
