------------------------------ MODULE Delivery ------------------------------
(***************************************************************************)
(* How a committed status change becomes an SMS to both participants:      *)
(*                                                                         *)
(*   outbox_events -> outbox-publisher -> Kafka topic                      *)
(*     -> notification-dispatcher -> RabbitMQ queue                        *)
(*     -> notification-worker -> SMS gateway                               *)
(*                                                                         *)
(* Each arrow is a process of its own.  The publisher reads, publishes and *)
(* marks a batch of rows in one transaction; the dispatcher is the one     *)
(* member of its consumer group; the workers share the queue.              *)
(*                                                                         *)
(* Events are numbered by created_at, the start of the transaction that    *)
(* wrote the row, which need not be the order of the commits.  The topic   *)
(* is one partition: the dispatcher treats each one so.  The queue is a    *)
(* bag, because the workers prefetch and so take tasks out of order.       *)
(***************************************************************************)
EXTENDS Naturals, Sequences, FiniteSets, BagsExt

CONSTANTS
    NumEvents,      \* bound: rows written to outbox_events
    Publishers,     \* outbox-publisher processes (two while one is replaced)
    Workers,        \* notification-worker processes
    BatchLimit,     \* rows of one batch: 50 in the code
    MaxFaults       \* bound: failed calls, lost answers and crashes

ASSUME SizeAssumption == NumEvents \in Nat /\ MaxFaults \in Nat
ASSUME BatchAssumption == BatchLimit \in Nat \ {0}
ASSUME WorkersAssumption == IsFiniteSet(Workers)

VARIABLES
    outbox,     \* table outbox_events: whether published_at is set
    locked,     \* the rows in each publisher's open transaction
    unsent,     \* those of them it has yet to publish
    topic,      \* the Kafka topic
    offset,     \* the offset committed by the consumer group
    position,   \* how far the dispatcher's reader has fetched
    dispatch,   \* what the dispatcher does next with the last fetched message
    connected,  \* its RabbitMQ channel is open; it is opened at start only
    queue,      \* the RabbitMQ queue, a bag of tasks
    worker,     \* the task of each worker and what it does next with it
    sms,        \* how many SMS the gateway accepted for each task
    acked,      \* the tasks acknowledged to RabbitMQ
    faults,     \* how much of MaxFaults is used
    dropped     \* history: an error skipped a message, lost a task or refused an SMS

publishing  == <<outbox, locked, unsent>>
dispatching == <<offset, position, dispatch, connected>>
working     == <<worker, sms, acked>>
vars        == <<publishing, topic, dispatching, queue, working, faults, dropped>>

Events == 1 .. NumEvents

Recipients == {"customer", "contractor"}

Task == [event : Events, to : Recipients]

TaskOf(e, to) == [event |-> e, to |-> to]

NoTask == [event |-> 0, to |-> "none"]

Resting == [pc |-> "idle", task |-> NoTask]

Init ==
    /\ outbox = [e \in Events |-> "none"]
    /\ locked = [p \in Publishers |-> {}]
    /\ unsent = [p \in Publishers |-> {}]
    /\ topic = <<>>
    /\ offset = 0
    /\ position = 0
    /\ dispatch = "fetch"
    /\ connected = TRUE
    /\ queue = [t \in {} |-> 0]
    /\ worker = [w \in Workers |-> Resting]
    /\ sms = [t \in Task |-> 0]
    /\ acked = {}
    /\ faults = 0
    /\ dropped = FALSE

Outcomes == {"ok"} \cup IF faults < MaxFaults THEN {"failed", "lost"} ELSE {}

Charge(o) == faults' = IF o = "ok" THEN faults ELSE faults + 1

Tally(o) == Charge(o) /\ UNCHANGED dropped

\* An outcome after which a message is not delivered, or the same.
TallyLoss(o, loss) == Charge(o) /\ dropped' = (dropped \/ o = loss)

Fault == faults < MaxFaults /\ faults' = faults + 1 /\ UNCHANGED dropped

----------------------------------------------------------------------------
(* The outbox and its publisher.                                           *)

\* A transaction of the API commits its row.
Emit(e) ==
    /\ outbox[e] = "none"
    /\ outbox' = [outbox EXCEPT ![e] = "pending"]
    /\ UNCHANGED <<locked, unsent, topic, dispatching, queue, working, faults, dropped>>

\* The oldest rows of S, as many as one batch takes.
Oldest(S) == {e \in S : Cardinality({f \in S : f < e}) < BatchLimit}

Locked == UNION {locked[p] : p \in Publishers}

Pending == {e \in Events : outbox[e] = "pending"}

\* Mutant: the rows that another publisher has locked are not skipped.
SelectBatchUnlocked(p) ==
    /\ locked[p] = {} /\ Pending # {}
    /\ locked' = [locked EXCEPT ![p] = Oldest(Pending)]
    /\ unsent' = [unsent EXCEPT ![p] = Oldest(Pending)]
    /\ UNCHANGED <<outbox, topic, dispatching, queue, working, faults, dropped>>

\* Mutant: only the rows created after the last published one are selected.
SelectBatchAfterLast(p) ==
    LET new == {e \in Pending \ Locked : \A f \in Events : outbox[f] = "published" => f < e}
    IN  /\ locked[p] = {} /\ new # {}
        /\ locked' = [locked EXCEPT ![p] = Oldest(new)]
        /\ unsent' = [unsent EXCEPT ![p] = Oldest(new)]
        /\ UNCHANGED <<outbox, topic, dispatching, queue, working, faults, dropped>>

\* SELECT ... WHERE published_at IS NULL ORDER BY created_at
\* FOR UPDATE SKIP LOCKED LIMIT
SelectBatch(p) ==
    /\ locked[p] = {} /\ Pending \ Locked # {}
    /\ locked' = [locked EXCEPT ![p] = Oldest(Pending \ Locked)]
    /\ unsent' = [unsent EXCEPT ![p] = Oldest(Pending \ Locked)]
    /\ UNCHANGED <<outbox, topic, dispatching, queue, working, faults, dropped>>

Rollback(p) ==
    /\ locked' = [locked EXCEPT ![p] = {}]
    /\ unsent' = [unsent EXCEPT ![p] = {}]

\* Mutant: the row is marked although its message could not be published.
PublishNextUnchecked(p) ==
    \E e \in unsent[p], o \in Outcomes :
       /\ \A f \in unsent[p] : e <= f
       /\ topic' = IF o = "failed" THEN topic ELSE Append(topic, e)
       /\ unsent' = [unsent EXCEPT ![p] = @ \ {e}]
       /\ Tally(o)
       /\ UNCHANGED <<outbox, locked, dispatching, queue, working>>

\* Publish one message, then UPDATE its row in the transaction.  On an error of
\* either, the whole batch is rolled back, the messages published so far too.
PublishNext(p) ==
    \E e \in unsent[p], o \in Outcomes :
       /\ \A f \in unsent[p] : e <= f
       /\ topic' = IF o = "failed" THEN topic ELSE Append(topic, e)
       /\ IF o = "ok"
          THEN unsent' = [unsent EXCEPT ![p] = @ \ {e}] /\ UNCHANGED locked
          ELSE Rollback(p)
       /\ Tally(o)
       /\ UNCHANGED <<outbox, dispatching, queue, working>>

CommitBatch(p) ==
    /\ locked[p] # {} /\ unsent[p] = {}
    /\ \E o \in Outcomes :
          /\ outbox' = IF o = "failed" THEN outbox
                       ELSE [e \in Events |-> IF e \in locked[p] THEN "published" ELSE outbox[e]]
          /\ Tally(o)
    /\ Rollback(p)
    /\ UNCHANGED <<topic, dispatching, queue, working>>

PublisherCrash(p) ==
    /\ Fault /\ Rollback(p)
    /\ UNCHANGED <<outbox, topic, dispatching, queue, working>>

----------------------------------------------------------------------------
(* The dispatcher.                                                         *)

\* Mutant: the offset is committed with the fetch.
FetchCommitted ==
    /\ dispatch = "fetch" /\ position < Len(topic)
    /\ position' = position + 1
    /\ offset' = position + 1
    /\ dispatch' = "targets"
    /\ UNCHANGED <<publishing, topic, connected, queue, working, faults, dropped>>

\* FetchMessage, which leaves the committed offset alone.
Fetch ==
    /\ dispatch = "fetch" /\ position < Len(topic)
    /\ position' = position + 1
    /\ dispatch' = "targets"
    /\ UNCHANGED <<publishing, topic, offset, connected, queue, working, faults, dropped>>

\* NotificationTargets.  An error skips the message: the loop fetches the next.
Targets ==
    /\ dispatch = "targets"
    /\ \E o \in Outcomes \ {"lost"} :
          /\ dispatch' = IF o = "ok" THEN "customer" ELSE "fetch"
          /\ TallyLoss(o, "failed")
    /\ UNCHANGED <<publishing, topic, offset, position, connected, queue, working>>

\* Mutant: the loop over the recipients ends after the first.
NotifyFirst(to) ==
    LET t == TaskOf(topic[position], to)
    IN  /\ dispatch = to /\ connected
        /\ queue' = BagAdd(queue, t)
        /\ dispatch' = "commit"
        /\ UNCHANGED <<publishing, topic, offset, position, connected, working, faults, dropped>>

\* Publish without publisher confirms: it may return nil for a message that the
\* broker never gets ("lost").  On a closed channel it fails.
Notify(to) ==
    LET t == TaskOf(topic[position], to)
    IN  /\ dispatch = to
        /\ IF connected
           THEN \E o \in Outcomes \ {"failed"} :
                   /\ queue' = IF o = "ok" THEN BagAdd(queue, t) ELSE queue
                   /\ dispatch' = IF to = "customer" THEN "contractor" ELSE "commit"
                   /\ TallyLoss(o, "lost")
           ELSE dispatch' = "fetch" /\ UNCHANGED <<queue, faults, dropped>>
        /\ UNCHANGED <<publishing, topic, offset, position, connected, working>>

\* CommitMessages: the offset after this message, whatever became of those before.
CommitOffset ==
    /\ dispatch = "commit"
    /\ \E o \in Outcomes :
          /\ offset' = IF o = "failed" THEN offset ELSE position
          /\ Tally(o)
    /\ dispatch' = "fetch"
    /\ UNCHANGED <<publishing, topic, position, connected, queue, working>>

\* The RabbitMQ connection breaks; nothing in the process opens it again.
Disconnect ==
    /\ connected /\ Fault
    /\ connected' = FALSE
    /\ UNCHANGED <<publishing, topic, offset, position, dispatch, queue, working>>

\* The process restarts, at the committed offset.
DispatcherCrash ==
    /\ Fault
    /\ position' = offset
    /\ dispatch' = "fetch"
    /\ connected' = TRUE
    /\ UNCHANGED <<publishing, topic, offset, queue, working>>

----------------------------------------------------------------------------
(* The workers.                                                            *)

Take(w) ==
    \E t \in DOMAIN queue :
       /\ worker[w] = Resting
       /\ queue' = BagRemove(queue, t)
       /\ worker' = [worker EXCEPT ![w] = [pc |-> "send", task |-> t]]
       /\ UNCHANGED <<publishing, topic, dispatching, sms, acked, faults, dropped>>

\* The handler posts to the gateway.  Its error is assigned to the err declared
\* inside the if, so the test that follows reads the outer one, which is nil:
\* the task is acknowledged whatever the outcome.
SendTask(w) ==
    LET t == worker[w].task
    IN  /\ worker[w].pc = "send"
        /\ \E o \in Outcomes :
              /\ sms' = IF o = "failed" THEN sms ELSE [sms EXCEPT ![t] = @ + 1]
              /\ TallyLoss(o, "failed")
        /\ worker' = [worker EXCEPT ![w].pc = "ack"]
        /\ UNCHANGED <<publishing, topic, dispatching, queue, acked>>

\* Mutant: the worker does not go on to its next delivery.
AckTaskAndStay(w) ==
    /\ worker[w].pc = "ack"
    /\ acked' = acked \cup {worker[w].task}
    /\ UNCHANGED <<publishing, topic, dispatching, queue, worker, sms, faults, dropped>>

AckTask(w) ==
    /\ worker[w].pc = "ack"
    /\ acked' = acked \cup {worker[w].task}
    /\ worker' = [worker EXCEPT ![w] = Resting]
    /\ UNCHANGED <<publishing, topic, dispatching, queue, sms, faults, dropped>>

\* The process dies, or its connection does and Consume returns, or Ack fails:
\* the broker queues the unacknowledged task again.
WorkerCrash(w) ==
    /\ Fault
    /\ queue' = IF worker[w] = Resting THEN queue ELSE BagAdd(queue, worker[w].task)
    /\ worker' = [worker EXCEPT ![w] = Resting]
    /\ UNCHANGED <<publishing, topic, dispatching, sms, acked>>

----------------------------------------------------------------------------
Publisher(p) == SelectBatch(p) \/ PublishNext(p) \/ CommitBatch(p)

Dispatcher == Fetch \/ Targets \/ CommitOffset \/ \E to \in Recipients : Notify(to)

Worker(w) == Take(w) \/ SendTask(w) \/ AckTask(w)

Next ==
    \/ \E e \in Events : Emit(e)
    \/ \E p \in Publishers : Publisher(p) \/ PublisherCrash(p)
    \/ Dispatcher \/ Disconnect \/ DispatcherCrash
    \/ \E w \in Workers : Worker(w) \/ WorkerCrash(w)

Spec == Init /\ [][Next]_vars

\* The three programs are loops that never stop on their own (a process that
\* exits is restarted by its Deployment).
FairSpec ==
    /\ Spec
    /\ \A p \in Publishers : WF_vars(Publisher(p))
    /\ WF_vars(Dispatcher)
    /\ \A w \in Workers : WF_vars(Worker(w))

----------------------------------------------------------------------------
(* Properties.                                                             *)

\* The state of every stage has its shape, and a publisher's unsent rows are rows
\* that it has locked.
TypeOK ==
    /\ outbox \in [Events -> {"none", "pending", "published"}]
    /\ locked \in [Publishers -> SUBSET Events] /\ unsent \in [Publishers -> SUBSET Events]
    /\ \A p \in Publishers : unsent[p] \subseteq locked[p] /\ locked[p] \subseteq Pending
    /\ topic \in Seq(Events)
    /\ offset \in 0 .. Len(topic) /\ position \in 0 .. Len(topic)
    /\ dispatch \in {"fetch", "targets", "commit"} \cup Recipients
    /\ connected \in BOOLEAN
    /\ DOMAIN queue \subseteq Task /\ \A t \in DOMAIN queue : queue[t] \in Nat \ {0}
    /\ worker \in [Workers -> {Resting} \cup [pc : {"send", "ack"}, task : Task]]
    /\ sms \in [Task -> Nat]
    /\ acked \subseteq Task
    /\ faults \in 0 .. MaxFaults
    /\ dropped \in BOOLEAN

Occurrences(e) == Cardinality({i \in DOMAIN topic : topic[i] = e})

\* A row is marked as published only when its message is in the topic, however
\* calls and publishers fail (PublishPending is at least once).
PublishedIsInTopic ==
    \A e \in Events : outbox[e] = "published" => Occurrences(e) > 0

\* Each repetition of a message in the topic is due to a fault: two publishers
\* at work at once do not publish the same row (SKIP LOCKED).
RepeatsNeedFaults == \A e \in Events : Occurrences(e) <= 1 + faults

Copies(t) ==
    (IF t \in DOMAIN queue THEN queue[t] ELSE 0)
    + Cardinality({w \in Workers : worker[w].pc = "send" /\ worker[w].task = t})
    + sms[t]

\* Until something fails, each task exists at most once, in the queue, at a worker
\* or as an SMS, and exists for both participants once the offset is committed.
ExactlyOnceUntilFault ==
    faults = 0 => /\ \A t \in Task : Copies(t) <= 1
                  /\ \A i \in 1 .. offset, to \in Recipients : Copies(TaskOf(topic[i], to)) = 1

\* The offset is committed past a message only when both its tasks are queued, at a
\* worker or sent, however calls fail, processes stop at any step and the connection
\* to RabbitMQ breaks: only an error of NotificationTargets, a broker that never gets
\* what Publish reported and a gateway that refuses an SMS lose one.
CommittedIsNotified ==
    ~dropped => \A i \in 1 .. offset, to \in Recipients : Copies(TaskOf(topic[i], to)) > 0

\* Every committed row reaches the topic, though its created_at may lie before
\* that of rows already published, and though publishers fail and restart.
EventuallyInTopic == \A e \in Events : (outbox[e] = "pending") ~> (Occurrences(e) > 0)

\* Both participants get their SMS through failed publications and commits and the
\* crash of any process, unless a message is lost as above, or the connection of the
\* dispatcher breaks, which nothing in it repairs.
EventuallyNotified ==
    \A e \in Events : (outbox[e] = "pending") ~>
       (dropped \/ ~connected \/ \A to \in Recipients : sms[TaskOf(e, to)] > 0)

\* A task leaves RabbitMQ only after the gateway took its SMS.
AckedWasSent == \A t \in acked : sms[t] > 0
=============================================================================
