--------------------------- MODULE EventDelivery ---------------------------
(***************************************************************************)
(* How the events of one topic travel from an outbox table to the consumer *)
(* groups: OutboxPublisherService polling, KafkaConsumerService.consume    *)
(* with its requeue and dead letter topic, and the duplicate check of      *)
(* BaseEventConsumer.                                                      *)
(*                                                                         *)
(* The API process and the worker process both load the service modules,   *)
(* so both poll the same outbox tables and both join the consumer groups   *)
(* of those services.  A topic has one partition: one member of a group    *)
(* owns it at a time.  The store of handled events is a Map in the memory  *)
(* of each process, whose entries live for 24 hours.                       *)
(*                                                                         *)
(* External, as the code uses them: the Postgres row locks, the Kafka log, *)
(* the committed offset, the handover of the partition.  The log begins    *)
(* after the first commit of every group: kafkajs is told fromBeginning:   *)
(* false, so that a group without a committed offset starts at the end of  *)
(* the log, after each of its restarts, and misses what is there.          *)
(***************************************************************************)
EXTENDS Naturals, Sequences, FiniteSets

CONSTANTS
    NumEvents,   \* bound: rows written to the outbox, numbered by created_at
    Processes,   \* processes that poll the outbox
    MaxOverlap,  \* bound: ticks of one poller under way at a time
    BatchSize,   \* rows one tick selects (100 in the code)
    Groups,      \* consumer groups of the topic
    Members,     \* Members[g]: the processes that joined group g
    MaxRetries,  \* maxRetries (3 in the code)
    MaxThrows,   \* bound: how often event handlers throw in a behaviour
    Faults,      \* which of FaultKinds happen
    MaxFaults    \* bound: how many of them happen in a behaviour

FaultKinds ==
    {"crash",      \* a process dies and is started again
     "rebalance",  \* the broker gives the partition to another member
     "expiry",     \* an entry of a store of handled events is 24 hours old
     "broker",     \* a send throws, before or after the broker stored it
     "database"}   \* the update of an outbox row throws

ASSUME NumEventsAssumption == NumEvents \in Nat
ASSUME MaxOverlapAssumption == MaxOverlap \in Nat \ {0}
ASSUME BatchSizeAssumption == BatchSize \in Nat \ {0}
ASSUME MembersAssumption == Members \in [Groups -> (SUBSET Processes) \ {{}}]
ASSUME MaxRetriesAssumption == MaxRetries \in Nat
ASSUME MaxThrowsAssumption == MaxThrows \in Nat
ASSUME FaultsAssumption == Faults \subseteq FaultKinds
ASSUME MaxFaultsAssumption == MaxFaults \in Nat

Events == 1..NumEvents
Polls == Processes \X (1..MaxOverlap)

VARIABLES
    inserted,   \* committed rows of outbox_events
    published,  \* rows with published = true
    poll,       \* poll[t]: what a tick does and the rows it has still to send
    topic,      \* the log: event id and x-retry-count of each message
    owner,      \* owner[g]: the member that is assigned the partition
    position,   \* position[g]: messages the owner is through with
    committed,  \* committed[g]: the offset the broker remembers
    work,       \* work[p][g]: the message p handles for group g
    producer,   \* producer[p]: the requeue producer of process p
    processed,  \* processed[p][g]: event ids in the idempotency store of p
    handled,    \* history: times group g handled each event to the end
    failures,   \* history: times the handler of group g threw, by event
    dead,       \* events group g sent to the dead letter topic
    losses,     \* history: times group g may have forgotten that it handled e
    throws,     \* handlers that threw so far
    faults      \* faults so far

outboxVars == <<inserted, published, poll>>
groupVars  == <<owner, position, committed, work, producer, processed,
                handled, failures, dead>>
vars == <<outboxVars, topic, groupVars, losses, throws, faults>>

Idle == [stage |-> "idle", rows |-> <<>>]
Resting == [stage |-> "idle", event |-> 0, retry |-> 0]
Message(e, n) == [event |-> e, retry |-> n]

Fault(kind) ==
    /\ kind \in Faults
    /\ faults < MaxFaults
    /\ faults' = faults + 1

----------------------------------------------------------------------------
Init ==
    /\ inserted = {}
    /\ published = {}
    /\ poll = [t \in Polls |-> Idle]
    /\ topic = <<>>
    /\ owner \in {o \in [Groups -> Processes] : \A g \in Groups : o[g] \in Members[g]}
    /\ position = [g \in Groups |-> 0]
    /\ committed = [g \in Groups |-> 0]
    /\ work = [p \in Processes |-> [g \in Groups |-> Resting]]
    /\ producer = [p \in Processes |-> "none"]
    /\ processed = [p \in Processes |-> [g \in Groups |-> {}]]
    /\ handled = [g \in Groups |-> [e \in Events |-> 0]]
    /\ failures = [g \in Groups |-> [e \in Events |-> 0]]
    /\ dead = [g \in Groups |-> {}]
    /\ losses = [g \in Groups |-> [e \in Events |-> 0]]
    /\ throws = 0
    /\ faults = 0

----------------------------------------------------------------------------
\* The outbox poller

\* A transaction commits its outbox row.  created_at is taken before the
\* commit, so rows need not appear in its order.
Insert(e) ==
    /\ e \notin inserted
    /\ inserted' = inserted \cup {e}
    /\ UNCHANGED <<published, poll, topic, groupVars, losses, throws, faults>>

\* Rows locked by the select of a tick, until its transaction commits.
Locked == {e \in Events : \E t \in Polls : /\ poll[t].stage = "select"
                                          /\ \E i \in DOMAIN poll[t].rows : poll[t].rows[i] = e}

\* The oldest of these rows, at most BatchSize, in the order of created_at.
Batches(rows) ==
    LET size == IF Cardinality(rows) < BatchSize THEN Cardinality(rows) ELSE BatchSize
    IN  {b \in [1..size -> rows] :
            /\ \A i, j \in 1..size : i < j => b[i] < b[j]
            /\ \A e \in rows \ {b[i] : i \in 1..size} :
                   \A i \in 1..size : b[i] < e}

\* SELECT ... WHERE published = false ORDER BY created_at LIMIT 100 FOR UPDATE
\* SKIP LOCKED.  Ticks come from setInterval, which does not wait for the
\* previous one.
Select(t) ==
    LET rows == inserted \ (published \cup Locked)
    IN  /\ poll[t] = Idle
        /\ rows # {}
        /\ \E b \in Batches(rows) :
              poll' = [poll EXCEPT ![t] = [stage |-> "select", rows |-> b]]
        /\ UNCHANGED <<inserted, published, topic, groupVars, losses, throws, faults>>

\* The select's transaction commits before anything is sent: its locks go.
EndSelect(t) ==
    /\ poll[t].stage = "select"
    /\ poll' = [poll EXCEPT ![t].stage = "send"]
    /\ UNCHANGED <<inserted, published, topic, groupVars, losses, throws, faults>>

Send(t) ==
    /\ poll[t].stage = "send"
    /\ topic' = Append(topic, Message(Head(poll[t].rows), 0))
    /\ poll' = [poll EXCEPT ![t].stage = "mark"]
    /\ UNCHANGED <<inserted, published, groupVars, losses, throws, faults>>

\* The tick goes on with its next row.
NextRow(t) ==
    poll' = [poll EXCEPT ![t] =
                IF Len(@.rows) = 1 THEN Idle
                ELSE [stage |-> "send", rows |-> Tail(@.rows)]]

\* UPDATE ... SET published = true, which waits for the lock of a select.
Mark(t) ==
    /\ poll[t].stage = "mark"
    /\ Head(poll[t].rows) \notin Locked
    /\ published' = published \cup {Head(poll[t].rows)}
    /\ NextRow(t)
    /\ UNCHANGED <<inserted, topic, groupVars, losses, throws, faults>>

\* Variant: a send that throws ends the polling.
SendEndsPolling(t) ==
    /\ Fault("broker")
    /\ poll[t].stage = "send"
    /\ poll' = [poll EXCEPT ![t].stage = "off"]
    /\ UNCHANGED <<inserted, published, topic, groupVars, losses, throws>>

\* An error in either is logged and the next row is tried; a send that throws
\* may have reached the log.
SendFails(t) ==
    /\ Fault("broker")
    /\ poll[t].stage = "send"
    /\ topic' \in {topic, Append(topic, Message(Head(poll[t].rows), 0))}
    /\ NextRow(t)
    /\ UNCHANGED <<inserted, published, groupVars, losses, throws>>

MarkFails(t) ==
    /\ Fault("database")
    /\ poll[t].stage = "mark"
    /\ NextRow(t)
    /\ UNCHANGED <<inserted, published, topic, groupVars, losses, throws>>

----------------------------------------------------------------------------
\* The consumers

\* Process p is through with a message; only the owner's position counts.
Through(p, g) ==
    /\ work' = [work EXCEPT ![p][g] = Resting]
    /\ position' = IF owner[g] = p THEN [position EXCEPT ![g] = @ + 1] ELSE position

\* Variant: the event id is stored before the handler runs.
ReceiveAndStore(p, g) ==
    /\ owner[g] = p
    /\ work[p][g] = Resting
    /\ position[g] < Len(topic)
    /\ LET m == topic[position[g] + 1]
       IN  IF m.event \in processed[p][g]
             THEN Through(p, g) /\ UNCHANGED processed
             ELSE /\ work' = [work EXCEPT ![p][g] =
                                 [stage |-> "handle", event |-> m.event, retry |-> m.retry]]
                  /\ processed' = [processed EXCEPT ![p][g] = @ \cup {m.event}]
                  /\ UNCHANGED position
    /\ UNCHANGED <<outboxVars, topic, owner, committed, handled, failures, dead,
                   producer, losses, throws, faults>>

\* Variant: no duplicate check.
ReceiveUnchecked(p, g) ==
    /\ owner[g] = p
    /\ work[p][g] = Resting
    /\ position[g] < Len(topic)
    /\ LET m == topic[position[g] + 1]
       IN  work' = [work EXCEPT ![p][g] =
                       [stage |-> "handle", event |-> m.event, retry |-> m.retry]]
    /\ UNCHANGED <<outboxVars, topic, owner, position, committed, processed,
                   handled, failures, dead, producer, losses, throws, faults>>

\* eachMessage up to the duplicate check: a handled event is skipped.
Receive(p, g) ==
    /\ owner[g] = p
    /\ work[p][g] = Resting
    /\ position[g] < Len(topic)
    /\ LET m == topic[position[g] + 1]
       IN  IF m.event \in processed[p][g]
             THEN Through(p, g)
             ELSE /\ work' = [work EXCEPT ![p][g] =
                                 [stage |-> "handle", event |-> m.event, retry |-> m.retry]]
                  /\ UNCHANGED position
    /\ UNCHANGED <<outboxVars, topic, owner, committed, processed, handled,
                   failures, dead, producer, losses, throws, faults>>

\* The handler returns and the event id is stored.
Handle(p, g) ==
    LET e == work[p][g].event
    IN  /\ work[p][g].stage = "handle"
        /\ handled' = [handled EXCEPT ![g][e] = @ + 1]
        /\ processed' = [processed EXCEPT ![p][g] = @ \cup {e}]
        /\ Through(p, g)
        /\ UNCHANGED <<outboxVars, topic, owner, committed, failures, dead,
                       producer, losses, throws, faults>>

HandlerThrows(p, g) ==
    /\ throws < MaxThrows
    /\ work[p][g].stage = "handle"
    /\ throws' = throws + 1
    /\ failures' = [failures EXCEPT ![g][work[p][g].event] = @ + 1]
    /\ work' = [work EXCEPT ![p][g].stage = "requeue"]
    /\ UNCHANGED <<outboxVars, topic, owner, position, committed, processed,
                   handled, dead, producer, losses, faults>>

\* Variant: the last retry is not made.
GiveUpEarly(m, g) ==
    IF m.retry + 1 >= MaxRetries
      THEN /\ dead' = [dead EXCEPT ![g] = @ \cup {m.event}]
           /\ UNCHANGED topic
      ELSE /\ topic' = Append(topic, Message(m.event, m.retry + 1))
           /\ UNCHANGED dead

\* The message goes back to the end of the topic, where every group sees it,
\* or, after its last retry, to the dead letter topic.
Resend(m, g) ==
    IF m.retry + 1 > MaxRetries
      THEN /\ dead' = [dead EXCEPT ![g] = @ \cup {m.event}]
           /\ UNCHANGED topic
      ELSE /\ topic' = Append(topic, Message(m.event, m.retry + 1))
           /\ UNCHANGED dead

\* sendToTopic connects the producer on its first use, then sends.
Requeue(p, g) ==
    /\ work[p][g].stage = "requeue"
    /\ producer[p] # "rejected"
    /\ producer' = [producer EXCEPT ![p] = "connected"]
    /\ Resend(work[p][g], g)
    /\ Through(p, g)
    /\ UNCHANGED <<outboxVars, owner, committed, processed, handled, failures,
                   losses, throws, faults>>

\* An error of the connect or of the send leaves eachMessage: the message is
\* fetched again.  A send that throws may have reached the log; a connect that
\* is rejected is remembered as it is.
RequeueFails(p, g) ==
    /\ Fault("broker")
    /\ work[p][g].stage = "requeue"
    /\ producer[p] # "rejected"
    /\ \/ /\ producer[p] = "none"
          /\ producer' = [producer EXCEPT ![p] = "rejected"]
          /\ UNCHANGED <<topic, dead>>
       \/ /\ producer' = [producer EXCEPT ![p] = "connected"]
          /\ Resend(work[p][g], g) \/ UNCHANGED <<topic, dead>>
    /\ work' = [work EXCEPT ![p][g] = Resting]
    /\ UNCHANGED <<outboxVars, owner, position, committed, processed, handled,
                   failures, losses, throws>>

\* Every later requeue of the process awaits the same rejected promise.
RequeueRefused(p, g) ==
    /\ work[p][g].stage = "requeue"
    /\ producer[p] = "rejected"
    /\ work' = [work EXCEPT ![p][g] = Resting]
    /\ UNCHANGED <<outboxVars, topic, owner, position, committed, processed,
                   handled, failures, dead, producer, losses, throws, faults>>

\* kafkajs commits the offsets it is through with, now and then.
Commit(g) ==
    /\ committed[g] < position[g]
    /\ committed' = [committed EXCEPT ![g] = position[g]]
    /\ UNCHANGED <<outboxVars, topic, owner, position, work, processed,
                   handled, failures, dead, producer, losses, throws, faults>>

\* The partition moves to another member, which starts from the committed
\* offset.  The old owner notices, and can join again, only after the message
\* it is handling.
Rebalance(g, q) ==
    /\ Fault("rebalance")
    /\ q \in Members[g] \ {owner[g]}
    /\ work[q][g] = Resting
    /\ owner' = [owner EXCEPT ![g] = q]
    /\ position' = [position EXCEPT ![g] = committed[g]]
    /\ losses' = [losses EXCEPT ![g] = [e \in Events |-> @[e] + 1]]
    /\ UNCHANGED <<outboxVars, topic, committed, work, processed, handled,
                   failures, dead, producer, throws>>

\* Process p dies and starts again: its ticks, the messages in its hands and
\* its idempotency store are gone, its producer is new, and its partitions are
\* assigned anew.
Restart(p) ==
    /\ Fault("crash")
    /\ poll' = [t \in Polls |-> IF t[1] = p THEN Idle ELSE poll[t]]
    /\ work' = [work EXCEPT ![p] = [g \in Groups |-> Resting]]
    /\ processed' = [processed EXCEPT ![p] = [g \in Groups |-> {}]]
    /\ producer' = [producer EXCEPT ![p] = "none"]
    /\ owner' \in {o \in [Groups -> Processes] :
                      \A g \in Groups :
                          IF owner[g] = p
                            THEN o[g] \in Members[g] /\ work'[o[g]][g] = Resting
                            ELSE o[g] = owner[g]}
    /\ position' = [g \in Groups |-> IF owner[g] = p THEN committed[g] ELSE position[g]]
    /\ losses' = [g \in Groups |-> [e \in Events |->
                      losses[g][e] + (IF owner[g] = p THEN 1 ELSE 0)]]
    /\ UNCHANGED <<inserted, published, topic, committed, handled, failures, dead,
                   throws>>

\* IdempotencyService gives every entry 24 hours: get, or the hourly cleanup,
\* deletes what is older.
Expire(p, g, e) ==
    /\ Fault("expiry")
    /\ e \in processed[p][g]
    /\ processed' = [processed EXCEPT ![p][g] = @ \ {e}]
    /\ losses' = [losses EXCEPT ![g][e] = @ + 1]
    /\ UNCHANGED <<outboxVars, topic, owner, position, committed, work, producer,
                   handled, failures, dead, throws>>

----------------------------------------------------------------------------
Poll(t) == Select(t) \/ EndSelect(t) \/ Send(t) \/ Mark(t)

Consume(p, g) ==
    Receive(p, g) \/ Handle(p, g) \/ Requeue(p, g) \/ RequeueRefused(p, g)

Next ==
    \/ \E e \in Events : Insert(e)
    \/ \E t \in Polls : Poll(t) \/ SendFails(t) \/ MarkFails(t)
    \/ \E p \in Processes, g \in Groups :
           Consume(p, g) \/ HandlerThrows(p, g) \/ RequeueFails(p, g)
    \/ \E g \in Groups : Commit(g)
    \/ \E g \in Groups, q \in Processes : Rebalance(g, q)
    \/ \E p \in Processes : Restart(p)
    \/ \E p \in Processes, g \in Groups, e \in Events : Expire(p, g, e)

Spec == Init /\ [][Next]_vars

\* Timers and promises of a process that is up are served: some poller goes on
\* as long as there is something to publish, and some member of each group as
\* long as it has a message.  Nothing is assumed of the offset commits.
FairSpec ==
    /\ Spec
    /\ WF_vars(\E t \in Polls : Poll(t))
    /\ \A g \in Groups : WF_vars(\E p \in Processes : Consume(p, g))

----------------------------------------------------------------------------
\* Properties

Stages == {"idle", "select", "send", "mark"}
WorkStages == {"idle", "handle", "requeue"}

TypeOK ==
    /\ inserted \subseteq Events
    /\ published \subseteq inserted
    /\ poll \in [Polls -> [stage : Stages, rows : Seq(Events)]]
    /\ topic \in Seq([event : Events, retry : 0..MaxRetries])
    /\ owner \in [Groups -> Processes]
    /\ position \in [Groups -> Nat]
    /\ committed \in [Groups -> Nat]
    /\ \A g \in Groups : /\ owner[g] \in Members[g]
                         /\ committed[g] <= position[g]
                         /\ position[g] <= Len(topic)
    /\ work \in [Processes -> [Groups ->
                    [stage : WorkStages, event : 0..NumEvents, retry : 0..MaxRetries]]]
    /\ producer \in [Processes -> {"none", "connected", "rejected"}]
    /\ processed \in [Processes -> [Groups -> SUBSET Events]]
    /\ handled \in [Groups -> [Events -> Nat]]
    /\ failures \in [Groups -> [Events -> Nat]]
    /\ dead \in [Groups -> SUBSET Events]
    /\ losses \in [Groups -> [Events -> 0..MaxFaults]]
    /\ throws \in 0..MaxThrows
    /\ faults \in 0..MaxFaults

Settled(g, e) == handled[g][e] > 0 \/ e \in dead[g]

\* docs/structure.md:368 "This guarantees at-least-once delivery": once a row is
\* marked published, every group has handled its event, has dead-lettered it, or
\* has a copy of it ahead of the offset it would restart from, whatever dies.
NothingLost ==
    \A g \in Groups, e \in published :
        \/ Settled(g, e)
        \/ \E i \in committed[g] + 1 .. Len(topic) : topic[i].event = e

\* However often an event is published, requeued by any group or redelivered,
\* a group handles it again only after it lost the entry that says so: its
\* process died, the partition moved to a process with a store of its own, or
\* the entry was 24 hours old.
HandledAgainOnlyAfterLoss ==
    \A g \in Groups, e \in Events : handled[g][e] <= 1 + losses[g][e]

\* A group gives an event up only after its own handler threw MaxRetries + 1
\* times, although the retry count travels with the message and another group's
\* failures raise it too; the exception is an event the group handled before.
DeadLetteredOnlyWhenExhausted ==
    \A g \in Groups : \A e \in dead[g] :
        failures[g][e] > MaxRetries \/ handled[g][e] > 0

\* Every event that is committed to the outbox is in the end handled or
\* dead-lettered by every group.
EventuallySettled ==
    \A e \in Events : e \in inserted ~> \A g \in Groups : Settled(g, e)

============================================================================
