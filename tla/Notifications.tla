---------------------------- MODULE Notifications ----------------------------
(***************************************************************************)
(* What a customer is told about one order: the notification consumer and  *)
(* the workflow's notifyUser, both through SendNotificationUseCase, with   *)
(* the mail provider, the notifications table and its events.              *)
(*                                                                         *)
(* A lane is whatever serves its messages one after the other: the group   *)
(* of each topic, which reads the log the other groups of the topic read,  *)
(* and requeue to, too; and the workflow, where a retry is the next thing  *)
(* its lane holds.  A call is split where it awaits: the provider, the     *)
(* insert of the record, the insert of the event.  Every try makes a new   *)
(* notification.                                                           *)
(*                                                                         *)
(* The events come to their topic in any order and any of them may be      *)
(* missing: an event is lost when its service dies before the insert into  *)
(* the outbox, and a row whose publish fails is overtaken by the next.     *)
(* As in EventDelivery the log begins after the group's first commit.      *)
(***************************************************************************)
EXTENDS Naturals, Sequences, FiniteSets

CONSTANTS
    Sources,     \* what there may be something to tell about, from AllSources
    Scopes,      \* bound: the sets of sources that come up together
    MaxRetries,  \* retries of a message, and of the activity (3 and 2 in the code)
    MaxFaults    \* bound: calls that throw, copies of a message, handovers

AllSources == {"OrderConfirmed", "OrderCancelled", "PaymentFailed", "PaymentRefunded",
               "ShipmentCreated", "ShipmentDelivered", "NotifyConfirmed", "NotifyCancelled"}

ASSUME SourcesAssumption == Sources \subseteq AllSources
ASSUME ScopesAssumption == Scopes \subseteq SUBSET Sources
ASSUME MaxRetriesAssumption == MaxRetries \in Nat
ASSUME MaxFaultsAssumption == MaxFaults \in Nat

VARIABLES
    scope,      \* which of the Scopes this is
    happened,   \* sources that came to their topic, or were called by the workflow
    log,        \* log[l]: the messages of lane l, their source and retry count
    at,         \* at[l]: how many of them the lane is through with
    work,       \* work[l]: where the call for the next message is
    stored,     \* sources whose event is in the store of handled events
    mails,      \* mails[s]: mails the provider accepted
    sent,       \* sent[s]: records stored as SENT
    failed,     \* failed[s]: records stored as FAILED
    announced,  \* announced[s]: notification.sent events committed
    settled,    \* sources whose message was handled to the end
    dead,       \* sources that were given up
    cuts,       \* history: cuts[s]: calls for s that failed or were cut off
    losses,     \* history: losses[s]: times the store lost s
    faults      \* faults so far

ledgers == <<mails, sent, failed, announced>>
lanes == <<log, at, work, stored>>
vars == <<scope, happened, lanes, ledgers, settled, dead, cuts, losses, faults>>

Lanes == {"order", "payment", "shipping", "workflow"}

\* The topic an event is published to and the group that serves it.
LaneOf ==
    [OrderConfirmed  |-> "order",    OrderCancelled    |-> "order",
     PaymentFailed   |-> "payment",  PaymentRefunded   |-> "payment",
     ShipmentCreated |-> "shipping", ShipmentDelivered |-> "shipping",
     NotifyConfirmed |-> "workflow", NotifyCancelled   |-> "workflow"]

\* The handlers of the consumer, and NOTIFICATION_TYPE_MAP of the adapter: the
\* cancellation of an order is only logged by the one, and dropped by the other.
TypeOf ==
    [OrderConfirmed  |-> "ORDER_CONFIRMED", OrderCancelled    |-> "none",
     PaymentFailed   |-> "PAYMENT_FAILED",  PaymentRefunded   |-> "PAYMENT_REFUNDED",
     ShipmentCreated |-> "ORDER_SHIPPED",   ShipmentDelivered |-> "ORDER_DELIVERED",
     NotifyConfirmed |-> "ORDER_CONFIRMED", NotifyCancelled   |-> "none"]

\* The order consumer saves the order on these, and throws when it cannot; the
\* other groups only log what the notification consumer sends mails about.
OthersThrow == {"ShipmentCreated", "ShipmentDelivered"}

Idle == [stage |-> "idle", status |-> "none"]
Message(s, n) == [source |-> s, retry |-> n]
Upcoming(l) == log[l][at[l] + 1]
Served(l) == Upcoming(l).source
None == [s \in Sources |-> 0]
Count(ledger, s) == [ledger EXCEPT ![s] = @ + 1]

Fault ==
    /\ faults < MaxFaults
    /\ faults' = faults + 1

Init ==
    /\ scope \in Scopes
    /\ happened = {}
    /\ log = [l \in Lanes |-> <<>>]
    /\ at = [l \in Lanes |-> 0]
    /\ work = [l \in Lanes |-> Idle]
    /\ stored = {}
    /\ mails = None
    /\ sent = None
    /\ failed = None
    /\ announced = None
    /\ settled = {}
    /\ dead = {}
    /\ cuts = None
    /\ losses = None
    /\ faults = 0

----------------------------------------------------------------------------
Add(l, m) == log' = [log EXCEPT ![l] = Append(@, m)]

\* The workflow calls one activity after the other.
Happens(s) ==
    /\ s \in scope \ happened
    /\ LaneOf[s] = "workflow" => at["workflow"] = Len(log["workflow"])
    /\ happened' = happened \cup {s}
    /\ Add(LaneOf[s], Message(s, 0))
    /\ UNCHANGED <<scope, at, work, stored, ledgers, settled, dead, cuts, losses, faults>>

\* An event comes to its topic again: it is published a second time, or another
\* group whose handler threw requeues a copy, with the retry count of the copy.
AnotherCopy(s) ==
    /\ s \in happened
    /\ LaneOf[s] # "workflow"
    /\ Fault
    /\ \/ Add(LaneOf[s], Message(s, 0))
       \/ /\ s \in OthersThrow
          /\ \E i \in DOMAIN log[LaneOf[s]] :
                LET m == log[LaneOf[s]][i]
                IN  /\ m.source = s /\ m.retry < MaxRetries
                    /\ Add(LaneOf[s], Message(s, m.retry + 1))
    /\ UNCHANGED <<scope, happened, at, work, stored, ledgers, settled, dead, cuts, losses>>

\* The lane is through with its message.
Pass(l) ==
    /\ at' = [at EXCEPT ![l] = @ + 1]
    /\ work' = [work EXCEPT ![l] = Idle]

\* Variant: the handled event is not stored.
SettleUnstored(l) ==
    /\ settled' = settled \cup {Served(l)}
    /\ Pass(l)
    /\ UNCHANGED stored

\* The handler has returned and the event is stored as handled.
Settle(l) ==
    /\ settled' = settled \cup {Served(l)}
    /\ stored' = stored \cup {Served(l)}
    /\ Pass(l)

\* The duplicate check; then the handler is called: it creates a notification, or
\* has nothing to send.
Begin(l) ==
    /\ at[l] < Len(log[l])
    /\ work[l] = Idle
    /\ \/ /\ Served(l) \in stored
          /\ Pass(l)
          /\ UNCHANGED <<stored, settled>>
       \/ /\ Served(l) \notin stored
          /\ TypeOf[Served(l)] = "none"
          /\ Settle(l)
       \/ /\ Served(l) \notin stored
          /\ TypeOf[Served(l)] # "none"
          /\ work' = [work EXCEPT ![l].stage = "send"]
          /\ UNCHANGED <<at, stored, settled>>
    /\ UNCHANGED <<scope, happened, log, ledgers, dead, cuts, losses, faults>>

\* The provider accepts the mail, and markSent() follows, or refuses it, and
\* markFailed() does.
Send(l) ==
    /\ work[l].stage = "send"
    /\ \E status \in {"SENT", "FAILED"} :
          /\ work' = [work EXCEPT ![l] = [stage |-> "save", status |-> status]]
          /\ mails' = IF status = "SENT" THEN Count(mails, Served(l)) ELSE mails
    /\ UNCHANGED <<scope, happened, log, at, stored, sent, failed, announced, settled, dead,
                   cuts, losses, faults>>

\* Variant: the record is stored as sent before the provider is called.
StoreSent(l) ==
    /\ sent' = Count(sent, Served(l))
    /\ UNCHANGED failed

Store(l) ==
    IF work[l].status = "SENT"
      THEN sent' = Count(sent, Served(l)) /\ UNCHANGED failed
      ELSE failed' = Count(failed, Served(l)) /\ UNCHANGED sent

\* A refused mail adds no event: its call is done, and it is not tried again.
Save(l) ==
    /\ work[l].stage = "save"
    /\ Store(l)
    /\ IF work[l].status = "SENT"
         THEN /\ work' = [work EXCEPT ![l].stage = "publish"]
              /\ UNCHANGED <<at, stored, settled>>
         ELSE Settle(l)
    /\ UNCHANGED <<scope, happened, log, mails, announced, dead, cuts, losses, faults>>

Publish(l) ==
    /\ work[l].stage = "publish"
    /\ announced' = Count(announced, Served(l))
    /\ Settle(l)
    /\ UNCHANGED <<scope, happened, log, mails, sent, failed, dead, cuts, losses, faults>>

----------------------------------------------------------------------------
\* What the call of lane l had under way may have been done when it failed.
PartlyDone(l) ==
    \/ UNCHANGED ledgers
    \/ /\ work[l].stage = "send"
       /\ mails' = Count(mails, Served(l))
       /\ UNCHANGED <<sent, failed, announced>>
    \/ /\ work[l].stage = "save"
       /\ Store(l)
       /\ UNCHANGED <<mails, announced>>
    \/ /\ work[l].stage = "publish"
       /\ announced' = Count(announced, Served(l))
       /\ UNCHANGED <<mails, sent, failed>>

\* Variant: sendNotificationSafe swallows the error it logs.
RetrySwallowed(l) == Settle(l) /\ UNCHANGED <<log, dead>>

\* Variant: a message whose handler threw is dropped.
RetryDropped(l) == Pass(l) /\ UNCHANGED <<log, stored, settled, dead>>

\* sendNotificationSafe rethrows: the consumer appends the message again with its
\* retry counted, as the workflow does; after the last retry both give up.
Retry(l) ==
    /\ IF Upcoming(l).retry + 1 > MaxRetries
         THEN dead' = dead \cup {Served(l)} /\ UNCHANGED log
         ELSE Add(l, Message(Served(l), Upcoming(l).retry + 1)) /\ UNCHANGED dead
    /\ Pass(l)
    /\ UNCHANGED <<stored, settled>>

\* A call throws; or Temporal gives the workflow's up, at its timeout or when the
\* worker died.
Throws(l) ==
    /\ work[l] # Idle
    /\ Fault
    /\ cuts' = Count(cuts, Served(l))
    /\ PartlyDone(l)
    /\ Retry(l)
    /\ UNCHANGED <<scope, happened, losses>>

OfLane(l) == {s \in Sources : LaneOf[s] = l}

\* What is left of the call of a lane, of its offset and its store: the call is
\* cut off, and the store kept gets the sources in `kept`.
Resume(l, offset, kept) ==
    LET lost == (stored \cap OfLane(l)) \ kept
        cut == IF work[l] = Idle THEN {} ELSE {Served(l)}
    IN  /\ at' = [at EXCEPT ![l] = offset]
        /\ work' = [work EXCEPT ![l] = Idle]
        /\ stored' = (stored \ OfLane(l)) \cup kept
        /\ cuts' = [s \in Sources |-> IF s \in cut THEN cuts[s] + 1 ELSE cuts[s]]
        /\ losses' = [s \in Sources |-> IF s \in lost THEN losses[s] + 1 ELSE losses[s]]

\* Variant: a group is given the end of the log instead of its offset.
HandoverAtEnd(l) ==
    /\ l # "workflow"
    /\ Fault
    /\ PartlyDone(l)
    /\ \E kept \in SUBSET (settled \cap OfLane(l)) : Resume(l, Len(log[l]), kept)
    /\ UNCHANGED <<scope, happened, log, settled, dead>>

\* A process dies, or its partition moves to another, or a requeue is refused, or an
\* entry of the store is 24 hours old: the lane goes on from an offset it has
\* committed, with what the store of the process that serves it now has.  A call
\* that its old owner still finishes counts as made before.
Handover(l) ==
    /\ l # "workflow"
    /\ Fault
    /\ PartlyDone(l)
    /\ \E offset \in 0 .. at[l], kept \in SUBSET (settled \cap OfLane(l)) :
          Resume(l, offset, kept)
    /\ UNCHANGED <<scope, happened, log, settled, dead>>

----------------------------------------------------------------------------
Serve(l) == Begin(l) \/ Send(l) \/ Save(l) \/ Publish(l)

Next ==
    \/ \E s \in Sources : Happens(s) \/ AnotherCopy(s)
    \/ \E l \in Lanes : Serve(l) \/ Throws(l) \/ Handover(l)

Spec == Init /\ [][Next]_vars

\* A consumer that is up, and Temporal with a worker, serve what is waiting.
FairSpec == Spec /\ \A l \in Lanes : WF_vars(Serve(l))

----------------------------------------------------------------------------
\* Properties

Ledger == [Sources -> Nat]

TypeOK ==
    /\ scope \in Scopes
    /\ happened \subseteq Sources
    /\ log \in [Lanes -> Seq([source : Sources, retry : 0..MaxRetries])]
    /\ \A l \in Lanes : at[l] \in 0..Len(log[l])
    /\ work \in [Lanes -> [stage : {"idle", "send", "save", "publish"},
                           status : {"none", "SENT", "FAILED"}]]
    /\ mails \in Ledger /\ sent \in Ledger /\ failed \in Ledger /\ announced \in Ledger
    /\ stored \subseteq settled
    /\ settled \subseteq happened
    /\ dead \subseteq happened
    /\ cuts \in Ledger /\ losses \in Ledger
    /\ faults \in 0..MaxFaults

\* 1 while the call for s stands after an accepted mail, before the given insert.
AtStage(s, stage) ==
    LET l == LaneOf[s]
    IN  IF work[l] = [stage |-> stage, status |-> "SENT"] /\ Served(l) = s THEN 1 ELSE 0

\* A customer is told of one thing once, however many copies of its event come
\* along, and once more for each call about it that failed or was cut off and each
\* time the store lost it; never more.
OneMailUnlessCut == \A s \in Sources : mails[s] <= 1 + cuts[s] + losses[s]

\* The records are true: no more of them say SENT than mails were accepted, no
\* more events say so than records, and a mail without its record, or a record
\* without its event, was cut off in between.
RecordsAreTrue ==
    \A s \in Sources :
        /\ sent[s] <= mails[s]
        /\ announced[s] <= sent[s]
        /\ mails[s] <= sent[s] + AtStage(s, "save") + cuts[s]
        /\ sent[s] <= announced[s] + AtStage(s, "publish") + cuts[s]

\* docs/structure.md:368 gives at-least-once delivery of events: whatever there
\* is something to tell about is told, or recorded as refused by the provider, or
\* given up after MaxRetries + 1 calls of this group that failed or were cut off,
\* although other groups raise the retry count of the copies too.  The exception is
\* an event that was handled and then lost by the store: a later copy may carry any
\* count.
NothingForgotten ==
    \A s \in Sources :
        /\ s \in settled /\ TypeOf[s] # "none" => sent[s] + failed[s] > 0
        /\ s \in dead => cuts[s] > MaxRetries \/ losses[s] > 0

\* A copy of s comes to the lane before all copies of t.
Precedes(s, t) ==
    \E i \in DOMAIN log[LaneOf[s]] :
        /\ log[LaneOf[s]][i].source = s
        /\ \A j \in DOMAIN log[LaneOf[t]] : log[LaneOf[t]][j].source = t => i < j

\* What comes first in a topic is told first: the mail about a delivery precedes
\* the one about a shipment that was published earlier only if the latter was
\* refused or its handling failed; and so for any two events of a topic.
ToldInOrder ==
    \A s, t \in Sources :
        LaneOf[s] = LaneOf[t] /\ Precedes(s, t) /\ TypeOf[s] # "none" /\ mails[t] > 0 =>
            mails[s] > 0 \/ failed[s] > 0 \/ cuts[s] > 0

\* Whatever happens is in the end told or given up.
EventuallyTold == <>[](happened \subseteq settled \cup dead)

============================================================================
