----------------------------- MODULE OrderSaga -----------------------------
(***************************************************************************)
(* One order's way through the order processing saga: the Temporal         *)
(* workflow, the activity attempts it schedules, and everything else that  *)
(* reads or writes the same order row while it runs (the Kafka consumer    *)
(* that syncs the status, the cancel endpoint).                            *)
(*                                                                         *)
(*   workflow   `wf` is the call orderProcessingWorkflow is awaiting,      *)
(*              `comps` its compensation stack, `error` what it caught.    *)
(*   attempts   `running` holds every activity attempt that executes in a  *)
(*              worker.  Temporal runs an activity at least once: an       *)
(*              attempt that passes startToCloseTimeout is retried while   *)
(*              its function goes on running, and its late result is       *)
(*              dropped.                                                   *)
(*   order row  every writer loads the aggregate, checks the transition in *)
(*              memory and saves it in a later step; the row has no        *)
(*              version, so the save is unconditional.                     *)
(*   ledgers    what the other services did for this order, by attempt.    *)
(*                                                                         *)
(* Orders meet only in the stock they share.  Module Inventory models it,  *)
(* and orders with several items; here an order has one item, and a short  *)
(* stock is one of the errors an attempt may end with.                     *)
(* The endpoints through which an administrator acts on the services       *)
(* behind the workflow's back (POST payments, inventory/reserve, ...) are  *)
(* not part of this module; PATCH shipping/:id/status is.                  *)
(***************************************************************************)
EXTENDS Naturals, Sequences, FiniteSets, OrderStatus

CONSTANTS
    MaxAttempts,   \* maximumAttempts of the retry policy (3 in the code)
    Cancellers,    \* POST /orders/:id/cancel requests
    Faults,        \* which of FaultKinds happen
    MaxFaults      \* bound: how many of them happen in a behaviour

FaultKinds ==
    {"timeout",    \* an attempt passes startToCloseTimeout
     "crash",      \* a worker dies with an attempt in it, or the API process
                   \* dies in the middle of handling an event
     "error",      \* a database, broker or remote call throws
     "decline"}    \* the payment gateway declines

ASSUME MaxAttemptsAssumption == MaxAttempts \in Nat \ {0}
ASSUME FaultsAssumption == Faults \subseteq FaultKinds
ASSUME MaxFaultsAssumption == MaxFaults \in Nat

VARIABLES
    status,        \* orders.status
    wf,            \* the call the workflow awaits, or how it closed
    comps,         \* the compensations array
    error,         \* the error the workflow caught
    confirmed,     \* the flag the confirm signal sets
    cancelReq,     \* handle.cancel() was recorded by the Temporal server
    paidWith,      \* paymentId: the attempt whose result the workflow holds
    att,           \* att[s]: attempts of activity call s scheduled so far
    running,       \* attempts executing in a worker
    reservedBy,    \* attempts that wrote the reservation
    releasedBy,    \* attempts that wrote the release
    charged,       \* attempts that charged the gateway
    payments,      \* payments[n]: status of the payment attempt n recorded
    shippedBy,     \* attempts that saved a shipment
    notified,      \* notification types handed to the notification service
    events,        \* events of this order committed to the outbox
    syncing,       \* events the order consumer is handling
    cancelAt,      \* how far each cancel request got
    cancelSeen,    \* the status each cancel request loaded
    faults         \* faults so far

orderVars    == <<status, syncing, cancelAt, cancelSeen>>
workflowVars == <<wf, comps, error, confirmed, cancelReq, paidWith, att>>
ledgerVars   == <<reservedBy, releasedBy, charged, payments, shippedBy,
                  notified, events>>
vars == <<orderVars, workflowVars, running, ledgerVars, faults>>

----------------------------------------------------------------------------
\* Steps of the workflow

\* activities.updateOrderStatus, confirmOrder and cancelOrder, with the
\* status each asks the aggregate for.
Target ==
    [MarkReserved |-> "INVENTORY_RESERVED",
     MarkPaid     |-> "PAYMENT_PROCESSED",
     Confirm      |-> "CONFIRMED",
     MarkShipped  |-> "SHIPPED",
     Cancel       |-> "CANCELLED"]

OrderSteps == DOMAIN Target

TrySteps == {"Reserve", "MarkReserved", "Pay", "MarkPaid", "Confirm", "Ship",
             "MarkShipped", "NotifyConfirmed"}
CatchSteps == {"Refund", "Release", "Cancel", "NotifyCancelled"}
ActivitySteps == TrySteps \cup CatchSteps
Closed == {"Completed", "Failed", "Cancelled"}

\* Variant: the catch block ends without rethrowing.
NextStepWithoutRethrow ==
    [Reserve         |-> "MarkReserved",
     MarkReserved    |-> "Pay",
     Pay             |-> "MarkPaid",
     MarkPaid        |-> "AwaitConfirm",
     Confirm         |-> "Ship",
     Ship            |-> "MarkShipped",
     MarkShipped     |-> "NotifyConfirmed",
     NotifyConfirmed |-> "Completed",
     Cancel          |-> "NotifyCancelled",
     NotifyCancelled |-> "Completed"]

\* What follows a successful call; the two compensations continue in Unwind.
NextStep ==
    [Reserve         |-> "MarkReserved",
     MarkReserved    |-> "Pay",
     Pay             |-> "MarkPaid",
     MarkPaid        |-> "AwaitConfirm",
     Confirm         |-> "Ship",
     Ship            |-> "MarkShipped",
     MarkShipped     |-> "NotifyConfirmed",
     NotifyConfirmed |-> "Completed",
     Cancel          |-> "NotifyCancelled",
     NotifyCancelled |-> "Failed"]

\* compensations.push after reserveInventory and after processPayment.
Push(stack, step) ==
    CASE step = "Reserve" -> Append(stack, "Release")
      [] step = "Pay"     -> Append(stack, "Refund")
      [] OTHER            -> stack

Attempts == 1..MaxAttempts
Phases == {"start", "mid", "saved", "ok", "err"}
Runs == [step: ActivitySteps, n: Attempts, phase: Phases]

Run(step, n) == [step |-> step, n |-> n, phase |-> "start"]

\* One more fault of this kind happens.
Fault(kind) ==
    /\ kind \in Faults
    /\ faults < MaxFaults
    /\ faults' = faults + 1

\* r is the attempt the server waits for; any other one is a zombie.
Current(r) == r.step = wf /\ r.n = att[wf]

----------------------------------------------------------------------------
Init ==
    /\ status = "PENDING"
    /\ wf = "NotStarted"
    /\ comps = <<>>
    /\ error = "none"
    /\ confirmed = FALSE
    /\ cancelReq = FALSE
    /\ paidWith = 0
    /\ att = [s \in ActivitySteps |-> 0]
    /\ running = {}
    /\ reservedBy = {}
    /\ releasedBy = {}
    /\ charged = {}
    /\ payments = [n \in Attempts |-> "none"]
    /\ shippedBy = {}
    /\ notified = {}
    /\ events = {}
    /\ syncing = {}
    /\ cancelAt = [c \in Cancellers |-> "idle"]
    /\ cancelSeen = [c \in Cancellers |-> "PENDING"]
    /\ faults = 0

----------------------------------------------------------------------------
\* The workflow

\* The workflow makes call `step`; `others` are the attempts still running.
Goto(step, others) ==
    /\ wf' = step
    /\ IF step \in ActivitySteps
         THEN /\ att' = [att EXCEPT ![step] = 1]
              /\ running' = others \cup {Run(step, 1)}
         ELSE /\ UNCHANGED att
              /\ running' = others

\* Variant: the compensations are not reversed.
UnwindInOrder(stack, others) ==
    IF stack = <<>>
      THEN /\ comps' = stack
           /\ Goto("Cancel", others)
      ELSE /\ comps' = Tail(stack)
           /\ Goto(Head(stack), others)

\* The catch block: the last compensation pushed runs first, then cancelOrder.
Unwind(stack, others) ==
    IF stack = <<>>
      THEN /\ comps' = stack
           /\ Goto("Cancel", others)
      ELSE /\ comps' = SubSeq(stack, 1, Len(stack) - 1)
           /\ Goto(stack[Len(stack)], others)

\* The create use case starts the workflow after it saved the order.  When
\* the start fails the order stays PENDING without a workflow.
StartWorkflow ==
    /\ wf = "NotStarted"
    /\ Goto("Reserve", running)
    /\ UNCHANGED <<orderVars, comps, error, confirmed, cancelReq, paidWith,
                   ledgerVars, faults>>

\* POST /orders/:id/confirm signals the workflow, whatever the status; a
\* closed or absent workflow answers 409 and nothing changes.
SignalConfirm ==
    /\ wf \notin Closed \cup {"NotStarted"}
    /\ confirmed' = TRUE
    /\ UNCHANGED <<orderVars, wf, comps, error, cancelReq, paidWith, att,
                   running, ledgerVars, faults>>

ConfirmationArrives ==
    /\ wf = "AwaitConfirm"
    /\ ~cancelReq
    /\ confirmed
    /\ Goto("Confirm", running)
    /\ UNCHANGED <<orderVars, comps, error, confirmed, cancelReq, paidWith,
                   ledgerVars, faults>>

\* Variant: the result of condition() is not looked at.
TimeOutUnchecked ==
    /\ wf = "AwaitConfirm"
    /\ ~cancelReq
    /\ ~confirmed
    /\ Goto("Confirm", running)
    /\ UNCHANGED <<orderVars, comps, error, confirmed, cancelReq, paidWith,
                   ledgerVars, faults>>

\* condition(..., 24h) gives up and the workflow throws into its catch block.
ConfirmationTimesOut ==
    /\ wf = "AwaitConfirm"
    /\ ~cancelReq
    /\ ~confirmed
    /\ error' = "ConfirmationTimeout"
    /\ Unwind(comps, running)
    /\ UNCHANGED <<orderVars, confirmed, cancelReq, paidWith, ledgerVars,
                   faults>>

\* The result of the attempt the workflow awaits resolves the call.  With a
\* cancel request in the same activation the next call would be refused, which
\* WorkflowCancelled covers; only the last call lets the workflow return.
CompleteActivity(r) ==
    /\ r.phase = "ok"
    /\ Current(r)
    /\ cancelReq => wf = "NotifyConfirmed"
    /\ paidWith' = IF r.step = "Pay" THEN r.n ELSE paidWith
    /\ IF r.step \in {"Refund", "Release"}
         THEN Unwind(comps, running \ {r})
         ELSE /\ comps' = Push(comps, r.step)
              /\ Goto(NextStep[r.step], running \ {r})
    /\ UNCHANGED <<orderVars, error, confirmed, cancelReq, ledgerVars, faults>>

\* The awaited call rejects after its last attempt.  A compensation's error is
\* swallowed and the next one runs; a failed cancelOrder or notification ends
\* the catch block.
CallRejects(others) ==
    \/ /\ wf \in TrySteps
       /\ error' = "ActivityFailure"
       /\ Unwind(comps, others)
    \/ /\ wf \in {"Refund", "Release"}
       /\ Unwind(comps, others)
       /\ UNCHANGED error
    \/ /\ wf \in {"Cancel", "NotifyCancelled"}
       /\ Goto("Failed", others)
       /\ UNCHANGED <<comps, error>>

\* Variant: one attempt too many.
RetryOnceMore(others) ==
    IF att[wf] <= MaxAttempts
      THEN /\ att' = [att EXCEPT ![wf] = att[wf] + 1]
           /\ running' = others \cup {Run(wf, att[wf] + 1)}
           /\ UNCHANGED <<wf, comps, error>>
      ELSE CallRejects(others)

\* The retry policy: the server schedules the next attempt, up to MaxAttempts.
RetryOrReject(others) ==
    IF att[wf] < MaxAttempts
      THEN /\ att' = [att EXCEPT ![wf] = att[wf] + 1]
           /\ running' = others \cup {Run(wf, att[wf] + 1)}
           /\ UNCHANGED <<wf, comps, error>>
      ELSE CallRejects(others)

FailActivity(r) ==
    /\ r.phase = "err"
    /\ Current(r)
    /\ ~cancelReq
    /\ RetryOrReject(running \ {r})
    /\ UNCHANGED <<orderVars, confirmed, cancelReq, paidWith, ledgerVars,
                   faults>>

\* startToCloseTimeout: always for an attempt whose worker died, and, as a
\* fault, for one that still runs.
TimeOutActivity ==
    /\ wf \in ActivitySteps
    /\ ~cancelReq
    /\ IF \E r \in running : Current(r)
         THEN Fault("timeout")
         ELSE UNCHANGED faults
    /\ RetryOrReject(running)
    /\ UNCHANGED <<orderVars, confirmed, cancelReq, paidWith, ledgerVars>>

\* Variant: a late payment result replaces the payment id.
KeepLateResult(r) ==
    /\ r.phase \in {"ok", "err"}
    /\ ~Current(r)
    /\ running' = running \ {r}
    /\ paidWith' = IF r.step = "Pay" /\ r.phase = "ok" THEN r.n ELSE paidWith
    /\ UNCHANGED <<orderVars, wf, comps, error, confirmed, cancelReq, att,
                   ledgerVars, faults>>

\* The server refuses the result of an attempt it gave up.
DropLateResult(r) ==
    /\ r.phase \in {"ok", "err"}
    /\ ~Current(r)
    /\ running' = running \ {r}
    /\ UNCHANGED <<orderVars, workflowVars, ledgerVars, faults>>

\* Variant: only the wait for the confirmation can be cancelled.
CancelledWhileWaiting ==
    /\ cancelReq
    /\ wf = "AwaitConfirm"
    /\ wf' = "Cancelled"
    /\ error' = "CancelledFailure"
    /\ comps' = <<>>
    /\ UNCHANGED <<orderVars, confirmed, cancelReq, paidWith, att, running,
                   ledgerVars, faults>>

\* handle.cancel() cancels the root scope: the awaited call rejects at once,
\* and so does every call the catch block makes in the cancelled scope, the
\* compensations, cancelOrder and the notification included.  The attempt in
\* the worker is not told and runs on.
WorkflowCancelled ==
    /\ cancelReq
    /\ wf \in ActivitySteps \cup {"AwaitConfirm"}
    /\ IF wf \in CatchSteps
         THEN wf' = "Failed" /\ UNCHANGED error
         ELSE wf' = "Cancelled" /\ error' = "CancelledFailure"
    /\ comps' = <<>>
    /\ UNCHANGED <<orderVars, confirmed, cancelReq, paidWith, att, running,
                   ledgerVars, faults>>

----------------------------------------------------------------------------
\* The activities, one attempt at a time

\* Attempt r, being at phase `from`, has reached phase `to`.
Step(r, from, to) ==
    /\ r.phase = from
    /\ running' = (running \ {r}) \cup {[r EXCEPT !.phase = to]}

\* reserveInventory: the reservation is written, then its event.
WriteReservation(r) ==
    /\ r.step = "Reserve"
    /\ Step(r, "start", "saved")
    /\ reservedBy' = reservedBy \cup {r.n}
    /\ UNCHANGED <<orderVars, workflowVars, releasedBy, charged, payments,
                   shippedBy, notified, events, faults>>

PublishReservation(r) ==
    /\ r.step = "Reserve"
    /\ Step(r, "saved", "ok")
    /\ events' = events \cup {"inventory.reserved"}
    /\ UNCHANGED <<orderVars, workflowVars, reservedBy, releasedBy, charged,
                   payments, shippedBy, notified, faults>>

\* releaseInventory: the quantities are written, then the event, which no
\* consumer acts on.
WriteRelease(r) ==
    /\ r.step = "Release"
    /\ Step(r, "start", "saved")
    /\ releasedBy' = releasedBy \cup {r.n}
    /\ UNCHANGED <<orderVars, workflowVars, reservedBy, charged, payments,
                   shippedBy, notified, events, faults>>

PublishRelease(r) ==
    /\ r.step = "Release"
    /\ Step(r, "saved", "ok")
    /\ UNCHANGED <<orderVars, workflowVars, ledgerVars, faults>>

\* processPayment: every attempt has a payment id of its own; the gateway is
\* charged before anything is stored.
ChargeGateway(r) ==
    /\ r.step = "Pay"
    /\ Step(r, "start", "mid")
    /\ charged' = charged \cup {r.n}
    /\ UNCHANGED <<orderVars, workflowVars, reservedBy, releasedBy, payments,
                   shippedBy, notified, events, faults>>

\* Variant: the payment is recorded before the gateway is called.
RecordUncharged(r) ==
    /\ r.step = "Pay"
    /\ Step(r, "start", "ok")
    /\ payments' = [payments EXCEPT ![r.n] = "COMPLETED"]
    /\ events' = events \cup {"PaymentProcessed"}
    /\ UNCHANGED <<orderVars, workflowVars, reservedBy, releasedBy, charged,
                   shippedBy, notified, faults>>

\* The payment and its event are saved in one transaction.
RecordPayment(r) ==
    /\ r.step = "Pay"
    /\ Step(r, "mid", "ok")
    /\ payments' = [payments EXCEPT ![r.n] = "COMPLETED"]
    /\ events' = events \cup {"PaymentProcessed"}
    /\ UNCHANGED <<orderVars, workflowVars, reservedBy, releasedBy, charged,
                   shippedBy, notified, faults>>

\* The gateway declines: a FAILED payment is saved and the activity throws.
DeclinePayment(r) ==
    /\ Fault("decline")
    /\ r.step = "Pay"
    /\ Step(r, "start", "err")
    /\ payments' = [payments EXCEPT ![r.n] = "FAILED"]
    /\ UNCHANGED <<orderVars, workflowVars, reservedBy, releasedBy, charged,
                   shippedBy, notified, events>>

\* refundPayment(paymentId): only a COMPLETED payment can be refunded; the
\* record changes, the gateway is not called.
LoadPayment(r) ==
    /\ r.step = "Refund"
    /\ Step(r, "start", IF payments[paidWith] = "COMPLETED" THEN "mid" ELSE "err")
    /\ UNCHANGED <<orderVars, workflowVars, ledgerVars, faults>>

SaveRefund(r) ==
    /\ r.step = "Refund"
    /\ Step(r, "mid", "ok")
    /\ payments' = [payments EXCEPT ![paidWith] = "REFUNDED"]
    /\ UNCHANGED <<orderVars, workflowVars, reservedBy, releasedBy, charged,
                   shippedBy, notified, events, faults>>

\* mutateOrder: load the order and check the transition in memory, ...
LoadOrder(r) ==
    /\ r.step \in OrderSteps
    /\ Step(r, "start",
            IF CanTransition(status, Target[r.step]) THEN "mid" ELSE "err")
    /\ UNCHANGED <<orderVars, workflowVars, ledgerVars, faults>>

\* ... then save it, whatever the row holds by now.
SaveOrder(r) ==
    /\ r.step \in OrderSteps
    /\ Step(r, "mid", "ok")
    /\ status' = Target[r.step]
    /\ UNCHANGED <<syncing, cancelAt, cancelSeen, workflowVars, ledgerVars,
                   faults>>

\* Variant: the event is published before the shipment is saved.
AnnouncePickup(r) ==
    /\ r.step = "Ship"
    /\ Step(r, "start", "mid")
    /\ events' = events \cup {"shipment.created"}
    /\ UNCHANGED <<orderVars, workflowVars, reservedBy, releasedBy, charged,
                   payments, shippedBy, notified, faults>>

\* createShipment: the carrier is asked for a pickup, then a new shipment is
\* saved, then its event, in three separate writes.
RequestPickup(r) ==
    /\ r.step = "Ship"
    /\ Step(r, "start", "mid")
    /\ UNCHANGED <<orderVars, workflowVars, ledgerVars, faults>>

SaveShipment(r) ==
    /\ r.step = "Ship"
    /\ Step(r, "mid", "saved")
    /\ shippedBy' = shippedBy \cup {r.n}
    /\ UNCHANGED <<orderVars, workflowVars, reservedBy, releasedBy, charged,
                   payments, notified, events, faults>>

PublishShipment(r) ==
    /\ r.step = "Ship"
    /\ Step(r, "saved", "ok")
    /\ events' = events \cup {"shipment.created"}
    /\ UNCHANGED <<orderVars, workflowVars, reservedBy, releasedBy, charged,
                   payments, shippedBy, notified, faults>>

\* notifyUser: ORDER_CANCELLED has no entry in NOTIFICATION_TYPE_MAP, and the
\* adapter returns without sending anything.
NotifyUser(r) ==
    /\ r.step \in {"NotifyConfirmed", "NotifyCancelled"}
    /\ Step(r, "start", "ok")
    /\ notified' = IF r.step = "NotifyConfirmed"
                     THEN notified \cup {"ORDER_CONFIRMED"}
                     ELSE notified
    /\ UNCHANGED <<orderVars, workflowVars, reservedBy, releasedBy, charged,
                   payments, shippedBy, events, faults>>

\* Any call an attempt makes may throw: out of stock, no pickup, a database
\* or broker error.  What it wrote before stays written.
AttemptThrows(r) ==
    /\ Fault("error")
    /\ r.phase \in {"start", "mid", "saved"}
    /\ running' = (running \ {r}) \cup {[r EXCEPT !.phase = "err"]}
    /\ UNCHANGED <<orderVars, workflowVars, ledgerVars>>

\* The worker dies; the server learns of it when the attempt times out.
WorkerCrash(r) ==
    /\ Fault("crash")
    /\ running' = running \ {r}
    /\ UNCHANGED <<orderVars, workflowVars, ledgerVars>>

Execute(r) ==
    \/ WriteReservation(r)
    \/ PublishReservation(r)
    \/ WriteRelease(r)
    \/ PublishRelease(r)
    \/ ChargeGateway(r)
    \/ RecordPayment(r)
    \/ DeclinePayment(r)
    \/ LoadPayment(r)
    \/ SaveRefund(r)
    \/ LoadOrder(r)
    \/ SaveOrder(r)
    \/ RequestPickup(r)
    \/ SaveShipment(r)
    \/ PublishShipment(r)
    \/ NotifyUser(r)

----------------------------------------------------------------------------
\* The order consumer (OrderEventConsumer)

\* The handlers that change the order, and the status each one asks for.
SyncTarget ==
    [e \in {"inventory.reserved", "PaymentProcessed", "shipment.created",
            "shipment.delivered"} |->
        CASE e = "inventory.reserved" -> "INVENTORY_RESERVED"
          [] e = "PaymentProcessed"   -> "PAYMENT_PROCESSED"
          [] e = "shipment.created"   -> "SHIPPED"
          [] e = "shipment.delivered" -> "DELIVERED"]

SyncEvents == DOMAIN SyncTarget

\* Events of one topic are handled one after the other.
Topic(e) == IF e \in {"shipment.created", "shipment.delivered"}
              THEN "shipping.events" ELSE e

\* UpdateOrderStatusUseCase loads the order.  The same status, or an illegal
\* transition, returns without an error and changes nothing.  Delivery is at
\* least once, so a committed event can be handled again at any time.
SyncLoad(e) ==
    /\ e \in events
    /\ \A f \in syncing : Topic(f) # Topic(e)
    /\ CanTransition(status, SyncTarget[e])
    /\ syncing' = syncing \cup {e}
    /\ UNCHANGED <<status, cancelAt, cancelSeen, workflowVars, running,
                   ledgerVars, faults>>

SyncSave(e) ==
    /\ e \in syncing
    /\ status' = SyncTarget[e]
    /\ syncing' = syncing \ {e}
    /\ UNCHANGED <<cancelAt, cancelSeen, workflowVars, running, ledgerVars,
                   faults>>

\* The save throws or the API process dies: the event will be delivered again.
SyncFails(e) ==
    /\ Fault("crash") \/ Fault("error")
    /\ e \in syncing
    /\ syncing' = syncing \ {e}
    /\ UNCHANGED <<status, cancelAt, cancelSeen, workflowVars, running,
                   ledgerVars>>

\* PATCH /shipping/:id/status reaches DELIVERED for a shipment of this order.
DeliverShipment ==
    /\ shippedBy # {}
    /\ "shipment.delivered" \notin events
    /\ events' = events \cup {"shipment.delivered"}
    /\ UNCHANGED <<orderVars, workflowVars, running, reservedBy, releasedBy,
                   charged, payments, shippedBy, notified, faults>>

----------------------------------------------------------------------------
\* The cancel endpoint (CancelOrderUseCase)

CancelLoad(c) ==
    /\ cancelAt[c] = "idle"
    /\ cancelAt' = [cancelAt EXCEPT ![c] = "loaded"]
    /\ cancelSeen' = [cancelSeen EXCEPT ![c] = status]
    /\ UNCHANGED <<status, syncing, workflowVars, running, ledgerVars, faults>>

\* cancelOrderWorkflow: a closed or absent workflow is not an error.
CancelStopsWorkflow(c) ==
    /\ cancelAt[c] = "loaded"
    /\ cancelAt' = [cancelAt EXCEPT ![c] = "stopped"]
    /\ cancelReq' = (cancelReq \/ wf \notin Closed \cup {"NotStarted"})
    /\ UNCHANGED <<status, syncing, cancelSeen, wf, comps, error, confirmed,
                   paidWith, att, running, ledgerVars, faults>>

\* order.cancel() on the aggregate loaded at the start: 409 when that status
\* cannot be cancelled, else the row is overwritten.
CancelSaves(c) ==
    /\ cancelAt[c] = "stopped"
    /\ IF CanTransition(cancelSeen[c], "CANCELLED")
         THEN /\ status' = "CANCELLED"
              /\ cancelAt' = [cancelAt EXCEPT ![c] = "cancelled"]
         ELSE /\ cancelAt' = [cancelAt EXCEPT ![c] = "refused"]
              /\ UNCHANGED status
    /\ UNCHANGED <<syncing, cancelSeen, workflowVars, running, ledgerVars,
                   faults>>

----------------------------------------------------------------------------
Workflow ==
    \/ StartWorkflow
    \/ SignalConfirm
    \/ ConfirmationArrives
    \/ ConfirmationTimesOut
    \/ TimeOutActivity
    \/ WorkflowCancelled
    \/ \E r \in running : CompleteActivity(r) \/ FailActivity(r) \/ DropLateResult(r)

Workers == \E r \in running : Execute(r) \/ AttemptThrows(r) \/ WorkerCrash(r)

Consumer ==
    \/ DeliverShipment
    \/ \E e \in SyncEvents : SyncLoad(e) \/ SyncSave(e) \/ SyncFails(e)

CancelEndpoint ==
    \E c \in Cancellers : CancelLoad(c) \/ CancelStopsWorkflow(c) \/ CancelSaves(c)

Next == Workflow \/ Workers \/ Consumer \/ CancelEndpoint

Spec == Init /\ [][Next]_vars

\* What Temporal guarantees while a worker polls the task queue: the attempt it
\* waits for goes on executing and its result is delivered, an attempt whose
\* worker died times out, the confirmation timer fires, and a cancel request
\* reaches the workflow.  Nothing is assumed of customers, of the consumer, of
\* zombie attempts, or of the start of the workflow.
FairSpec ==
    /\ Spec
    /\ WF_vars(\E r \in running : Current(r) /\ Execute(r))
    /\ WF_vars(\E r \in running : CompleteActivity(r) \/ FailActivity(r))
    /\ WF_vars(TimeOutActivity)
    /\ WF_vars(ConfirmationArrives)
    /\ WF_vars(ConfirmationTimesOut)
    /\ WF_vars(WorkflowCancelled)

----------------------------------------------------------------------------
\* Properties

PaymentStatus == {"none", "COMPLETED", "FAILED", "REFUNDED"}

TypeOK ==
    /\ status \in Status
    /\ wf \in ActivitySteps \cup Closed \cup {"NotStarted", "AwaitConfirm"}
    /\ comps \in {<<>>, <<"Release">>, <<"Release", "Refund">>}
    /\ error \in {"none", "ActivityFailure", "ConfirmationTimeout",
                  "CancelledFailure"}
    /\ confirmed \in BOOLEAN
    /\ cancelReq \in BOOLEAN
    /\ paidWith \in Attempts \cup {0}
    /\ att \in [ActivitySteps -> 0..MaxAttempts]
    /\ running \subseteq Runs
    /\ reservedBy \subseteq Attempts
    /\ releasedBy \subseteq Attempts
    /\ charged \subseteq Attempts
    /\ payments \in [Attempts -> PaymentStatus]
    /\ shippedBy \subseteq Attempts
    /\ notified \subseteq {"ORDER_CONFIRMED"}
    /\ events \subseteq SyncEvents
    /\ syncing \subseteq SyncEvents
    /\ cancelAt \in [Cancellers -> {"idle", "loaded", "stopped", "cancelled",
                                    "refused"}]
    /\ cancelSeen \in [Cancellers -> Status]
    /\ faults \in 0..MaxFaults

Recorded(n) == payments[n] \in {"COMPLETED", "REFUNDED"}

\* What has happened to the order, for OrderLifecycle: the names of its steps
\* and what each of them left in the ledgers.
Happened(e) ==
    \/ e = "asked"     /\ \E c \in Cancellers : cancelAt[c] # "idle"
    \/ e = "confirmed" /\ confirmed
    \/ e = "reserved"  /\ reservedBy # {}
    \/ e = "charged"   /\ charged # {}
    \/ e = "paid"      /\ \E n \in Attempts : Recorded(n)
    \/ e = "shipped"   /\ shippedBy # {}
    \/ e = "told"      /\ "ORDER_CONFIRMED" \in notified
    \/ e = "delivered" /\ "shipment.delivered" \in events
    \/ e = "refunded"  /\ \E n \in Attempts : payments[n] = "REFUNDED"
    \/ e = "released"  /\ releasedBy # {}

Done ==
    {e \in {"asked", "confirmed", "reserved", "charged", "paid", "shipped",
            "told", "delivered", "refunded", "released"} : Happened(e)}

Stage ==
    CASE wf = "NotStarted"            -> "placed"
      [] wf \in CatchSteps            -> "undoing"
      [] wf = "Completed"             -> "completed"
      [] wf \in {"Failed", "Cancelled"} -> "closed"
      [] OTHER                        -> "going"

Lifecycle == INSTANCE OrderLifecycle WITH
                 stage <- Stage, done <- Done, shown <- status

\* The saga keeps the promises of OrderLifecycle: things happen to the order in
\* the order given there, a confirmation, a refund or a release only at the
\* stages where it makes sense, nothing but the delivery after the workflow
\* completed, and every status shown, stale saves included, stands for what
\* has happened.
FollowsOrderLifecycle == Lifecycle!Spec

\* What must have happened before an order may show status st.
Earned(st) ==
    /\ st \notin {"PENDING", "CANCELLED"} => reservedBy # {}
    /\ st \in {"PAYMENT_PROCESSED", "CONFIRMED", "SHIPPED", "DELIVERED"} =>
           \E n \in Attempts : Recorded(n)
    /\ st \in {"CONFIRMED", "SHIPPED", "DELIVERED"} => confirmed
    /\ st \in {"SHIPPED", "DELIVERED"} => shippedBy # {}

\* The stored status never claims more than what happened: whatever retries,
\* zombie attempts, redelivered events and stale saves write the row, a status
\* is only ever stored after the reservation, the payment, the confirmation
\* and the shipment it stands for.
StatusIsEarned == Earned(status)

\* The workflow never ships, in any attempt, an order the customer has not
\* confirmed or for which it does not hold a recorded payment.
ShipsOnlyPaidAndConfirmed ==
    (shippedBy # {} \/ \E r \in running : r.step = "Ship") =>
        /\ confirmed
        /\ paidWith # 0
        /\ Recorded(paidWith)

\* An order whose workflow completed keeps everything the saga did for it: the
\* reservation is not released, the payment it holds is not refunded, and a
\* shipment exists, even with late attempts still running.
CompletedKeepsItsEffects ==
    wf = "Completed" =>
        /\ reservedBy # {}
        /\ releasedBy = {}
        /\ payments[paidWith] = "COMPLETED"
        /\ shippedBy # {}
        /\ "ORDER_CONFIRMED" \in notified

\* Only the payment whose id the workflow received is ever refunded, and only
\* after the workflow caught an error: a payment recorded by an attempt that
\* timed out is never touched, nor is one of a workflow still on its way.
RefundsOnlyTheHeldPayment ==
    \A n \in Attempts :
        payments[n] = "REFUNDED" => n = paidWith /\ error # "none"

\* Compensation is last in, first out, and no compensation is skipped: unless a
\* cancel request intervened, the release starts only once the refund has
\* happened or has been tried MaxAttempts times, and cancelOrder starts only
\* once the same holds of the release.
CompensatedOrExhausted ==
    ~cancelReq =>
        /\ wf \in {"Release", "Cancel", "NotifyCancelled", "Failed"}
              /\ paidWith # 0 =>
           payments[paidWith] = "REFUNDED" \/ att["Refund"] = MaxAttempts
        /\ wf \in {"Cancel", "NotifyCancelled", "Failed"}
              /\ att["MarkReserved"] > 0 =>
           releasedBy # {} \/ att["Release"] = MaxAttempts

\* A started workflow closes: every call ends after at most MaxAttempts
\* attempts, the wait for the confirmation ends by itself, and a cancel request
\* is honoured.
WorkflowCloses == wf # "NotStarted" ~> wf \in Closed

\* README.md:93 "24h timeout -> Auto-cancel": when the confirmation does not
\* come in time, the order ends CANCELLED.
TimeoutCancelsOrder ==
    wf = "Failed" /\ error = "ConfirmationTimeout" => status = "CANCELLED"

\* docs/api-testing.md:180 "This triggers Temporal compensation": once a
\* cancelled order is at rest, the reservation its workflow held is released.
CancelReleasesInventory ==
    /\ \E c \in Cancellers : cancelAt[c] = "cancelled"
    /\ wf \in Closed
    /\ running = {}
    /\ att["MarkReserved"] > 0
    => releasedBy # {}

\* order-event-consumer.ts:21 "The primary order flow is orchestrated by
\* Temporal. These consumers handle supplementary status syncing": with no
\* fault, no decline and no cancel request, no activity of the workflow fails.
HealthyOrderNeverFails == error # "ActivityFailure"

\* docs/structure.md:247 draws the states an order goes through: the stored
\* status changes only along the transitions of the state machine.
StoredStatusFollowsStateMachine ==
    [][CanTransition(status, status')]_status

============================================================================
