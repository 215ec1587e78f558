------------------------------ MODULE Shipping ------------------------------
(***************************************************************************)
(* The shipping service for one confirmed order: CreateShipmentUseCase and *)
(* UpdateShipmentStatusUseCase with the shipments table, their events, and *)
(* the two writers that carry a shipment into the status of the order: the *)
(* order consumer and the workflow.                                        *)
(*                                                                         *)
(* Every execution of createShipment makes a shipment of its own; nothing  *)
(* keeps an order from having several.  The way of an event through the    *)
(* outbox and the topic to the consumer, module EventDelivery, is here one *)
(* queue: a fault requeues its head or delivers a handled event again.     *)
(***************************************************************************)
EXTENDS OrderStatus, Naturals, Sequences, FiniteSets, SequencesExt

CONSTANTS
    Shipments,  \* bound: executions of createShipment
    Updates,    \* bound: executions of updateShipmentStatus
    MaxFaults   \* bound: calls cut off, requeues and redeliveries

ASSUME MaxFaultsAssumption == MaxFaults \in Nat

VARIABLES
    create,   \* create[s]: where createShipment is
    row,      \* row[s]: the status stored in shipments, or "none"
    update,   \* update[u]: a status update, its shipment and its target
    queue,    \* events on their way to the order consumer
    handled,  \* history: the events the consumer handled, in order
    order,    \* the stored status of the order
    sync,     \* sync[w]: the status writer w loaded and the one it will save
    overlap,  \* history: shipments two updates had loaded at the same time
    stale,    \* history: a writer saved over another status than it had loaded
    faults    \* faults so far

serviceVars == <<create, row, update, overlap>>
orderVars == <<order, sync, stale, handled>>
vars == <<serviceVars, queue, orderVars, faults>>

ShipmentStatus == {"PENDING", "PICKED_UP", "IN_TRANSIT", "DELIVERED", "RETURNED"}
Writers == {"consumer", "workflow"}

\* Variant: a delivered shipment can be returned.
CanMoveBack(from, to) ==
    \/ <<from, to>> \in {<<"PENDING", "PICKED_UP">>, <<"PICKED_UP", "IN_TRANSIT">>,
                         <<"IN_TRANSIT", "DELIVERED">>}
    \/ from \in {"PENDING", "PICKED_UP", "IN_TRANSIT", "DELIVERED"} /\ to = "RETURNED"

\* VALID_TRANSITIONS of ShipmentStatus.
CanMove(from, to) ==
    \/ <<from, to>> \in {<<"PENDING", "PICKED_UP">>, <<"PICKED_UP", "IN_TRANSIT">>,
                         <<"IN_TRANSIT", "DELIVERED">>}
    \/ from \in {"PENDING", "PICKED_UP", "IN_TRANSIT"} /\ to = "RETURNED"

NewUpdate == [stage |-> "new", shipment |-> "none", target |-> "none"]
NoSync == [from |-> "none", to |-> "none"]
Event(s, type) == [shipment |-> s, type |-> type]
Fault == faults < MaxFaults /\ faults' = faults + 1

Init ==
    /\ create = [s \in Shipments |-> "new"]
    /\ row = [s \in Shipments |-> "none"]
    /\ update = [u \in Updates |-> NewUpdate]
    /\ queue = <<>>
    /\ handled = <<>>
    /\ order = "CONFIRMED"
    /\ sync = [w \in Writers |-> NoSync]
    /\ overlap = {}
    /\ stale = FALSE
    /\ faults = 0

----------------------------------------------------------------------------
\* createShipment

\* Shipment.create in memory, then the pickup is requested from the carrier.
RequestPickup(s) ==
    /\ create[s] = "new"
    /\ create' = [create EXCEPT ![s] = "booked"]
    /\ UNCHANGED <<row, update, overlap, queue, orderVars, faults>>

\* Variant: save() clears the events, as the payment repository does.
SaveAndClear(s) ==
    /\ create[s] = "booked"
    /\ create' = [create EXCEPT ![s] = "done"]
    /\ row' = [row EXCEPT ![s] = "PENDING"]
    /\ UNCHANGED <<update, overlap, queue, orderVars, faults>>

\* assignCarrier, then the insert.
SaveShipment(s) ==
    /\ create[s] = "booked"
    /\ create' = [create EXCEPT ![s] = "saved"]
    /\ row' = [row EXCEPT ![s] = "PENDING"]
    /\ UNCHANGED <<update, overlap, queue, orderVars, faults>>

\* shipment.created goes to the outbox by a statement of its own.
Announce(s) ==
    /\ create[s] = "saved"
    /\ create' = [create EXCEPT ![s] = "done"]
    /\ queue' = Append(queue, Event(s, "Created"))
    /\ UNCHANGED <<row, update, overlap, orderVars, faults>>

\* The carrier or the database throws, or the process dies.
CreateFails(s) ==
    /\ Fault
    /\ create[s] \in {"booked", "saved"}
    /\ create' = [create EXCEPT ![s] = "failed"]
    /\ UNCHANGED <<row, update, overlap, queue, orderVars>>

----------------------------------------------------------------------------
\* updateShipmentStatus

\* Variant: the event is published before the status is stored.
SaveUpdateLast(u) ==
    LET s == update[u].shipment
        t == update[u].target
    IN  \/ /\ update[u].stage = "save"
           /\ update' = [update EXCEPT ![u].stage = "publish"]
           /\ queue' = IF t = "DELIVERED" THEN Append(queue, Event(s, "Delivered")) ELSE queue
           /\ UNCHANGED <<create, row, overlap, orderVars, faults>>
        \/ /\ update[u].stage = "publish"
           /\ update' = [update EXCEPT ![u].stage = "done"]
           /\ row' = [row EXCEPT ![s] = t]
           /\ UNCHANGED <<create, overlap, queue, orderVars, faults>>

\* findById and the transition method, which throws for PENDING, for a status
\* it does not know and for a transition that is not allowed.
LoadShipment(u, s, t) ==
    /\ update[u] = NewUpdate
    /\ row[s] # "none"
    /\ update' = [update EXCEPT ![u] =
                     IF CanMove(row[s], t)
                       THEN [stage |-> "save", shipment |-> s, target |-> t]
                       ELSE [NewUpdate EXCEPT !.stage = "refused"]]
    /\ overlap' = IF \E v \in Updates : update[v].stage = "save" /\ update[v].shipment = s
                    THEN overlap \cup {s} ELSE overlap
    /\ UNCHANGED <<create, row, queue, orderVars, faults>>

\* updateStatus overwrites whatever is stored, then publishAll inserts the
\* event, which only deliver() adds.
SaveUpdate(u) ==
    LET s == update[u].shipment
        t == update[u].target
    IN  \/ /\ update[u].stage = "save"
           /\ update' = [update EXCEPT ![u].stage = "publish"]
           /\ row' = [row EXCEPT ![s] = t]
           /\ UNCHANGED <<create, overlap, queue, orderVars, faults>>
        \/ /\ update[u].stage = "publish"
           /\ update' = [update EXCEPT ![u].stage = "done"]
           /\ queue' = IF t = "DELIVERED" THEN Append(queue, Event(s, "Delivered")) ELSE queue
           /\ UNCHANGED <<create, row, overlap, orderVars, faults>>

UpdateFails(u) ==
    /\ Fault
    /\ update[u].stage \in {"save", "publish"}
    /\ update' = [update EXCEPT ![u].stage = "failed"]
    /\ UNCHANGED <<create, row, overlap, queue, orderVars>>

----------------------------------------------------------------------------
\* The order

\* The handlers of the order consumer on the shipping topic.
StatusOf(type) == IF type = "Created" THEN "SHIPPED" ELSE "DELIVERED"

\* The consumer is through with the head of the queue.
Settle ==
    /\ handled' = Append(handled, Head(queue))
    /\ queue' = Tail(queue)

\* Variant: the consumer does not check the transition.
ConsumerLoadsAny ==
    /\ queue # <<>>
    /\ sync["consumer"] = NoSync
    /\ sync' = [sync EXCEPT !["consumer"] =
                    [from |-> order, to |-> StatusOf(Head(queue).type)]]
    /\ UNCHANGED <<serviceVars, queue, order, stale, handled, faults>>

\* UpdateOrderStatusUseCase loads the order.  An event that asks for the stored
\* status, or for one the order cannot move to, is dropped without an error.
ConsumerLoads ==
    /\ queue # <<>>
    /\ sync["consumer"] = NoSync
    /\ LET target == StatusOf(Head(queue).type)
       IN  IF CanTransition(order, target)
             THEN /\ sync' = [sync EXCEPT !["consumer"] = [from |-> order, to |-> target]]
                  /\ UNCHANGED <<queue, handled>>
             ELSE Settle /\ UNCHANGED sync
    /\ UNCHANGED <<serviceVars, order, stale, faults>>

\* save() overwrites the stored status.
SaveOrder(w) ==
    /\ order' = sync[w].to
    /\ stale' = (stale \/ order \notin {sync[w].from, sync[w].to})
    /\ sync' = [sync EXCEPT ![w] = NoSync]

ConsumerSaves ==
    /\ sync["consumer"] # NoSync
    /\ SaveOrder("consumer")
    /\ Settle
    /\ UNCHANGED <<serviceVars, faults>>

\* The handler throws and the event is appended to the topic again; a send of
\* the poller that fails has the same effect.
Requeue ==
    /\ Fault
    /\ queue # <<>>
    /\ queue' = Append(Tail(queue), Head(queue))
    /\ sync' = [sync EXCEPT !["consumer"] = NoSync]
    /\ UNCHANGED <<serviceVars, order, stale, handled>>

\* After a restart the consumer gets events again that it has handled.
Redeliver(e) ==
    /\ Fault
    /\ queue' = <<e>> \o queue
    /\ sync' = [sync EXCEPT !["consumer"] = NoSync]
    /\ UNCHANGED <<serviceVars, order, stale, handled>>

\* When its createShipment has returned, the workflow moves the order to
\* SHIPPED itself.
WorkflowLoads ==
    /\ \E s \in Shipments : create[s] = "done"
    /\ sync["workflow"] = NoSync
    /\ CanTransition(order, "SHIPPED")
    /\ sync' = [sync EXCEPT !["workflow"] = [from |-> order, to |-> "SHIPPED"]]
    /\ UNCHANGED <<serviceVars, queue, order, stale, handled, faults>>

WorkflowSaves ==
    /\ sync["workflow"] # NoSync
    /\ SaveOrder("workflow")
    /\ UNCHANGED <<serviceVars, queue, handled, faults>>

----------------------------------------------------------------------------
Next ==
    \/ \E s \in Shipments :
          RequestPickup(s) \/ SaveShipment(s) \/ Announce(s) \/ CreateFails(s)
    \/ \E u \in Updates :
          \/ \E s \in Shipments, t \in ShipmentStatus : LoadShipment(u, s, t)
          \/ SaveUpdate(u) \/ UpdateFails(u)
    \/ ConsumerLoads \/ ConsumerSaves \/ Requeue
    \/ \E e \in ToSet(handled) : Redeliver(e)
    \/ WorkflowLoads \/ WorkflowSaves

Spec == Init /\ [][Next]_vars

----------------------------------------------------------------------------
\* Properties

Events == [shipment : Shipments, type : {"Created", "Delivered"}]

TypeOK ==
    /\ create \in [Shipments -> {"new", "booked", "saved", "done", "failed"}]
    /\ row \in [Shipments -> {"none"} \cup ShipmentStatus]
    /\ update \in [Updates -> [stage : {"new", "save", "publish", "done", "refused", "failed"},
                               shipment : Shipments \cup {"none"},
                               target : ShipmentStatus \cup {"none"}]]
    /\ queue \in Seq(Events)
    /\ handled \in Seq(Events)
    /\ order \in {"CONFIRMED", "SHIPPED", "DELIVERED"}
    /\ sync \in [Writers -> [from : {"none", "CONFIRMED", "SHIPPED"},
                          to : {"none", "SHIPPED", "DELIVERED"}]]
    /\ overlap \subseteq Shipments
    /\ stale \in BOOLEAN
    /\ faults \in 0..MaxFaults

\* The order is DELIVERED only if one of its shipments was stored as delivered,
\* and SHIPPED only if one was stored at all, whatever failed in between.
OrderNeverAheadOfShipments ==
    /\ order # "CONFIRMED" => \E s \in Shipments : row[s] # "none"
    /\ order = "DELIVERED" =>
          \E s \in Shipments : row[s] = "DELIVERED" \/ s \in overlap

\* Requeued, repeated and doubled events cannot take the order back, and once
\* the consumer handled a delivery after a creation the order is DELIVERED;
\* only a save over a status that was not the loaded one can undo that.
DeliveryReachesTheOrder ==
    \/ stale
    \/ \A i, j \in DOMAIN handled :
          i < j /\ handled[i].type = "Created" /\ handled[j].type = "Delivered"
              => order = "DELIVERED"

\* A delivery that was announced stands, and is announced once: only two
\* updates that had both loaded the shipment can announce twice or return it.
AnnouncedDeliveryStands ==
    \A s \in Shipments \ overlap :
        LET announced == {u \in Updates : /\ update[u].shipment = s
                                          /\ update[u].target = "DELIVERED"
                                          /\ update[u].stage \in {"publish", "done"}}
        IN  /\ Cardinality(announced) <= 1
            /\ announced # {} => row[s] = "DELIVERED"

\* A stored shipment is announced, unless its call is still under way or failed
\* in between; no event is about a shipment that was not stored.
ShipmentsAreAnnounced ==
    \A s \in Shipments :
        LET told == Event(s, "Created") \in ToSet(queue) \cup ToSet(handled)
        IN  /\ row[s] # "none" /\ ~told => create[s] \in {"saved", "failed"}
            /\ told => row[s] # "none"

============================================================================
