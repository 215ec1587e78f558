--------------------------- MODULE ShippingProofs ---------------------------
(***************************************************************************)
(* Machine-checked proofs about Shipping, for any number of shipments,     *)
(* status updates and faults.                                              *)
(***************************************************************************)
EXTENDS Shipping, FiniteSetTheorems, TLAPS

Stored(s) == row[s] # "none"

\* Delivered, as far as updates that did not overlap can tell.
Delivered(s) == row[s] = "DELIVERED" \/ s \in overlap

Told(e) == e \in ToSet(queue) \/ e \in ToSet(handled)

\* Update u has loaded s and will save it; update u has stored its delivery.
Saves(u, s) == update[u].stage = "save" /\ update[u].shipment = s
Announced(u, s) ==
    /\ update[u].shipment = s
    /\ update[u].target = "DELIVERED"
    /\ update[u].stage \in {"publish", "done"}

Shape ==
    /\ create \in [Shipments -> {"new", "booked", "saved", "done", "failed"}]
    /\ row \in [Shipments -> {"none"} \cup ShipmentStatus]
    /\ update \in [Updates -> [stage : {"new", "save", "publish", "done", "refused", "failed"},
                               shipment : Shipments \cup {"none"},
                               target : ShipmentStatus \cup {"none"}]]
    /\ overlap \subseteq Shipments
    /\ faults \in 0..MaxFaults

OrderShape ==
    /\ queue \in Seq(Events)
    /\ handled \in Seq(Events)
    /\ order \in {"CONFIRMED", "SHIPPED", "DELIVERED"}
    /\ sync \in [Writers -> [from : {"none", "CONFIRMED", "SHIPPED"},
                          to : {"none", "SHIPPED", "DELIVERED"}]]
    /\ stale \in BOOLEAN

\* How far a createShipment got says whether the shipment is stored.
CreateOK(s) ==
    /\ create[s] \in {"new", "booked"} => ~Stored(s)
    /\ create[s] \in {"saved", "done"} => Stored(s)

\* An update has checked its target against the row; the check still holds, and
\* its delivery still stands, unless it met another update.
UpdateOK(u) ==
    /\ update[u].stage \in {"save", "publish", "done"} =>
           /\ update[u].shipment \in Shipments
           /\ update[u].target \in {"PICKED_UP", "IN_TRANSIT", "DELIVERED", "RETURNED"}
           /\ Stored(update[u].shipment)
    /\ \A s \in Shipments \ overlap :
           /\ Saves(u, s) => CanMove(row[s], update[u].target)
           /\ Announced(u, s) => row[s] = "DELIVERED"

\* Two updates of one shipment meet only by an overlap.
PairOK(u, v) ==
    \A s \in Shipments \ overlap :
        /\ ~(Saves(u, s) /\ Saves(v, s))
        /\ ~(Announced(u, s) /\ Announced(v, s))

ServiceOK ==
    /\ Shape
    /\ \A s \in Shipments : CreateOK(s)
    /\ \A u \in Updates : UpdateOK(u)
    /\ \A u, v \in Updates : u # v => PairOK(u, v)

\* What a status says of the shipments.
Backed(status) ==
    /\ status \in {"SHIPPED", "DELIVERED"} => \E s \in Shipments : Stored(s)
    /\ status = "DELIVERED" => \E s \in Shipments : Delivered(s)

\* An event is about something that happened.
EventOK(e) == Stored(e.shipment) /\ (e.type = "Delivered" => Delivered(e.shipment))

SyncOK ==
    /\ \A w \in Writers :
           /\ Backed(sync[w].to)
           /\ sync[w] # NoSync => CanTransition(sync[w].from, sync[w].to)
    /\ sync["consumer"] # NoSync =>
           queue # <<>> /\ sync["consumer"].to = StatusOf(Head(queue).type)
    /\ sync["workflow"] # NoSync => sync["workflow"].to = "SHIPPED"

HasCreated(h) == \E i \in DOMAIN h : h[i].type = "Created"
Paired(h) ==
    \E i, j \in DOMAIN h : i < j /\ h[i].type = "Created" /\ h[j].type = "Delivered"

\* What the consumer handled and the status it led to.
HandledOK ==
    /\ HasCreated(handled) => order # "CONFIRMED"
    /\ stale \/ (Paired(handled) => order = "DELIVERED")

IInv ==
    /\ ServiceOK
    /\ OrderShape
    /\ \A e \in Events : Told(e) => EventOK(e)
    /\ \A s \in Shipments : create[s] = "done" => Told(Event(s, "Created"))
    /\ SyncOK
    /\ Backed(order)
    /\ HandledOK

----------------------------------------------------------------------------
\* The data

LEMMA Moves ==
    ASSUME NEW from, NEW to, CanMove(from, to)
    PROVE  /\ from \notin {"none", "DELIVERED", "RETURNED"}
           /\ to \in {"PICKED_UP", "IN_TRANSIT", "DELIVERED", "RETURNED"}
BY DEF CanMove

LEMMA Transitions ==
    /\ \A f : CanTransition(f, "SHIPPED") <=> f = "CONFIRMED"
    /\ \A f : CanTransition(f, "DELIVERED") <=> f = "SHIPPED"
BY DEF CanTransition, ValidTransitions

LEMMA Appended ==
    ASSUME NEW S, NEW q \in Seq(S), NEW e \in S
    PROVE  /\ Append(q, e) \in Seq(S)
           /\ Append(q, e) # <<>>
           /\ \A x : x \in ToSet(Append(q, e)) <=> x \in ToSet(q) \/ x = e
           /\ q # <<>> => Head(Append(q, e)) = Head(q)
<1>1. /\ Append(q, e) \in Seq(S)
      /\ Len(Append(q, e)) = Len(q) + 1
      /\ \A i \in 1..Len(q) : Append(q, e)[i] = q[i]
      /\ Append(q, e)[Len(q) + 1] = e
  OBVIOUS
<1>2. DOMAIN Append(q, e) = DOMAIN q \cup {Len(q) + 1} /\ DOMAIN q = 1..Len(q)
  BY <1>1
<1>3. \A x : x \in ToSet(Append(q, e)) <=> x \in ToSet(q) \/ x = e
  BY <1>1, <1>2 DEF ToSet
<1>4. q # <<>> => Head(Append(q, e)) = Head(q)
  BY <1>1
<1>5. Append(q, e) # <<>>
  <2>1. Len(Append(q, e)) # 0 /\ Len(<<>>) = 0
    BY <1>1
  <2> QED BY <2>1
<1> QED BY <1>1, <1>3, <1>4, <1>5

LEMMA Taken ==
    ASSUME NEW S, NEW q \in Seq(S), q # <<>>
    PROVE  /\ Tail(q) \in Seq(S)
           /\ Head(q) \in S
           /\ \A x : x \in ToSet(q) <=> x \in ToSet(Tail(q)) \/ x = Head(q)
<1>1. /\ Tail(q) \in Seq(S) /\ Head(q) \in S
      /\ Len(Tail(q)) = Len(q) - 1
      /\ Head(q) = q[1]
      /\ \A i \in 1..Len(Tail(q)) : Tail(q)[i] = q[i + 1]
      /\ Len(q) \in Nat \ {0}
  OBVIOUS
<1>2. DOMAIN q = 1..Len(q) /\ DOMAIN Tail(q) = 1..Len(Tail(q))
  BY <1>1
<1>3. ASSUME NEW x, x \in ToSet(q) PROVE x \in ToSet(Tail(q)) \/ x = Head(q)
  <2>1. PICK i \in 1..Len(q) : x = q[i]
    BY <1>2, <1>3 DEF ToSet
  <2>2. CASE i = 1
    BY <1>1, <2>1, <2>2
  <2>3. CASE i # 1
    <3>1. i - 1 \in 1..Len(Tail(q)) /\ Tail(q)[i - 1] = x
      BY <1>1, <2>1, <2>3
    <3> QED BY <1>2, <3>1 DEF ToSet
  <2> QED BY <2>2, <2>3
<1>4. ASSUME NEW x, x \in ToSet(Tail(q)) \/ x = Head(q) PROVE x \in ToSet(q)
  <2>1. CASE x = Head(q)
    <3>1. 1 \in 1..Len(q) /\ x = q[1]
      BY <1>1, <2>1
    <3> QED BY <1>2, <3>1 DEF ToSet
  <2>2. CASE x \in ToSet(Tail(q))
    <3>1. PICK i \in 1..Len(Tail(q)) : x = Tail(q)[i]
      BY <1>2, <2>2 DEF ToSet
    <3>2. i \in Nat /\ i + 1 \in 1..Len(q)
      BY <1>1, <3>1
    <3>3. x = q[i + 1]
      BY <1>1, <3>1
    <3> QED BY <1>2, <3>2, <3>3 DEF ToSet
  <2> QED BY <1>4, <2>1, <2>2
<1> QED BY <1>1, <1>3, <1>4

LEMMA Prepended ==
    ASSUME NEW S, NEW q \in Seq(S), NEW e \in S
    PROVE  /\ <<e>> \o q \in Seq(S)
           /\ \A x : x \in ToSet(<<e>> \o q) <=> x \in ToSet(q) \/ x = e
<1> DEFINE p == <<e>> \o q
<1>1. /\ p \in Seq(S)
      /\ p # <<>>
      /\ Head(p) = e
      /\ Tail(p) = q
  OBVIOUS
<1> QED BY <1>1, Taken

\* What one more handled event adds.
LEMMA HandledOneMore ==
    ASSUME NEW h \in Seq(Events), NEW e \in Events
    PROVE  /\ HasCreated(Append(h, e)) <=> HasCreated(h) \/ e.type = "Created"
           /\ Paired(Append(h, e)) =>
                  Paired(h) \/ (HasCreated(h) /\ e.type = "Delivered")
<1>1. /\ \A i \in DOMAIN h : Append(h, e)[i] = h[i]
      /\ Append(h, e)[Len(h) + 1] = e
      /\ DOMAIN Append(h, e) = DOMAIN h \cup {Len(h) + 1}
      /\ DOMAIN h = 1..Len(h) /\ Len(h) \in Nat
  OBVIOUS
<1>2. HasCreated(Append(h, e)) <=> HasCreated(h) \/ e.type = "Created"
  BY <1>1 DEF HasCreated
<1>3. ASSUME Paired(Append(h, e)) PROVE Paired(h) \/ (HasCreated(h) /\ e.type = "Delivered")
  <2> DEFINE g == Append(h, e)
  <2>1. PICK i \in DOMAIN g, j \in DOMAIN g :
            i < j /\ g[i].type = "Created" /\ g[j].type = "Delivered"
    BY <1>3 DEF Paired
  <2>2. i \in DOMAIN h /\ g[i] = h[i]
    BY <1>1, <2>1
  <2>3. CASE j = Len(h) + 1
    BY <1>1, <2>1, <2>2, <2>3 DEF HasCreated
  <2>4. CASE j \in DOMAIN h
    BY <1>1, <2>1, <2>2, <2>4 DEF Paired
  <2> QED BY <1>1, <2>1, <2>3, <2>4
<1> QED BY <1>2, <1>3

----------------------------------------------------------------------------
\* The service

\* What is stored stays stored, and a delivery stands.
Grows == \A s \in Shipments : (Stored(s) => Stored(s)') /\ (Delivered(s) => Delivered(s)')

LEMMA RequestPickupService ==
    ASSUME ServiceOK, NEW s \in Shipments, RequestPickup(s)
    PROVE  ServiceOK' /\ Grows
<1>1. /\ create[s] = "new"
      /\ create' = [create EXCEPT ![s] = "booked"]
      /\ UNCHANGED <<row, update, overlap, faults>>
  BY DEF RequestPickup
<1>2. Shape'
  BY <1>1 DEF ServiceOK, Shape
<1>3. \A t \in Shipments : CreateOK(t)'
  BY <1>1 DEF ServiceOK, Shape, CreateOK, Stored
<1>4. \A u \in Updates : UpdateOK(u)'
  BY <1>1 DEF ServiceOK, UpdateOK, Stored, Saves, Announced
<1>5. \A u, v \in Updates : u # v => PairOK(u, v)'
  BY <1>1 DEF ServiceOK, PairOK, Saves, Announced
<1>6. Grows
  BY <1>1 DEF Grows, Stored, Delivered
<1> QED BY <1>2, <1>3, <1>4, <1>5, <1>6 DEF ServiceOK

LEMMA SaveShipmentService ==
    ASSUME ServiceOK, NEW s \in Shipments, SaveShipment(s)
    PROVE  ServiceOK' /\ Grows /\ Stored(s)'
<1>1. /\ create[s] = "booked"
      /\ create' = [create EXCEPT ![s] = "saved"]
      /\ row' = [row EXCEPT ![s] = "PENDING"]
      /\ UNCHANGED <<update, overlap, faults>>
  BY DEF SaveShipment
<1>2. ~Stored(s) /\ Shape
  BY <1>1 DEF ServiceOK, CreateOK
<1>3. row'[s] = "PENDING" /\ \A t \in Shipments : t # s => row'[t] = row[t]
  BY <1>1, <1>2 DEF Shape
<1>4. Shape'
  BY <1>1, <1>2 DEF Shape, ShipmentStatus
<1>5. \A t \in Shipments : CreateOK(t)'
  BY <1>1, <1>2, <1>3 DEF ServiceOK, Shape, CreateOK, Stored
<1>6. ASSUME NEW u \in Updates PROVE UpdateOK(u)'
  <2>1. UpdateOK(u) /\ (update[u].stage \in {"save", "publish", "done"} => update[u].shipment # s)
    BY <1>2 DEF ServiceOK, UpdateOK
  <2> QED BY <1>1, <1>3, <2>1 DEF UpdateOK, Stored, Saves, Announced
<1>7. \A u, v \in Updates : u # v => PairOK(u, v)'
  BY <1>1 DEF ServiceOK, PairOK, Saves, Announced
<1>8. Grows /\ Stored(s)'
  BY <1>1, <1>2, <1>3 DEF Grows, Stored, Delivered
<1> QED BY <1>4, <1>5, <1>6, <1>7, <1>8 DEF ServiceOK

LEMMA CreateEndsService ==
    ASSUME ServiceOK, NEW s \in Shipments, faults' \in 0..MaxFaults,
           \/ create[s] = "saved" /\ create' = [create EXCEPT ![s] = "done"]
           \/ create' = [create EXCEPT ![s] = "failed"],
           UNCHANGED <<row, update, overlap>>
    PROVE  ServiceOK' /\ Grows
<1>1. Shape'
  BY DEF ServiceOK, Shape
<1>2. \A t \in Shipments : CreateOK(t)'
  BY DEF ServiceOK, Shape, CreateOK, Stored
<1>3. \A u \in Updates : UpdateOK(u)'
  BY DEF ServiceOK, UpdateOK, Stored, Saves, Announced
<1>4. \A u, v \in Updates : u # v => PairOK(u, v)'
  BY DEF ServiceOK, PairOK, Saves, Announced
<1>5. Grows
  BY DEF Grows, Stored, Delivered
<1> QED BY <1>1, <1>2, <1>3, <1>4, <1>5 DEF ServiceOK

LEMMA LoadShipmentService ==
    ASSUME ServiceOK, NEW u \in Updates, NEW s \in Shipments, NEW t \in ShipmentStatus,
           LoadShipment(u, s, t)
    PROVE  ServiceOK' /\ Grows
<1>1. /\ update[u] = NewUpdate /\ row[s] # "none"
      /\ update' = [update EXCEPT ![u] =
                       IF CanMove(row[s], t)
                         THEN [stage |-> "save", shipment |-> s, target |-> t]
                         ELSE [NewUpdate EXCEPT !.stage = "refused"]]
      /\ overlap' = IF \E v \in Updates : Saves(v, s) THEN overlap \cup {s} ELSE overlap
      /\ UNCHANGED <<create, row, faults>>
  BY DEF LoadShipment, Saves
<1>2. Shape
  BY DEF ServiceOK
<1>3. /\ \/ /\ CanMove(row[s], t)
            /\ update'[u] = [stage |-> "save", shipment |-> s, target |-> t]
         \/ update'[u] = [stage |-> "refused", shipment |-> "none", target |-> "none"]
      /\ \A v \in Updates : v # u => update'[v] = update[v]
  BY <1>1, <1>2 DEF Shape, NewUpdate
<1>4. /\ overlap' \subseteq Shipments /\ overlap \subseteq overlap'
      /\ \A v \in Updates : Saves(v, s) => s \in overlap'
  BY <1>1, <1>2 DEF Shape
<1>5. Shape'
  BY <1>1, <1>2, <1>4 DEF Shape, NewUpdate, ShipmentStatus
<1>6. \A q \in Shipments : CreateOK(q)'
  BY <1>1 DEF ServiceOK, CreateOK, Stored
<1>7. UpdateOK(u)'
  BY <1>1, <1>3, Moves DEF UpdateOK, Stored, Saves, Announced
<1>8. ASSUME NEW v \in Updates, v # u PROVE UpdateOK(v)' /\ PairOK(u, v)' /\ PairOK(v, u)'
  <2>1. UpdateOK(v) /\ update'[v] = update[v]
    BY <1>3, <1>8 DEF ServiceOK
  <2>2. UpdateOK(v)'
    BY <1>1, <1>4, <2>1 DEF UpdateOK, Stored, Saves, Announced
  <2>3. \A q \in Shipments : ~Announced(u, q)' /\ (Saves(u, q)' => q = s)
    BY <1>3 DEF Announced, Saves
  <2>4. Saves(v, s)' => s \in overlap'
    BY <1>4, <2>1 DEF Saves
  <2> QED BY <2>2, <2>3, <2>4 DEF PairOK
<1>9. ASSUME NEW v \in Updates, NEW w \in Updates, v # w, v # u, w # u PROVE PairOK(v, w)'
  <2>1. PairOK(v, w) /\ update'[v] = update[v] /\ update'[w] = update[w]
    BY <1>3, <1>9 DEF ServiceOK
  <2> QED BY <1>4, <2>1 DEF PairOK, Saves, Announced
<1>10. Grows
  BY <1>1, <1>4 DEF Grows, Stored, Delivered
<1>11. \A v \in Updates : UpdateOK(v)'
  BY <1>7, <1>8
<1>12. \A v, w \in Updates : v # w => PairOK(v, w)'
  BY <1>8, <1>9
<1> QED BY <1>5, <1>6, <1>10, <1>11, <1>12 DEF ServiceOK

\* updateStatus overwrites the row.
LEMMA StoreUpdateService ==
    ASSUME ServiceOK, NEW u \in Updates, update[u].stage = "save",
           update' = [update EXCEPT ![u].stage = "publish"],
           row' = [row EXCEPT ![update[u].shipment] = update[u].target],
           UNCHANGED <<create, overlap, faults>>
    PROVE  ServiceOK' /\ Grows
<1>1. PICK s, t : s = update[u].shipment /\ t = update[u].target
  OBVIOUS
<1>2. /\ Shape /\ UpdateOK(u)
      /\ s \in Shipments /\ t \in {"PICKED_UP", "IN_TRANSIT", "DELIVERED", "RETURNED"}
      /\ Stored(s) /\ Saves(u, s)
  BY <1>1 DEF ServiceOK, UpdateOK, Saves
<1>3. row'[s] = t /\ \A q \in Shipments : q # s => row'[q] = row[q]
  BY <1>1, <1>2 DEF Shape
<1>4. /\ update'[u].stage = "publish" /\ update'[u].shipment = s /\ update'[u].target = t
      /\ \A v \in Updates : v # u => update'[v] = update[v]
  BY <1>1, <1>2 DEF Shape
<1>5. Shape'
  BY <1>1, <1>2 DEF Shape, ShipmentStatus
<1>6. \A q \in Shipments : CreateOK(q)'
  BY <1>2, <1>3 DEF ServiceOK, CreateOK, Stored
<1>7. s \notin overlap => row[s] # "DELIVERED"
  BY <1>1, <1>2, Moves DEF UpdateOK
<1>8. UpdateOK(u)'
  BY <1>2, <1>3, <1>4 DEF UpdateOK, Stored, Saves, Announced
<1>9. ASSUME NEW v \in Updates, v # u PROVE UpdateOK(v)' /\ PairOK(u, v)' /\ PairOK(v, u)'
  <2>1. UpdateOK(v) /\ PairOK(u, v) /\ update'[v] = update[v]
    BY <1>4, <1>9 DEF ServiceOK
  <2>2. s \notin overlap => ~Saves(v, s) /\ ~Announced(v, s)
    BY <1>2, <1>7, <2>1 DEF PairOK, UpdateOK
  <2>3. UpdateOK(v)'
    <3>1. update'[v].stage \in {"save", "publish", "done"} =>
              /\ update'[v].shipment \in Shipments
              /\ update'[v].target \in {"PICKED_UP", "IN_TRANSIT", "DELIVERED", "RETURNED"}
              /\ Stored(update[v].shipment)'
      BY <1>2, <1>3, <2>1 DEF UpdateOK, Stored
    <3>2. ASSUME NEW q \in Shipments \ overlap
          PROVE  /\ Saves(v, q)' => CanMove(row'[q], update'[v].target)
                 /\ Announced(v, q)' => row'[q] = "DELIVERED"
      BY <1>3, <2>1, <2>2 DEF UpdateOK, Saves, Announced
    <3> QED BY <2>1, <3>1, <3>2 DEF UpdateOK
  <2>4. \A q \in Shipments : ~Saves(u, q)' /\ (Announced(u, q)' => q = s)
    BY <1>4 DEF Saves, Announced
  <2>5. s \notin overlap => ~Announced(v, s)'
    BY <2>1, <2>2 DEF Announced
  <2> QED BY <2>3, <2>4, <2>5 DEF PairOK
<1>10. ASSUME NEW v \in Updates, NEW w \in Updates, v # w, v # u, w # u PROVE PairOK(v, w)'
  <2>1. PairOK(v, w) /\ update'[v] = update[v] /\ update'[w] = update[w]
    BY <1>4, <1>10 DEF ServiceOK
  <2> QED BY <2>1 DEF PairOK, Saves, Announced
<1>11. Grows
  BY <1>2, <1>3, <1>7 DEF Grows, Stored, Delivered
<1>12. \A v \in Updates : UpdateOK(v)'
  BY <1>8, <1>9
<1>13. \A v, w \in Updates : v # w => PairOK(v, w)'
  BY <1>9, <1>10
<1> QED BY <1>5, <1>6, <1>11, <1>12, <1>13 DEF ServiceOK

\* An update ends, with its event or without.
LEMMA UpdateEndsService ==
    ASSUME ServiceOK, NEW u \in Updates, faults' \in 0..MaxFaults,
           \/ update[u].stage = "publish" /\ update' = [update EXCEPT ![u].stage = "done"]
           \/ update' = [update EXCEPT ![u].stage = "failed"],
           UNCHANGED <<create, row, overlap>>
    PROVE  ServiceOK' /\ Grows
<1>1. Shape
  BY DEF ServiceOK
<1>2. /\ update'[u].shipment = update[u].shipment /\ update'[u].target = update[u].target
      /\ \/ update[u].stage = "publish" /\ update'[u].stage = "done"
         \/ update'[u].stage = "failed"
      /\ \A v \in Updates : v # u => update'[v] = update[v]
  BY <1>1 DEF Shape
<1>3. Shape'
  BY <1>1 DEF Shape
<1>4. \A s \in Shipments : CreateOK(s)'
  BY DEF ServiceOK, CreateOK, Stored
<1>5. \A v \in Updates, s \in Shipments :
          (Saves(v, s)' => Saves(v, s)) /\ (Announced(v, s)' => Announced(v, s))
  BY <1>2 DEF Saves, Announced
<1>6. ASSUME NEW v \in Updates PROVE UpdateOK(v)'
  <2>1. UpdateOK(v)
    BY DEF ServiceOK
  <2>2. update'[v].shipment = update[v].shipment /\ update'[v].target = update[v].target
    BY <1>2
  <2>3. update'[v].stage \in {"save", "publish", "done"} =>
            update[v].stage \in {"save", "publish", "done"}
    BY <1>2
  <2> QED BY <1>5, <2>1, <2>2, <2>3 DEF UpdateOK, Stored
<1>7. \A v, w \in Updates : v # w => PairOK(v, w)'
  BY <1>5 DEF ServiceOK, PairOK
<1>8. Grows
  BY DEF Grows, Stored, Delivered
<1> QED BY <1>3, <1>4, <1>6, <1>7, <1>8 DEF ServiceOK

----------------------------------------------------------------------------
\* The steps of the service

\* A step of the service lets the order be, and at most appends an event that
\* is true.
LEMMA ServiceStep ==
    ASSUME IInv, ServiceOK', Grows, UNCHANGED orderVars,
           \/ queue' = queue
           \/ \E e \in Events : queue' = Append(queue, e) /\ EventOK(e)',
           \A s \in Shipments : create'[s] = "done" =>
               create[s] = "done" \/ queue' = Append(queue, Event(s, "Created"))
    PROVE  IInv'
<1>1. UNCHANGED <<order, sync, stale, handled>>
  BY DEF orderVars
<1>2. OrderShape /\ SyncOK /\ HandledOK /\ Backed(order)
  BY DEF IInv
<1>3. /\ queue' \in Seq(Events)
      /\ \A x : x \in ToSet(queue) => x \in ToSet(queue')
      /\ \A x \in Events : x \in ToSet(queue') => x \in ToSet(queue) \/ EventOK(x)'
      /\ queue # <<>> => queue' # <<>> /\ Head(queue') = Head(queue)
  <2>1. CASE queue' = queue
    BY <1>2, <2>1 DEF OrderShape
  <2>2. CASE \E e \in Events : queue' = Append(queue, e) /\ EventOK(e)'
    <3>1. PICK e \in Events : queue' = Append(queue, e) /\ EventOK(e)'
      BY <2>2
    <3> QED BY <1>2, <3>1, Appended DEF OrderShape
  <2> QED BY <2>1, <2>2
<1>4. OrderShape'
  BY <1>1, <1>2, <1>3 DEF OrderShape
<1>5. ASSUME NEW e \in Events, Told(e)' PROVE EventOK(e)'
  <2>1. CASE Told(e)
    <3>1. EventOK(e) /\ e.shipment \in Shipments
      BY <2>1 DEF IInv, Events
    <3> QED BY <3>1 DEF Grows, EventOK
  <2>2. CASE ~Told(e)
    BY <1>1, <1>3, <1>5, <2>2 DEF Told
  <2> QED BY <2>1, <2>2
<1>6. ASSUME NEW s \in Shipments, create'[s] = "done" PROVE Told(Event(s, "Created"))'
  <2>1. CASE create[s] = "done"
    BY <1>1, <1>3, <2>1 DEF IInv, Told
  <2>2. CASE queue' = Append(queue, Event(s, "Created"))
    <3>1. Event(s, "Created") \in Events
      BY DEF Event, Events
    <3> QED BY <1>2, <2>2, <3>1, Appended DEF OrderShape, Told
  <2> QED BY <1>6, <2>1, <2>2
<1>7. \A x : Backed(x) => Backed(x)'
  BY DEF Backed, Grows
<1>8. SyncOK'
  BY <1>1, <1>2, <1>3, <1>7 DEF SyncOK
<1>9. Backed(order)' /\ HandledOK'
  BY <1>1, <1>2, <1>7 DEF HandledOK
<1> QED BY <1>4, <1>5, <1>6, <1>8, <1>9 DEF IInv

LEMMA RequestPickupInv == ASSUME IInv, NEW s \in Shipments, RequestPickup(s) PROVE IInv'
<1>1. ServiceOK' /\ Grows
  BY RequestPickupService DEF IInv
<1>2. \A t \in Shipments : create'[t] = "done" => create[t] = "done"
  BY DEF RequestPickup, IInv, ServiceOK, Shape
<1> QED BY <1>1, <1>2, ServiceStep DEF RequestPickup

LEMMA SaveShipmentInv == ASSUME IInv, NEW s \in Shipments, SaveShipment(s) PROVE IInv'
<1>1. ServiceOK' /\ Grows
  BY SaveShipmentService DEF IInv
<1>2. \A t \in Shipments : create'[t] = "done" => create[t] = "done"
  BY DEF SaveShipment, IInv, ServiceOK, Shape
<1> QED BY <1>1, <1>2, ServiceStep DEF SaveShipment

LEMMA AnnounceInv == ASSUME IInv, NEW s \in Shipments, Announce(s) PROVE IInv'
<1>1. /\ create[s] = "saved"
      /\ create' = [create EXCEPT ![s] = "done"]
      /\ queue' = Append(queue, Event(s, "Created"))
      /\ UNCHANGED <<row, update, overlap, faults>> /\ UNCHANGED orderVars
  BY DEF Announce
<1>2. ServiceOK' /\ Grows
  BY <1>1, CreateEndsService DEF IInv, ServiceOK, Shape
<1>3. Event(s, "Created") \in Events /\ EventOK(Event(s, "Created"))'
  BY <1>1 DEF Event, Events, EventOK, IInv, ServiceOK, CreateOK, Stored
<1>4. \A t \in Shipments : create'[t] = "done" => create[t] = "done" \/ t = s
  BY <1>1 DEF IInv, ServiceOK, Shape
<1> QED BY <1>1, <1>2, <1>3, <1>4, ServiceStep

LEMMA CreateFailsInv == ASSUME IInv, NEW s \in Shipments, CreateFails(s) PROVE IInv'
<1>1. /\ create' = [create EXCEPT ![s] = "failed"]
      /\ UNCHANGED <<row, update, overlap, queue>> /\ UNCHANGED orderVars
      /\ faults' \in 0..MaxFaults
  BY MaxFaultsAssumption DEF CreateFails, Fault, IInv, ServiceOK, Shape
<1>2. ServiceOK' /\ Grows
  BY <1>1, CreateEndsService DEF IInv
<1>3. \A t \in Shipments : create'[t] = "done" => create[t] = "done"
  BY <1>1 DEF IInv, ServiceOK, Shape
<1> QED BY <1>1, <1>2, <1>3, ServiceStep

LEMMA LoadShipmentInv ==
    ASSUME IInv, NEW u \in Updates, NEW s \in Shipments, NEW t \in ShipmentStatus,
           LoadShipment(u, s, t)
    PROVE  IInv'
<1>1. ServiceOK' /\ Grows
  BY LoadShipmentService DEF IInv
<1> QED BY <1>1, ServiceStep DEF LoadShipment

LEMMA SaveUpdateInv == ASSUME IInv, NEW u \in Updates, SaveUpdate(u) PROVE IInv'
<1>1. CASE /\ update[u].stage = "save"
           /\ update' = [update EXCEPT ![u].stage = "publish"]
           /\ row' = [row EXCEPT ![update[u].shipment] = update[u].target]
           /\ UNCHANGED <<create, overlap, queue, orderVars, faults>>
  <2>1. ServiceOK' /\ Grows
    BY <1>1, StoreUpdateService DEF IInv
  <2> QED BY <1>1, <2>1, ServiceStep
<1>2. CASE /\ update[u].stage = "publish"
           /\ update' = [update EXCEPT ![u].stage = "done"]
           /\ queue' = IF update[u].target = "DELIVERED"
                         THEN Append(queue, Event(update[u].shipment, "Delivered")) ELSE queue
           /\ UNCHANGED <<create, row, overlap, orderVars, faults>>
  <2>1. ServiceOK' /\ Grows
    BY <1>2, UpdateEndsService DEF IInv, ServiceOK, Shape
  <2>2. CASE update[u].target = "DELIVERED"
    <3>1. PICK s : s = update[u].shipment
      OBVIOUS
    <3>2. UpdateOK(u)
      BY DEF IInv, ServiceOK
    <3>3. s \in Shipments /\ Stored(s) /\ Delivered(s)
      BY <1>2, <2>2, <3>1, <3>2 DEF UpdateOK, Announced, Delivered
    <3>4. Event(s, "Delivered") \in Events /\ EventOK(Event(s, "Delivered"))'
      BY <2>1, <3>3 DEF Event, Events, EventOK, Grows
    <3>5. queue' = Append(queue, Event(s, "Delivered"))
      BY <1>2, <2>2, <3>1
    <3> QED BY <1>2, <2>1, <3>4, <3>5, ServiceStep
  <2>3. CASE update[u].target # "DELIVERED"
    BY <1>2, <2>1, <2>3, ServiceStep
  <2> QED BY <2>2, <2>3
<1> QED BY <1>1, <1>2 DEF SaveUpdate

LEMMA UpdateFailsInv == ASSUME IInv, NEW u \in Updates, UpdateFails(u) PROVE IInv'
<1>1. /\ update' = [update EXCEPT ![u].stage = "failed"]
      /\ UNCHANGED <<create, row, overlap, queue>> /\ UNCHANGED orderVars
      /\ faults' \in 0..MaxFaults
  BY MaxFaultsAssumption DEF UpdateFails, Fault, IInv, ServiceOK, Shape
<1>2. ServiceOK' /\ Grows
  BY <1>1, UpdateEndsService DEF IInv
<1> QED BY <1>1, <1>2, ServiceStep

----------------------------------------------------------------------------
\* The steps of the order

\* What the steps of the order leave alone.
LEMMA OrderFrame ==
    ASSUME IInv, UNCHANGED serviceVars, faults' \in 0..MaxFaults,
           \A e \in Events : Told(e)' <=> Told(e)
    PROVE  /\ ServiceOK'
           /\ \A e \in Events : Told(e)' => EventOK(e)'
           /\ \A s \in Shipments : create'[s] = "done" => Told(Event(s, "Created"))'
           /\ \A x : Backed(x)' <=> Backed(x)
<1>1. UNCHANGED <<create, row, update, overlap>>
  BY DEF serviceVars
<1>2. Shape' /\ (\A s \in Shipments : CreateOK(s)') /\ (\A u \in Updates : UpdateOK(u)')
  BY <1>1 DEF IInv, ServiceOK, Shape, CreateOK, UpdateOK, Stored, Saves, Announced
<1>3. \A u, v \in Updates : u # v => PairOK(u, v)'
  BY <1>1 DEF IInv, ServiceOK, PairOK, Saves, Announced
<1>4. \A e \in Events : Told(e)' => EventOK(e)'
  BY <1>1 DEF IInv, EventOK, Stored, Delivered
<1>5. \A s \in Shipments : Event(s, "Created") \in Events
  BY DEF Event, Events
<1>6. \A s \in Shipments : create'[s] = "done" => Told(Event(s, "Created"))'
  BY <1>1, <1>5 DEF IInv
<1>7. \A x : Backed(x)' <=> Backed(x)
  BY <1>1 DEF Backed, Stored, Delivered
<1> QED BY <1>2, <1>3, <1>4, <1>6, <1>7 DEF ServiceOK

\* Being through with the head of the queue.
LEMMA SettleEffect ==
    ASSUME IInv, queue # <<>>, Settle
    PROVE  /\ queue' \in Seq(Events) /\ handled' \in Seq(Events)
           /\ Head(queue) \in Events
           /\ \A e \in Events : Told(e)' <=> Told(e)
           /\ HasCreated(handled') <=> HasCreated(handled) \/ Head(queue).type = "Created"
           /\ Paired(handled') =>
                  Paired(handled) \/ (HasCreated(handled) /\ Head(queue).type = "Delivered")
           /\ Backed(StatusOf(Head(queue).type))
<1>1. /\ queue \in Seq(Events) /\ handled \in Seq(Events)
      /\ queue' = Tail(queue) /\ handled' = Append(handled, Head(queue))
  BY DEF IInv, OrderShape, Settle
<1>2. /\ Head(queue) \in Events /\ queue' \in Seq(Events)
      /\ \A x : x \in ToSet(queue) <=> x \in ToSet(queue') \/ x = Head(queue)
  BY <1>1, Taken
<1>3. /\ handled' \in Seq(Events)
      /\ \A x : x \in ToSet(handled') <=> x \in ToSet(handled) \/ x = Head(queue)
  BY <1>1, <1>2, Appended
<1>4. \A e \in Events : Told(e)' <=> Told(e)
  BY <1>2, <1>3 DEF Told
<1>5. EventOK(Head(queue)) /\ Head(queue).shipment \in Shipments
  BY <1>2 DEF IInv, Told, Events
<1>6. Backed(StatusOf(Head(queue).type))
  BY <1>2, <1>5 DEF EventOK, Backed, StatusOf, Events
<1> QED BY <1>1, <1>2, <1>3, <1>4, <1>6, HandledOneMore

LEMMA ConsumerLoadsInv == ASSUME IInv, ConsumerLoads PROVE IInv'
<1> DEFINE target == StatusOf(Head(queue).type)
<1>1. /\ queue # <<>> /\ sync["consumer"] = NoSync
      /\ UNCHANGED <<order, stale, faults>> /\ UNCHANGED serviceVars
      /\ OrderShape /\ SyncOK /\ Backed(order) /\ HandledOK
      /\ "consumer" \in Writers /\ faults' \in 0..MaxFaults
  BY DEF ConsumerLoads, IInv, Writers, ServiceOK, Shape
<1>2. /\ Head(queue) \in Events /\ target \in {"SHIPPED", "DELIVERED"}
      /\ Head(queue).type \in {"Created", "Delivered"}
  <2>1. Head(queue) \in Events
    BY <1>1, Taken DEF OrderShape
  <2> QED BY <2>1 DEF Events, StatusOf
<1>3. CASE /\ CanTransition(order, target)
           /\ sync' = [sync EXCEPT !["consumer"] = [from |-> order, to |-> target]]
           /\ UNCHANGED <<queue, handled>>
  <2>1. /\ ServiceOK'
        /\ \A e \in Events : Told(e)' => EventOK(e)'
        /\ \A s \in Shipments : create'[s] = "done" => Told(Event(s, "Created"))'
        /\ \A x : Backed(x)' <=> Backed(x)
    BY <1>1, <1>3, OrderFrame DEF Told
  <2>2. order \in {"CONFIRMED", "SHIPPED"}
    BY <1>2, <1>3, Transitions
  <2>3. /\ sync'["consumer"] = [from |-> order, to |-> target]
        /\ \A w \in Writers : w # "consumer" => sync'[w] = sync[w]
    BY <1>1, <1>3 DEF OrderShape
  <2>4. OrderShape'
    BY <1>1, <1>2, <1>3, <2>2 DEF OrderShape
  <2>5. Backed(target)
    <3>1. EventOK(Head(queue)) /\ Head(queue).shipment \in Shipments
      BY <1>1, <1>2, Taken DEF IInv, Told, Events, OrderShape
    <3> QED BY <1>2, <3>1 DEF EventOK, Backed, StatusOf
  <2>6. SyncOK'
    BY <1>1, <1>3, <2>1, <2>3, <2>5 DEF SyncOK, Writers
  <2>7. Backed(order)' /\ HandledOK'
    BY <1>1, <1>3, <2>1 DEF HandledOK
  <2> QED BY <2>1, <2>4, <2>6, <2>7 DEF IInv
<1>4. CASE ~CanTransition(order, target) /\ Settle /\ UNCHANGED sync
  <2>1. /\ queue' \in Seq(Events) /\ handled' \in Seq(Events)
        /\ \A e \in Events : Told(e)' <=> Told(e)
        /\ HasCreated(handled') <=> HasCreated(handled) \/ Head(queue).type = "Created"
        /\ Paired(handled') =>
               Paired(handled) \/ (HasCreated(handled) /\ Head(queue).type = "Delivered")
    BY <1>1, <1>4, SettleEffect
  <2>2. /\ ServiceOK'
        /\ \A e \in Events : Told(e)' => EventOK(e)'
        /\ \A s \in Shipments : create'[s] = "done" => Told(Event(s, "Created"))'
        /\ \A x : Backed(x)' <=> Backed(x)
    BY <1>1, <2>1, OrderFrame
  <2>3. OrderShape'
    BY <1>1, <1>4, <2>1 DEF OrderShape
  <2>4. SyncOK'
    BY <1>1, <1>4, <2>2 DEF SyncOK
  <2>5. HasCreated(handled') => order # "CONFIRMED"
    BY <1>1, <1>4, <2>1, Transitions DEF HandledOK, StatusOf
  <2>6. stale \/ (Paired(handled') => order = "DELIVERED")
    <3>1. CASE Head(queue).type = "Delivered"
      BY <1>1, <1>4, <2>1, <3>1, Transitions DEF HandledOK, StatusOf, OrderShape
    <3>2. CASE Head(queue).type = "Created"
      BY <1>1, <2>1, <3>2 DEF HandledOK
    <3> QED BY <1>2, <3>1, <3>2
  <2>7. HandledOK' /\ Backed(order)'
    BY <1>1, <2>2, <2>5, <2>6 DEF HandledOK
  <2> QED BY <2>2, <2>3, <2>4, <2>7 DEF IInv
<1> QED BY <1>3, <1>4 DEF ConsumerLoads

\* save() by writer w.
LEMMA SaveOrderEffect ==
    ASSUME IInv, NEW w \in Writers, sync[w] # NoSync, SaveOrder(w)
    PROVE  /\ order' = sync[w].to /\ sync[w].to \in {"SHIPPED", "DELIVERED"}
           /\ Backed(sync[w].to)
           /\ sync'[w] = NoSync /\ \A v \in Writers : v # w => sync'[v] = sync[v]
           /\ sync' \in [Writers -> [from : {"none", "CONFIRMED", "SHIPPED"},
                                     to : {"none", "SHIPPED", "DELIVERED"}]]
           /\ stale' \in BOOLEAN
           /\ stale => stale'
           /\ ~stale' /\ sync[w].to = "SHIPPED" => order # "DELIVERED"
<1>1. /\ OrderShape /\ SyncOK
      /\ order' = sync[w].to
      /\ stale' = (stale \/ order \notin {sync[w].from, sync[w].to})
      /\ sync' = [sync EXCEPT ![w] = NoSync]
  BY DEF IInv, SaveOrder
<1>2. /\ CanTransition(sync[w].from, sync[w].to) /\ Backed(sync[w].to)
      /\ sync[w].to \in {"none", "SHIPPED", "DELIVERED"}
  BY <1>1 DEF SyncOK, OrderShape
<1>3. sync[w].to # "none"
  BY <1>2 DEF CanTransition, ValidTransitions
<1>4. sync[w].to = "SHIPPED" => sync[w].from = "CONFIRMED"
  BY <1>2, Transitions
<1>5. /\ sync' \in [Writers -> [from : {"none", "CONFIRMED", "SHIPPED"},
                                to : {"none", "SHIPPED", "DELIVERED"}]]
      /\ sync'[w] = NoSync /\ \A v \in Writers : v # w => sync'[v] = sync[v]
  BY <1>1 DEF OrderShape, NoSync
<1>6. stale' \in BOOLEAN /\ (stale => stale')
  BY <1>1
<1>7. ~stale' /\ sync[w].to = "SHIPPED" => order # "DELIVERED"
  BY <1>1, <1>4
<1> QED BY <1>1, <1>2, <1>3, <1>5, <1>6, <1>7

LEMMA NobodyBacked == \A x : x = "none" => Backed(x)
BY DEF Backed

LEMMA ConsumerSavesInv == ASSUME IInv, ConsumerSaves PROVE IInv'
<1>1. /\ sync["consumer"] # NoSync /\ SaveOrder("consumer") /\ Settle
      /\ UNCHANGED serviceVars /\ faults' \in 0..MaxFaults
      /\ "consumer" \in Writers /\ "workflow" \in Writers
      /\ OrderShape /\ SyncOK /\ HandledOK
  BY DEF ConsumerSaves, IInv, Writers, ServiceOK, Shape
<1>2. queue # <<>> /\ sync["consumer"].to = StatusOf(Head(queue).type)
  BY <1>1 DEF SyncOK
<1>3. /\ order' = sync["consumer"].to /\ sync["consumer"].to \in {"SHIPPED", "DELIVERED"}
      /\ Backed(sync["consumer"].to)
      /\ sync'["consumer"] = NoSync
      /\ \A v \in Writers : v # "consumer" => sync'[v] = sync[v]
      /\ sync' \in [Writers -> [from : {"none", "CONFIRMED", "SHIPPED"},
                                to : {"none", "SHIPPED", "DELIVERED"}]]
      /\ stale' \in BOOLEAN
      /\ stale => stale'
      /\ ~stale' /\ sync["consumer"].to = "SHIPPED" => order # "DELIVERED"
  BY <1>1, SaveOrderEffect
<1>4. /\ queue' \in Seq(Events) /\ handled' \in Seq(Events)
      /\ Head(queue) \in Events
      /\ \A e \in Events : Told(e)' <=> Told(e)
      /\ Paired(handled') =>
             Paired(handled) \/ (HasCreated(handled) /\ Head(queue).type = "Delivered")
  BY <1>1, <1>2, SettleEffect
<1>5. /\ ServiceOK'
      /\ \A e \in Events : Told(e)' => EventOK(e)'
      /\ \A s \in Shipments : create'[s] = "done" => Told(Event(s, "Created"))'
      /\ \A x : Backed(x)' <=> Backed(x)
  BY <1>1, <1>4, OrderFrame
<1>6. OrderShape'
  BY <1>3, <1>4 DEF OrderShape
<1>7. SyncOK'
  BY <1>1, <1>3, <1>5, NobodyBacked DEF SyncOK, NoSync, Writers
<1>8. stale' \/ (Paired(handled') => order' = "DELIVERED")
  <2>1. CASE Head(queue).type = "Delivered"
    BY <1>2, <1>3, <2>1 DEF StatusOf
  <2>2. CASE Head(queue).type = "Created"
    BY <1>1, <1>2, <1>3, <1>4, <2>2 DEF StatusOf, HandledOK
  <2> QED BY <1>4, <2>1, <2>2 DEF Events
<1>9. HandledOK' /\ Backed(order)'
  BY <1>3, <1>5, <1>8 DEF HandledOK
<1> QED BY <1>5, <1>6, <1>7, <1>9 DEF IInv

LEMMA WorkflowSavesInv == ASSUME IInv, WorkflowSaves PROVE IInv'
<1>1. /\ sync["workflow"] # NoSync /\ SaveOrder("workflow") /\ UNCHANGED <<queue, handled>>
      /\ UNCHANGED serviceVars /\ faults' \in 0..MaxFaults
      /\ "consumer" \in Writers /\ "workflow" \in Writers
      /\ OrderShape /\ SyncOK /\ HandledOK
  BY DEF WorkflowSaves, IInv, Writers, ServiceOK, Shape
<1>2. sync["workflow"].to = "SHIPPED"
  BY <1>1 DEF SyncOK
<1>3. /\ order' = "SHIPPED" /\ Backed(sync["workflow"].to)
      /\ sync'["workflow"] = NoSync
      /\ \A v \in Writers : v # "workflow" => sync'[v] = sync[v]
      /\ sync' \in [Writers -> [from : {"none", "CONFIRMED", "SHIPPED"},
                                to : {"none", "SHIPPED", "DELIVERED"}]]
      /\ stale' \in BOOLEAN
      /\ stale => stale'
      /\ ~stale' => order # "DELIVERED"
  BY <1>1, <1>2, SaveOrderEffect
<1>4. /\ ServiceOK'
      /\ \A e \in Events : Told(e)' => EventOK(e)'
      /\ \A s \in Shipments : create'[s] = "done" => Told(Event(s, "Created"))'
      /\ \A x : Backed(x)' <=> Backed(x)
  BY <1>1, OrderFrame DEF Told
<1>5. OrderShape'
  BY <1>1, <1>3 DEF OrderShape
<1>6. SyncOK'
  BY <1>1, <1>3, <1>4, NobodyBacked DEF SyncOK, NoSync, Writers
<1>7. HandledOK' /\ Backed(order)'
  BY <1>1, <1>2, <1>3, <1>4 DEF HandledOK
<1> QED BY <1>4, <1>5, <1>6, <1>7 DEF IInv

LEMMA WorkflowLoadsInv == ASSUME IInv, WorkflowLoads PROVE IInv'
<1>1. /\ sync["workflow"] = NoSync /\ CanTransition(order, "SHIPPED")
      /\ sync' = [sync EXCEPT !["workflow"] = [from |-> order, to |-> "SHIPPED"]]
      /\ UNCHANGED <<queue, order, stale, handled>>
      /\ UNCHANGED serviceVars /\ faults' \in 0..MaxFaults
      /\ "consumer" \in Writers /\ "workflow" \in Writers
      /\ OrderShape /\ SyncOK /\ HandledOK /\ Backed(order)
      /\ \E s \in Shipments : create[s] = "done"
  BY DEF WorkflowLoads, IInv, Writers, ServiceOK, Shape
<1>2. order = "CONFIRMED" /\ Backed("SHIPPED")
  BY <1>1, Transitions DEF IInv, ServiceOK, CreateOK, Backed
<1>3. /\ sync'["workflow"] = [from |-> "CONFIRMED", to |-> "SHIPPED"]
      /\ \A v \in Writers : v # "workflow" => sync'[v] = sync[v]
  BY <1>1, <1>2 DEF OrderShape
<1>4. /\ ServiceOK'
      /\ \A e \in Events : Told(e)' => EventOK(e)'
      /\ \A s \in Shipments : create'[s] = "done" => Told(Event(s, "Created"))'
      /\ \A x : Backed(x)' <=> Backed(x)
  BY <1>1, OrderFrame DEF Told
<1>5. OrderShape'
  BY <1>1, <1>2 DEF OrderShape
<1>6. SyncOK'
  BY <1>1, <1>2, <1>3, <1>4, Transitions DEF SyncOK, Writers
<1>7. HandledOK' /\ Backed(order)'
  BY <1>1, <1>4 DEF HandledOK
<1> QED BY <1>4, <1>5, <1>6, <1>7 DEF IInv

\* The queue is put in another order, or gets an event again; the consumer
\* starts afresh.
LEMMA QueueStep ==
    ASSUME IInv, UNCHANGED serviceVars, UNCHANGED <<order, stale, handled>>,
           faults' \in 0..MaxFaults,
           sync' = [sync EXCEPT !["consumer"] = NoSync],
           queue' \in Seq(Events),
           \A e \in Events : Told(e)' <=> Told(e)
    PROVE  IInv'
<1>1. OrderShape /\ SyncOK /\ HandledOK /\ Backed(order) /\ "consumer" \in Writers
  BY DEF IInv, Writers
<1>2. /\ ServiceOK'
      /\ \A e \in Events : Told(e)' => EventOK(e)'
      /\ \A s \in Shipments : create'[s] = "done" => Told(Event(s, "Created"))'
      /\ \A x : Backed(x)' <=> Backed(x)
  BY OrderFrame
<1>3. OrderShape'
  BY <1>1 DEF OrderShape, NoSync
<1>4. sync'["consumer"] = NoSync /\ \A v \in Writers : v # "consumer" => sync'[v] = sync[v]
  BY <1>1 DEF OrderShape
<1>5. SyncOK'
  BY <1>1, <1>2, <1>4, NobodyBacked DEF SyncOK, NoSync, Writers
<1>6. HandledOK' /\ Backed(order)'
  BY <1>1, <1>2 DEF HandledOK
<1> QED BY <1>2, <1>3, <1>5, <1>6 DEF IInv

\* A sequence whose head was moved to its end has the elements it had.
LEMMA Rotated ==
    ASSUME NEW S, NEW q \in Seq(S), q # <<>>
    PROVE  /\ Append(Tail(q), Head(q)) \in Seq(S)
           /\ \A x : x \in ToSet(Append(Tail(q), Head(q))) <=> x \in ToSet(q)
<1>1. /\ Tail(q) \in Seq(S) /\ Head(q) \in S
      /\ \A x : x \in ToSet(q) <=> x \in ToSet(Tail(q)) \/ x = Head(q)
  BY Taken
<1>2. PICK r, h : r = Tail(q) /\ h = Head(q)
  OBVIOUS
<1>3. /\ Append(r, h) \in Seq(S)
      /\ \A x : x \in ToSet(Append(r, h)) <=> x \in ToSet(r) \/ x = h
  <2>1. r \in Seq(S) /\ h \in S
    BY <1>1, <1>2
  <2> QED BY <2>1, Appended
<1> QED BY <1>1, <1>2, <1>3

LEMMA RequeueInv == ASSUME IInv, Requeue PROVE IInv'
<1>1. /\ queue # <<>> /\ queue \in Seq(Events)
      /\ queue' = Append(Tail(queue), Head(queue))
      /\ sync' = [sync EXCEPT !["consumer"] = NoSync]
      /\ UNCHANGED serviceVars /\ UNCHANGED <<order, stale, handled>>
      /\ faults' \in 0..MaxFaults
  BY MaxFaultsAssumption DEF Requeue, Fault, IInv, OrderShape, ServiceOK, Shape
<1>2. PICK q : q = queue
  OBVIOUS
<1>3. /\ queue' \in Seq(Events)
      /\ \A x : x \in ToSet(queue') <=> x \in ToSet(queue)
  <2>1. /\ Append(Tail(q), Head(q)) \in Seq(Events)
        /\ \A x : x \in ToSet(Append(Tail(q), Head(q))) <=> x \in ToSet(q)
    BY <1>1, <1>2, Rotated
  <2> QED BY <1>1, <1>2, <2>1
<1>4. \A e \in Events : Told(e)' <=> Told(e)
  BY <1>1, <1>3 DEF Told
<1> QED BY <1>1, <1>3, <1>4, QueueStep

LEMMA RedeliverInv == ASSUME IInv, NEW e \in ToSet(handled), Redeliver(e) PROVE IInv'
<1>1. /\ queue \in Seq(Events) /\ handled \in Seq(Events)
      /\ queue' = <<e>> \o queue
      /\ sync' = [sync EXCEPT !["consumer"] = NoSync]
      /\ UNCHANGED serviceVars /\ UNCHANGED <<order, stale, handled>>
      /\ faults' \in 0..MaxFaults
  BY MaxFaultsAssumption DEF Redeliver, Fault, IInv, OrderShape, ServiceOK, Shape
<1>2. e \in Events
  BY <1>1 DEF ToSet
<1>3. /\ queue' \in Seq(Events)
      /\ \A x : x \in ToSet(queue') <=> x \in ToSet(queue) \/ x = e
  BY <1>1, <1>2, Prepended
<1>4. \A x \in Events : Told(x)' <=> Told(x)
  BY <1>1, <1>3 DEF Told
<1> QED BY <1>1, <1>3, <1>4, QueueStep

----------------------------------------------------------------------------
\* Every action keeps the invariant

LEMMA InitInv == Init => IInv
<1> SUFFICES ASSUME Init PROVE IInv
  OBVIOUS
<1>1. /\ \A s \in Shipments : create[s] = "new" /\ row[s] = "none"
      /\ \A u \in Updates : update[u] = NewUpdate
      /\ \A w \in Writers : sync[w] = NoSync
      /\ queue = <<>> /\ handled = <<>> /\ order = "CONFIRMED"
  BY DEF Init
<1>2. Shape
  BY MaxFaultsAssumption DEF Init, Shape, NewUpdate
<1>3. ServiceOK
  BY <1>1, <1>2 DEF ServiceOK, CreateOK, Stored, UpdateOK, PairOK, Saves, Announced, NewUpdate
<1>4. OrderShape
  <2>1. sync \in [Writers -> [from : {"none", "CONFIRMED", "SHIPPED"},
                            to : {"none", "SHIPPED", "DELIVERED"}]]
    BY DEF Init, NoSync
  <2>2. queue \in Seq(Events) /\ handled \in Seq(Events)
    BY <1>1
  <2>3. order \in {"CONFIRMED", "SHIPPED", "DELIVERED"} /\ stale \in BOOLEAN
    BY DEF Init
  <2> QED BY <2>1, <2>2, <2>3 DEF OrderShape
<1>5. \A e : ~Told(e)
  BY <1>1 DEF Told, ToSet
<1>6. \A s \in Shipments : create[s] # "done"
  BY <1>1
<1>7. SyncOK /\ Backed(order)
  BY <1>1 DEF SyncOK, Backed, NoSync, Writers
<1>8. HandledOK
  BY <1>1 DEF HandledOK, HasCreated, Paired
<1> QED BY <1>3, <1>4, <1>5, <1>6, <1>7, <1>8 DEF IInv

LEMMA StutterInv == ASSUME IInv, UNCHANGED vars PROVE IInv'
<1>1. /\ UNCHANGED serviceVars /\ UNCHANGED <<queue, order, sync, stale, handled, faults>>
      /\ faults' \in 0..MaxFaults
      /\ OrderShape /\ SyncOK /\ HandledOK /\ Backed(order)
  BY DEF vars, orderVars, IInv, ServiceOK, Shape
<1>2. /\ ServiceOK'
      /\ \A e \in Events : Told(e)' => EventOK(e)'
      /\ \A s \in Shipments : create'[s] = "done" => Told(Event(s, "Created"))'
      /\ \A x : Backed(x)' <=> Backed(x)
  BY <1>1, OrderFrame DEF Told
<1>3. OrderShape' /\ SyncOK' /\ HandledOK' /\ Backed(order)'
  BY <1>1, <1>2 DEF OrderShape, SyncOK, HandledOK
<1> QED BY <1>2, <1>3 DEF IInv

LEMMA NextInv == ASSUME IInv, [Next]_vars PROVE IInv'
BY StutterInv, RequestPickupInv, SaveShipmentInv, AnnounceInv, CreateFailsInv,
   LoadShipmentInv, SaveUpdateInv, UpdateFailsInv, ConsumerLoadsInv,
   ConsumerSavesInv, RequeueInv, RedeliverInv, WorkflowLoadsInv, WorkflowSavesInv
   DEF Next

\* IInv is an inductive invariant.
THEOREM Invariant == Spec => []IInv
<1>1. Init => IInv
  BY InitInv
<1>2. IInv /\ [Next]_vars => IInv'
  BY NextInv
<1> QED BY <1>1, <1>2, PTL DEF Spec

----------------------------------------------------------------------------
\* TypeOK holds of every instance.
THEOREM TypeCorrect == Spec => []TypeOK
<1>1. IInv => TypeOK
  BY DEF IInv, ServiceOK, Shape, OrderShape, TypeOK
<1> QED BY <1>1, Invariant, PTL

\* The status of the order never runs ahead of its shipments, whoever saved it.
THEOREM OrderBacked == Spec => []OrderNeverAheadOfShipments
<1>1. IInv => OrderNeverAheadOfShipments
  BY DEF IInv, OrderShape, Backed, Stored, Delivered, OrderNeverAheadOfShipments
<1> QED BY <1>1, Invariant, PTL

\* However its event was requeued, repeated or overtaken, a delivery handled
\* after a creation is in the order, unless a writer saved what it had loaded
\* before.
THEOREM DeliveryStands == Spec => []DeliveryReachesTheOrder
<1>1. IInv => DeliveryReachesTheOrder
  <2>1. \A i, j \in DOMAIN handled :
            i < j /\ handled[i].type = "Created" /\ handled[j].type = "Delivered"
                => Paired(handled)
    BY DEF Paired
  <2> QED BY <2>1 DEF IInv, HandledOK, DeliveryReachesTheOrder
<1> QED BY <1>1, Invariant, PTL

\* One announcement for a delivery, and no way back, unless two updates overlapped.
THEOREM AnnouncedOnce == Spec => []AnnouncedDeliveryStands
<1>1. ASSUME IInv, NEW s \in Shipments \ overlap,
             NEW A, A = {u \in Updates : /\ update[u].shipment = s
                                         /\ update[u].target = "DELIVERED"
                                         /\ update[u].stage \in {"publish", "done"}}
      PROVE  Cardinality(A) <= 1 /\ (A # {} => row[s] = "DELIVERED")
  <2>1. \A u \in A : u \in Updates /\ Announced(u, s)
    BY <1>1 DEF Announced
  <2>2. ASSUME NEW u \in A PROVE row[s] = "DELIVERED"
    BY <1>1, <2>1 DEF IInv, ServiceOK, UpdateOK
  <2>3. ASSUME NEW u \in A, NEW v \in A PROVE u = v
    BY <1>1, <2>1 DEF IInv, ServiceOK, PairOK
  <2>4. CASE A = {}
    BY <2>4, FS_EmptySet
  <2>5. CASE A # {}
    <3>1. PICK u : A = {u}
      BY <2>3, <2>5
    <3>2. Cardinality(A) = 1
      BY <3>1, FS_Singleton
    <3> QED BY <2>2, <2>5, <3>2
  <2> QED BY <2>4, <2>5
<1>2. IInv => AnnouncedDeliveryStands
  BY <1>1 DEF AnnouncedDeliveryStands
<1> QED BY <1>2, Invariant, PTL

\* A stored shipment is announced unless its call failed, and nothing else is.
THEOREM Announcements == Spec => []ShipmentsAreAnnounced
<1>1. ASSUME IInv, NEW s \in Shipments
      PROVE  /\ row[s] # "none" /\ Event(s, "Created") \notin ToSet(queue) \cup ToSet(handled)
                    => create[s] \in {"saved", "failed"}
             /\ Event(s, "Created") \in ToSet(queue) \cup ToSet(handled) => row[s] # "none"
  <2>1. Event(s, "Created") \in ToSet(queue) \cup ToSet(handled)
           <=> Told(Event(s, "Created"))
    BY DEF Told
  <2>2. Event(s, "Created") \in Events /\ Event(s, "Created").shipment = s
    BY DEF Event, Events
  <2>3. Told(Event(s, "Created")) => row[s] # "none"
    BY <1>1, <2>2 DEF IInv, EventOK, Stored
  <2>4. row[s] # "none" /\ ~Told(Event(s, "Created")) => create[s] \in {"saved", "failed"}
    BY <1>1 DEF IInv, ServiceOK, Shape, CreateOK, Stored
  <2> QED BY <2>1, <2>3, <2>4
<1>2. ASSUME IInv PROVE ShipmentsAreAnnounced
  BY <1>1, <1>2 DEF ShipmentsAreAnnounced
<1>3. IInv => ShipmentsAreAnnounced
  BY <1>2
<1> QED BY <1>3, Invariant, PTL

============================================================================
