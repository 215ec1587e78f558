------------------------------- MODULE Reads -------------------------------
(***************************************************************************)
(* What the list and dashboard endpoints answer while the rest of the      *)
(* system writes: ListOrdersUseCase page by page, the dashboard's          *)
(* overview, list of orders, order detail and activity feed; and what the  *)
(* health checks answer while the services they ask come and go.           *)
(*                                                                         *)
(* No endpoint reads in a transaction.  A request is a set of statements   *)
(* still to run, each an atomic snapshot; Promise.all puts several in the  *)
(* set at once.  The writers are cut down to the commits a read can tell   *)
(* apart.  Time is counted in half days, and a draft keeps the created_at  *)
(* it was made with however late it is committed.                          *)
(***************************************************************************)
EXTENDS Integers, Sequences, FiniteSets, SequencesExt

CONSTANTS
    Orders,       \* bound: orders made
    PageSize,     \* limit of one page of orders
    FeedLimit,    \* limit of the activity feed
    TrendDays,    \* bound: days of the order trend (7 in the code)
    Start, End,   \* bounds: the half days in which it all happens
    Scenarios     \* what is asked (see Statements); the offset of local time from
                  \* UTC, and the one it has after a change of the clocks and the
                  \* half day of that change; and, as bounds, the orders that are
                  \* made and those among them that are paid or shipped

ASSUME OrdersAssumption == IsFiniteSet(Orders)
ASSUME LimitAssumption == {PageSize, FeedLimit, TrendDays} \subseteq Nat \ {0}
ASSUME TimeAssumption == Start \in Nat /\ End \in Nat /\ 2 * TrendDays <= Start
ASSUME ScenarioAssumption ==
    Scenarios \subseteq [kind : {"overview", "list", "detail", "pages", "health", "ready"},
                         zone : -1 .. 1, after : -1 .. 1, turn : Int,
                         made : SUBSET Orders, paying : SUBSET Orders]

VARIABLES
    now,        \* the clock
    scenario,   \* which of the Scenarios this is
    orders,     \* orders[o]: status, created_at, whether its item rows are there
    payments,   \* payments[o]: the statuses of the payment rows of the order
    shipments,  \* shipments[o]: created_at of its shipment, or 0
    up,         \* dependencies that answer
    request,    \* kind, filter, order, page, and the statements still to run
    got,        \* what the statements of the request have returned
    seen,       \* orders the pages so far contained
    before,     \* history: orders committed when the request came in
    known,      \* history: known[d]: whether d answered, at any time of the request
    disturbed   \* history: why a page may miss an order (see PagesMissNothing)

vars == <<now, scenario, orders, payments, shipments, up, request, got, seen, before, known,
          disturbed>>

NoOrder == [status |-> "none", at |-> 0, items |-> FALSE]
NoRequest == [kind |-> "none", filter |-> "any", order |-> "none", page |-> 0, todo |-> {}]
Nothing == [orders |-> {}, ids |-> {}, items |-> {}, payments |-> {}, shipments |-> {},
            rows |-> <<>>, total |-> 0, healthy |-> {}]

Dependencies == {"database", "kafka", "temporal"}
Charged == {"COMPLETED", "REFUNDED"}

Committed == {o \in Orders : orders[o].status \notin {"none", "draft"}}
Matching == {o \in Committed : request.filter \in {"any", orders[o].status}}

Init ==
    /\ now = Start
    /\ scenario \in Scenarios
    /\ orders = [o \in Orders |-> NoOrder]
    /\ payments = [o \in Orders |-> {}]
    /\ shipments = [o \in Orders |-> 0]
    /\ up = Dependencies
    /\ request = NoRequest
    /\ got = Nothing
    /\ seen = {}
    /\ before = {}
    /\ known = [d \in Dependencies |-> {}]
    /\ disturbed = FALSE

----------------------------------------------------------------------------
\* The writers

\* The writers are followed until the request is answered.
Going == request.kind # "done"

reading == <<request, got, seen, before>>
service == <<up, known>>

Tick ==
    /\ Going
    /\ now < End
    /\ now' = now + 1
    /\ UNCHANGED <<scenario, orders, payments, shipments, disturbed, reading, service>>

\* Order.create stamps the order.
Draft(o) ==
    /\ Going
    /\ o \in scenario.made /\ orders[o] = NoOrder
    /\ orders' = [orders EXCEPT ![o] = [status |-> "draft", at |-> now, items |-> FALSE]]
    /\ UNCHANGED <<now, scenario, payments, shipments, disturbed, reading, service>>

\* Variant: the items are deleted and inserted outside the order's transaction.
SaveInPieces(o, status) ==
    \E items \in BOOLEAN :
        orders' = [orders EXCEPT ![o] = [@ EXCEPT !.status = status, !.items = items]]

\* The transaction of KyselyOrderRepository.save: the row, its items deleted
\* and inserted again, and the events.
SaveOrder(o, status) ==
    orders' = [orders EXCEPT ![o] = [@ EXCEPT !.status = status, !.items = TRUE]]

\* A page may miss an order when two orders share a created_at, when one that
\* matched the filter no longer does, or when one is added after the count.
Disturbs(o) ==
    /\ request.kind = "pages"
    /\ \/ \E p \in Committed \ {o} : orders[p].at = orders[o].at
       \/ o \in Matching /\ request.filter # "any"
       \/ request.todo = {"rows"}

NextStatus(o) ==
    CASE orders[o].status = "draft" -> {"PENDING"}
      [] orders[o].status = "PENDING" ->
            {"CANCELLED"} \cup
            (IF payments[o] \cap Charged # {} THEN {"PAYMENT_PROCESSED"} ELSE {})
      [] orders[o].status = "PAYMENT_PROCESSED" ->
            IF shipments[o] # 0 THEN {"SHIPPED"} ELSE {}
      [] OTHER -> {}

\* The saga saves the payment before the order that is paid, and the shipment
\* before the order that is shipped.
Save(o) ==
    /\ Going
    /\ \E status \in NextStatus(o) : SaveOrder(o, status)
    /\ disturbed' = (disturbed \/ Disturbs(o))
    /\ UNCHANGED <<now, scenario, payments, shipments, reading, service>>

\* One row per attempt: a call cut off after its save leaves one behind, and a
\* late attempt or an administrator pays whatever the order has come to.
Pay(o) ==
    /\ Going
    /\ o \in scenario.paying \cap Committed
    /\ \E outcome \in {"COMPLETED", "FAILED"} :
          payments' = [payments EXCEPT ![o] = @ \cup {outcome}]
    /\ UNCHANGED <<now, scenario, orders, shipments, disturbed, reading, service>>

\* A refund updates the row of a completed payment, of which the order may have
\* another; the order's status stays until some other writer moves it.
Refund(o) ==
    /\ Going
    /\ "COMPLETED" \in payments[o]
    /\ \E others \in {payments[o], payments[o] \ {"COMPLETED"}} :
          payments' = [payments EXCEPT ![o] = others \cup {"REFUNDED"}]
    /\ UNCHANGED <<now, scenario, orders, shipments, disturbed, reading, service>>

\* The saga's shipment, a late attempt's or an administrator's.
Ship(o) ==
    /\ Going
    /\ o \in scenario.paying \cap Committed /\ shipments[o] = 0
    /\ shipments' = [shipments EXCEPT ![o] = now]
    /\ UNCHANGED <<now, scenario, orders, payments, disturbed, reading, service>>

Responds(d) == d \in up

\* A dependency stops or starts to answer; followed for the health checks only.
Flip(d) ==
    /\ Going /\ scenario.kind \in {"health", "ready"}
    /\ up' = IF d \in up THEN up \ {d} ELSE up \cup {d}
    /\ known' = [known EXCEPT ![d] = @ \cup {Responds(d)'}]
    /\ UNCHANGED <<now, scenario, orders, payments, shipments, disturbed, reading>>

----------------------------------------------------------------------------
\* The requests

written == <<now, scenario, orders, payments, shipments, up>>

\* Each use case's first statements; the others wait for what these return.
Statements(kind) ==
    CASE kind = "overview" -> {"orders", "ids", "payments", "shipments"}
      [] kind = "list" -> {"orders", "ids"}
      [] kind = "detail" -> {"order"}
      [] kind = "pages" -> {"rows", "count"}
      [] kind = "health" -> Dependencies
      [] kind = "ready" -> {"database", "temporal"}

\* The controller passes the query on; orders are listed for one status or all.
Ask(kind, filter, o) ==
    /\ request = NoRequest
    /\ kind \notin {"pages", "list"} => filter = "any"
    /\ request' = [kind |-> kind, filter |-> filter, page |-> 1, todo |-> Statements(kind),
                   order |-> IF kind = "detail" THEN o ELSE "none"]
    /\ before' = {p \in Committed : filter \in {"any", orders[p].status}}
    /\ disturbed' = \E p, q \in Committed : p # q /\ orders[p].at = orders[q].at
    /\ known' = [d \in Dependencies |-> {Responds(d)}]
    /\ UNCHANGED <<written, got, seen>>

\* A statement returns its result, after which the statements `more` are run.
Returns(statement, result, more) ==
    /\ statement \in request.todo
    /\ request' = [request EXCEPT !.todo = (@ \ {statement}) \cup more]
    /\ got' = result
    /\ UNCHANGED <<written, seen, before, known, disturbed>>

OrderRows(ids) == {[id |-> o, status |-> orders[o].status, at |-> orders[o].at] : o \in ids}

\* findAll, for getOrders.
ReadOrders == Returns("orders", [got EXCEPT !.orders = OrderRows(Committed)], {})

\* findOrderById of the detail; an unknown order is a 404.
ReadOrder ==
    LET found == Committed \cap {request.order}
    IN  Returns("order", [got EXCEPT !.orders = OrderRows(found)],
                IF found = {} THEN {} ELSE {"ids", "payments", "shipments"})

\* Variant: the detail shows the order of the second read.
ReadIdsAfresh ==
    LET ids == IF request.kind = "detail" THEN {request.order} ELSE Committed
    IN  Returns("ids", [got EXCEPT !.ids = ids, !.orders = OrderRows(ids)], {"items"})

\* The second read of the orders, for their items, and the items themselves.
ReadIds ==
    LET ids == IF request.kind = "detail" THEN {request.order} ELSE Committed
    IN  Returns("ids", [got EXCEPT !.ids = ids], {"items"})

ReadItems ==
    Returns("items", [got EXCEPT !.items = {o \in got.ids : orders[o].items}], {})

\* findByOrderId takes any one row of the order.
PaymentOf(o) ==
    IF payments[o] = {} THEN {{}} ELSE {{<<o, s>>} : s \in payments[o]}

\* findAll for the overview.
ReadPayments ==
    \/ /\ request.kind = "overview"
       /\ Returns("payments",
                  [got EXCEPT !.payments = {row \in Orders \X (Charged \cup {"FAILED"}) :
                                               row[2] \in payments[row[1]]}], {})
    \/ /\ request.kind = "detail"
       /\ \E rows \in PaymentOf(request.order) :
             Returns("payments", [got EXCEPT !.payments = rows], {})

\* ShipmentMapper.toDomain drops created_at, so reconstitute stamps the
\* shipment with the time of the read.
ShipmentOf(o) == [id |-> o, at |-> now]

ReadShipments ==
    LET found == {o \in Orders : shipments[o] # 0 /\ request.order \in {"none", o}}
    IN  Returns("shipments", [got EXCEPT !.shipments = {ShipmentOf(o) : o \in found}], {})

Least(m, n) == IF m <= n THEN m ELSE n

\* The rows of the page: newest first, in any order among equals.
Sorted(ids) ==
    {s \in SetToSeqs(ids) : \A i \in 1 .. Len(s) - 1 : orders[s[i]].at >= orders[s[i + 1]].at}

\* Variant: pages are counted from zero.
PageFromZero(s) == SubSeq(s, request.page * PageSize + 1,
                          Least((request.page + 1) * PageSize, Len(s)))

Page(s) == SubSeq(s, (request.page - 1) * PageSize + 1, Least(request.page * PageSize, Len(s)))

ReadRows ==
    \E s \in Sorted(Matching) :
        LET page == Page(s)
        IN  Returns("rows", [got EXCEPT !.rows = page, !.ids = ToSet(page)],
                    IF page = <<>> THEN {} ELSE {"items"})

Count == Returns("count", [got EXCEPT !.total = Cardinality(Matching)], {})

Probed(d) == [got EXCEPT !.healthy = IF Responds(d) THEN @ \cup {d} ELSE @]

\* SELECT 1 on a connection of the order database.
ProbeDatabase == Returns("database", Probed("database"), {})

\* describeCluster; an error of the disconnect that follows is ignored.
ProbeKafka == Returns("kafka", Probed("kafka"), {})

\* A connection is opened and closed again.
ProbeTemporal == Returns("temporal", Probed("temporal"), {})

\* An answer is delivered.
Deliver ==
    /\ request.kind \notin {"none", "pages", "done"} /\ request.todo = {}
    /\ request' = [NoRequest EXCEPT !.kind = "done"]
    /\ got' = Nothing
    /\ before' = {}
    /\ UNCHANGED <<written, seen, known, disturbed>>

\* The client takes the page and asks for the next while meta.total says so.
Turn ==
    /\ request.kind = "pages" /\ request.todo = {}
    /\ seen' = seen \cup ToSet(got.rows)
    /\ request' = IF request.page * PageSize < got.total
                    THEN [request EXCEPT !.page = @ + 1, !.todo = Statements("pages")]
                    ELSE [request EXCEPT !.kind = "done"]
    /\ got' = Nothing
    /\ UNCHANGED <<written, before, known, disturbed>>

----------------------------------------------------------------------------
Next ==
    \/ Tick
    \/ \E o \in Orders : Draft(o) \/ Save(o) \/ Pay(o) \/ Refund(o) \/ Ship(o)
    \/ \E filter \in {"any", "PENDING"}, o \in scenario.made : Ask(scenario.kind, filter, o)
    \/ ReadOrders \/ ReadOrder \/ ReadIds \/ ReadItems \/ ReadPayments \/ ReadShipments
    \/ ReadRows \/ Count \/ Deliver \/ Turn
    \/ \E d \in Dependencies : Flip(d)
    \/ ProbeDatabase \/ ProbeKafka \/ ProbeTemporal

Spec == Init /\ [][Next]_vars

----------------------------------------------------------------------------
\* The answers

Answered(kind) == request.kind = kind /\ request.todo = {}

DayOf(t) == t \div 2

\* The offset of local time from UTC, and the instant a local time stands for.
\* A local time that a change skips or repeats is read with the offset before it.
Offset(t) == IF t < scenario.turn THEN scenario.zone ELSE scenario.after

Instant(local) ==
    IF local - scenario.zone < scenario.turn \/ local - scenario.after < scenario.turn
      THEN local - scenario.zone
      ELSE local - scenario.after

\* setHours(0, 0, 0, 0) of now, and setDate of what it gives, days earlier.
Today == Instant(2 * DayOf(now + Offset(now)))
DaysBack(n) == Instant(Today + Offset(Today) - 2 * n)

\* Variant: the loop ends before the offset is zero.
TrendKeyEarlier(i) == DayOf(DaysBack(TrendDays - i + 1))

\* buildOrderTrend: the i-th point is the UTC date of a local midnight.
TrendKey(i) == DayOf(DaysBack(TrendDays - i))

Trend == [i \in 1 .. TrendDays |-> {r \in got.orders : DayOf(r.at) = TrendKey(i)}]

\* summary.ordersToday, by the UTC date.
OrdersToday == {r \in got.orders : DayOf(r.at) = DayOf(now)}

\* itemCount of a listed order, as far as it tells an order without items.
ShowsItems(o) == o \in got.items

\* The orders of the dashboard's list, filtered in memory.
Listed == {r \in got.orders : request.filter \in {"any", r.status}}

\* buildActivityFeed; payments are stamped as orders are, notifications as
\* shipments are.
Feed ==
    LET entries == {[kind |-> "order", id |-> r.id, at |-> r.at] : r \in got.orders} \cup
                   {[kind |-> "shipment", id |-> r.id, at |-> r.at] : r \in got.shipments}
    IN  SubSeq(SetToSortSeq(entries, LAMBDA e, f : e.at > f.at), 1,
               Least(FeedLimit, Cardinality(entries)))

\* measureHealth: a service that does not answer is down, but for Temporal.
HealthOf(d) ==
    IF d \in got.healthy THEN "HEALTHY" ELSE IF d = "temporal" THEN "DEGRADED" ELSE "DOWN"

\* Variant: a degraded service hides one that is down.
OverallMildest ==
    LET statuses == {HealthOf(d) : d \in Dependencies}
    IN  IF "DEGRADED" \in statuses THEN "DEGRADED"
        ELSE IF "DOWN" \in statuses THEN "DOWN" ELSE "HEALTHY"

\* toDashboardHealthResponse: the worst status of all.
Overall ==
    LET statuses == {HealthOf(d) : d \in Dependencies}
    IN  IF "DOWN" \in statuses THEN "DOWN"
        ELSE IF "DEGRADED" \in statuses THEN "DEGRADED" ELSE "HEALTHY"

\* /health/ready fails when one of its checks does.
Ready == Statements("ready") \subseteq got.healthy

----------------------------------------------------------------------------
\* Properties

TypeOK ==
    /\ now \in Start .. End
    /\ scenario \in Scenarios
    /\ orders \in [Orders -> [status : {"none", "draft", "PENDING", "PAYMENT_PROCESSED",
                                        "SHIPPED", "CANCELLED"},
                              at : {0} \cup Start .. End, items : BOOLEAN]]
    /\ payments \in [Orders -> SUBSET (Charged \cup {"FAILED"})]
    /\ shipments \in [Orders -> {0} \cup Start .. End]
    /\ up \subseteq Dependencies
    /\ known \in [Dependencies -> SUBSET BOOLEAN]
    /\ request.kind \in {scenario.kind, "none", "done"}
    /\ request.todo \subseteq {"order", "orders", "ids", "items", "payments", "shipments",
                               "rows", "count"} \cup Dependencies
    /\ request.page \in 0 .. Cardinality(Orders)
    /\ ToSet(got.rows) \cup got.ids \cup got.items \cup seen \cup before \subseteq Committed
    /\ got.total \in 0 .. Cardinality(Orders)

\* An order never appears without its items, although rows and items are read
\* by different statements, unless it was committed while the overview or the
\* list was being read.
OrdersShowTheirItems ==
    /\ Answered("overview") => \A r \in got.orders : r.id \in before => ShowsItems(r.id)
    /\ Answered("list") => \A r \in Listed : r.id \in before => ShowsItems(r.id)
    /\ Answered("detail") => \A r \in got.orders : ShowsItems(r.id)
    /\ Answered("pages") => \A o \in ToSet(got.rows) : ShowsItems(o)

\* The detail of an order shows the payment, refunded since or not, and the
\* shipment its status rests on: they are committed before the status and read
\* after it.  Only an order with several payment rows may show one that failed.
DetailShowsItsGrounds ==
    Answered("detail") =>
        \A r \in got.orders :
            /\ r.status \in {"PAYMENT_PROCESSED", "SHIPPED"} =>
                  \/ \E s \in Charged : <<r.id, s>> \in got.payments
                  \/ "FAILED" \in payments[r.id]
            /\ r.status = "SHIPPED" => \E s \in got.shipments : s.id = r.id

\* Reading page after page while others write, a client gets every order that
\* was there when it began (docs/structure.md, "All orders"), unless two orders
\* share a created_at, one stopped matching the filter or one was added between
\* a page's count and its rows.
PagesMissNothing == request.kind = "done" /\ ~disturbed => before \subseteq seen

\* The clocks were put forward, or back, between the midnights of the i-th and the
\* j-th point.  A midnight that a change skips is read as an instant after it.
PutForward(i, j) ==
    /\ scenario.after > scenario.zone
    /\ DaysBack(TrendDays - i) < scenario.turn + (scenario.after - scenario.zone)
    /\ scenario.turn <= DaysBack(TrendDays - j)
PutBack(i, j) ==
    /\ scenario.after < scenario.zone
    /\ DaysBack(TrendDays - i) < scenario.turn /\ scenario.turn <= DaysBack(TrendDays - j)

\* The trend counts an order twice only in two points next to each other between
\* which the clocks were put forward (their midnights then have the same UTC date),
\* and leaves out an order between its first and last day only if the clocks were
\* put back.  Where local time is UTC its last point is the summary's ordersToday.
TrendAgreesWithSummary ==
    Answered("overview") =>
        /\ \A i, j \in 1 .. TrendDays :
              i < j /\ Trend[i] \cap Trend[j] # {} => j = i + 1 /\ PutForward(i, j)
        /\ \A r \in got.orders :
              DayOf(r.at) \in TrendKey(1) .. TrendKey(TrendDays) =>
                  PutBack(1, TrendDays) \/ \E i \in 1 .. TrendDays : r \in Trend[i]
        /\ scenario.zone = 0 /\ scenario.after = 0 => Trend[TrendDays] = OrdersToday

\* The probes of one answer see their dependencies at different moments, while
\* these come and go; still an answer never calls healthy, or ready, what was
\* away all the time, nor unhealthy what was there all the time, and an outage
\* of the database or the broker is never shown as a mere degradation.
HealthIsTrue ==
    LET Always(d) == known[d] = {TRUE}
        Never(d) == known[d] = {FALSE}
    IN  /\ Answered("health") =>
              /\ (\A d \in Dependencies : Always(d)) => Overall = "HEALTHY"
              /\ Never("temporal") => Overall # "HEALTHY"
              /\ (\E d \in Dependencies \ {"temporal"} : Never(d)) => Overall = "DOWN"
              /\ (\A d \in Dependencies \ {"temporal"} : Always(d)) => Overall # "DOWN"
        /\ Answered("ready") =>
              /\ (\A d \in Statements("ready") : Always(d)) => Ready
              /\ (\E d \in Statements("ready") : Never(d)) => ~Ready

\* "Recent activity": the feed shows what was made last.
FeedShowsTheLatest ==
    LET Made(e) == IF e.kind = "order" THEN e.at ELSE shipments[e.id]
    IN  Answered("overview") =>
            \A i, j \in 1 .. Len(Feed) : i < j => Made(Feed[i]) >= Made(Feed[j])

============================================================================
