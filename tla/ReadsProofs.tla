---------------------------- MODULE ReadsProofs ----------------------------
(***************************************************************************)
(* Theorems about the reads: what a list, a detail or a health check       *)
(* answers is true of the system although its statements see it at         *)
(* different moments.                                                      *)
(*                                                                         *)
(* The invariant relates what the statements that have returned have found *)
(* to what is committed now.  Nothing the writers have committed is taken  *)
(* back (Grows), so what a first statement found is there for the next     *)
(* one.  Pages are different: their rows move.  There the invariant says   *)
(* that an order the client has not got yet stands, among those that match *)
(* the filter, at or beyond the start of the page that is due; new orders  *)
(* come in front of it and only move it further back.                      *)
(***************************************************************************)
EXTENDS Reads, FiniteSetTheorems, SequenceTheorems, TLAPS

----------------------------------------------------------------------------
\* The types of the variables, as far as the argument needs them.
OrderRow ==
    [status : {"none", "draft", "PENDING", "PAYMENT_PROCESSED", "SHIPPED", "CANCELLED"},
     at : Nat, items : BOOLEAN]

Kinds == {"overview", "list", "detail", "pages", "health", "ready"}
AllStatements == {"order", "orders", "ids", "items", "payments", "shipments",
                  "rows", "count"} \cup Dependencies

RequestType ==
    [kind : Kinds \cup {"none", "done"}, filter : {"any", "PENDING"},
     order : Orders \cup {"none"}, page : Nat, todo : SUBSET AllStatements]

Shape ==
    /\ now \in Nat /\ Start <= now
    /\ scenario \in Scenarios
    /\ orders \in [Orders -> OrderRow]
    /\ payments \in [Orders -> SUBSET (Charged \cup {"FAILED"})]
    /\ shipments \in [Orders -> Nat]
    /\ up \subseteq Dependencies
    /\ DOMAIN known = Dependencies
    /\ request \in RequestType
    /\ DOMAIN got = DOMAIN Nothing
    /\ disturbed \in BOOLEAN

\* What the status of an order rests on is there before the status is.
Grounded(o) ==
    /\ orders[o].status \in {"PAYMENT_PROCESSED", "SHIPPED"} =>
          payments[o] \cap Charged # {}
    /\ orders[o].status = "SHIPPED" => shipments[o] # 0
    /\ o \in Committed => orders[o].items
    /\ orders[o].at <= now

Writers == \A o \in Orders : Grounded(o)

\* Which statements a request of each kind can have still to run.
Plan ==
    /\ request = NoRequest => got = Nothing /\ seen = {}
    /\ request.kind \in {"none", "done"} => request.todo = {}
    /\ "order" \in request.todo => request.kind = "detail"
    /\ "orders" \in request.todo => request.kind \in {"overview", "list"}
    /\ "ids" \in request.todo => request.kind \in {"overview", "list", "detail"}
    /\ "rows" \in request.todo \/ "count" \in request.todo => request.kind = "pages"
    /\ request.kind = "pages" => request.todo \subseteq {"rows", "count", "items"}
    /\ request.kind = "detail" => request.order \in Orders
    /\ request.kind = "pages" => request.page > 0

\* What the statements returned, beside what they found.
Results ==
    /\ before \subseteq Committed
    /\ got.ids \subseteq Committed
    /\ "items" \notin request.todo => got.ids \subseteq got.items
    /\ request.kind \in {"overview", "list"} /\ "ids" \notin request.todo =>
          before \subseteq got.ids
    /\ request.kind = "pages" => ToSet(got.rows) \subseteq got.ids
    /\ \A r \in got.orders : r.at \in Nat /\ r.at <= now

\* A row of the detail, read before the rows its status rests on.
Followed(r) ==
    /\ r.id = request.order
    /\ {"order", "ids"} \cap request.todo = {} => r.id \in got.ids
    /\ r.status \in {"PAYMENT_PROCESSED", "SHIPPED"} =>
          /\ payments[r.id] \cap Charged # {}
          /\ "payments" \notin request.todo =>
                \/ \E s \in Charged : <<r.id, s>> \in got.payments
                \/ "FAILED" \in payments[r.id]
    /\ r.status = "SHIPPED" =>
          /\ shipments[r.id] # 0
          /\ "shipments" \notin request.todo => \E s \in got.shipments : s.id = r.id

Detail ==
    request.kind = "detail" =>
        /\ "order" \in request.todo => got.orders = {}
        /\ "ids" \in request.todo => request.order \in Committed
        /\ \A r \in got.orders : Followed(r)

\* What is known of a dependency covers what it does and what its probe found.
Witnessed(d) ==
    /\ d \in up => TRUE \in known[d]
    /\ d \notin up => FALSE \in known[d]
    /\ d \in got.healthy => TRUE \in known[d]
    /\ d \in Statements(request.kind) \ request.todo /\ d \notin got.healthy =>
          FALSE \in known[d]

Probes ==
    request.kind \in {"health", "ready"} => \A d \in Dependencies : Witnessed(d)

\* The matching orders made after o, which come before it in the list.
Newer(o) == {p \in Matching : orders[p].at > orders[o].at}
Rank(o) == Cardinality(Newer(o))

\* The orders the client asked for and has not got, this page included.
Missed == before \ (seen \cup ToSet(got.rows))

\* An order that was not on the pages so far has moved no nearer to the start of
\* the list than the page that is due; and as long as there is one, the count is
\* beyond the page.
Pages ==
    /\ request.kind = "pages" /\ ~disturbed =>
          /\ \A p, q \in Committed : p # q => orders[p].at # orders[q].at
          /\ before \subseteq Matching
          /\ \A o \in before \ seen : Rank(o) >= (request.page - 1) * PageSize
          /\ "rows" \notin request.todo =>
                \A o \in Missed : Rank(o) >= request.page * PageSize
          /\ "rows" \in request.todo =>
                /\ request.todo \subseteq {"rows", "count"}
                /\ "count" \notin request.todo => got.total = Cardinality(Matching)
          /\ {"rows", "count"} \cap request.todo = {} /\ Missed # {} =>
                got.total > request.page * PageSize
    /\ request.kind = "done" /\ ~disturbed => before \subseteq seen

IInv == Shape /\ Writers /\ Plan /\ Results /\ Detail /\ Probes /\ Pages
----------------------------------------------------------------------------
\* Types
LEMMA ScenarioType ==
    ASSUME Shape
    PROVE  /\ scenario.kind \in Kinds /\ scenario.zone \in -1 .. 1
           /\ scenario.after \in -1 .. 1 /\ scenario.turn \in Int
           /\ scenario.made \subseteq Orders /\ scenario.paying \subseteq Orders
BY ScenarioAssumption DEF Shape, Kinds

LEMMA OrderType ==
    ASSUME Shape, NEW o \in Orders
    PROVE  /\ orders[o].status \in {"none", "draft", "PENDING", "PAYMENT_PROCESSED",
                                    "SHIPPED", "CANCELLED"}
           /\ orders[o].at \in Nat /\ orders[o].items \in BOOLEAN
           /\ payments[o] \subseteq Charged \cup {"FAILED"} /\ shipments[o] \in Nat
BY DEF Shape, OrderRow

LEMMA RequestFields ==
    ASSUME Shape
    PROVE  /\ request.kind \in Kinds \cup {"none", "done"}
           /\ request.filter \in {"any", "PENDING"}
           /\ request.order \in Orders \cup {"none"}
           /\ request.page \in Nat /\ request.todo \in SUBSET AllStatements
           /\ DOMAIN request = {"kind", "filter", "order", "page", "todo"}
BY DEF Shape, RequestType

LEMMA NowPositive == ASSUME Shape PROVE now \in Nat /\ now > 0
<1>1. TrendDays \in Nat /\ TrendDays > 0
  BY LimitAssumption
<1> QED BY <1>1, TimeAssumption DEF Shape

LEMMA StatementsType ==
    ASSUME NEW kind \in Kinds PROVE Statements(kind) \in SUBSET AllStatements
BY DEF Kinds, Statements, AllStatements, Dependencies

\* What the rows of an order become when it is saved.
LEMMA SavedRow ==
    ASSUME Shape, NEW o \in Orders, Save(o)
    PROVE  \E status \in NextStatus(o) :
               /\ status \in {"PENDING", "CANCELLED", "PAYMENT_PROCESSED", "SHIPPED"}
               /\ orders' \in [Orders -> OrderRow]
               /\ orders'[o].status = status /\ orders'[o].items = TRUE
               /\ orders'[o].at = orders[o].at
               /\ \A p \in Orders : p # o => orders'[p] = orders[p]
<1>1. PICK status \in NextStatus(o) : SaveOrder(o, status)
  BY DEF Save
<1>2. status \in {"PENDING", "CANCELLED", "PAYMENT_PROCESSED", "SHIPPED"}
  BY <1>1 DEF NextStatus
<1> DEFINE row == [orders[o] EXCEPT !.status = status, !.items = TRUE]
<1>3. row \in OrderRow /\ row.status = status /\ row.items = TRUE
      /\ row.at = orders[o].at
  <2>1. orders[o] \in OrderRow
    BY DEF Shape
  <2> QED BY <1>2, <2>1 DEF OrderRow
<1>4. orders' = [orders EXCEPT ![o] = row]
  BY <1>1 DEF SaveOrder
<1>5. orders' \in [Orders -> OrderRow] /\ orders'[o] = row
      /\ \A p \in Orders : p # o => orders'[p] = orders[p]
  <2> HIDE DEF row
  <2> QED BY <1>3, <1>4 DEF Shape
<1> QED BY <1>1, <1>2, <1>3, <1>5

LEMMA WriterShape ==
    ASSUME Shape,
           Tick \/ \E o \in Orders : Draft(o) \/ Save(o) \/ Pay(o) \/ Refund(o) \/ Ship(o)
    PROVE  Shape'
<1>1. CASE Tick
  <2>1. now' \in Nat /\ Start <= now'
    BY <1>1, TimeAssumption DEF Tick, Shape
  <2> QED BY <1>1, <2>1 DEF Tick, Shape, reading, service
<1>2. ASSUME NEW o \in Orders, Draft(o) PROVE Shape'
  <2>1. [status |-> "draft", at |-> now, items |-> FALSE] \in OrderRow
    BY DEF OrderRow, Shape
  <2>2. orders' \in [Orders -> OrderRow]
    BY <1>2, <2>1 DEF Draft, Shape
  <2> QED BY <1>2, <2>2 DEF Draft, Shape, reading, service
<1>3. ASSUME NEW o \in Orders, Save(o) PROVE Shape'
  <2>1. orders' \in [Orders -> OrderRow]
    BY <1>3, SavedRow
  <2>2. disturbed' \in BOOLEAN
    BY <1>3 DEF Save, Shape
  <2> QED BY <1>3, <2>1, <2>2 DEF Save, Shape, reading, service
<1>4. ASSUME NEW o \in Orders, Pay(o) \/ Refund(o) PROVE Shape'
  <2>1. payments' \in [Orders -> SUBSET (Charged \cup {"FAILED"})]
    BY <1>4 DEF Pay, Refund, Shape, Charged
  <2> QED BY <1>4, <2>1 DEF Pay, Refund, Shape, reading, service
<1>5. ASSUME NEW o \in Orders, Ship(o) PROVE Shape'
  <2>1. shipments' \in [Orders -> Nat]
    BY <1>5 DEF Ship, Shape
  <2> QED BY <1>5, <2>1 DEF Ship, Shape, reading, service
<1> QED BY <1>1, <1>2, <1>3, <1>4, <1>5

LEMMA AskShape ==
    ASSUME Shape, NEW filter \in {"any", "PENDING"}, NEW o \in scenario.made,
           Ask(scenario.kind, filter, o)
    PROVE  Shape'
<1>1. /\ scenario.kind \in Kinds /\ o \in Orders
      /\ Statements(scenario.kind) \in SUBSET AllStatements
  BY ScenarioType, StatementsType
<1>2. request' \in RequestType
  BY <1>1 DEF Ask, RequestType
<1>3. disturbed' \in BOOLEAN /\ DOMAIN known' = Dependencies
  BY DEF Ask
<1> QED BY <1>2, <1>3 DEF Ask, Shape, written

\* Whatever a statement returns, the request keeps its type.
LEMMA ReturnsShape ==
    ASSUME Shape, NEW statement, NEW result, NEW more \in SUBSET AllStatements,
           Returns(statement, result, more), DOMAIN result = DOMAIN got
    PROVE  Shape'
<1>1. request' \in RequestType
  BY DEF Shape, Returns, RequestType
<1> QED BY <1>1 DEF Shape, Returns, written

LEMMA RowsShape ==
    ASSUME Shape, ReadRows
    PROVE  Shape'
<1>1. PICK s \in Sorted(Matching) :
         Returns("rows", [got EXCEPT !.rows = Page(s), !.ids = ToSet(Page(s))],
                 IF Page(s) = <<>> THEN {} ELSE {"items"})
  BY DEF ReadRows
<1>2. (IF Page(s) = <<>> THEN {} ELSE {"items"}) \in SUBSET AllStatements
  BY DEF AllStatements
<1>3. DOMAIN [got EXCEPT !.rows = Page(s), !.ids = ToSet(Page(s))] = DOMAIN got
  OBVIOUS
<1> QED BY <1>1, <1>2, <1>3, ReturnsShape

LEMMA ReadShape ==
    ASSUME Shape,
           \/ ReadOrders \/ ReadOrder \/ ReadIds \/ ReadItems \/ ReadPayments
           \/ ReadShipments \/ Count
           \/ ProbeDatabase \/ ProbeKafka \/ ProbeTemporal
    PROVE  Shape'
<1>1. \E statement, result : \E more \in SUBSET AllStatements :
          /\ Returns(statement, result, more)
          /\ DOMAIN result = DOMAIN got
  <2>0. {} \in SUBSET AllStatements /\ {"items"} \in SUBSET AllStatements
        /\ {"ids", "payments", "shipments"} \in SUBSET AllStatements
    BY DEF AllStatements
  <2>1. CASE ReadOrders
    BY <2>0, <2>1 DEF ReadOrders
  <2>2. CASE ReadOrder
    BY <2>0, <2>2 DEF ReadOrder
  <2>3. CASE ReadIds
    BY <2>0, <2>3 DEF ReadIds
  <2>4. CASE ReadItems
    BY <2>0, <2>4 DEF ReadItems
  <2>5. CASE ReadPayments
    <3>1. PICK rows : Returns("payments", [got EXCEPT !.payments = rows], {})
      BY <2>5, Zenon DEF ReadPayments
    <3> QED BY <2>0, <3>1
  <2>6. CASE ReadShipments
    BY <2>0, <2>6 DEF ReadShipments
  <2>7. CASE Count
    BY <2>0, <2>7 DEF Count
  <2>8. CASE ProbeDatabase \/ ProbeKafka \/ ProbeTemporal
    BY <2>0, <2>8 DEF ProbeDatabase, ProbeKafka, ProbeTemporal, Probed
  <2> QED BY <2>1, <2>2, <2>3, <2>4, <2>5, <2>6, <2>7, <2>8
<1> QED BY <1>1, ReturnsShape

LEMMA NextShape == ASSUME Shape, [Next]_vars PROVE Shape'
<1>1. CASE UNCHANGED vars
  BY <1>1 DEF Shape, vars
<1>2. CASE Deliver
  <2>1. request' \in RequestType
    BY <1>2 DEF Deliver, NoRequest, RequestType
  <2> QED BY <1>2, <2>1 DEF Deliver, Shape, written
<1>3. CASE Turn
  <2>1. Statements("pages") \in SUBSET AllStatements
    BY StatementsType DEF Kinds
  <2>2. request' \in RequestType
    <3>1. request \in RequestType /\ request.page + 1 \in Nat
      BY RequestFields DEF Shape
    <3>2. CASE request.page * PageSize < got.total
      <4>1. request' = [request EXCEPT !.page = @ + 1, !.todo = Statements("pages")]
        BY <1>3, <3>2 DEF Turn
      <4> QED BY <2>1, <3>1, <4>1 DEF RequestType
    <3>3. CASE ~(request.page * PageSize < got.total)
      <4>1. request' = [request EXCEPT !.kind = "done"]
        BY <1>3, <3>3 DEF Turn
      <4> QED BY <3>1, <4>1 DEF RequestType
    <3> QED BY <3>2, <3>3
  <2> QED BY <1>3, <2>2 DEF Turn, Shape, written
<1>4. ASSUME NEW d \in Dependencies, Flip(d) PROVE Shape'
  BY <1>4 DEF Flip, Shape, reading
<1> QED BY <1>1, <1>2, <1>3, <1>4, WriterShape, AskShape, RowsShape, ReadShape DEF Next

LEMMA InitShape == ASSUME Init PROVE Shape
<1>1. Start \in Nat
  BY TimeAssumption
<1>2. NoOrder \in OrderRow
  BY DEF NoOrder, OrderRow
<1>3. NoRequest \in RequestType
  BY DEF NoRequest, RequestType
<1>4. /\ orders \in [Orders -> OrderRow] /\ shipments \in [Orders -> Nat]
      /\ payments \in [Orders -> SUBSET (Charged \cup {"FAILED"})]
  BY <1>2 DEF Init
<1>5. now \in Nat /\ Start <= now
  BY <1>1 DEF Init
<1> QED BY <1>3, <1>4, <1>5 DEF Init, Shape

----------------------------------------------------------------------------
\* The writers

\* Nothing a read has relied on is taken back.
Grows ==
    /\ Committed \subseteq Committed'
    /\ now <= now' /\ now' \in Nat
    /\ \A o \in Orders : /\ payments[o] \cap Charged # {} => payments'[o] \cap Charged # {}
                         /\ "FAILED" \in payments[o] => "FAILED" \in payments'[o]
                         /\ shipments[o] # 0 => shipments'[o] # 0
                         /\ o \in Committed => orders'[o].at = orders[o].at

Write == Tick \/ \E o \in Orders : Draft(o) \/ Save(o) \/ Pay(o) \/ Refund(o) \/ Ship(o)

LEMMA CommittedIs ==
    ASSUME NEW o \in Orders
    PROVE  o \in Committed <=> orders[o].status \notin {"none", "draft"}
BY DEF Committed

LEMMA SaveCommits ==
    ASSUME Shape, NEW o \in Orders, Save(o)
    PROVE  Committed' = Committed \cup {o}
BY SavedRow DEF Committed

LEMMA DraftCommitsNot ==
    ASSUME Shape, NEW o \in Orders, Draft(o)
    PROVE  /\ o \notin Committed /\ o \notin Committed' /\ Committed' = Committed
           /\ orders'[o] = [status |-> "draft", at |-> now, items |-> FALSE]
           /\ \A p \in Orders : p # o => orders'[p] = orders[p]
<1>1. orders[o].status = "none"
  BY DEF Draft, NoOrder
<1>2. /\ orders'[o] = [status |-> "draft", at |-> now, items |-> FALSE]
      /\ \A p \in Orders : p # o => orders'[p] = orders[p]
  BY DEF Draft, Shape
<1> QED BY <1>1, <1>2 DEF Committed

LEMMA WriterGrows == ASSUME Shape, Write PROVE Grows
<1>0. now \in Nat
  BY DEF Shape
<1>1. CASE Tick
  BY <1>0, <1>1 DEF Tick, Grows, Committed
<1>2. ASSUME NEW o \in Orders, Draft(o) PROVE Grows
  <2>1. UNCHANGED <<now, payments, shipments>>
    BY <1>2 DEF Draft
  <2> QED BY <1>0, <1>2, <2>1, DraftCommitsNot DEF Grows
<1>3. ASSUME NEW o \in Orders, Save(o) PROVE Grows
  <2>1. UNCHANGED <<now, payments, shipments>>
    BY <1>3 DEF Save
  <2>2. \A p \in Orders : orders'[p].at = orders[p].at
    BY <1>3, SavedRow
  <2> QED BY <1>0, <1>3, <2>1, <2>2, SaveCommits DEF Grows
<1>4. ASSUME NEW o \in Orders, Pay(o) \/ Refund(o) PROVE Grows
  <2>1. UNCHANGED <<now, orders, shipments>>
    BY <1>4 DEF Pay, Refund
  <2>2. \A p \in Orders :
            /\ payments[p] \cap Charged # {} => payments'[p] \cap Charged # {}
            /\ "FAILED" \in payments[p] => "FAILED" \in payments'[p]
    BY <1>4 DEF Pay, Refund, Shape, Charged
  <2> QED BY <1>0, <2>1, <2>2 DEF Grows, Committed
<1>5. ASSUME NEW o \in Orders, Ship(o) PROVE Grows
  <2>1. UNCHANGED <<now, orders, payments>>
    BY <1>5 DEF Ship
  <2>2. \A p \in Orders : shipments[p] # 0 => shipments'[p] # 0
    BY <1>5 DEF Ship, Shape
  <2> QED BY <1>0, <2>1, <2>2 DEF Grows, Committed
<1> QED BY <1>1, <1>2, <1>3, <1>4, <1>5 DEF Write

\* What does not write leaves the writers' state alone.
LEMMA ReadersWriteNothing ==
    ASSUME [Next]_vars, ~Write
    PROVE  UNCHANGED <<now, scenario, orders, payments, shipments>>
<1>1. CASE UNCHANGED vars
  BY <1>1 DEF vars
<1>2. CASE Deliver \/ Turn
  BY <1>2 DEF Deliver, Turn, written
<1>3. ASSUME NEW d \in Dependencies, Flip(d)
      PROVE  UNCHANGED <<now, scenario, orders, payments, shipments>>
  BY <1>3 DEF Flip
<1>4. ASSUME NEW filter, NEW o, Ask(scenario.kind, filter, o)
      PROVE  UNCHANGED <<now, scenario, orders, payments, shipments>>
  BY <1>4 DEF Ask, written
<1>5. ASSUME NEW statement, NEW result, NEW more, Returns(statement, result, more)
      PROVE  UNCHANGED <<now, scenario, orders, payments, shipments>>
  BY <1>5 DEF Returns, written
<1>6. CASE ReadRows
  BY <1>5, <1>6, Zenon DEF ReadRows
<1>7. CASE ReadPayments
  BY <1>5, <1>7, Zenon DEF ReadPayments
<1>8. CASE \/ ReadOrders \/ ReadOrder \/ ReadIds \/ ReadItems \/ ReadShipments \/ Count
           \/ ProbeDatabase \/ ProbeKafka \/ ProbeTemporal
  BY <1>5, <1>8, Zenon DEF ReadOrders, ReadOrder, ReadIds, ReadItems, ReadShipments,
     Count, ProbeDatabase, ProbeKafka, ProbeTemporal
<1> QED BY <1>1, <1>2, <1>3, <1>4, <1>6, <1>7, <1>8, Zenon DEF Next, Write

LEMMA WritersStep ==
    ASSUME Shape, Writers, [Next]_vars
    PROVE  Writers'
<1>0. now \in Nat /\ now > 0
  BY NowPositive
<1>1. CASE Tick
  <2>1. now' = now + 1 /\ UNCHANGED <<orders, payments, shipments>>
    BY <1>1 DEF Tick
  <2>2. ASSUME NEW o \in Orders PROVE Grounded(o)'
    <3>1. Grounded(o) /\ orders[o].at \in Nat
      BY OrderType DEF Writers
    <3> QED BY <1>0, <2>1, <3>1 DEF Grounded, Committed
  <2> QED BY <2>2 DEF Writers
<1>2. ASSUME NEW o \in Orders, Draft(o) PROVE Writers'
  <2>1. UNCHANGED <<now, payments, shipments>>
    BY <1>2 DEF Draft
  <2>2. ASSUME NEW p \in Orders PROVE Grounded(p)'
    <3>1. CASE p = o
      <4>1. orders'[o].status = "draft" /\ orders'[o].at = now
        BY <1>2, DraftCommitsNot
      <4> QED BY <1>0, <1>2, <2>1, <3>1, <4>1, DraftCommitsNot DEF Grounded
    <3>2. CASE p # o
      <4>1. orders'[p] = orders[p] /\ Committed' = Committed
        BY <1>2, <3>2, DraftCommitsNot
      <4> QED BY <2>1, <4>1 DEF Writers, Grounded
    <3> QED BY <3>1, <3>2
  <2> QED BY <2>2 DEF Writers
<1>3. ASSUME NEW o \in Orders, Save(o) PROVE Writers'
  <2>1. UNCHANGED <<now, payments, shipments>>
    BY <1>3 DEF Save
  <2>2. PICK status \in NextStatus(o) :
           /\ orders'[o].status = status /\ orders'[o].items = TRUE
           /\ orders'[o].at = orders[o].at
           /\ \A p \in Orders : p # o => orders'[p] = orders[p]
    BY <1>3, SavedRow
  <2>3. ASSUME NEW p \in Orders PROVE Grounded(p)'
    <3>0. Grounded(p)
      BY DEF Writers
    <3>1. CASE p = o
      <4>1. /\ status = "PAYMENT_PROCESSED" => payments[o] \cap Charged # {}
            /\ status = "SHIPPED" => /\ orders[o].status = "PAYMENT_PROCESSED"
                                     /\ shipments[o] # 0
        BY DEF NextStatus
      <4> QED BY <2>1, <2>2, <3>0, <3>1, <4>1 DEF Grounded
    <3>2. CASE p # o
      <4>1. orders'[p] = orders[p] /\ (p \in Committed' <=> p \in Committed)
        BY <2>2, <3>2, CommittedIs DEF Committed
      <4> QED BY <2>1, <3>0, <4>1 DEF Grounded
    <3> QED BY <3>1, <3>2
  <2> QED BY <2>3 DEF Writers
<1>4. ASSUME NEW o \in Orders, Pay(o) \/ Refund(o) \/ Ship(o) PROVE Writers'
  <2>1. UNCHANGED <<now, orders>>
    BY <1>4 DEF Pay, Refund, Ship
  <2>2. Grows
    BY <1>4, WriterGrows DEF Write
  <2> QED BY <2>1, <2>2 DEF Writers, Grounded, Grows, Committed
<1>5. CASE ~Write
  BY <1>5, ReadersWriteNothing DEF Writers, Grounded, Committed
<1> QED BY <1>1, <1>2, <1>3, <1>4, <1>5 DEF Write

----------------------------------------------------------------------------
\* The statements

\* A statement of the request has returned, and those of `more` are to be run.
Stepped(statement, more) ==
    /\ statement \in request.todo
    /\ request'.todo = (request.todo \ {statement}) \cup more
    /\ request'.kind = request.kind /\ request'.filter = request.filter
    /\ request'.order = request.order /\ request'.page = request.page
    /\ UNCHANGED <<now, scenario, orders, payments, shipments, up, seen, before, known,
                   disturbed>>

\* Only these fields of the result may have changed.
Changes(fields) == \A f \in DOMAIN Nothing \ fields : got'[f] = got[f]

LEMMA ReturnsSteps ==
    ASSUME Shape, NEW statement, NEW result, NEW more, Returns(statement, result, more)
    PROVE  Stepped(statement, more) /\ got' = result
<1>1. DOMAIN request = {"kind", "filter", "order", "page", "todo"}
  BY RequestFields
<1> QED BY <1>1 DEF Returns, Stepped, written

LEMMA OrdersRead ==
    ASSUME Shape, ReadOrders
    PROVE  /\ Stepped("orders", {}) /\ Changes({"orders"})
           /\ got'.orders = OrderRows(Committed)
<1>1. Stepped("orders", {}) /\ got' = [got EXCEPT !.orders = OrderRows(Committed)]
  BY ReturnsSteps DEF ReadOrders
<1> QED BY <1>1 DEF Shape, Changes, Nothing

LEMMA OrderRead ==
    ASSUME Shape, ReadOrder
    PROVE  /\ Changes({"orders"})
           /\ got'.orders = OrderRows(Committed \cap {request.order})
           /\ \/ Stepped("order", {}) /\ got'.orders = {}
              \/ /\ Stepped("order", {"ids", "payments", "shipments"})
                 /\ request.order \in Committed
<1> DEFINE found == Committed \cap {request.order}
           more == IF found = {} THEN {} ELSE {"ids", "payments", "shipments"}
<1>1. Returns("order", [got EXCEPT !.orders = OrderRows(found)], more)
  BY DEF ReadOrder
<1>2. Stepped("order", more) /\ got' = [got EXCEPT !.orders = OrderRows(found)]
  <2> HIDE DEF more, found
  <2> QED BY <1>1, ReturnsSteps
<1>3. Changes({"orders"}) /\ got'.orders = OrderRows(found)
  BY <1>2 DEF Shape, Changes, Nothing
<1>4. found = {} => OrderRows(found) = {}
  BY DEF OrderRows
<1> QED BY <1>2, <1>3, <1>4

LEMMA IdsRead ==
    ASSUME Shape, ReadIds
    PROVE  /\ Stepped("ids", {"items"}) /\ Changes({"ids"})
           /\ got'.ids = IF request.kind = "detail" THEN {request.order} ELSE Committed
<1> DEFINE ids == IF request.kind = "detail" THEN {request.order} ELSE Committed
<1>1. Stepped("ids", {"items"}) /\ got' = [got EXCEPT !.ids = ids]
  BY ReturnsSteps DEF ReadIds
<1> QED BY <1>1 DEF Shape, Changes, Nothing

LEMMA ItemsRead ==
    ASSUME Shape, ReadItems
    PROVE  /\ Stepped("items", {}) /\ Changes({"items"})
           /\ got'.items = {o \in got.ids : orders[o].items}
<1> DEFINE items == {o \in got.ids : orders[o].items}
<1>1. Stepped("items", {}) /\ got' = [got EXCEPT !.items = items]
  BY ReturnsSteps DEF ReadItems
<1> QED BY <1>1 DEF Shape, Changes, Nothing

LEMMA PaymentsRead ==
    ASSUME Shape, ReadPayments
    PROVE  /\ Stepped("payments", {}) /\ Changes({"payments"})
           /\ \/ request.kind = "overview"
              \/ /\ request.kind = "detail"
                 /\ got'.payments \in PaymentOf(request.order)
<1> DEFINE Paid(rows) == Returns("payments", [got EXCEPT !.payments = rows], {})
<1>1. ASSUME NEW rows, Paid(rows)
      PROVE  /\ Stepped("payments", {}) /\ Changes({"payments"})
             /\ got'.payments = rows
  <2>1. Stepped("payments", {}) /\ got' = [got EXCEPT !.payments = rows]
    BY <1>1, ReturnsSteps
  <2> QED BY <2>1 DEF Shape, Changes, Nothing
<1>2. \/ request.kind = "overview" /\ \E rows : Paid(rows)
      \/ request.kind = "detail" /\ \E rows \in PaymentOf(request.order) : Paid(rows)
  BY Zenon DEF ReadPayments
<1> HIDE DEF Paid
<1> QED BY <1>1, <1>2

LEMMA ShipmentsRead ==
    ASSUME Shape, ReadShipments
    PROVE  /\ Stepped("shipments", {}) /\ Changes({"shipments"})
           /\ got'.shipments =
                 {ShipmentOf(o) :
                     o \in {p \in Orders : shipments[p] # 0
                                             /\ request.order \in {"none", p}}}
<1> DEFINE found == {p \in Orders : shipments[p] # 0 /\ request.order \in {"none", p}}
           rows == {ShipmentOf(o) : o \in found}
<1>1. Returns("shipments", [got EXCEPT !.shipments = rows], {})
  BY DEF ReadShipments
<1>2. Stepped("shipments", {}) /\ got' = [got EXCEPT !.shipments = rows]
  <2> HIDE DEF rows
  <2> QED BY <1>1, ReturnsSteps
<1>3. Changes({"shipments"}) /\ got'.shipments = rows
  <2> HIDE DEF rows
  <2> QED BY <1>2 DEF Shape, Changes, Nothing
<1> QED BY <1>2, <1>3

LEMMA RowsRead ==
    ASSUME Shape, ReadRows
    PROVE  /\ Changes({"rows", "ids"})
           /\ \E s \in Sorted(Matching) : got'.rows = Page(s)
           /\ got'.ids = ToSet(got'.rows)
           /\ Stepped("rows", IF got'.rows = <<>> THEN {} ELSE {"items"})
<1>1. PICK s \in Sorted(Matching) :
         Returns("rows", [got EXCEPT !.rows = Page(s), !.ids = ToSet(Page(s))],
                 IF Page(s) = <<>> THEN {} ELSE {"items"})
  BY DEF ReadRows
<1> DEFINE page == Page(s)
           more == IF page = <<>> THEN {} ELSE {"items"}
           result == [got EXCEPT !.rows = page, !.ids = ToSet(page)]
<1>2. Stepped("rows", more) /\ got' = result
  <2>1. Returns("rows", result, more)
    BY <1>1
  <2> HIDE DEF result, more
  <2> QED BY <2>1, ReturnsSteps
<1>3. /\ Changes({"rows", "ids"})
      /\ got'.rows = page /\ got'.ids = ToSet(page)
  <2> HIDE DEF page
  <2> QED BY <1>2 DEF Shape, Changes, Nothing
<1> QED BY <1>2, <1>3

LEMMA Counted ==
    ASSUME Shape, Count
    PROVE  /\ Stepped("count", {}) /\ Changes({"total"})
           /\ got'.total = Cardinality(Matching)
<1>1. Stepped("count", {}) /\ got' = [got EXCEPT !.total = Cardinality(Matching)]
  BY ReturnsSteps DEF Count
<1> QED BY <1>1 DEF Shape, Changes, Nothing

Probe(d) == Returns(d, Probed(d), {})

LEMMA ProbeRead ==
    ASSUME Shape, NEW d \in Dependencies, Probe(d)
    PROVE  /\ Stepped(d, {}) /\ Changes({"healthy"})
           /\ got'.healthy = IF d \in up THEN got.healthy \cup {d} ELSE got.healthy
<1>1. Stepped(d, {}) /\ got' = Probed(d)
  BY ReturnsSteps DEF Probe
<1> QED BY <1>1 DEF Shape, Changes, Nothing, Probed, Responds

LEMMA ProbesAre == ProbeDatabase \/ ProbeKafka \/ ProbeTemporal <=>
                       \E d \in Dependencies : Probe(d)
BY DEF ProbeDatabase, ProbeKafka, ProbeTemporal, Probe, Dependencies

----------------------------------------------------------------------------
\* The plan of a request

\* A step that is no statement, no question and no answer.
Quiet(d) == Write \/ Flip(d) \/ UNCHANGED vars

LEMMA QuietSteps ==
    ASSUME Shape, NEW d, Quiet(d)
    PROVE  UNCHANGED <<request, got, seen, before>> /\ Grows
<1>1. CASE Write
  <2>1. UNCHANGED <<request, got, seen, before>>
    BY <1>1 DEF Write, Tick, Draft, Save, Pay, Refund, Ship, reading
  <2> QED BY <1>1, <2>1, WriterGrows
<1>2. CASE Flip(d) \/ UNCHANGED vars
  <2>1. UNCHANGED <<now, orders, payments, shipments, request, got, seen, before>>
    BY <1>2 DEF Flip, vars, reading
  <2>2. now \in Nat
    BY DEF Shape
  <2> QED BY <2>1, <2>2 DEF Grows, Committed
<1> QED BY <1>1, <1>2 DEF Quiet

\* Every step is of one of these kinds.
LEMMA StepsAre ==
    ASSUME [Next]_vars
    PROVE  \/ \E d \in Dependencies : Quiet(d) \/ Probe(d)
           \/ \E filter \in {"any", "PENDING"}, o \in scenario.made :
                 Ask(scenario.kind, filter, o)
           \/ ReadOrders \/ ReadOrder \/ ReadIds \/ ReadItems \/ ReadPayments
           \/ ReadShipments \/ ReadRows \/ Count \/ Deliver \/ Turn
<1>1. CASE UNCHANGED vars
  <2>1. "kafka" \in Dependencies
    BY DEF Dependencies
  <2> QED BY <1>1, <2>1 DEF Quiet
<1>2. CASE Write
  <2>1. "kafka" \in Dependencies
    BY DEF Dependencies
  <2> QED BY <1>2, <2>1 DEF Quiet
<1>3. ASSUME NEW d \in Dependencies, Flip(d) PROVE Quiet(d)
  BY <1>3 DEF Quiet
<1>4. CASE ProbeDatabase \/ ProbeKafka \/ ProbeTemporal
  BY <1>4, ProbesAre
<1> QED BY <1>1, <1>2, <1>3, <1>4, Zenon DEF Next, Write

LEMMA AskSets ==
    ASSUME Shape, NEW filter \in {"any", "PENDING"}, NEW o \in scenario.made,
           Ask(scenario.kind, filter, o)
    PROVE  /\ request = NoRequest /\ scenario.kind \in Kinds
           /\ request'.kind = scenario.kind /\ request'.filter = filter
           /\ request'.page = 1 /\ request'.todo = Statements(scenario.kind)
           /\ scenario.kind = "detail" => request'.order = o /\ o \in Orders
           /\ scenario.kind # "detail" => request'.order = "none"
           /\ before' = {p \in Committed : filter \in {"any", orders[p].status}}
           /\ disturbed' = \E p, q \in Committed : p # q /\ orders[p].at = orders[q].at
           /\ known' = [d \in Dependencies |-> {Responds(d)}]
           /\ UNCHANGED <<now, scenario, orders, payments, shipments, up, got, seen>>
<1>1. scenario.kind \in Kinds /\ o \in Orders
  BY ScenarioType
<1> QED BY <1>1 DEF Ask, written

LEMMA DeliverSets ==
    ASSUME Deliver
    PROVE  /\ request.kind \notin {"none", "pages", "done"} /\ request.todo = {}
           /\ request'.kind = "done" /\ request'.todo = {}
           /\ got' = Nothing /\ before' = {}
           /\ UNCHANGED <<now, scenario, orders, payments, shipments, up, seen, known,
                          disturbed>>
BY DEF Deliver, NoRequest, written

LEMMA TurnSets ==
    ASSUME Shape, Turn
    PROVE  /\ request.kind = "pages" /\ request.todo = {}
           /\ seen' = seen \cup ToSet(got.rows) /\ got' = Nothing
           /\ request'.filter = request.filter
           /\ request.page * PageSize < got.total =>
                 /\ request'.kind = "pages" /\ request'.page = request.page + 1
                 /\ request'.todo = {"rows", "count"}
           /\ ~(request.page * PageSize < got.total) =>
                 request'.kind = "done" /\ request'.todo = {}
           /\ UNCHANGED <<now, scenario, orders, payments, shipments, up, before, known,
                          disturbed>>
<1>1. DOMAIN request = {"kind", "filter", "order", "page", "todo"}
  BY RequestFields
<1>2. Statements("pages") = {"rows", "count"}
  BY DEF Statements
<1>3. CASE request.page * PageSize < got.total
  <2>1. request' = [request EXCEPT !.page = @ + 1, !.todo = Statements("pages")]
    BY <1>3 DEF Turn
  <2> QED BY <1>1, <1>2, <1>3, <2>1 DEF Turn, written
<1>4. CASE ~(request.page * PageSize < got.total)
  <2>1. request' = [request EXCEPT !.kind = "done"]
    BY <1>4 DEF Turn
  <2> QED BY <1>1, <1>4, <2>1 DEF Turn, written
<1> QED BY <1>3, <1>4

LEMMA PlanStep ==
    ASSUME Shape, Plan, [Next]_vars
    PROVE  Plan'
<1>0. NoRequest.kind = "none" /\ NoRequest.todo = {}
  BY DEF NoRequest
<1>1. ASSUME NEW d \in Dependencies, Quiet(d) PROVE Plan'
  BY <1>1, QuietSteps DEF Plan
<1>2. ASSUME NEW filter \in {"any", "PENDING"}, NEW o \in scenario.made,
             Ask(scenario.kind, filter, o)
      PROVE  Plan'
  <2>1. /\ request'.kind = scenario.kind /\ scenario.kind \in Kinds
        /\ request'.page = 1
        /\ request'.todo = Statements(scenario.kind)
        /\ scenario.kind = "detail" => request'.order \in Orders
    BY <1>2, AskSets
  <2>2. request' # NoRequest
    BY <1>0, <2>1 DEF Kinds
  <2>3. /\ "order" \in request'.todo => request'.kind = "detail"
        /\ "orders" \in request'.todo => request'.kind \in {"overview", "list"}
        /\ "ids" \in request'.todo => request'.kind \in {"overview", "list"}
        /\ "rows" \in request'.todo \/ "count" \in request'.todo =>
              request'.kind = "pages"
        /\ request'.kind = "pages" => request'.todo \subseteq {"rows", "count"}
    BY <2>1 DEF Kinds, Statements, Dependencies
  <2>4. request'.kind \notin {"none", "done"} /\ request'.page > 0
    BY <2>1 DEF Kinds
  <2> QED BY <2>1, <2>2, <2>3, <2>4 DEF Plan
<1>3. ASSUME NEW statement, NEW more, Stepped(statement, more), more \subseteq {"items"}
      PROVE  Plan'
  <2>1. request'.kind = request.kind /\ request'.order = request.order
        /\ request'.page = request.page
        /\ request'.todo = (request.todo \ {statement}) \cup more
        /\ statement \in request.todo
    BY <1>3 DEF Stepped
  <2>2. request.kind \notin {"none", "done"}
    BY <2>1 DEF Plan
  <2>3. request' # NoRequest
    BY <1>0, <2>1, <2>2
  <2>4. request'.todo \subseteq request.todo \cup {"items"}
    BY <1>3, <2>1
  <2> QED BY <2>1, <2>2, <2>3, <2>4 DEF Plan
<1>4. CASE ReadOrder
  <2>1. CASE Stepped("order", {})
    BY <1>3, <2>1
  <2>2. CASE Stepped("order", {"ids", "payments", "shipments"})
    <3>1. request'.kind = "detail" /\ request'.order = request.order
          /\ request'.todo \subseteq request.todo \cup {"ids", "payments", "shipments"}
          /\ request.kind = "detail"
      BY <2>2 DEF Stepped, Plan
    <3>2. request' # NoRequest
      BY <1>0, <3>1
    <3> QED BY <3>1, <3>2 DEF Plan
  <2> QED BY <1>4, <2>1, <2>2, OrderRead
<1>5. CASE Deliver
  <2>1. request'.kind = "done" /\ request'.todo = {}
    BY <1>5, DeliverSets
  <2>2. request' # NoRequest
    BY <1>0, <2>1
  <2> QED BY <2>1, <2>2 DEF Plan
<1>6. CASE Turn
  <2>1. /\ request'.kind \in {"pages", "done"}
        /\ request'.todo \subseteq {"rows", "count"}
        /\ request'.kind = "done" => request'.todo = {}
        /\ request'.kind = "pages" => request'.page > 0
    BY <1>6, TurnSets, RequestFields
  <2>2. request' # NoRequest
    BY <1>0, <2>1
  <2> QED BY <2>1, <2>2 DEF Plan
<1>7. CASE \/ ReadOrders \/ ReadIds \/ ReadItems \/ ReadPayments \/ ReadShipments
           \/ ReadRows \/ Count
  <2>1. \/ Stepped("orders", {}) \/ Stepped("ids", {"items"}) \/ Stepped("items", {})
        \/ Stepped("payments", {}) \/ Stepped("shipments", {}) \/ Stepped("count", {})
        \/ Stepped("rows", {}) \/ Stepped("rows", {"items"})
    BY <1>7, OrdersRead, IdsRead, ItemsRead, PaymentsRead, ShipmentsRead, RowsRead, Counted
  <2>2. {} \subseteq {"items"} /\ {"items"} \subseteq {"items"}
    OBVIOUS
  <2> QED BY <1>3, <2>1, <2>2
<1>8. ASSUME NEW d \in Dependencies, Probe(d) PROVE Plan'
  <2>1. {} \subseteq {"items"}
    OBVIOUS
  <2> QED BY <1>3, <1>8, <2>1, ProbeRead
<1> QED BY <1>1, <1>2, <1>4, <1>5, <1>6, <1>7, <1>8, StepsAre, Zenon

----------------------------------------------------------------------------
\* Induction

\* The order on Nat as a set of pairs, the form in which the library states that
\* it is well-founded.
Below == {p \in Nat \X Nat : p[1] < p[2]}

LEMMA BelowWellFounded == IsWellFoundedOn(Below, Nat)
BY NatLessThanWellFounded DEF OpToRel, Below

LEMMA LeastElement ==
    ASSUME NEW T, T \subseteq Nat, T # {}
    PROVE  \E m \in T : \A k \in T : ~(k < m)
<1>1. PICK m \in T : \A y \in T : ~(<<y, m>> \in Below)
  BY BelowWellFounded, WFMin
<1> QED BY <1>1 DEF Below

\* Induction over Nat, for a set instead of a predicate.
LEMMA Induction ==
    ASSUME NEW T, T \subseteq Nat, 0 \in T, \A n \in T : n + 1 \in T
    PROVE  T = Nat
<1> SUFFICES ASSUME T # Nat PROVE FALSE
  OBVIOUS
<1>1. PICK m \in Nat \ T : \A k \in Nat \ T : ~(k < m)
  BY LeastElement
<1>2. m - 1 \in T
  BY <1>1
<1> QED BY <1>1, <1>2

----------------------------------------------------------------------------
\* Pages

LEMMA MatchingFinite ==
    /\ Matching \subseteq Committed /\ Committed \subseteq Orders
    /\ IsFiniteSet(Matching) /\ Cardinality(Matching) \in Nat
<1>1. Matching \subseteq Committed /\ Committed \subseteq Orders
  BY DEF Matching, Committed
<1>2. IsFiniteSet(Matching)
  BY <1>1, OrdersAssumption, FS_Subset
<1> QED BY <1>1, <1>2, FS_CardinalityType

\* A listing of the matching orders is a sequence that names each of them once.
LEMMA SortedIs ==
    ASSUME NEW s \in Sorted(Matching)
    PROVE  /\ s \in [1 .. Cardinality(Matching) -> Matching]
           /\ s \in Seq(Matching) /\ Len(s) = Cardinality(Matching)
           /\ \A i, j \in 1 .. Cardinality(Matching) : i # j => s[i] # s[j]
           /\ \A i \in 1 .. Cardinality(Matching) - 1 :
                 orders[s[i]].at >= orders[s[i + 1]].at
<1>1. /\ s \in [1 .. Cardinality(Matching) -> Matching]
      /\ \A i, j \in 1 .. Cardinality(Matching) : i # j => s[i] # s[j]
  BY DEF Sorted, SetToSeqs
<1>2. s \in Seq(Matching) /\ Len(s) = Cardinality(Matching)
  BY <1>1, MatchingFinite
<1>3. \A i \in 1 .. Len(s) - 1 : orders[s[i]].at >= orders[s[i + 1]].at
  BY DEF Sorted
<1> QED BY <1>1, <1>2, <1>3

LEMMA SortedNamesAll ==
    ASSUME NEW s \in Sorted(Matching), NEW o \in Matching
    PROVE  \E j \in 1 .. Len(s) : s[j] = o
<1>1. /\ s \in [1 .. Len(s) -> Matching] /\ Len(s) = Cardinality(Matching)
      /\ Len(s) \in Nat
      /\ \A i, j \in 1 .. Len(s) : i # j => s[i] # s[j]
  BY SortedIs, MatchingFinite
<1>2. s \in Injection(1 .. Len(s), Matching)
  BY <1>1 DEF Injection, IsInjective
<1>3. Cardinality(1 .. Len(s)) = Len(s)
  BY <1>1, FS_Interval
<1>4. s \in Surjection(1 .. Len(s), Matching)
  BY <1>1, <1>2, <1>3, FS_Injection, MatchingFinite
<1> QED BY <1>4 DEF Surjection

\* What the page of a listing holds.
LEMMA SlicePage ==
    ASSUME Shape, request.page > 0, NEW S, NEW s \in Seq(S)
    PROVE  /\ Page(s) \in Seq(S)
           /\ ToSet(Page(s)) =
                 {s[i] : i \in {j \in 1 .. Len(s) : j > (request.page - 1) * PageSize
                                                 /\ j <= request.page * PageSize}}
<1> DEFINE first == (request.page - 1) * PageSize
           last == request.page * PageSize
           n == Least(last, Len(s))
           page == SubSeq(s, first + 1, n)
<1>1. PageSize \in Nat /\ PageSize > 0 /\ request.page \in Nat
  BY LimitAssumption, RequestFields
<1>2. first \in Nat /\ last \in Nat
  BY <1>1
<1>3. Len(s) \in Nat
  OBVIOUS
<1> HIDE DEF first, last
<1>4. n \in Nat /\ n <= Len(s) /\ n <= last /\ (n = last \/ n = Len(s))
  BY <1>2, <1>3 DEF Least
<1> HIDE DEF n
<1>5. \A i \in first + 1 .. n : s[i] \in S
  BY <1>2, <1>3, <1>4
<1>6. /\ page \in Seq(S)
      /\ Len(page) = IF first + 1 <= n THEN n - first ELSE 0
      /\ \A i \in 1 .. n - first : page[i] = s[first + i]
  BY <1>2, <1>4, <1>5, SubSeqProperties
<1>7. ToSet(page) = {s[i] : i \in {j \in 1 .. Len(s) : j > first /\ j <= last}}
  <2> HIDE DEF page
  <2>1. DOMAIN page = 1 .. Len(page)
    BY <1>6
  <2>2. ASSUME NEW i \in DOMAIN page
        PROVE  \E j \in 1 .. Len(s) : j > first /\ j <= last /\ s[j] = page[i]
    <3>1. i \in 1 .. n - first /\ first + i \in 1 .. Len(s)
          /\ first + i > first /\ first + i <= last
      BY <1>2, <1>3, <1>4, <1>6, <2>1
    <3> QED BY <1>6, <3>1
  <2>3. ASSUME NEW j \in 1 .. Len(s), j > first, j <= last
        PROVE  \E i \in DOMAIN page : page[i] = s[j]
    <3>1. j - first \in 1 .. n - first /\ j - first \in DOMAIN page
          /\ first + (j - first) = j
      BY <1>2, <1>3, <1>4, <1>6, <2>1, <2>3
    <3> QED BY <1>6, <3>1
  <2> QED BY <2>2, <2>3 DEF ToSet
<1> QED BY <1>6, <1>7 DEF first, last, n, page, Page

\* The whole listing is sorted when its neighbours are.
LEMMA SortedAll ==
    ASSUME Shape, NEW s \in Sorted(Matching)
    PROVE  \A i, j \in 1 .. Len(s) : i <= j => orders[s[i]].at >= orders[s[j]].at
<1> DEFINE at(i) == orders[s[i]].at
           T == {k \in Nat : \A i \in 1 .. Len(s) : i + k <= Len(s) => at(i) >= at(i + k)}
<1>0. /\ Len(s) \in Nat /\ \A i \in 1 .. Len(s) : at(i) \in Nat
      /\ \A i \in 1 .. Len(s) - 1 : at(i) >= at(i + 1)
  <2>1. \A i \in 1 .. Len(s) : s[i] \in Orders
    BY SortedIs, MatchingFinite
  <2> QED BY <2>1, SortedIs, MatchingFinite, OrderType
<1> HIDE DEF at
<1>1. 0 \in T
  BY <1>0
<1>2. ASSUME NEW k \in T PROVE k + 1 \in T
  <2>1. ASSUME NEW i \in 1 .. Len(s), i + (k + 1) <= Len(s)
        PROVE  at(i) >= at(i + (k + 1))
    <3>1. /\ i + k \in 1 .. Len(s) - 1 /\ (i + k) + 1 = i + (k + 1)
          /\ i + k \in 1 .. Len(s) /\ i + (k + 1) \in 1 .. Len(s)
      BY <1>0, <2>1
    <3>2. at(i) >= at(i + k) /\ at(i + k) >= at(i + (k + 1))
      BY <1>0, <3>1
    <3> QED BY <1>0, <3>1, <3>2
  <2> QED BY <2>1
<1>3. T = Nat
  <2>1. T \subseteq Nat
    OBVIOUS
  <2> HIDE DEF T
  <2> QED BY <1>1, <1>2, <2>1, Induction
<1>4. ASSUME NEW i \in 1 .. Len(s), NEW j \in 1 .. Len(s), i <= j
      PROVE  at(i) >= at(j)
  <2>1. j - i \in Nat /\ i + (j - i) = j /\ i \in 1 .. Len(s) /\ j <= Len(s)
    BY <1>0, <1>4
  <2>2. j - i \in T
    <3> HIDE DEF T
    <3> QED BY <1>3, <2>1
  <2>3. at(i) >= at(i + (j - i))
    BY <2>1, <2>2
  <2> QED BY <2>1, <2>3
<1> QED BY <1>4 DEF at

\* Where no two orders share a created_at, the newer ones are those that come
\* earlier in the listing.
LEMMA RankIsPlace ==
    ASSUME Shape, NEW s \in Sorted(Matching),
           \A p, q \in Committed : p # q => orders[p].at # orders[q].at,
           NEW o \in Matching
    PROVE  \E j \in 1 .. Len(s) : s[j] = o /\ Rank(o) = j - 1
<1>0. /\ s \in [1 .. Len(s) -> Matching] /\ Len(s) = Cardinality(Matching)
      /\ Len(s) \in Nat
      /\ \A i, j \in 1 .. Len(s) : i # j => s[i] # s[j]
  BY SortedIs, MatchingFinite
<1>1. PICK j \in 1 .. Len(s) : s[j] = o
  BY SortedNamesAll
<1>2. ASSUME NEW i \in 1 .. Len(s)
      PROVE  s[i] \in Newer(o) <=> i < j
  <2>1. s[i] \in Matching /\ orders[s[i]].at \in Nat /\ orders[o].at \in Nat
    BY <1>0, MatchingFinite, OrderType
  <2>2. CASE i < j
    <3>1. orders[s[i]].at >= orders[o].at
      BY <1>1, <2>2, SortedAll
    <3>2. s[i] # o
      BY <1>0, <1>1, <2>2
    <3>3. orders[s[i]].at # orders[o].at
      BY <2>1, <3>2, MatchingFinite
    <3> QED BY <2>1, <2>2, <3>1, <3>3 DEF Newer
  <2>3. CASE ~(i < j)
    <3>1. orders[o].at >= orders[s[i]].at
      BY <1>1, <2>3, SortedAll
    <3> QED BY <2>1, <2>3, <3>1 DEF Newer
  <2> QED BY <2>2, <2>3
<1>3. Cardinality(Newer(o)) = j - 1
  <2> DEFINE f == [i \in 1 .. j - 1 |-> s[i]]
  <2>1. \A i \in 1 .. j - 1 : i \in 1 .. Len(s) /\ i < j
    BY <1>0
  <2>2. f \in [1 .. j - 1 -> Newer(o)]
    BY <1>2, <2>1
  <2>3. f \in Injection(1 .. j - 1, Newer(o))
    BY <1>0, <2>1, <2>2 DEF Injection, IsInjective
  <2>4. \A p \in Newer(o) : \E i \in 1 .. j - 1 : f[i] = p
    <3> SUFFICES ASSUME NEW p \in Newer(o) PROVE \E i \in 1 .. j - 1 : s[i] = p
      OBVIOUS
    <3>1. PICK i \in 1 .. Len(s) : s[i] = p
      BY SortedNamesAll DEF Newer
    <3>2. i < j
      BY <1>2, <3>1
    <3> QED BY <1>0, <3>1, <3>2
  <2>5. f \in Bijection(1 .. j - 1, Newer(o))
    BY <2>2, <2>3, <2>4 DEF Bijection, Surjection
  <2>6. IsFiniteSet(1 .. j - 1) /\ Cardinality(1 .. j - 1) = j - 1
    <3>1. j - 1 \in Nat /\ (j - 1) - 1 + 1 = j - 1 /\ 1 \in Int
      BY <1>0
    <3> HIDE DEF f
    <3>2. Cardinality(1 .. j - 1) = IF 1 > j - 1 THEN 0 ELSE (j - 1) - 1 + 1
      BY <3>1, FS_Interval
    <3>3. IsFiniteSet(1 .. j - 1)
      BY <3>1, FS_Interval
    <3> QED BY <3>1, <3>2, <3>3
  <2> QED BY <2>5, <2>6, FS_Bijection DEF ExistsBijection
<1> QED BY <1>1, <1>3 DEF Rank

----------------------------------------------------------------------------
\* What a request has read

LEMMA CommittedSame == ASSUME UNCHANGED orders PROVE Committed' = Committed
BY DEF Committed

\* The fields of the result a statement leaves as they were.
LEMMA Unchanging ==
    ASSUME NEW fields, Changes(fields)
    PROVE  /\ "orders" \notin fields => got'.orders = got.orders
           /\ "ids" \notin fields => got'.ids = got.ids
           /\ "items" \notin fields => got'.items = got.items
           /\ "payments" \notin fields => got'.payments = got.payments
           /\ "shipments" \notin fields => got'.shipments = got.shipments
           /\ "rows" \notin fields => got'.rows = got.rows
           /\ "total" \notin fields => got'.total = got.total
           /\ "healthy" \notin fields => got'.healthy = got.healthy
BY DEF Changes, Nothing

LEMMA NothingIs ==
    /\ Nothing.orders = {} /\ Nothing.ids = {} /\ Nothing.items = {}
    /\ Nothing.rows = <<>> /\ ToSet(Nothing.rows) = {} /\ Nothing.healthy = {}
BY DEF Nothing, ToSet

\* The rows of a page match the filter.
LEMMA RowsOfMatching ==
    ASSUME Shape, ReadRows, request.page > 0
    PROVE  ToSet(got'.rows) \subseteq Matching
<1>1. PICK s \in Sorted(Matching) : got'.rows = Page(s)
  BY RowsRead
<1>2. s \in Seq(Matching)
  BY SortedIs
<1>3. ToSet(Page(s)) =
          {s[i] : i \in {j \in 1 .. Len(s) : j > (request.page - 1) * PageSize
                                          /\ j <= request.page * PageSize}}
  BY <1>2, SlicePage
<1> QED BY <1>1, <1>2, <1>3

LEMMA ResultsStep ==
    ASSUME Shape, Writers, Plan, Results, Detail, [Next]_vars
    PROVE  Results'
<1>0. now \in Nat
  BY DEF Shape
<1>1. ASSUME NEW d \in Dependencies, Quiet(d) PROVE Results'
  <2>1. UNCHANGED <<request, got, seen, before>> /\ Grows
    BY <1>1, QuietSteps
  <2>2. \A r \in got.orders : r.at \in Nat /\ r.at <= now'
    BY <1>0, <2>1 DEF Grows, Results
  <2> QED BY <2>1, <2>2 DEF Grows, Results
<1>2. ASSUME NEW filter \in {"any", "PENDING"}, NEW o \in scenario.made,
             Ask(scenario.kind, filter, o)
      PROVE  Results'
  <2>1. /\ got' = Nothing /\ request'.kind = scenario.kind
        /\ request'.todo = Statements(scenario.kind)
        /\ before' = {p \in Committed : filter \in {"any", orders[p].status}}
        /\ Committed' = Committed
    BY <1>2, AskSets, CommittedSame DEF Plan
  <2>2. request'.kind \in {"overview", "list"} => "ids" \in request'.todo
    BY <2>1 DEF Statements
  <2> QED BY <2>1, <2>2, NothingIs DEF Results
<1>3. ASSUME NEW statement, NEW more, Stepped(statement, more)
      PROVE  /\ Committed' = Committed /\ before' = before /\ now' = now
             /\ request'.kind = request.kind
             /\ request'.todo = (request.todo \ {statement}) \cup more
             /\ statement \in request.todo
  BY <1>3, CommittedSame DEF Stepped
<1>4. CASE ReadOrders \/ ReadOrder
  <2>1. \A p \in Committed : orders[p].at \in Nat /\ orders[p].at <= now
    BY OrderType DEF Writers, Grounded, Committed
  <2>2. \A r \in got'.orders : r.at \in Nat /\ r.at <= now
    BY <1>4, <2>1, OrdersRead, OrderRead DEF OrderRows
  <2>3. /\ got'.ids = got.ids /\ got'.items = got.items /\ got'.rows = got.rows
    BY <1>4, OrdersRead, OrderRead, Unchanging
  <2>4. /\ Committed' = Committed /\ before' = before /\ now' = now
        /\ request'.kind = request.kind
        /\ "items" \in request'.todo <=> "items" \in request.todo
        /\ "ids" \in request.todo => "ids" \in request'.todo
    <3>1. Stepped("orders", {}) \/ Stepped("order", {})
            \/ Stepped("order", {"ids", "payments", "shipments"})
      BY <1>4, OrdersRead, OrderRead
    <3> QED BY <1>3, <3>1
  <2> QED BY <2>2, <2>3, <2>4 DEF Results
<1>5. CASE ReadIds
  <2>1. /\ Stepped("ids", {"items"})
        /\ got'.orders = got.orders /\ got'.rows = got.rows
        /\ got'.ids = IF request.kind = "detail" THEN {request.order} ELSE Committed
    BY <1>5, IdsRead, Unchanging
  <2>2. /\ Committed' = Committed /\ before' = before /\ now' = now
        /\ request'.kind = request.kind /\ "items" \in request'.todo
    BY <1>3, <2>1
  <2>3. request.kind \in {"overview", "list", "detail"}
    BY <2>1 DEF Stepped, Plan
  <2>4. got'.ids \subseteq Committed
    BY <2>1, <2>3 DEF Detail, Stepped
  <2> QED BY <2>1, <2>2, <2>3, <2>4 DEF Results
<1>6. CASE ReadItems
  <2>1. /\ Stepped("items", {})
        /\ got'.orders = got.orders /\ got'.rows = got.rows /\ got'.ids = got.ids
        /\ got'.items = {o \in got.ids : orders[o].items}
    BY <1>6, ItemsRead, Unchanging
  <2>2. \A o \in Committed : orders[o].items
    BY DEF Writers, Grounded, Committed
  <2>3. got'.ids \subseteq got'.items
    BY <2>1, <2>2 DEF Results
  <2> QED BY <1>3, <2>1, <2>3 DEF Results
<1>7. CASE ReadRows
  <2>1. /\ Stepped("rows", IF got'.rows = <<>> THEN {} ELSE {"items"})
        /\ got'.orders = got.orders /\ got'.items = got.items
        /\ got'.ids = ToSet(got'.rows)
    BY <1>7, RowsRead, Unchanging
  <2>2. request.kind = "pages"
    BY <2>1 DEF Stepped, Plan
  <2>3. got'.ids \subseteq Committed
    <3>1. request.page > 0
      BY <2>2 DEF Plan
    <3> QED BY <1>7, <2>1, <3>1, RowsOfMatching, MatchingFinite
  <2>4. CASE got'.rows = <<>>
    <3>1. got'.ids = {}
      BY <2>1, <2>4 DEF ToSet
    <3> QED BY <1>3, <2>1, <2>2, <3>1 DEF Results
  <2>5. CASE got'.rows # <<>>
    <3>1. Stepped("rows", {"items"})
      BY <2>1, <2>5
    <3> QED BY <1>3, <2>1, <2>2, <2>3, <3>1 DEF Results
  <2> QED BY <2>4, <2>5
<1>8. ASSUME NEW statement, Stepped(statement, {}), statement \notin {"ids", "items"},
             got'.orders = got.orders, got'.rows = got.rows, got'.ids = got.ids,
             got'.items = got.items
      PROVE  Results'
  BY <1>3, <1>8 DEF Results
<1>9. CASE ReadPayments \/ ReadShipments \/ Count
  <2>1. CASE ReadPayments
    BY <1>8, <2>1, PaymentsRead, Unchanging
  <2>2. CASE ReadShipments
    BY <1>8, <2>2, ShipmentsRead, Unchanging
  <2>3. CASE Count
    BY <1>8, <2>3, Counted, Unchanging
  <2> QED BY <1>9, <2>1, <2>2, <2>3
<1>10. ASSUME NEW d \in Dependencies, Probe(d) PROVE Results'
  <2>1. d \notin {"ids", "items"}
    BY DEF Dependencies
  <2>2. Stepped(d, {}) /\ Changes({"healthy"})
    BY <1>10, ProbeRead
  <2>3. /\ got'.orders = got.orders /\ got'.rows = got.rows /\ got'.ids = got.ids
        /\ got'.items = got.items
    BY <2>2, Unchanging
  <2> QED BY <1>8, <2>1, <2>2, <2>3
<1>11. CASE Deliver
  <2>1. /\ got' = Nothing /\ before' = {} /\ request'.kind = "done"
        /\ Committed' = Committed
    BY <1>11, DeliverSets, CommittedSame
  <2> QED BY <2>1, NothingIs DEF Results
<1>12. CASE Turn
  <2>1. /\ got' = Nothing /\ before' = before /\ request'.kind \in {"pages", "done"}
        /\ Committed' = Committed
    BY <1>12, TurnSets, CommittedSame
  <2> QED BY <2>1, NothingIs DEF Results
<1> QED BY <1>1, <1>2, <1>4, <1>5, <1>6, <1>7, <1>9, <1>10, <1>11, <1>12, StepsAre, Zenon

LEMMA DetailStep ==
    ASSUME Shape, Writers, Plan, Detail, [Next]_vars
    PROVE  Detail'
<1>1. ASSUME NEW d \in Dependencies, Quiet(d) PROVE Detail'
  <2>1. UNCHANGED <<request, got, seen, before>> /\ Grows
    BY <1>1, QuietSteps
  <2> SUFFICES ASSUME request.kind = "detail"
               PROVE  /\ "order" \in request.todo => got.orders = {}
                      /\ "ids" \in request.todo => request.order \in Committed'
                      /\ \A r \in got.orders : Followed(r)'
    BY <2>1 DEF Detail
  <2>2. ASSUME NEW r \in got.orders PROVE Followed(r)'
    <3>1. Followed(r) /\ r.id \in Orders
      BY DEF Detail, Followed, Plan
    <3>2. /\ payments[r.id] \cap Charged # {} => payments'[r.id] \cap Charged # {}
          /\ "FAILED" \in payments[r.id] => "FAILED" \in payments'[r.id]
          /\ (shipments[r.id] # 0 => shipments'[r.id] # 0)
      BY <2>1, <3>1 DEF Grows
    <3> QED BY <2>1, <3>1, <3>2 DEF Followed
  <2> QED BY <2>1, <2>2 DEF Detail, Grows
<1>2. ASSUME NEW filter \in {"any", "PENDING"}, NEW o \in scenario.made,
             Ask(scenario.kind, filter, o)
      PROVE  Detail'
  <2>1. /\ got'.orders = {} /\ request'.kind = scenario.kind
        /\ request'.todo = Statements(scenario.kind)
    BY <1>2, AskSets, NothingIs DEF Plan
  <2>2. request'.kind = "detail" => "ids" \notin request'.todo
    BY <2>1 DEF Statements
  <2> QED BY <2>1, <2>2 DEF Detail
\* A statement that leaves the order alone, and those that go by it unless they
\* have just been run.
<1>3. ASSUME NEW statement, NEW more, Stepped(statement, more),
             got'.orders = got.orders, statement # "order",
             more \cap {"order", "ids", "payments", "shipments"} = {},
             request.kind = "detail" /\ statement # "ids" => got'.ids = got.ids,
             statement = "ids" /\ request.kind = "detail" => request.order \in got'.ids,
             statement # "payments" => got'.payments = got.payments,
             statement # "shipments" => got'.shipments = got.shipments,
             statement = "payments" /\ request.kind = "detail" =>
                 got'.payments \in PaymentOf(request.order),
             statement = "shipments" /\ request.kind = "detail" /\ shipments[request.order] # 0 =>
                 \E s \in got'.shipments : s.id = request.order
      PROVE  Detail'
  <2>1. /\ request'.kind = request.kind /\ request'.order = request.order
        /\ request'.todo = (request.todo \ {statement}) \cup more
        /\ UNCHANGED <<orders, payments, shipments>> /\ Committed' = Committed
    BY <1>3, CommittedSame DEF Stepped
  <2>2. /\ "order" \in request'.todo <=> "order" \in request.todo
        /\ "ids" \in request'.todo => "ids" \in request.todo
        /\ "ids" \in request.todo => "ids" \in request'.todo \/ statement = "ids"
        /\ "payments" \in request.todo => "payments" \in request'.todo \/ statement = "payments"
        /\ "shipments" \in request.todo => "shipments" \in request'.todo \/ statement = "shipments"
    BY <1>3, <2>1
  <2> SUFFICES ASSUME request.kind = "detail"
               PROVE  /\ "order" \in request'.todo => got'.orders = {}
                      /\ "ids" \in request'.todo => request'.order \in Committed'
                      /\ \A r \in got'.orders : Followed(r)'
    BY <2>1 DEF Detail
  <2>3. ASSUME NEW r \in got'.orders PROVE Followed(r)'
    <3>1. Followed(r) /\ r.id = request.order /\ request.order \in Orders
          /\ "order" \notin request.todo
      BY <1>3 DEF Detail, Followed, Plan
    <3>2. {"order", "ids"} \cap request'.todo = {} => r.id \in got'.ids
      <4>1. CASE "ids" \in request.todo
        BY <1>3, <2>1, <2>2, <3>1, <4>1
      <4>2. CASE "ids" \notin request.todo
        BY <1>3, <3>1, <4>2 DEF Followed
      <4> QED BY <4>1, <4>2
    <3>3. ASSUME r.status \in {"PAYMENT_PROCESSED", "SHIPPED"},
                 "payments" \notin request'.todo
          PROVE  \/ \E s \in Charged : <<r.id, s>> \in got'.payments
                 \/ "FAILED" \in payments[r.id]
      <4>0. payments[r.id] # {}
        BY <3>1, <3>3 DEF Followed
      <4>1. CASE statement = "payments"
        <5>1. got'.payments \in {{<<request.order, s>>} : s \in payments[request.order]}
          BY <1>3, <3>1, <4>0, <4>1 DEF PaymentOf
        <5>2. PICK s \in payments[request.order] : got'.payments = {<<request.order, s>>}
          BY <5>1
        <5>3. s \in Charged \cup {"FAILED"}
          BY <3>1, OrderType
        <5> QED BY <3>1, <5>2, <5>3
      <4>2. CASE statement # "payments"
        <5>1. "payments" \notin request.todo /\ got'.payments = got.payments
          BY <1>3, <2>2, <3>3, <4>2
        <5> QED BY <3>1, <3>3, <5>1 DEF Followed
      <4> QED BY <4>1, <4>2
    <3>4. ASSUME r.status = "SHIPPED", "shipments" \notin request'.todo
          PROVE  \E s \in got'.shipments : s.id = r.id
      <4>1. CASE statement = "shipments"
        BY <1>3, <3>1, <3>4, <4>1 DEF Followed
      <4>2. CASE statement # "shipments"
        BY <1>3, <2>2, <3>1, <3>4, <4>2 DEF Followed
      <4> QED BY <4>1, <4>2
    <3>5. /\ r.status \in {"PAYMENT_PROCESSED", "SHIPPED"} =>
             payments[r.id] \cap Charged # {}
          /\ r.status = "SHIPPED" => shipments[r.id] # 0
      BY <3>1 DEF Followed
    <3> QED BY <2>1, <3>1, <3>2, <3>3, <3>4, <3>5 DEF Followed
  <2> QED BY <1>3, <2>1, <2>2, <2>3 DEF Detail
<1>4. CASE ReadOrders
  <2>1. request'.kind # "detail"
    BY <1>4, OrdersRead DEF Stepped, Plan
  <2> QED BY <2>1 DEF Detail
<1>5. CASE ReadOrder
  <2>1. /\ request.kind = "detail" /\ request'.kind = "detail"
        /\ request'.order = request.order
        /\ request.order \in Orders /\ "order" \in request.todo
        /\ UNCHANGED <<orders, payments, shipments>> /\ Committed' = Committed
    BY <1>5, OrderRead, CommittedSame DEF Stepped, Plan
  <2>2. \/ got'.orders = {} /\ request'.todo = request.todo \ {"order"}
        \/ /\ request.order \in Committed
           /\ request'.todo = (request.todo \ {"order"})
                                 \cup {"ids", "payments", "shipments"}
    BY <1>5, OrderRead DEF Stepped
  <2>3. CASE got'.orders = {} /\ request'.todo = request.todo \ {"order"}
    BY <2>1, <2>3 DEF Detail
  <2>4. CASE /\ request.order \in Committed
             /\ request'.todo = (request.todo \ {"order"})
                                   \cup {"ids", "payments", "shipments"}
    <3>1. ASSUME NEW r \in got'.orders
          PROVE  r.id = request.order /\ r.status = orders[request.order].status
      BY <1>5, OrderRead DEF OrderRows
    <3>2. Grounded(request.order)
      BY <2>1 DEF Writers
    <3>3. \A r \in got'.orders : Followed(r)'
      BY <2>1, <2>4, <3>1, <3>2 DEF Followed, Grounded
    <3> QED BY <2>1, <2>4, <3>3 DEF Detail
  <2> QED BY <2>2, <2>3, <2>4
<1>6. CASE ReadIds
  <2>1. /\ Stepped("ids", {"items"}) /\ Changes({"ids"})
        /\ request.kind = "detail" => got'.ids = {request.order}
    BY <1>6, IdsRead
  <2>2. /\ got'.orders = got.orders /\ got'.payments = got.payments
        /\ got'.shipments = got.shipments
    BY <2>1, Unchanging
  <2>3. {"items"} \cap {"order", "ids", "payments", "shipments"} = {}
    OBVIOUS
  <2> QED BY <1>3, <2>1, <2>2, <2>3
<1>7. ASSUME NEW statement, Stepped(statement, {}),
             statement \notin {"order", "ids", "payments", "shipments"},
             got'.orders = got.orders, got'.ids = got.ids,
             got'.payments = got.payments, got'.shipments = got.shipments
      PROVE  Detail'
  BY <1>3, <1>7
<1>8. CASE ReadItems
  BY <1>7, <1>8, ItemsRead, Unchanging
<1>9. CASE ReadPayments
  <2>1. /\ Stepped("payments", {}) /\ Changes({"payments"})
        /\ request.kind = "detail" => got'.payments \in PaymentOf(request.order)
    BY <1>9, PaymentsRead
  <2>2. /\ got'.orders = got.orders /\ got'.ids = got.ids
        /\ got'.shipments = got.shipments
    BY <2>1, Unchanging
  <2> QED BY <1>3, <2>1, <2>2
<1>10. CASE ReadShipments
  <2>1. /\ Stepped("shipments", {}) /\ Changes({"shipments"})
        /\ got'.shipments =
              {ShipmentOf(o) : o \in {p \in Orders : shipments[p] # 0
                                                  /\ request.order \in {"none", p}}}
    BY <1>10, ShipmentsRead
  <2>2. /\ got'.orders = got.orders /\ got'.ids = got.ids
        /\ got'.payments = got.payments
    BY <2>1, Unchanging
  <2>3. ASSUME request.kind = "detail", shipments[request.order] # 0
        PROVE  \E s \in got'.shipments : s.id = request.order
    <3>1. request.order \in Orders
      BY <2>3 DEF Plan
    <3>2. ShipmentOf(request.order) \in got'.shipments
      BY <2>1, <2>3, <3>1
    <3> QED BY <3>2 DEF ShipmentOf
  <2> QED BY <1>3, <2>1, <2>2, <2>3
<1>11. CASE ReadRows
  <2>1. request'.kind = "pages"
    BY <1>11, RowsRead DEF Stepped, Plan
  <2> QED BY <2>1 DEF Detail
<1>12. CASE Count
  BY <1>7, <1>12, Counted, Unchanging
<1>13. ASSUME NEW d \in Dependencies, Probe(d) PROVE Detail'
  <2>1. d \notin {"order", "ids", "payments", "shipments"}
    BY DEF Dependencies
  <2>2. Stepped(d, {}) /\ Changes({"healthy"})
    BY <1>13, ProbeRead
  <2>3. /\ got'.orders = got.orders /\ got'.ids = got.ids
        /\ got'.payments = got.payments /\ got'.shipments = got.shipments
    BY <2>2, Unchanging
  <2> QED BY <1>7, <2>1, <2>2, <2>3
<1>14. CASE Deliver \/ Turn
  <2>1. request'.kind \in {"pages", "done"}
    BY <1>14, DeliverSets, TurnSets
  <2> QED BY <2>1 DEF Detail
<1> QED BY <1>1, <1>2, <1>4, <1>5, <1>6, <1>8, <1>9, <1>10, <1>11, <1>12, <1>13, <1>14,
           StepsAre, Zenon

----------------------------------------------------------------------------
\* What the health checks have seen

LEMMA ProbesStep ==
    ASSUME Shape, Plan, Probes, [Next]_vars
    PROVE  Probes'
<1>1. ASSUME UNCHANGED <<request, got, up, known>> PROVE Probes'
  BY <1>1 DEF Probes, Witnessed
<1>2. CASE Write \/ UNCHANGED vars
  <2>1. UNCHANGED <<request, got, up, known>>
    BY <1>2 DEF vars, Write, Tick, Draft, Save, Pay, Refund, Ship, reading, service
  <2> QED BY <1>1, <2>1
<1>3. ASSUME NEW d \in Dependencies, Flip(d) PROVE Probes'
  <2>1. /\ UNCHANGED <<request, got>>
        /\ up' = IF d \in up THEN up \ {d} ELSE up \cup {d}
        /\ known' = [known EXCEPT ![d] = @ \cup {Responds(d)'}]
    BY <1>3 DEF Flip, reading
  <2>2. /\ \A e \in Dependencies : known[e] \subseteq known'[e]
        /\ \A e \in Dependencies : e # d => known'[e] = known[e]
        /\ known'[d] = known[d] \cup {Responds(d)'}
    <3> DEFINE now_up == {Responds(d)'}
    <3>1. known' = [known EXCEPT ![d] = @ \cup now_up]
      BY <2>1
    <3> HIDE DEF now_up
    <3>2. /\ \A e \in Dependencies : known[e] \subseteq known'[e]
          /\ \A e \in Dependencies : e # d => known'[e] = known[e]
          /\ known'[d] = known[d] \cup now_up
      BY <3>1 DEF Shape
    <3> QED BY <3>2 DEF now_up
  <2>3. /\ d \in up' => TRUE \in known'[d]
        /\ d \notin up' => FALSE \in known'[d]
        /\ \A e \in Dependencies : e # d => (e \in up' <=> e \in up)
    <3>1. CASE d \in up'
      <4>1. Responds(d)' = TRUE
        BY <3>1 DEF Responds
      <4>2. TRUE \in known'[d]
        BY <2>2, <4>1
      <4> QED BY <2>1, <3>1, <4>2
    <3>2. CASE d \notin up'
      <4>1. Responds(d)' = FALSE
        BY <3>2 DEF Responds
      <4>2. FALSE \in known'[d]
        BY <2>2, <4>1
      <4> QED BY <2>1, <3>2, <4>2
    <3> QED BY <3>1, <3>2
  <2> SUFFICES ASSUME request.kind \in {"health", "ready"}, NEW e \in Dependencies
               PROVE  Witnessed(e)'
    BY <2>1 DEF Probes
  <2>4. Witnessed(e)
    BY DEF Probes
  <2> QED BY <2>1, <2>2, <2>3, <2>4 DEF Witnessed
<1>4. ASSUME NEW filter \in {"any", "PENDING"}, NEW o \in scenario.made,
             Ask(scenario.kind, filter, o)
      PROVE  Probes'
  <2>1. /\ got'.healthy = {} /\ up' = up
        /\ request'.todo = Statements(request'.kind)
        /\ known' = [d \in Dependencies |-> {Responds(d)}]
    BY <1>4, AskSets, NothingIs DEF Plan
  <2>2. ASSUME NEW d \in Dependencies PROVE Witnessed(d)'
    <3>1. known'[d] = {Responds(d)}
      BY <2>1, Zenon
    <3>2. CASE d \in up
      <4>1. Responds(d) = TRUE
        BY <3>2 DEF Responds
      <4>2. TRUE \in known'[d]
        BY <3>1, <4>1
      <4> QED BY <2>1, <3>2, <4>2 DEF Witnessed
    <3>3. CASE d \notin up
      <4>1. Responds(d) = FALSE
        BY <3>3 DEF Responds
      <4>2. FALSE \in known'[d]
        BY <3>1, <4>1
      <4> QED BY <2>1, <3>3, <4>2 DEF Witnessed
    <3> QED BY <3>2, <3>3
  <2> QED BY <2>2 DEF Probes
<1>5. ASSUME NEW statement, NEW more, Stepped(statement, more),
             statement \notin Dependencies, more \cap Dependencies = {},
             got'.healthy = got.healthy
      PROVE  Probes'
  <2>1. /\ request'.kind = request.kind /\ up' = up /\ known' = known
        /\ \A d \in Dependencies : d \in request'.todo <=> d \in request.todo
    BY <1>5 DEF Stepped
  <2> QED BY <1>5, <2>1 DEF Probes, Witnessed
<1>6. CASE \/ ReadOrders \/ ReadOrder \/ ReadIds \/ ReadItems \/ ReadPayments
           \/ ReadShipments \/ ReadRows \/ Count
  <2>1. \/ Stepped("orders", {}) \/ Stepped("ids", {"items"}) \/ Stepped("items", {})
        \/ Stepped("payments", {}) \/ Stepped("shipments", {}) \/ Stepped("count", {})
        \/ Stepped("rows", {}) \/ Stepped("rows", {"items"}) \/ Stepped("order", {})
        \/ Stepped("order", {"ids", "payments", "shipments"})
    BY <1>6, OrdersRead, OrderRead, IdsRead, ItemsRead, PaymentsRead, ShipmentsRead,
       RowsRead, Counted
  <2>2. \/ Changes({"orders"}) \/ Changes({"ids"}) \/ Changes({"items"})
        \/ Changes({"payments"}) \/ Changes({"shipments"}) \/ Changes({"rows", "ids"})
        \/ Changes({"total"})
    BY <1>6, OrdersRead, OrderRead, IdsRead, ItemsRead, PaymentsRead, ShipmentsRead,
       RowsRead, Counted
  <2>3. got'.healthy = got.healthy
    BY <2>2, Unchanging
  <2>4. /\ {} \cap Dependencies = {} /\ {"items"} \cap Dependencies = {}
        /\ {"ids", "payments", "shipments"} \cap Dependencies = {}
        /\ \A d \in Dependencies : d \notin {"orders", "ids", "items", "payments",
                                           "shipments", "count", "rows", "order"}
    BY DEF Dependencies
  <2> QED BY <1>5, <2>1, <2>3, <2>4
<1>7. ASSUME NEW d \in Dependencies, Probe(d) PROVE Probes'
  <2>1. /\ request'.kind = request.kind /\ request'.todo = request.todo \ {d}
        /\ up' = up /\ known' = known
        /\ got'.healthy = IF d \in up THEN got.healthy \cup {d} ELSE got.healthy
    BY <1>7, ProbeRead DEF Stepped
  <2> SUFFICES ASSUME request.kind \in {"health", "ready"}, NEW e \in Dependencies
               PROVE  Witnessed(e)'
    BY <2>1 DEF Probes
  <2>2. Witnessed(e) /\ Witnessed(d)
    BY DEF Probes
  <2> QED BY <2>1, <2>2 DEF Witnessed
<1>8. CASE Deliver
  BY <1>8, DeliverSets DEF Probes
<1>9. CASE Turn
  BY <1>9, TurnSets DEF Probes
<1> QED BY <1>2, <1>3, <1>4, <1>6, <1>7, <1>8, <1>9, StepsAre, Zenon DEF Quiet

----------------------------------------------------------------------------
\* Pages read while others write

Distinct == \A p, q \in Committed : p # q => orders[p].at # orders[q].at

LEMMA RankType ==
    ASSUME NEW o PROVE Rank(o) \in Nat /\ IsFiniteSet(Newer(o))
<1>1. Newer(o) \subseteq Matching
  BY DEF Newer
<1> QED BY <1>1, MatchingFinite, FS_Subset, FS_CardinalityType DEF Rank

\* A matching order comes before itself in no listing.
LEMMA RankBelowCount ==
    ASSUME Shape, NEW o \in Matching
    PROVE  Rank(o) < Cardinality(Matching)
<1>1. o \in Orders /\ orders[o].at \in Nat
  BY MatchingFinite, OrderType
<1>2. Newer(o) \subseteq Matching /\ Newer(o) # Matching
  BY <1>1 DEF Newer
<1> QED BY <1>2, MatchingFinite, FS_Subset, RankType DEF Rank

\* Writing disturbs the pages or leaves every matching order where it was, but
\* for newer ones that come before it.
LEMMA WritesMatching ==
    ASSUME Shape, Write, request.kind = "pages", ~disturbed', ~disturbed => Distinct
    PROVE  /\ ~disturbed /\ Distinct' /\ Matching \subseteq Matching'
           /\ request.todo = {"rows"} => Matching' = Matching
           /\ \A o \in Matching : orders'[o].at = orders[o].at
<1>0. request' = request
  BY DEF Write, Tick, Draft, Save, Pay, Refund, Ship, reading
<1>1. ASSUME UNCHANGED <<orders, disturbed>>
      PROVE  /\ ~disturbed /\ Distinct' /\ Matching \subseteq Matching'
             /\ request.todo = {"rows"} => Matching' = Matching
             /\ \A o \in Matching : orders'[o].at = orders[o].at
  BY <1>0, <1>1 DEF Distinct, Matching, Committed
<1>2. CASE Tick \/ \E o \in Orders : Pay(o) \/ Refund(o) \/ Ship(o)
  BY <1>1, <1>2 DEF Tick, Pay, Refund, Ship
<1>3. ASSUME NEW o \in Orders, Draft(o)
      PROVE  /\ ~disturbed /\ Distinct' /\ Matching' = Matching
             /\ \A p \in Matching : orders'[p].at = orders[p].at
  <2>1. disturbed' = disturbed
    BY <1>3 DEF Draft
  <2>2. Committed' = Committed /\ \A p \in Committed : orders'[p] = orders[p]
    BY <1>3, DraftCommitsNot, MatchingFinite
  <2> QED BY <1>0, <2>1, <2>2 DEF Distinct, Matching
<1>4. ASSUME NEW o \in Orders, Save(o)
      PROVE  /\ ~disturbed /\ Distinct' /\ Matching \subseteq Matching'
             /\ request.todo = {"rows"} => Matching' = Matching
             /\ \A p \in Matching : orders'[p].at = orders[p].at
  <2>1. ~disturbed /\ ~Disturbs(o)
    BY <1>4 DEF Save
  <2>2. /\ \A p \in Committed \ {o} : orders[p].at # orders[o].at
        /\ o \in Matching => request.filter = "any"
        /\ request.todo # {"rows"}
    BY <2>1 DEF Disturbs
  <2>3. Committed' = Committed \cup {o}
    BY <1>4, SaveCommits
  <2>4. /\ \A p \in Orders : orders'[p].at = orders[p].at
        /\ \A p \in Orders : p # o => orders'[p] = orders[p]
    BY <1>4, SavedRow
  <2>5. Distinct'
    BY <2>1, <2>2, <2>3, <2>4, MatchingFinite DEF Distinct
  <2>6. ASSUME NEW p \in Matching PROVE p \in Matching'
    <3>1. CASE p = o
      BY <1>0, <2>2, <2>3, <3>1 DEF Matching
    <3>2. CASE p # o
      <4>1. p \in Committed /\ request.filter \in {"any", orders[p].status}
            /\ p \in Orders
        BY MatchingFinite DEF Matching
      <4> QED BY <1>0, <2>3, <2>4, <3>2, <4>1 DEF Matching
    <3> QED BY <3>1, <3>2
  <2> QED BY <2>1, <2>2, <2>4, <2>5, <2>6, MatchingFinite
<1> QED BY <1>1, <1>2, <1>3, <1>4 DEF Write

LEMMA RankGrows ==
    ASSUME Shape, Shape', Matching \subseteq Matching', NEW o \in Matching,
           \A p \in Matching : orders'[p].at = orders[p].at
    PROVE  Rank(o) <= Rank(o)'
<1>1. Newer(o) \subseteq Newer(o)'
  BY DEF Newer
<1>2. Newer(o)' \subseteq Matching'
  BY DEF Newer
<1>3. IsFiniteSet(Matching')
  <2>1. Matching' \subseteq Orders
    BY DEF Matching, Committed
  <2> QED BY <2>1, OrdersAssumption, FS_Subset
<1>4. IsFiniteSet(Newer(o)')
  BY <1>2, <1>3, FS_Subset
<1> QED BY <1>1, <1>4, FS_Subset DEF Rank

\* The argument of Pages for a request that is still going.
Due ==
    /\ Distinct
    /\ before \subseteq Matching
    /\ \A o \in before \ seen : Rank(o) >= (request.page - 1) * PageSize
    /\ "rows" \notin request.todo =>
          \A o \in Missed : Rank(o) >= request.page * PageSize
    /\ "rows" \in request.todo =>
          /\ request.todo \subseteq {"rows", "count"}
          /\ "count" \notin request.todo => got.total = Cardinality(Matching)
    /\ {"rows", "count"} \cap request.todo = {} /\ Missed # {} =>
          got.total > request.page * PageSize

LEMMA PagesIs ==
    Pages <=> /\ request.kind = "pages" /\ ~disturbed => Due
              /\ request.kind = "done" /\ ~disturbed => before \subseteq seen
BY DEF Pages, Due, Distinct

LEMMA Places ==
    ASSUME Shape
    PROVE  /\ (request.page - 1) * PageSize \in Int /\ request.page * PageSize \in Int
           /\ PageSize \in Nat /\ request.page \in Nat
BY RequestFields, LimitAssumption

LEMMA WritePages ==
    ASSUME Shape, Shape', Due, Write, request.kind = "pages", ~disturbed'
    PROVE  Due'
<1>1. UNCHANGED <<request, got, seen, before>>
  BY DEF Write, Tick, Draft, Save, Pay, Refund, Ship, reading
<1>2. /\ Distinct' /\ Matching \subseteq Matching'
      /\ request.todo = {"rows"} => Matching' = Matching
      /\ \A o \in Matching : orders'[o].at = orders[o].at
  BY WritesMatching DEF Due
<1>3. before' \subseteq Matching'
  BY <1>1, <1>2 DEF Due
<1>4. ASSUME NEW o \in before PROVE Rank(o) <= Rank(o)' /\ Rank(o) \in Nat /\ Rank(o)' \in Nat
  <2>1. o \in Matching
    BY DEF Due
  <2>2. Rank(o) <= Rank(o)' /\ Rank(o) \in Nat
    BY <1>2, <2>1, RankGrows, RankType
  <2>3. Rank(o)' \in Nat
    <3>1. Newer(o)' \subseteq Orders
      BY DEF Newer, Matching, Committed
    <3> QED BY <3>1, OrdersAssumption, FS_Subset, FS_CardinalityType DEF Rank
  <2> QED BY <2>2, <2>3
<1>5. Missed' = Missed /\ Missed \subseteq before
  BY <1>1 DEF Missed
<1> DEFINE here == (request.page - 1) * PageSize
           there == request.page * PageSize
<1>6. here \in Int /\ there \in Int
  BY Places
<1>7. \A o \in before \ seen : Rank(o) >= here
  BY DEF Due
<1>8. "rows" \notin request.todo => \A o \in Missed : Rank(o) >= there
  BY DEF Due
<1>9. /\ \A o \in before \ seen : Rank(o)' >= here
      /\ "rows" \notin request.todo => \A o \in Missed : Rank(o)' >= there
  <2> HIDE DEF here, there
  <2> QED BY <1>4, <1>5, <1>6, <1>7, <1>8
<1>10. "rows" \in request.todo =>
           /\ request.todo \subseteq {"rows", "count"}
           /\ "count" \notin request.todo => got'.total = Cardinality(Matching')
  <2> SUFFICES ASSUME "rows" \in request.todo
               PROVE  /\ request.todo \subseteq {"rows", "count"}
                      /\ "count" \notin request.todo => got'.total = Cardinality(Matching')
    OBVIOUS
  <2>1. request.todo \subseteq {"rows", "count"}
    BY DEF Due
  <2>2. "count" \notin request.todo => request.todo = {"rows"}
    BY <2>1
  <2> QED BY <1>1, <1>2, <2>1, <2>2 DEF Due
<1>11. {"rows", "count"} \cap request.todo = {} /\ Missed # {} => got'.total > there
  BY <1>1 DEF Due
<1> QED BY <1>1, <1>2, <1>3, <1>5, <1>9, <1>10, <1>11 DEF Due

LEMMA FlipPages ==
    ASSUME Due, UNCHANGED <<orders, request, got, seen, before>>
    PROVE  Due'
<1>1. Committed' = Committed /\ Matching' = Matching /\ Missed' = Missed
  BY DEF Committed, Matching, Missed
<1>2. \A o : Rank(o)' = Rank(o)
  BY <1>1 DEF Rank, Newer
<1> QED BY <1>1, <1>2 DEF Due, Distinct

\* A statement that is neither of a page's own two.
LEMMA OtherPages ==
    ASSUME Due, NEW statement, Stepped(statement, {}),
           statement \notin {"rows", "count"},
           got'.rows = got.rows, got'.total = got.total
    PROVE  Due'
<1>1. /\ Committed' = Committed /\ Matching' = Matching /\ Missed' = Missed
      /\ before' = before /\ seen' = seen /\ request'.page = request.page
      /\ request'.todo = request.todo \ {statement} /\ orders' = orders
  BY DEF Stepped, Committed, Matching, Missed
<1>2. \A o : Rank(o)' = Rank(o)
  BY <1>1 DEF Rank, Newer
<1>3. /\ "rows" \in request'.todo <=> "rows" \in request.todo
      /\ "count" \in request'.todo <=> "count" \in request.todo
      /\ request'.todo \subseteq request.todo
  BY <1>1
<1>4. Distinct'
  BY <1>1 DEF Due, Distinct
<1>5. "rows" \in request'.todo =>
          /\ request'.todo \subseteq {"rows", "count"}
          /\ "count" \notin request'.todo => got'.total = Cardinality(Matching')
  BY <1>1, <1>3 DEF Due
<1>6. \A o \in before' \ seen' : Rank(o)' >= (request'.page - 1) * PageSize
  BY <1>1, <1>2 DEF Due
<1>7. "rows" \notin request'.todo => \A o \in Missed' : Rank(o)' >= request'.page * PageSize
  BY <1>1, <1>2, <1>3 DEF Due
<1>8. {"rows", "count"} \cap request'.todo = {} /\ Missed' # {} =>
          got'.total > request'.page * PageSize
  BY <1>1, <1>3 DEF Due
<1> QED BY <1>1, <1>4, <1>5, <1>6, <1>7, <1>8 DEF Due

\* An order the page does not hold stands beyond it.
LEMMA BeyondThePage ==
    ASSUME Shape, Distinct, request.page > 0, NEW s \in Sorted(Matching),
           NEW o \in Matching, o \notin ToSet(Page(s)),
           Rank(o) >= (request.page - 1) * PageSize
    PROVE  Rank(o) >= request.page * PageSize
<1> DEFINE here == (request.page - 1) * PageSize
           there == request.page * PageSize
<1>1. here \in Int /\ there \in Int
  BY Places
<1>2. PICK j \in 1 .. Len(s) : s[j] = o /\ Rank(o) = j - 1
  BY RankIsPlace DEF Distinct
<1>3. ToSet(Page(s)) = {s[i] : i \in {k \in 1 .. Len(s) : k > here /\ k <= there}}
  BY SortedIs, SlicePage
<1>4. Rank(o) >= here
  OBVIOUS
<1> HIDE DEF here, there
<1>5. j \notin {k \in 1 .. Len(s) : k > here /\ k <= there}
  BY <1>2, <1>3
<1>6. Len(s) \in Nat
  BY SortedIs, MatchingFinite
<1> QED BY <1>1, <1>2, <1>4, <1>5, <1>6 DEF there

LEMMA RowsPages ==
    ASSUME Shape, Due, ReadRows, request.page > 0
    PROVE  Due'
<1>1. /\ Stepped("rows", IF got'.rows = <<>> THEN {} ELSE {"items"})
      /\ got'.total = got.total
  BY RowsRead, Unchanging
<1>2. PICK s \in Sorted(Matching) : got'.rows = Page(s)
  BY RowsRead
<1>3. /\ Committed' = Committed /\ Matching' = Matching /\ "rows" \in request.todo
      /\ before' = before /\ seen' = seen /\ request'.page = request.page
      /\ orders' = orders
  BY <1>1 DEF Stepped, Committed, Matching
<1>4. "rows" \notin request'.todo
      /\ ("count" \in request'.todo <=> "count" \in request.todo)
  BY <1>1 DEF Stepped
<1>5. \A o : Rank(o)' = Rank(o)
  BY <1>3 DEF Rank, Newer
<1>6. Distinct' /\ Distinct /\ before' \subseteq Matching'
  BY <1>3 DEF Due, Distinct
<1>7. \A o \in before' \ seen' : Rank(o)' >= (request'.page - 1) * PageSize
  BY <1>3, <1>5 DEF Due
<1>8. ASSUME NEW o \in Missed'
      PROVE  Rank(o) >= request.page * PageSize /\ o \in Matching
  <2>1. o \in before \ seen /\ o \notin ToSet(Page(s))
    BY <1>2, <1>3, <1>8 DEF Missed
  <2>2. o \in Matching /\ Rank(o) >= (request.page - 1) * PageSize
    BY <2>1 DEF Due
  <2> QED BY <1>6, <2>1, <2>2, BeyondThePage
<1> DEFINE there == request.page * PageSize
<1>9. ASSUME "count" \notin request.todo, NEW o \in Missed' PROVE got'.total > there
  <2>1. got.total = Cardinality(Matching)
    BY <1>3, <1>9 DEF Due
  <2>2. Rank(o) < Cardinality(Matching) /\ Rank(o) >= there /\ Rank(o) \in Nat
    BY <1>8, <1>9, RankBelowCount, RankType
  <2>3. there \in Int /\ Cardinality(Matching) \in Nat
    BY Places, MatchingFinite
  <2> QED BY <1>1, <2>1, <2>2, <2>3
<1> QED BY <1>3, <1>4, <1>5, <1>6, <1>7, <1>8, <1>9 DEF Due

LEMMA CountPages ==
    ASSUME Shape, Due, Count, request.page > 0
    PROVE  Due'
<1>1. /\ Stepped("count", {}) /\ got'.rows = got.rows
      /\ got'.total = Cardinality(Matching)
  BY Counted, Unchanging
<1>2. /\ Committed' = Committed /\ Matching' = Matching /\ Missed' = Missed
      /\ before' = before /\ seen' = seen /\ request'.page = request.page
      /\ request'.todo = request.todo \ {"count"} /\ orders' = orders
  BY <1>1 DEF Stepped, Committed, Matching, Missed
<1>3. \A o : Rank(o)' = Rank(o)
  BY <1>2 DEF Rank, Newer
<1>4. Distinct'
  BY <1>2 DEF Due, Distinct
<1>5. "rows" \in request'.todo =>
          /\ request'.todo \subseteq {"rows", "count"}
          /\ "count" \notin request'.todo => got'.total = Cardinality(Matching')
  BY <1>1, <1>2 DEF Due
<1>6. \A o \in before' \ seen' : Rank(o)' >= (request'.page - 1) * PageSize
  BY <1>2, <1>3 DEF Due
<1>7. "rows" \notin request'.todo => \A o \in Missed' : Rank(o)' >= request'.page * PageSize
  BY <1>2, <1>3 DEF Due
<1> DEFINE there == request.page * PageSize
<1>8. ASSUME "rows" \notin request.todo, NEW o \in Missed PROVE got'.total > there
  <2>1. o \in Matching /\ Rank(o) >= there
    BY <1>8 DEF Due, Missed
  <2>2. Rank(o) < Cardinality(Matching) /\ Rank(o) \in Nat
    BY <2>1, RankBelowCount, RankType
  <2>3. there \in Int /\ Cardinality(Matching) \in Nat
    BY Places, MatchingFinite
  <2> QED BY <1>1, <2>1, <2>2, <2>3
<1> QED BY <1>2, <1>4, <1>5, <1>6, <1>7, <1>8 DEF Due

LEMMA TurnPages ==
    ASSUME Shape, Due, Turn
    PROVE  /\ request'.kind = "pages" => Due'
           /\ request'.kind = "done" => before' \subseteq seen'
<1>1. /\ request.todo = {} /\ seen' = seen \cup ToSet(got.rows) /\ got' = Nothing
      /\ before' = before /\ orders' = orders /\ request'.filter = request.filter
  BY TurnSets
<1>2. before' \ seen' = Missed
  BY <1>1 DEF Missed
<1>3. /\ Committed' = Committed /\ Matching' = Matching
      /\ \A o : Rank(o)' = Rank(o)
  BY <1>1 DEF Committed, Matching, Rank, Newer
<1>4. Missed # {} => got.total > request.page * PageSize
  BY <1>1 DEF Due
<1>5. CASE request.page * PageSize < got.total
  <2>1. /\ request'.kind = "pages" /\ request'.page = request.page + 1
        /\ request'.todo = {"rows", "count"}
    BY <1>5, TurnSets
  <2>2. \A o \in Missed : Rank(o) >= request.page * PageSize
    BY <1>1 DEF Due
  <2>3. (request'.page - 1) * PageSize = request.page * PageSize
    <3>1. request'.page - 1 = request.page
      BY <2>1, Places
    <3> QED BY <3>1
  <2>4. \A o \in before' \ seen' : Rank(o)' >= (request'.page - 1) * PageSize
    BY <1>2, <1>3, <2>2, <2>3
  <2>5. Distinct' /\ before' \subseteq Matching'
    BY <1>1, <1>3 DEF Due, Distinct
  <2> QED BY <2>1, <2>4, <2>5 DEF Due
<1>6. CASE ~(request.page * PageSize < got.total)
  <2>1. request'.kind = "done"
    BY <1>6, TurnSets
  <2>2. Missed = {}
    <3> DEFINE there == request.page * PageSize
    <3>1. ~(there < got.total) /\ (Missed # {} => got.total > there)
      BY <1>4, <1>6
    <3> HIDE DEF there
    <3> QED BY <3>1
  <2> QED BY <1>2, <2>1, <2>2
<1> QED BY <1>5, <1>6

LEMMA AskPages ==
    ASSUME Shape, Plan, NEW filter \in {"any", "PENDING"}, NEW o \in scenario.made,
           Ask(scenario.kind, filter, o), scenario.kind = "pages", ~disturbed'
    PROVE  Due'
<1>1. /\ request = NoRequest /\ request'.filter = filter
      /\ request'.page = 1 /\ request'.todo = Statements("pages")
      /\ before' = {p \in Committed : filter \in {"any", orders[p].status}}
      /\ disturbed' = \E p, q \in Committed : p # q /\ orders[p].at = orders[q].at
      /\ UNCHANGED <<orders, got, seen>>
  BY AskSets
<1>2. Committed' = Committed /\ before' = Matching'
  BY <1>1, CommittedSame DEF Matching
<1>3. Distinct'
  BY <1>1, <1>2 DEF Distinct
<1>4. request'.todo = {"rows", "count"}
  BY <1>1 DEF Statements
<1>5. \A p \in before' \ seen' : Rank(p)' >= (request'.page - 1) * PageSize
  <2>1. ASSUME NEW p PROVE Rank(p)' \in Nat
    <3>1. Newer(p)' \subseteq Orders
      BY DEF Newer, Matching, Committed
    <3> QED BY <3>1, OrdersAssumption, FS_Subset, FS_CardinalityType DEF Rank
  <2>2. (request'.page - 1) * PageSize = 0
    <3>1. request'.page - 1 = 0
      BY <1>1
    <3> QED BY <3>1, Places
  <2> DEFINE here == (request'.page - 1) * PageSize
             rank(p) == Rank(p)'
  <2>3. here = 0 /\ \A p : rank(p) \in Nat
    BY <2>1, <2>2
  <2>4. \A p \in before' \ seen' : rank(p) >= here
    <3> HIDE DEF here, rank
    <3> QED BY <2>3
  <2> QED BY <2>4
<1> QED BY <1>2, <1>3, <1>4, <1>5 DEF Due

LEMMA PagesStep ==
    ASSUME Shape, Plan, Pages, [Next]_vars
    PROVE  Pages'
<1>0. Shape' /\ (request.kind = "pages" => request.page > 0)
  BY NextShape DEF Plan
<1>1. /\ request.kind = "pages" /\ ~disturbed => Due
      /\ request.kind = "done" /\ ~disturbed => before \subseteq seen
  BY PagesIs
<1> SUFFICES /\ request'.kind = "pages" /\ ~disturbed' => Due'
             /\ request'.kind = "done" /\ ~disturbed' => before' \subseteq seen'
  BY DEF Pages, Due, Distinct
<1>2. CASE Write
  <2>1. UNCHANGED <<request, got, seen, before>> /\ request.kind # "done"
    BY <1>2 DEF Write, Tick, Draft, Save, Pay, Refund, Ship, reading, Going
  <2>2. ASSUME request.kind = "pages", ~disturbed' PROVE ~disturbed
    BY <1>2, <2>2 DEF Write, Tick, Draft, Save, Pay, Refund, Ship
  <2>3. ASSUME request.kind = "pages", ~disturbed' PROVE Due'
    BY <1>0, <1>1, <1>2, <2>2, <2>3, WritePages
  <2> QED BY <2>1, <2>3
<1>3. ASSUME NEW d, Flip(d) \/ UNCHANGED vars
      PROVE  /\ request'.kind = "pages" /\ ~disturbed' => Due'
             /\ request'.kind = "done" /\ ~disturbed' => before' \subseteq seen'
  <2>1. UNCHANGED <<orders, request, got, seen, before, disturbed>>
    BY <1>3 DEF Flip, vars, reading
  <2> QED BY <1>1, <2>1, FlipPages
<1>4. ASSUME NEW filter \in {"any", "PENDING"}, NEW o \in scenario.made,
             Ask(scenario.kind, filter, o)
      PROVE  /\ request'.kind = "pages" /\ ~disturbed' => Due'
             /\ request'.kind = "done" /\ ~disturbed' => before' \subseteq seen'
  <2>1. request'.kind = scenario.kind /\ scenario.kind # "done"
    BY <1>4, AskSets DEF Kinds
  <2> QED BY <1>4, <2>1, AskPages
<1>5. ASSUME NEW statement, NEW more, Stepped(statement, more)
      PROVE  request'.kind = request.kind /\ disturbed' = disturbed
             /\ request.kind # "done" /\ statement \in request.todo
  BY <1>5 DEF Stepped, Plan
<1>6. CASE ReadRows
  <2>1. request'.kind = "pages" /\ request.kind = "pages" /\ disturbed' = disturbed
    BY <1>5, <1>6, RowsRead DEF Plan
  <2> QED BY <1>0, <1>1, <1>6, <2>1, RowsPages
<1>7. CASE Count
  <2>1. request'.kind = "pages" /\ request.kind = "pages" /\ disturbed' = disturbed
    BY <1>5, <1>7, Counted DEF Plan
  <2> QED BY <1>0, <1>1, <1>7, <2>1, CountPages
<1>8. CASE ReadItems
  <2>1. /\ Stepped("items", {})
        /\ got'.rows = got.rows /\ got'.total = got.total
    BY <1>8, ItemsRead, Unchanging
  <2>2. request'.kind = request.kind /\ disturbed' = disturbed /\ request.kind # "done"
    BY <1>5, <2>1
  <2> QED BY <1>1, <2>1, <2>2, OtherPages
<1>9. CASE \/ ReadOrders \/ ReadOrder \/ ReadIds \/ ReadPayments \/ ReadShipments
           \/ \E d \in Dependencies : Probe(d)
  <2>1. \E statement, more : /\ Stepped(statement, more)
                             /\ statement \notin {"rows", "count", "items"}
    <3>1. ASSUME NEW d \in Dependencies, Probe(d)
          PROVE  Stepped(d, {}) /\ d \notin {"rows", "count", "items"}
      BY <3>1, ProbeRead DEF Dependencies
    <3> QED BY <1>9, <3>1, OrdersRead, OrderRead, IdsRead, PaymentsRead, ShipmentsRead
  <2>2. request'.kind = request.kind /\ request.kind \notin {"done", "pages"}
    BY <1>5, <2>1 DEF Plan
  <2> QED BY <2>2
<1>10. CASE Deliver
  BY <1>10, DeliverSets
<1>11. CASE Turn
  <2>1. request.kind = "pages" /\ disturbed' = disturbed
    BY <1>11, TurnSets
  <2> QED BY <1>1, <1>11, <2>1, TurnPages
<1> QED BY <1>2, <1>3, <1>4, <1>6, <1>7, <1>8, <1>9, <1>10, <1>11, StepsAre, Zenon
        DEF Quiet

----------------------------------------------------------------------------
\* The invariant

LEMMA InitInvariant == ASSUME Init PROVE IInv
<1>1. Shape
  BY InitShape
<1>2. /\ request = NoRequest /\ got = Nothing /\ seen = {} /\ before = {}
      /\ now \in Nat /\ orders = [o \in Orders |-> NoOrder]
  BY TimeAssumption DEF Init
<1>3. /\ request.kind = "none" /\ request.todo = {}
      /\ got.ids = {} /\ got.items = {} /\ got.orders = {} /\ ToSet(got.rows) = {}
  BY <1>2, NothingIs DEF NoRequest
<1>4. Writers
  BY <1>2 DEF Writers, Grounded, Committed, NoOrder
<1>5. Plan
  BY <1>2, <1>3 DEF Plan
<1>6. Results
  BY <1>2, <1>3 DEF Results
<1>7. Detail /\ Probes /\ Pages
  BY <1>3 DEF Detail, Probes, Pages
<1> QED BY <1>1, <1>4, <1>5, <1>6, <1>7 DEF IInv

LEMMA InvariantStep == ASSUME IInv, [Next]_vars PROVE IInv'
BY NextShape, WritersStep, PlanStep, ResultsStep, DetailStep, ProbesStep, PagesStep
   DEF IInv

\* What a request has returned, and what the writers have written, stay related
\* as the parts of IInv say, however reads and writes interleave.
THEOREM Invariant == Spec => []IInv
<1>1. Init => IInv
  BY InitInvariant
<1>2. IInv /\ [Next]_vars => IInv'
  BY InvariantStep
<1> QED BY <1>1, <1>2, PTL DEF Spec

\* The lists, the detail and the pages never show an order without its items,
\* unless it was committed while the list was being read.
THEOREM ItemsShown == Spec => []OrdersShowTheirItems
<1>1. IInv => OrdersShowTheirItems
  <2> SUFFICES ASSUME IInv PROVE OrdersShowTheirItems
    OBVIOUS
  <2>1. ASSUME request.todo = {}, NEW o \in got.ids PROVE ShowsItems(o)
    BY <2>1 DEF IInv, Results, ShowsItems
  <2>2. ASSUME request.kind \in {"overview", "list"}, request.todo = {},
               NEW r \in got.orders, r.id \in before
        PROVE  ShowsItems(r.id)
    BY <2>1, <2>2 DEF IInv, Results
  <2>3. ASSUME Answered("detail"), NEW r \in got.orders PROVE ShowsItems(r.id)
    <3>1. Followed(r) /\ request.todo = {}
      BY <2>3 DEF IInv, Detail, Answered
    <3> QED BY <2>1, <3>1 DEF Followed
  <2>4. ASSUME Answered("pages"), NEW o \in ToSet(got.rows) PROVE ShowsItems(o)
    BY <2>1, <2>4 DEF IInv, Results, Answered
  <2> QED BY <2>2, <2>3, <2>4 DEF OrdersShowTheirItems, Answered, Listed
<1> QED BY <1>1, Invariant, PTL

\* The detail shows the payment, completed or refunded since, and the shipment the
\* status of the order rests on, whoever pays, refunds or ships meanwhile.
THEOREM DetailGrounded == Spec => []DetailShowsItsGrounds
<1>1. IInv => DetailShowsItsGrounds
  <2> SUFFICES ASSUME IInv, Answered("detail"), NEW r \in got.orders
               PROVE  /\ r.status \in {"PAYMENT_PROCESSED", "SHIPPED"} =>
                            \/ \E s \in Charged : <<r.id, s>> \in got.payments
                            \/ "FAILED" \in payments[r.id]
                      /\ r.status = "SHIPPED" => \E s \in got.shipments : s.id = r.id
    BY DEF DetailShowsItsGrounds
  <2>1. Followed(r) /\ request.todo = {}
    BY DEF IInv, Detail, Answered
  <2> QED BY <2>1 DEF Followed
<1> QED BY <1>1, Invariant, PTL

\* A client that reads page after page misses no order that was there when it
\* began, unless orders shared a created_at, stopped matching or slipped in
\* between a page's count and its rows: for any number of orders and any page size.
THEOREM NothingMissed == Spec => []PagesMissNothing
<1>1. IInv => PagesMissNothing
  BY DEF IInv, Pages, PagesMissNothing
<1> QED BY <1>1, Invariant, PTL

\* The health checks never call healthy what was away all the time, nor
\* unhealthy what was there all the time.
THEOREM HealthTrue == Spec => []HealthIsTrue
<1>1. IInv => HealthIsTrue
  <2> SUFFICES ASSUME IInv PROVE HealthIsTrue
    OBVIOUS
  <2>1. ASSUME request.kind \in {"health", "ready"}, request.todo = {},
               NEW d \in Statements(request.kind), NEW e \in Dependencies, e = d
        PROVE  /\ known[d] = {TRUE} => d \in got.healthy
               /\ known[d] = {FALSE} => d \notin got.healthy
    <3>1. Witnessed(d)
      BY <2>1 DEF IInv, Probes
    <3>2. /\ d \in got.healthy => TRUE \in known[d]
          /\ d \notin got.healthy => FALSE \in known[d]
      BY <2>1, <3>1 DEF Witnessed
    <3> QED BY <3>2
  <2>2. ASSUME Answered("health")
        PROVE  \A d \in Dependencies :
                   /\ known[d] = {TRUE} => d \in got.healthy
                   /\ known[d] = {FALSE} => d \notin got.healthy
    BY <2>1, <2>2 DEF Answered, Statements
  <2>3. ASSUME Answered("ready")
        PROVE  \A d \in Statements("ready") :
                   /\ known[d] = {TRUE} => d \in got.healthy
                   /\ known[d] = {FALSE} => d \notin got.healthy
    <3>1. Statements("ready") \subseteq Dependencies
      BY DEF Statements, Dependencies
    <3> QED BY <2>1, <2>3, <3>1 DEF Answered
  <2>4. Answered("health") =>
            /\ (\A d \in Dependencies : known[d] = {TRUE}) => Overall = "HEALTHY"
            /\ known["temporal"] = {FALSE} => Overall # "HEALTHY"
            /\ (\E d \in Dependencies \ {"temporal"} : known[d] = {FALSE}) =>
                  Overall = "DOWN"
            /\ (\A d \in Dependencies \ {"temporal"} : known[d] = {TRUE}) =>
                  Overall # "DOWN"
    BY <2>2 DEF Overall, HealthOf, Dependencies
  <2>5. Answered("ready") =>
            /\ (\A d \in Statements("ready") : known[d] = {TRUE}) => Ready
            /\ (\E d \in Statements("ready") : known[d] = {FALSE}) => ~Ready
    BY <2>3 DEF Ready
  <2> QED BY <2>4, <2>5 DEF HealthIsTrue
<1> QED BY <1>1, Invariant, PTL

----------------------------------------------------------------------------
\* The days of the trend

\* What a local time stands for, where z, a and u are the offsets and the change.
ReadAs(z, a, u, x) == IF x - z < u \/ x - a < u THEN x - z ELSE x - a

\* The midnights of two days have the same UTC date only when the clocks were put
\* forward between them, and then the days are next to each other.
LEMMA SameDate ==
    ASSUME NEW z \in -1 .. 1, NEW a \in -1 .. 1, NEW u \in Int, NEW x \in Int,
           NEW k \in Nat, k > 0,
           DayOf(ReadAs(z, a, u, x)) = DayOf(ReadAs(z, a, u, x + 2 * k))
    PROVE  /\ k = 1 /\ a > z
           /\ ReadAs(z, a, u, x) < u + (a - z)
           /\ u <= ReadAs(z, a, u, x + 2 * k)
<1> DEFINE p == ReadAs(z, a, u, x)
           q == ReadAs(z, a, u, x + 2 * k)
<1>1. p \in Int /\ q \in Int
  BY DEF ReadAs
<1>2. q - p <= 1
  <2>1. DayOf(p) = DayOf(q)
    OBVIOUS
  <2> HIDE DEF p, q
  <2> QED BY <1>1, <2>1 DEF DayOf
<1>3. p = x - z \/ p = x - a
  BY DEF ReadAs
<1>4. q = x + 2 * k - z \/ q = x + 2 * k - a
  BY DEF ReadAs
<1>5. q = x + 2 * k - z => p = x - z
  BY DEF ReadAs
<1>6. /\ p = x - z /\ q = x + 2 * k - a /\ a > z /\ k = 1
  <2> HIDE DEF p, q
  <2> QED BY <1>1, <1>2, <1>3, <1>4, <1>5
<1>7. a # z => x - z < u \/ x - a < u
  BY <1>6 DEF ReadAs
<1>8. a # z => ~(x + 2 * k - z < u \/ x + 2 * k - a < u)
  BY <1>6 DEF ReadAs
<1> QED BY <1>6, <1>7, <1>8

\* d is the date of the midnight of the day x or of one of the k days after it.
HasDate(z, a, u, x, k, d) == \E i \in 0 .. k : DayOf(ReadAs(z, a, u, x + 2 * i)) = d

\* Every date between those of two midnights is that of the midnight as many days
\* after the first, or as many before the last, unless the clocks were put back.
LEMMA NoDateSkipped ==
    ASSUME NEW z \in -1 .. 1, NEW a \in -1 .. 1, NEW u \in Int, NEW x \in Int,
           NEW k \in Nat, NEW d \in Int,
           DayOf(ReadAs(z, a, u, x)) <= d, d <= DayOf(ReadAs(z, a, u, x + 2 * k)),
           a < z /\ ReadAs(z, a, u, x) < u => ReadAs(z, a, u, x + 2 * k) < u
    PROVE  HasDate(z, a, u, x, k, d)
<1> DEFINE p == ReadAs(z, a, u, x)
           q == ReadAs(z, a, u, x + 2 * k)
           i == d - DayOf(p)
           j == k - (DayOf(q) - d)
<1>1. /\ p \in Int /\ q \in Int /\ DayOf(p) \in Int /\ DayOf(q) \in Int
      /\ i \in Int /\ j \in Int
  BY DEF ReadAs, DayOf
<1>2. \/ p = x - z /\ q = x + 2 * k - z
      \/ p = x - a /\ q = x + 2 * k - a
      \/ p = x - z /\ q = x + 2 * k - a /\ z < a
  BY DEF ReadAs
<1>3. i \in 0 .. k /\ j \in 0 .. k /\ i <= j
  <2>1. DayOf(q) - DayOf(p) <= k /\ DayOf(p) <= d /\ d <= DayOf(q)
    <3>1. q - p <= 2 * k
      <4> HIDE DEF p, q
      <4> QED BY <1>1, <1>2
    <3>2. DayOf(p) <= d /\ d <= DayOf(q)
      OBVIOUS
    <3> HIDE DEF p, q
    <3> QED BY <1>1, <3>1, <3>2 DEF DayOf
  <2> HIDE DEF p, q
  <2> QED BY <1>1, <2>1
<1>4. CASE ReadAs(z, a, u, x + 2 * i) = p + 2 * i
  <2>1. DayOf(p + 2 * i) = d
    <3>1. DayOf(p + 2 * i) = DayOf(p) + i
      <4> HIDE DEF p, i
      <4> QED BY <1>1 DEF DayOf
    <3> HIDE DEF p
    <3> QED BY <1>1, <3>1
  <2> QED BY <1>3, <1>4, <2>1 DEF HasDate
<1>5. CASE ReadAs(z, a, u, x + 2 * j) = q - 2 * (k - j)
  <2>1. DayOf(q - 2 * (k - j)) = d
    <3>1. DayOf(q - 2 * (k - j)) = DayOf(q) - (k - j)
      <4> HIDE DEF q, j
      <4> QED BY <1>1 DEF DayOf
    <3> HIDE DEF q
    <3> QED BY <1>1, <3>1
  <2> QED BY <1>3, <1>5, <2>1 DEF HasDate
<1>6. \/ ReadAs(z, a, u, x + 2 * i) = p + 2 * i
      \/ ReadAs(z, a, u, x + 2 * j) = q - 2 * (k - j)
  <2>1. /\ i \in Int /\ j \in Int /\ 0 <= i /\ i <= j /\ j <= k
    BY <1>3
  <2> HIDE DEF i, j
  <2>2. CASE p = x - a /\ q = x + 2 * k - a
    BY <2>1, <2>2 DEF ReadAs
  <2>3. CASE p = x - z /\ q = x + 2 * k - z
    BY <2>1, <2>3 DEF ReadAs
  <2>4. CASE p = x - z /\ q = x + 2 * k - a /\ z < a
    BY <2>1, <2>4 DEF ReadAs
  <2> QED BY <1>2, <2>2, <2>3, <2>4
<1> QED BY <1>4, <1>5, <1>6

Clock ==
    /\ TrendDays \in Nat /\ TrendDays > 0 /\ now \in Nat
    /\ scenario.zone \in -1 .. 1 /\ scenario.after \in -1 .. 1 /\ scenario.turn \in Int

\* The midnights of the points: the first, and the others so many days after it.
LEMMA Midnights ==
    ASSUME Clock
    PROVE  \E first \in Int : \A i \in 1 .. TrendDays :
              DaysBack(TrendDays - i) =
                  ReadAs(scenario.zone, scenario.after, scenario.turn, first + 2 * (i - 1))
<1>1. Offset(now) \in -1 .. 1
  BY DEF Clock, Offset
<1>2. DayOf(now + Offset(now)) \in Int
  BY <1>1 DEF Clock, DayOf
<1>3. Today \in Int
  BY <1>2 DEF Today, Instant, Clock
<1>4. Offset(Today) \in -1 .. 1
  BY DEF Clock, Offset
<1> DEFINE first == Today + Offset(Today) - 2 * (TrendDays - 1)
<1>5. first \in Int
  BY <1>3, <1>4 DEF Clock
<1>6. ASSUME NEW i \in 1 .. TrendDays
      PROVE  DaysBack(TrendDays - i) =
                 ReadAs(scenario.zone, scenario.after, scenario.turn, first + 2 * (i - 1))
  <2>1. Today + Offset(Today) - 2 * (TrendDays - i) = first + 2 * (i - 1)
    BY <1>3, <1>4 DEF Clock
  <2> QED BY <2>1 DEF DaysBack, Instant, ReadAs
<1> QED BY <1>5, <1>6

\* An order is counted twice in the trend only across clocks put forward and left
\* out only across clocks put back, and where local time is UTC the trend agrees
\* with the summary: for any number of days, any change and any time of the day.
THEOREM TrendAgrees == Spec => []TrendAgreesWithSummary
<1>1. IInv => TrendAgreesWithSummary
  <2> SUFFICES ASSUME IInv PROVE TrendAgreesWithSummary
    OBVIOUS
  <2>0. Clock /\ \A r \in got.orders : r.at \in Nat
    BY ScenarioType, LimitAssumption DEF IInv, Results, Shape, Clock
  <2> DEFINE z == scenario.zone
             a == scenario.after
             u == scenario.turn
  <2>1. PICK first \in Int : \A i \in 1 .. TrendDays :
            DaysBack(TrendDays - i) = ReadAs(z, a, u, first + 2 * (i - 1))
    BY <2>0, Midnights
  <2>2. ASSUME NEW i \in 1 .. TrendDays, NEW j \in 1 .. TrendDays, i < j,
               Trend[i] \cap Trend[j] # {}
        PROVE  j = i + 1 /\ PutForward(i, j)
    <3>1. TrendKey(i) = TrendKey(j)
      BY <2>2 DEF Trend
    <3> DEFINE x == first + 2 * (i - 1)
               k == j - i
    <3>2. x \in Int /\ k \in Nat /\ k > 0 /\ x + 2 * k = first + 2 * (j - 1)
      BY <2>0, <2>2 DEF Clock
    <3>3. /\ DaysBack(TrendDays - i) = ReadAs(z, a, u, x)
          /\ DaysBack(TrendDays - j) = ReadAs(z, a, u, x + 2 * k)
      BY <2>1, <3>2
    <3>4. DayOf(ReadAs(z, a, u, x)) = DayOf(ReadAs(z, a, u, x + 2 * k))
      BY <3>1, <3>3 DEF TrendKey
    <3>5. /\ k = 1 /\ a > z /\ ReadAs(z, a, u, x) < u + (a - z)
          /\ u <= ReadAs(z, a, u, x + 2 * k)
      <4>1. z \in -1 .. 1 /\ a \in -1 .. 1 /\ u \in Int
        BY <2>0 DEF Clock
      <4> HIDE DEF x, k, z, a, u
      <4> QED BY <3>2, <3>4, <4>1, SameDate
    <3> QED BY <2>0, <3>3, <3>5 DEF PutForward, Clock
  <2>3. ASSUME NEW r \in got.orders, DayOf(r.at) \in TrendKey(1) .. TrendKey(TrendDays),
               ~PutBack(1, TrendDays)
        PROVE  \E i \in 1 .. TrendDays : r \in Trend[i]
    <3> DEFINE k == TrendDays - 1
               d == DayOf(r.at)
    <3>1. /\ 1 \in 1 .. TrendDays /\ TrendDays \in 1 .. TrendDays /\ k \in Nat
          /\ first + 2 * (1 - 1) = first /\ first + 2 * (TrendDays - 1) = first + 2 * k
      BY <2>0 DEF Clock
    <3>2. /\ DaysBack(TrendDays - 1) = ReadAs(z, a, u, first)
          /\ DaysBack(TrendDays - TrendDays) = ReadAs(z, a, u, first + 2 * k)
      BY <2>1, <3>1
    <3>3. d \in Int /\ DayOf(ReadAs(z, a, u, first)) <= d
          /\ d <= DayOf(ReadAs(z, a, u, first + 2 * k))
      <4>1. /\ d \in Int /\ TrendKey(1) \in Int /\ TrendKey(TrendDays) \in Int
            /\ TrendKey(1) <= d /\ d <= TrendKey(TrendDays)
        <5>1. d \in Int
          BY <2>0 DEF DayOf
        <5>2. ReadAs(z, a, u, first) \in Int /\ ReadAs(z, a, u, first + 2 * k) \in Int
          BY <2>0, <3>1 DEF ReadAs, Clock
        <5>3. TrendKey(1) \in Int /\ TrendKey(TrendDays) \in Int
          BY <3>2, <5>2 DEF TrendKey, DayOf
        <5> QED BY <2>3, <5>1, <5>3
      <4> QED BY <3>2, <4>1 DEF TrendKey
    <3>4. a < z /\ ReadAs(z, a, u, first) < u => ReadAs(z, a, u, first + 2 * k) < u
      <4>1. ReadAs(z, a, u, first + 2 * k) \in Int
        BY <2>0, <3>1 DEF ReadAs, Clock
      <4> QED BY <2>0, <2>3, <3>2, <4>1 DEF PutBack, Clock
    <3>5. PICK i \in 0 .. k : DayOf(ReadAs(z, a, u, first + 2 * i)) = d
      <4>1. z \in -1 .. 1 /\ a \in -1 .. 1 /\ u \in Int
        BY <2>0 DEF Clock
      <4>2. k \in Nat
        BY <3>1
      <4>3. HasDate(z, a, u, first, k, d)
        <5> HIDE DEF k, d, z, a, u
        <5> QED BY <3>3, <3>4, <4>1, <4>2, NoDateSkipped
      <4> QED BY <4>3 DEF HasDate
    <3>6. i + 1 \in 1 .. TrendDays /\ first + 2 * ((i + 1) - 1) = first + 2 * i
      BY <2>0 DEF Clock
    <3>7. TrendKey(i + 1) = d
      BY <2>1, <3>5, <3>6 DEF TrendKey
    <3> QED BY <3>6, <3>7 DEF Trend
  <2>4. ASSUME scenario.zone = 0, scenario.after = 0 PROVE Trend[TrendDays] = OrdersToday
    <3>1. TrendDays \in 1 .. TrendDays /\ TrendDays - TrendDays = 0
      BY <2>0 DEF Clock
    <3>2. \A t : Offset(t) = 0
      BY <2>4 DEF Offset
    <3>3. \A t \in Int : Instant(t) = t
      BY <2>4 DEF Instant
    <3>4. DayOf(now) \in Int /\ DayOf(2 * DayOf(now)) = DayOf(now)
      BY <2>0 DEF DayOf, Clock
    <3>5. Today = 2 * DayOf(now)
      BY <2>0, <3>2, <3>3, <3>4 DEF Today, Clock
    <3>6. DaysBack(0) = 2 * DayOf(now)
      BY <3>2, <3>3, <3>4, <3>5 DEF DaysBack
    <3>7. TrendKey(TrendDays) = DayOf(now)
      BY <3>1, <3>4, <3>6 DEF TrendKey
    <3> QED BY <3>1, <3>7 DEF Trend, OrdersToday
  <2> QED BY <2>2, <2>3, <2>4 DEF TrendAgreesWithSummary
<1> QED BY <1>1, Invariant, PTL

============================================================================
