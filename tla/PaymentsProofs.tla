--------------------------- MODULE PaymentsProofs ---------------------------
(***************************************************************************)
(* Machine-checked proofs about Payments, for any number of calls, refunds *)
(* and faults and for all amounts: the events tell the row, a second       *)
(* refund needs an overlap, the gateway's ledger agrees with the records,  *)
(* and the records implement PaymentLifecycle.                             *)
(***************************************************************************)
EXTENDS Payments, WellFoundedInduction, TLAPS

\* No row and no event yet.
Unrecorded(c) == row[c] = NoRow /\ outbox[c] = <<>>

\* What a call in progress knows of its payment.
CallOK(c) ==
    /\ call[c].stage \in {"new", "charge", "refused"} =>
           Unrecorded(c) /\ charged[c] = 0
    /\ call[c].stage = "charge" => Acceptable(c) /\ call[c].status = "PROCESSING"
    /\ call[c].stage = "save" =>
           /\ Acceptable(c) /\ Unrecorded(c)
           /\ \/ call[c].status = "COMPLETED" /\ charged[c] = Asked(c)
              \/ call[c].status = "FAILED" /\ charged[c] = 0
    /\ call[c].stage = "done" => row[c].status # "none"

\* What a row says of its events and of the gateway's ledger.
RecordOK(c) ==
    /\ row[c].status = "none" => Unrecorded(c)
    /\ row[c].status # "none" => Acceptable(c) /\ row[c].amount = Rounded(Asked(c))
    /\ Paid(c) => charged[c] = Asked(c)
    /\ row[c].status = "FAILED" => charged[c] = 0
    /\ Tell(outbox[c], row[c].status)

Saving(r, p) == refund[r].stage = "save" /\ refund[r].payment = p

\* A refund about to save has loaded a payment that was paid.
RefundOK(r) == refund[r].stage = "save" => refund[r].payment \in Calls /\ Paid(refund[r].payment)

\* How a payment comes to be refunded twice.
OverlapOK(p) ==
    /\ \A r, s \in Refunds : r # s /\ Saving(r, p) /\ Saving(s, p) => p \in overlap
    /\ \A r \in Refunds : row[p].status = "REFUNDED" /\ Saving(r, p) => p \in overlap
    /\ Len(outbox[p]) > 3 => p \in overlap

Shape ==
    /\ call \in [Calls -> [stage : {"new", "charge", "save", "done", "refused", "failed"},
                           status : {"none", "PROCESSING", "COMPLETED", "FAILED"}]]
    /\ refund \in [Refunds -> [stage : {"new", "save", "done", "refused", "failed"},
                               payment : Calls \cup {"none"}]]
    /\ charged \in [Calls -> Nat]
    /\ row \in [Calls -> [status : {"none", "COMPLETED", "FAILED", "REFUNDED"}, amount : Nat]]
    /\ outbox \in [Calls -> Seq({"Created", "Processed", "Failed", "Refunded"})]
    /\ overlap \subseteq Calls
    /\ faults \in 0..MaxFaults

IInv ==
    /\ Shape
    /\ \A c \in Calls : CallOK(c) /\ RecordOK(c) /\ OverlapOK(c)
    /\ \A r \in Refunds : RefundOK(r)

----------------------------------------------------------------------------
\* The data

Word == {"Created", "Processed", "Failed", "Refunded"}

LEMMA Events ==
    /\ DOMAIN EventOf = {"COMPLETED", "FAILED", "REFUNDED"}
    /\ EventOf["COMPLETED"] = "Processed"
    /\ EventOf["FAILED"] = "Failed"
    /\ EventOf["REFUNDED"] = "Refunded"
BY DEF EventOf

LEMMA Transitions ==
    /\ \A s : CanTransition("PROCESSING", s) <=> s \in {"COMPLETED", "FAILED"}
    /\ \A s : CanTransition(s, "REFUNDED") <=> s = "COMPLETED"
BY DEF CanTransition

LEMMA Rounding ==
    ASSUME NEW m \in Nat
    PROVE  /\ Rounded(m) \in Nat
           /\ Rounded(m) <= m + 5
           /\ m <= Rounded(m) + 5
           /\ Rounded(m) > 0 => m > 0
           /\ Rounded(Rounded(m)) = Rounded(m)
BY DEF Rounded

LEMMA TellFirst ==
    /\ Tell(<<>>, "none")
    /\ Tell(<<"Created", "Processed">>, "COMPLETED")
    /\ Tell(<<"Created", "Failed">>, "FAILED")
BY DEF Tell

\* One more refund keeps the story of a paid payment consistent.
LEMMA TellRefund ==
    ASSUME NEW h \in Seq(Word), NEW s \in {"COMPLETED", "REFUNDED"}, Tell(h, s)
    PROVE  /\ Tell(h \o <<"Refunded">>, "REFUNDED")
           /\ s = "COMPLETED" => ~(Len(h \o <<"Refunded">>) > 3)
<1> DEFINE g == h \o <<"Refunded">>
<1>1. /\ g \in Seq(Word)
      /\ Len(g) = Len(h) + 1
      /\ \A i \in 1..Len(h) : g[i] = h[i]
      /\ g[Len(h) + 1] = "Refunded"
  BY DEF Word
<1>2. /\ Len(h) >= 2
      /\ s = "COMPLETED" => Len(h) = 2
      /\ h[1] = "Created" /\ h[2] = "Processed"
      /\ \A i \in 3..Len(h) : h[i] = "Refunded"
  BY DEF Tell
<1>3. Len(g) > 2 /\ g[1] = "Created" /\ g[2] = "Processed"
  BY <1>1, <1>2
<1>4. \A i \in 3..Len(g) : g[i] = "Refunded"
  BY <1>1, <1>2
<1>5. Tell(g, "REFUNDED")
  BY <1>3, <1>4 DEF Tell
<1> QED BY <1>1, <1>2, <1>5

----------------------------------------------------------------------------
\* Amounts.  OrderTotal adds the items by a recursive function; that the
\* function exists, and what it returns, is proved by induction.

\* The order on Nat as a set of pairs, the form in which the library states that
\* it is well-founded.
Below == {p \in Nat \X Nat : p[1] < p[2]}
LEMMA BelowWellFounded == IsWellFoundedOn(Below, Nat)
BY NatLessThanWellFounded DEF OpToRel, Below
LEMMA Least == ASSUME NEW T, T \subseteq Nat, T # {}
               PROVE  \E m \in T : \A k \in T : ~(k < m)
<1>1. PICK m \in T : \A y \in T : ~(<<y, m>> \in Below)
  BY BelowWellFounded, WFMin
<1> QED BY <1>1 DEF Below
\* Induction over Nat, for a set instead of a predicate.
LEMMA Induction == ASSUME NEW T, T \subseteq Nat, 0 \in T, \A n \in T : n + 1 \in T
                   PROVE  T = Nat
<1> SUFFICES ASSUME T # Nat PROVE FALSE
  OBVIOUS
<1>1. PICK m \in Nat \ T : \A k \in Nat \ T : ~(k < m)
  BY Least
<1>2. m - 1 \in T
  BY <1>1
<1> QED BY <1>1, <1>2

LEMMA ElementOf ==
    ASSUME NEW S, NEW s \in Seq(S), NEW i \in 1..Len(s)
    PROVE  s[i] \in S
OBVIOUS

LEMMA ItemTotalType ==
    ASSUME NEW item \in Item
    PROVE  ItemTotal(item) \in Nat
<1>1. Rounded(item.price) \in Nat /\ item.quantity \in Nat
  BY DEF Rounded, Item
<1>2. \A m, n \in Nat : m * n \in Nat
  OBVIOUS
<1>3. Rounded(item.price) * item.quantity \in Nat
  BY <1>1, <1>2
<1> QED BY <1>3, Rounding DEF ItemTotal

\* f holds the running totals of the first m items.
RunningTotals(f, items, m) ==
    f = [n \in 0..m |->
            IF n = 0 THEN 0 ELSE Rounded(f[n - 1] + ItemTotal(items[n]))]

LEMMA TotalsStep ==
    ASSUME NEW items, NEW m \in Nat, NEW f, RunningTotals(f, items, m)
    PROVE  /\ f[0] = 0
           /\ \A n \in 1..m : f[n] = Rounded(f[n - 1] + ItemTotal(items[n]))
BY DEF RunningTotals

LEMMA TotalsType ==
    ASSUME NEW items \in Seq(Item),
           NEW m \in 0..Len(items), NEW f, RunningTotals(f, items, m)
    PROVE  \A n \in 0..m : f[n] \in Nat
<1> DEFINE T == {k \in Nat : k <= m => f[k] \in Nat}
<1>1. 0 \in T
  BY DEF RunningTotals
<1>2. ASSUME NEW k \in T PROVE k + 1 \in T
  <2> SUFFICES ASSUME k + 1 <= m PROVE f[k + 1] \in Nat
    OBVIOUS
  <2>1. k \in Nat /\ k + 1 \in 1..Len(items) /\ f[k] \in Nat
    OBVIOUS
  <2>2. items[k + 1] \in Item
    BY <2>1, ElementOf
  <2>3. f[k] + ItemTotal(items[k + 1]) \in Nat
    BY <2>1, <2>2, ItemTotalType
  <2>4. f[k + 1] = Rounded(f[k] + ItemTotal(items[k + 1]))
    BY <2>1, TotalsStep
  <2> HIDE DEF T
  <2> QED BY <2>3, <2>4, Rounding
<1>3. T = Nat
  <2> HIDE DEF T
  <2>1. T \subseteq Nat
    BY DEF T
  <2> QED BY <1>1, <1>2, <2>1, Induction
<1> QED BY <1>3

LEMMA TotalsExist ==
    ASSUME NEW items, Len(items) \in Nat
    PROVE  \E f : RunningTotals(f, items, Len(items))
<1> DEFINE T == {m \in Nat : \E f : RunningTotals(f, items, m)}
<1>1. 0 \in T
  <2>1. RunningTotals([n \in 0..0 |-> 0], items, 0)
    BY DEF RunningTotals
  <2> QED BY <2>1
<1>2. ASSUME NEW k \in T PROVE k + 1 \in T
  <2>1. k \in Nat
    OBVIOUS
  <2>2. PICK f : RunningTotals(f, items, k)
    OBVIOUS
  <2> DEFINE g == [n \in 0..(k + 1) |->
                      IF n = k + 1 THEN Rounded(f[k] + ItemTotal(items[k + 1]))
                                   ELSE f[n]]
  <2>3. ASSUME NEW n \in 0..(k + 1)
        PROVE  g[n] = IF n = 0 THEN 0 ELSE Rounded(g[n - 1] + ItemTotal(items[n]))
    <3>1. CASE n = k + 1
      BY <2>1, <3>1
    <3>2. CASE n # k + 1
      <4>1. n \in 0..k /\ g[n] = f[n] /\ (n # 0 => g[n - 1] = f[n - 1])
        BY <2>1, <3>2
      <4> QED BY <2>2, <4>1 DEF RunningTotals
    <3> QED BY <3>1, <3>2
  <2>4. RunningTotals(g, items, k + 1)
    BY <2>3 DEF RunningTotals
  <2> QED BY <2>1, <2>4
<1>3. T = Nat
  <2> HIDE DEF T
  <2>1. T \subseteq Nat
    BY DEF T
  <2> QED BY <1>1, <1>2, <2>1, Induction
<1> QED BY <1>3

\* The total of an order is a rounded amount.
LEMMA OrderTotalRounded ==
    ASSUME NEW items \in Seq(Item)
    PROVE  OrderTotal(items) \in Nat /\ Rounded(OrderTotal(items)) = OrderTotal(items)
<1> DEFINE L == Len(items)
           h == CHOOSE f : RunningTotals(f, items, L)
<1>1. L \in Nat /\ OrderTotal(items) = h[L]
  BY DEF OrderTotal, RunningTotals
<1>2. RunningTotals(h, items, L)
  BY <1>1, TotalsExist
<1>3. \A n \in 0..L : h[n] \in Nat
  BY <1>1, <1>2, TotalsType
<1> HIDE DEF h
<1>4. CASE L = 0
  BY <1>1, <1>2, <1>4, TotalsStep DEF Rounded
<1>5. CASE L # 0
  <2>1. h[L] = Rounded(h[L - 1] + ItemTotal(items[L]))
    BY <1>1, <1>2, <1>5, TotalsStep
  <2>2. h[L - 1] \in Nat
    BY <1>1, <1>3, <1>5
  <2>3. L \in 1..Len(items)
    BY <1>1, <1>5
  <2>4. items[L] \in Item
    BY <2>3, ElementOf
  <2>5. ItemTotal(items[L]) \in Nat
    BY <2>4, ItemTotalType
  <2>6. h[L - 1] + ItemTotal(items[L]) \in Nat
    BY <2>2, <2>5
  <2> QED BY <1>1, <2>1, <2>6, Rounding
<1> QED BY <1>4, <1>5

LEMMA AskedType ==
    ASSUME NEW c \in Calls
    PROVE  /\ Asked(c) \in Nat
           /\ Items[c] # <<>> => Rounded(Asked(c)) = Asked(c)
<1>1. Items[c] \in Seq(Item) /\ Amount[c] \in Nat
  BY ItemsAssumption, AmountAssumption
<1>2. OrderTotal(Items[c]) \in Nat
      /\ Rounded(OrderTotal(Items[c])) = OrderTotal(Items[c])
  BY <1>1, OrderTotalRounded
<1> QED BY <1>1, <1>2 DEF Asked

----------------------------------------------------------------------------
\* What an action leaves alone

LEMMA KeepPayment ==
    ASSUME NEW c \in Calls, CallOK(c), RecordOK(c),
           call'[c] = call[c], charged'[c] = charged[c],
           row'[c] = row[c], outbox'[c] = outbox[c]
    PROVE  CallOK(c)' /\ RecordOK(c)'
BY DEF CallOK, RecordOK, Unrecorded, Paid

LEMMA KeepOverlap ==
    ASSUME NEW p \in Calls, OverlapOK(p), UNCHANGED <<refund, overlap>>,
           row'[p] = row[p], outbox'[p] = outbox[p]
    PROVE  OverlapOK(p)'
BY DEF OverlapOK, Saving

LEMMA KeepRefunds ==
    ASSUME \A r \in Refunds : RefundOK(r), UNCHANGED refund,
           \A p \in Calls : Paid(p) => Paid(p)'
    PROVE  \A r \in Refunds : RefundOK(r)'
BY DEF RefundOK

\* The transaction of save changes one row and its events.
LEMMA StoreEffect ==
    ASSUME Shape, NEW p \in Calls, NEW st \in {"COMPLETED", "FAILED", "REFUNDED"},
           NEW ev \in Seq(Word), Store(p, st, ev)
    PROVE  /\ row' \in [Calls -> [status : {"none", "COMPLETED", "FAILED", "REFUNDED"},
                                  amount : Nat]]
           /\ outbox' \in [Calls -> Seq(Word)]
           /\ row'[p].status = st
           /\ row'[p].amount = IF row[p] = NoRow THEN Rounded(Asked(p)) ELSE row[p].amount
           /\ outbox'[p] = outbox[p] \o ev
           /\ \A c \in Calls : c # p => row'[c] = row[c] /\ outbox'[c] = outbox[c]
<1>1. Rounded(Asked(p)) \in Nat
  BY Rounding, AskedType
<1>2. /\ RowOf(p, st) \in [status : {"none", "COMPLETED", "FAILED", "REFUNDED"}, amount : Nat]
      /\ RowOf(p, st).status = st
      /\ RowOf(p, st).amount = IF row[p] = NoRow THEN Rounded(Asked(p)) ELSE row[p].amount
  BY <1>1 DEF RowOf, Shape
<1>3. outbox[p] \o ev \in Seq(Word)
  BY DEF Shape, Word
<1>4. row' = [row EXCEPT ![p] = RowOf(p, st)] /\ outbox' = [outbox EXCEPT ![p] = @ \o ev]
  BY DEF Store
<1>5. row \in [Calls -> [status : {"none", "COMPLETED", "FAILED", "REFUNDED"}, amount : Nat]]
      /\ outbox \in [Calls -> Seq(Word)]
  BY DEF Shape, Word
<1>6. /\ row' \in [Calls -> [status : {"none", "COMPLETED", "FAILED", "REFUNDED"}, amount : Nat]]
      /\ row'[p] = RowOf(p, st)
      /\ \A c \in Calls : c # p => row'[c] = row[c]
  BY <1>2, <1>4, <1>5
<1>7. /\ outbox' \in [Calls -> Seq(Word)]
      /\ outbox'[p] = outbox[p] \o ev
      /\ \A c \in Calls : c # p => outbox'[c] = outbox[c]
  BY <1>3, <1>4, <1>5
<1> QED BY <1>2, <1>6, <1>7

\* Storing the outcome of a charge.
LEMMA SavePaymentEffect ==
    ASSUME IInv, NEW c \in Calls, call[c].stage = "save", SavePayment(c)
    PROVE  /\ row' \in [Calls -> [status : {"none", "COMPLETED", "FAILED", "REFUNDED"},
                                  amount : Nat]]
           /\ outbox' \in [Calls -> Seq(Word)]
           /\ row'[c].status = call[c].status
           /\ row'[c].status \in {"COMPLETED", "FAILED"}
           /\ row'[c].amount = Rounded(Asked(c))
           /\ Tell(outbox'[c], row'[c].status)
           /\ Len(outbox'[c]) = 2
           /\ \A d \in Calls : d # c => row'[d] = row[d] /\ outbox'[d] = outbox[d]
<1>1. Shape /\ Unrecorded(c) /\ call[c].status \in {"COMPLETED", "FAILED"}
  BY DEF IInv, CallOK
<1> DEFINE ev == <<"Created", EventOf[call[c].status]>>
<1>2. /\ call[c].status = "COMPLETED" => ev = <<"Created", "Processed">>
      /\ call[c].status = "FAILED" => ev = <<"Created", "Failed">>
  BY Events
<1>3. ev \in Seq(Word) /\ Store(c, call[c].status, ev)
  BY <1>1, <1>2 DEF SavePayment, Word
<1> HIDE DEF ev
<1>4. /\ row' \in [Calls -> [status : {"none", "COMPLETED", "FAILED", "REFUNDED"},
                             amount : Nat]]
      /\ outbox' \in [Calls -> Seq(Word)]
      /\ row'[c].status = call[c].status
      /\ row'[c].amount = IF row[c] = NoRow THEN Rounded(Asked(c)) ELSE row[c].amount
      /\ outbox'[c] = outbox[c] \o ev
      /\ \A d \in Calls : d # c => row'[d] = row[d] /\ outbox'[d] = outbox[d]
  BY <1>1, <1>3, StoreEffect
<1>5. outbox'[c] = ev
  BY <1>1, <1>3, <1>4 DEF Unrecorded
<1>6. Tell(outbox'[c], row'[c].status) /\ Len(outbox'[c]) = 2
  BY <1>1, <1>2, <1>4, <1>5, TellFirst
<1> QED BY <1>1, <1>4, <1>6 DEF Unrecorded

\* Storing a refund.
LEMMA StoreRefundEffect ==
    ASSUME IInv, NEW r \in Refunds, refund[r].stage = "save", StoreRefund(r),
           NEW p, p = refund[r].payment
    PROVE  /\ p \in Calls /\ Paid(p) /\ Saving(r, p)
           /\ row' \in [Calls -> [status : {"none", "COMPLETED", "FAILED", "REFUNDED"},
                                  amount : Nat]]
           /\ outbox' \in [Calls -> Seq(Word)]
           /\ row'[p].status = "REFUNDED"
           /\ row'[p].amount = row[p].amount
           /\ Tell(outbox'[p], "REFUNDED")
           /\ row[p].status = "COMPLETED" => ~(Len(outbox'[p]) > 3)
           /\ \A d \in Calls : d # p => row'[d] = row[d] /\ outbox'[d] = outbox[d]
<1>1. p \in Calls /\ Paid(p) /\ Saving(r, p)
  BY DEF IInv, RefundOK, Saving
<1>2. /\ Shape /\ RecordOK(p)
      /\ outbox[p] \in Seq(Word)
      /\ row[p] # NoRow
  BY <1>1 DEF IInv, Shape, Word, Paid, NoRow
<1>3. <<"Refunded">> \in Seq(Word) /\ Store(p, "REFUNDED", <<"Refunded">>)
  BY DEF StoreRefund, Word
<1>4. /\ row' \in [Calls -> [status : {"none", "COMPLETED", "FAILED", "REFUNDED"},
                             amount : Nat]]
      /\ outbox' \in [Calls -> Seq(Word)]
      /\ row'[p].status = "REFUNDED"
      /\ row'[p].amount = IF row[p] = NoRow THEN Rounded(Asked(p)) ELSE row[p].amount
      /\ outbox'[p] = outbox[p] \o <<"Refunded">>
      /\ \A d \in Calls : d # p => row'[d] = row[d] /\ outbox'[d] = outbox[d]
  BY <1>1, <1>2, <1>3, StoreEffect
<1>5. row[p].status \in {"COMPLETED", "REFUNDED"} /\ Tell(outbox[p], row[p].status)
  BY <1>1, <1>2 DEF Paid, RecordOK
<1>6. /\ Tell(outbox'[p], "REFUNDED")
      /\ row[p].status = "COMPLETED" => ~(Len(outbox'[p]) > 3)
  BY <1>2, <1>4, <1>5, TellRefund
<1> QED BY <1>1, <1>2, <1>4, <1>6

----------------------------------------------------------------------------
\* Every action keeps the invariant

LEMMA InitInv == Init => IInv
<1> SUFFICES ASSUME Init PROVE IInv
  OBVIOUS
<1>1. Shape
  BY MaxFaultsAssumption DEF Init, Shape, NewCall, NewRefund, NoRow
<1>2. ASSUME NEW c \in Calls PROVE CallOK(c) /\ RecordOK(c) /\ OverlapOK(c)
  <2>1. /\ call[c] = NewCall /\ charged[c] = 0 /\ row[c] = NoRow /\ outbox[c] = <<>>
        /\ \A r \in Refunds : refund[r] = NewRefund
    BY DEF Init
  <2> QED BY <2>1, TellFirst
          DEF NewCall, NewRefund, NoRow, CallOK, RecordOK, OverlapOK, Unrecorded,
              Paid, Saving
<1>3. \A r \in Refunds : RefundOK(r)
  BY DEF Init, RefundOK, NewRefund
<1> QED BY <1>1, <1>2, <1>3 DEF IInv

LEMMA AcceptInv == ASSUME IInv, NEW c \in Calls, Accept(c) PROVE IInv'
<1>1. /\ UNCHANGED <<refund, charged, row, outbox, overlap, faults>>
      /\ call[c].stage = "new"
      /\ call' = [call EXCEPT ![c] =
                     IF Acceptable(c)
                       THEN [stage |-> "charge", status |-> "PROCESSING"]
                       ELSE [stage |-> "refused", status |-> "none"]]
  BY DEF Accept, NewCall
<1>2. Shape'
  BY <1>1 DEF IInv, Shape
<1>3. CallOK(c)' /\ RecordOK(c)'
  <2>1. /\ call'[c].stage \in {"charge", "refused"}
        /\ call'[c].stage = "charge" => Acceptable(c) /\ call'[c].status = "PROCESSING"
    BY <1>1 DEF IInv, Shape
  <2>2. CallOK(c) /\ RecordOK(c)
    BY DEF IInv
  <2> QED BY <1>1, <2>1, <2>2 DEF CallOK, RecordOK, Unrecorded, Paid
<1>4. ASSUME NEW d \in Calls, d # c PROVE CallOK(d)' /\ RecordOK(d)'
  BY <1>1, <1>4, KeepPayment DEF IInv, Shape
<1>5. \A p \in Calls : OverlapOK(p)'
  BY <1>1, KeepOverlap DEF IInv
<1>6. \A r \in Refunds : RefundOK(r)'
  BY <1>1 DEF IInv, RefundOK, Paid
<1> QED BY <1>2, <1>3, <1>4, <1>5, <1>6 DEF IInv

LEMMA ChargeInv == ASSUME IInv, NEW c \in Calls, Charge(c) PROVE IInv'
<1>1. PICK outcome \in DOMAIN EventOf :
          /\ CanTransition(call[c].status, outcome)
          /\ call' = [call EXCEPT ![c] = [stage |-> "save", status |-> outcome]]
          /\ charged' = IF outcome = "COMPLETED" THEN Taken(c) ELSE charged
  BY DEF Charge
<1>2. /\ UNCHANGED <<refund, row, outbox, overlap, faults>>
      /\ call[c].stage = "charge"
  BY DEF Charge
<1>3. CallOK(c) /\ RecordOK(c) /\ Shape
  BY DEF IInv
<1>4. outcome \in {"COMPLETED", "FAILED"}
  BY <1>1, <1>2, <1>3, Transitions DEF CallOK
<1>5. /\ charged' \in [Calls -> Nat]
      /\ charged'[c] = IF outcome = "COMPLETED" THEN Asked(c) ELSE 0
      /\ \A d \in Calls : d # c => charged'[d] = charged[d]
  BY <1>1, <1>2, <1>3, AskedType DEF Taken, Shape, CallOK
<1>6. Shape'
  BY <1>1, <1>2, <1>3, <1>4, <1>5 DEF Shape
<1>7. CallOK(c)' /\ RecordOK(c)'
  <2>1. call'[c].stage = "save" /\ call'[c].status = outcome
    BY <1>1, <1>3 DEF Shape
  <2>2. Acceptable(c) /\ Unrecorded(c)
    BY <1>2, <1>3 DEF CallOK
  <2>3. Unrecorded(c)' /\ row'[c].status = "none" /\ row[c].status = "none"
    BY <1>2, <2>2 DEF Unrecorded, NoRow
  <2>4. Tell(outbox'[c], row'[c].status)
    BY <1>2, <1>3 DEF RecordOK
  <2> QED BY <1>4, <1>5, <2>1, <2>2, <2>3, <2>4 DEF CallOK, RecordOK, Paid
<1>8. ASSUME NEW d \in Calls, d # c PROVE CallOK(d)' /\ RecordOK(d)'
  BY <1>1, <1>2, <1>5, <1>8, KeepPayment DEF IInv, Shape
<1>9. \A p \in Calls : OverlapOK(p)'
  BY <1>2, KeepOverlap DEF IInv
<1>10. \A r \in Refunds : RefundOK(r)'
  BY <1>2 DEF IInv, RefundOK, Paid
<1> QED BY <1>6, <1>7, <1>8, <1>9, <1>10 DEF IInv

\* A call moves to a later stage.
LEMMA Staged ==
    ASSUME Shape, NEW c \in Calls, NEW stage \in {"new", "charge", "save", "done", "refused", "failed"},
           call' = [call EXCEPT ![c].stage = stage]
    PROVE  /\ call' \in [Calls -> [stage : {"new", "charge", "save", "done", "refused", "failed"},
                                   status : {"none", "PROCESSING", "COMPLETED", "FAILED"}]]
           /\ call'[c].stage = stage
           /\ \A d \in Calls : d # c => call'[d] = call[d]
<1> DEFINE States == [stage : {"new", "charge", "save", "done", "refused", "failed"},
                      status : {"none", "PROCESSING", "COMPLETED", "FAILED"}]
           moved == [call[c] EXCEPT !.stage = stage]
<1>1. call \in [Calls -> States]
  BY DEF Shape
<1>2. moved \in States /\ moved.stage = stage
  BY <1>1
<1>3. call' = [call EXCEPT ![c] = moved]
  OBVIOUS
<1> HIDE DEF States, moved
<1>4. /\ call' \in [Calls -> States] /\ call'[c] = moved
      /\ \A d \in Calls : d # c => call'[d] = call[d]
  BY <1>1, <1>2, <1>3
<1> QED BY <1>2, <1>4 DEF States

\* The row of a call is stored by the call or by what was left of it when it
\* failed.
LEMMA StoredInv ==
    ASSUME IInv, NEW c \in Calls, call[c].stage = "save", SavePayment(c),
           NEW stage \in {"done", "failed"},
           call' = [call EXCEPT ![c].stage = stage],
           UNCHANGED <<refund, charged, overlap>>, faults' \in 0..MaxFaults
    PROVE  IInv'
<1>1. /\ row' \in [Calls -> [status : {"none", "COMPLETED", "FAILED", "REFUNDED"},
                             amount : Nat]]
      /\ outbox' \in [Calls -> Seq(Word)]
      /\ row'[c].status = call[c].status
      /\ row'[c].status \in {"COMPLETED", "FAILED"}
      /\ row'[c].amount = Rounded(Asked(c))
      /\ Tell(outbox'[c], row'[c].status)
      /\ Len(outbox'[c]) = 2
      /\ \A d \in Calls : d # c => row'[d] = row[d] /\ outbox'[d] = outbox[d]
  BY SavePaymentEffect
<1>2. CallOK(c) /\ Shape
  BY DEF IInv
<1>3. /\ call' \in [Calls -> [stage : {"new", "charge", "save", "done", "refused", "failed"},
                              status : {"none", "PROCESSING", "COMPLETED", "FAILED"}]]
      /\ call'[c].stage = stage
      /\ \A d \in Calls : d # c => call'[d] = call[d]
  BY <1>2, Staged
<1>4. Shape'
  BY <1>1, <1>2, <1>3 DEF Shape, Word
<1>5. CallOK(c)' /\ RecordOK(c)'
  <2>1. /\ Acceptable(c) /\ Unrecorded(c)
        /\ call[c].status = "COMPLETED" => charged[c] = Asked(c)
        /\ call[c].status = "FAILED" => charged[c] = 0
    BY <1>2 DEF CallOK
  <2>2. CallOK(c)'
    <3>1. call'[c].stage \in {"done", "failed"} /\ row'[c].status # "none"
      BY <1>1, <1>3
    <3> QED BY <3>1 DEF CallOK
  <2> QED BY <1>1, <2>1, <2>2 DEF RecordOK, Paid
<1>6. ASSUME NEW d \in Calls, d # c PROVE CallOK(d)' /\ RecordOK(d)'
  BY <1>1, <1>3, <1>6, KeepPayment DEF IInv
<1>7. ~Paid(c)
  BY <1>2 DEF CallOK, Unrecorded, NoRow, Paid
<1>8. \A p \in Calls : OverlapOK(p)'
  <2>1. OverlapOK(c)'
    BY <1>1, <1>7 DEF IInv, OverlapOK, Saving, RefundOK
  <2>2. ASSUME NEW p \in Calls, p # c PROVE OverlapOK(p)'
    BY <1>1, <2>2, KeepOverlap DEF IInv
  <2> QED BY <2>1, <2>2
<1>9. ASSUME NEW p \in Calls, Paid(p) PROVE Paid(p)'
  BY <1>1, <1>7, <1>9 DEF Paid
<1>10. \A r \in Refunds : RefundOK(r)'
  BY <1>9, KeepRefunds DEF IInv
<1> QED BY <1>4, <1>5, <1>6, <1>8, <1>10 DEF IInv

LEMMA SaveInv == ASSUME IInv, NEW c \in Calls, Save(c) PROVE IInv'
BY StoredInv DEF Save, IInv, Shape

LEMMA CallFailsInv == ASSUME IInv, NEW c \in Calls, CallFails(c) PROVE IInv'
<1>1. /\ call' = [call EXCEPT ![c].stage = "failed"]
      /\ call[c].stage \in {"charge", "save"}
      /\ UNCHANGED <<refund, overlap>>
      /\ faults' \in 0..MaxFaults
  BY MaxFaultsAssumption DEF CallFails, Fault, IInv, Shape
<1>2. CallOK(c) /\ RecordOK(c) /\ Shape
  BY DEF IInv
<1>3. /\ call' \in [Calls -> [stage : {"new", "charge", "save", "done", "refused", "failed"},
                              status : {"none", "PROCESSING", "COMPLETED", "FAILED"}]]
      /\ call'[c].stage = "failed"
      /\ \A d \in Calls : d # c => call'[d] = call[d]
  BY <1>1, <1>2, Staged
<1>4. CASE call[c].stage = "save" /\ SavePayment(c) /\ UNCHANGED charged
  <2>1. \E stage \in {"done", "failed"} : call' = [call EXCEPT ![c].stage = stage]
    BY <1>1
  <2>2. UNCHANGED <<refund, charged, overlap>>
    BY <1>1, <1>4
  <2> QED BY <1>1, <1>4, <2>1, <2>2, StoredInv
<1>5. CASE /\ UNCHANGED <<row, outbox>>
           /\ charged' = charged \/ (call[c].stage = "charge" /\ charged' = Taken(c))
  <2>1. /\ charged' \in [Calls -> Nat]
        /\ \A d \in Calls : d # c => charged'[d] = charged[d]
    <3>1. charged \in [Calls -> Nat] /\ Asked(c) \in Nat
      BY <1>2, AskedType DEF Shape
    <3>2. CASE charged' = charged
      BY <3>1, <3>2
    <3>3. CASE charged' = Taken(c)
      BY <3>1, <3>3 DEF Taken
    <3> QED BY <1>5, <3>2, <3>3
  <2>2. Shape'
    BY <1>1, <1>2, <1>3, <1>5, <2>1 DEF Shape
  <2>3. CallOK(c)' /\ RecordOK(c)'
    <3>1. Unrecorded(c)
      BY <1>1, <1>2 DEF CallOK
    <3>2. row'[c].status = "none" /\ Unrecorded(c)' /\ Tell(outbox'[c], row'[c].status)
      BY <1>2, <1>5, <3>1 DEF Unrecorded, NoRow, RecordOK
    <3> QED BY <1>3, <3>2 DEF CallOK, RecordOK, Paid
  <2>4. ASSUME NEW d \in Calls, d # c PROVE CallOK(d)' /\ RecordOK(d)'
    BY <1>3, <1>5, <2>1, <2>4, KeepPayment DEF IInv
  <2>5. \A p \in Calls : OverlapOK(p)'
    BY <1>1, <1>5, KeepOverlap DEF IInv
  <2>6. \A r \in Refunds : RefundOK(r)'
    BY <1>1, <1>5 DEF IInv, RefundOK, Paid
  <2> QED BY <2>2, <2>3, <2>4, <2>5, <2>6 DEF IInv
<1> QED BY <1>4, <1>5 DEF CallFails

LEMMA LoadInv == ASSUME IInv, NEW r \in Refunds, NEW p \in Calls, Load(r, p) PROVE IInv'
<1>1. /\ UNCHANGED <<call, charged, row, outbox, faults>>
      /\ refund[r].stage = "new"
      /\ refund' = [refund EXCEPT ![r] =
                       [stage |-> IF CanTransition(row[p].status, "REFUNDED")
                                    THEN "save" ELSE "refused",
                        payment |-> p]]
      /\ overlap' = IF \E s \in Refunds : refund[s] = [stage |-> "save", payment |-> p]
                      THEN overlap \cup {p} ELSE overlap
  BY DEF Load, NewRefund
<1>2. Shape
  BY DEF IInv
<1>3. /\ refund' \in [Refunds -> [stage : {"new", "save", "done", "refused", "failed"},
                                  payment : Calls \cup {"none"}]]
      /\ refund'[r].payment = p
      /\ refund'[r].stage = "save" => row[p].status = "COMPLETED"
      /\ \A s \in Refunds : s # r => refund'[s] = refund[s]
  BY <1>1, <1>2, Transitions DEF Shape
<1>4. /\ overlap' \subseteq Calls /\ overlap \subseteq overlap'
      /\ \A s \in Refunds : Saving(s, p) => p \in overlap'
  BY <1>1, <1>2 DEF Shape, Saving
<1>5. Shape'
  BY <1>1, <1>2, <1>3, <1>4 DEF Shape
<1>6. \A c \in Calls : CallOK(c)' /\ RecordOK(c)'
  BY <1>1, KeepPayment DEF IInv
<1>7. ASSUME NEW q \in Calls PROVE OverlapOK(q)'
  <2>1. OverlapOK(q) /\ row'[q] = row[q] /\ outbox'[q] = outbox[q]
    BY <1>1 DEF IInv
  <2>2. ASSUME NEW s \in Refunds, s # r PROVE Saving(s, q)' <=> Saving(s, q)
    BY <1>3, <2>2 DEF Saving
  <2>3. Saving(r, q)' => q = p /\ row[q].status = "COMPLETED"
    BY <1>3 DEF Saving
  <2>4. ASSUME NEW a \in Refunds, NEW b \in Refunds, a # b, Saving(a, q)', Saving(b, q)'
        PROVE  q \in overlap'
    <3>1. CASE a = r
      BY <1>4, <2>2, <2>3, <2>4, <3>1
    <3>2. CASE b = r
      BY <1>4, <2>2, <2>3, <2>4, <3>2
    <3>3. CASE a # r /\ b # r
      BY <1>4, <2>1, <2>2, <2>4, <3>3 DEF OverlapOK
    <3> QED BY <3>1, <3>2, <3>3
  <2>5. ASSUME NEW a \in Refunds, row'[q].status = "REFUNDED", Saving(a, q)'
        PROVE  q \in overlap'
    BY <1>4, <2>1, <2>2, <2>3, <2>5 DEF OverlapOK
  <2>6. Len(outbox'[q]) > 3 => q \in overlap'
    BY <1>4, <2>1 DEF OverlapOK
  <2> QED BY <2>4, <2>5, <2>6 DEF OverlapOK
<1>8. ASSUME NEW s \in Refunds PROVE RefundOK(s)'
  BY <1>1, <1>3 DEF IInv, RefundOK, Paid
<1> QED BY <1>5, <1>6, <1>7, <1>8 DEF IInv

LEMMA RefundStoredInv ==
    ASSUME IInv, NEW r \in Refunds, refund[r].stage = "save", StoreRefund(r),
           NEW stage \in {"done", "failed"},
           refund' = [refund EXCEPT ![r].stage = stage],
           UNCHANGED <<call, charged, overlap>>, faults' \in 0..MaxFaults
    PROVE  IInv'
<1>1. PICK p : p = refund[r].payment
  OBVIOUS
<1>2. /\ p \in Calls /\ Paid(p) /\ Saving(r, p)
      /\ row' \in [Calls -> [status : {"none", "COMPLETED", "FAILED", "REFUNDED"},
                             amount : Nat]]
      /\ outbox' \in [Calls -> Seq(Word)]
      /\ row'[p].status = "REFUNDED"
      /\ row'[p].amount = row[p].amount
      /\ Tell(outbox'[p], "REFUNDED")
      /\ row[p].status = "COMPLETED" => ~(Len(outbox'[p]) > 3)
      /\ \A d \in Calls : d # p => row'[d] = row[d] /\ outbox'[d] = outbox[d]
  BY <1>1, StoreRefundEffect
<1>3. Shape /\ CallOK(p) /\ RecordOK(p) /\ OverlapOK(p)
  BY <1>2 DEF IInv
<1>4. /\ refund' \in [Refunds -> [stage : {"new", "save", "done", "refused", "failed"},
                                  payment : Calls \cup {"none"}]]
      /\ refund'[r].stage = stage
      /\ \A s \in Refunds : s # r => refund'[s] = refund[s]
  BY <1>3 DEF Shape
<1>5. Shape'
  BY <1>2, <1>3, <1>4 DEF Shape, Word
<1>6. CallOK(p)' /\ RecordOK(p)'
  <2>1. row[p].status # "none" /\ row[p] # NoRow
    BY <1>2 DEF Paid, NoRow
  <2>2. call[p].stage \in {"done", "failed"}
    BY <1>2, <1>3, <2>1 DEF CallOK, Unrecorded, Shape
  <2>3. CallOK(p)'
    BY <1>2, <2>2 DEF CallOK
  <2>4. Acceptable(p) /\ row[p].amount = Rounded(Asked(p)) /\ charged[p] = Asked(p)
    BY <1>2, <1>3, <2>1 DEF RecordOK
  <2> QED BY <1>2, <2>3, <2>4 DEF RecordOK, Paid
<1>7. ASSUME NEW d \in Calls, d # p PROVE CallOK(d)' /\ RecordOK(d)'
  BY <1>2, <1>7, KeepPayment DEF IInv
<1>8. ASSUME NEW s \in Refunds, NEW q, Saving(s, q)' PROVE s # r /\ Saving(s, q)
  BY <1>4, <1>8 DEF Saving
<1>9. OverlapOK(p)'
  <2>1. ASSUME NEW s \in Refunds, Saving(s, p)' PROVE p \in overlap'
    BY <1>2, <1>3, <1>8, <2>1 DEF OverlapOK
  <2>2. Len(outbox'[p]) > 3 => p \in overlap'
    <3>1. CASE row[p].status = "COMPLETED"
      BY <1>2, <3>1
    <3>2. CASE row[p].status = "REFUNDED"
      BY <1>2, <1>3, <3>2 DEF OverlapOK
    <3> QED BY <1>2, <3>1, <3>2 DEF Paid
  <2> QED BY <2>1, <2>2 DEF OverlapOK
<1>10. ASSUME NEW q \in Calls, q # p PROVE OverlapOK(q)'
  <2>1. OverlapOK(q) /\ row'[q] = row[q] /\ outbox'[q] = outbox[q]
    BY <1>2, <1>10 DEF IInv
  <2> QED BY <1>8, <2>1 DEF OverlapOK
<1>11. ASSUME NEW s \in Refunds PROVE RefundOK(s)'
  <2>1. \A q \in Calls : Paid(q) => Paid(q)'
    BY <1>2 DEF Paid
  <2>2. ASSUME refund'[s].stage = "save" PROVE refund'[s] = refund[s]
    BY <1>4, <2>2
  <2> QED BY <2>1, <2>2 DEF RefundOK, IInv
<1> QED BY <1>5, <1>6, <1>7, <1>9, <1>10, <1>11 DEF IInv

LEMMA SaveRefundInv == ASSUME IInv, NEW r \in Refunds, SaveRefund(r) PROVE IInv'
BY RefundStoredInv DEF SaveRefund, IInv, Shape

LEMMA RefundFailsInv == ASSUME IInv, NEW r \in Refunds, RefundFails(r) PROVE IInv'
<1>1. /\ refund' = [refund EXCEPT ![r].stage = "failed"]
      /\ refund[r].stage = "save"
      /\ UNCHANGED <<call, charged, overlap>>
      /\ faults' \in 0..MaxFaults
  BY MaxFaultsAssumption DEF RefundFails, Fault, IInv, Shape
<1>2. CASE StoreRefund(r)
  BY <1>1, <1>2, RefundStoredInv
<1>3. CASE UNCHANGED <<row, outbox>>
  <2>1. Shape
    BY DEF IInv
  <2>2. /\ refund' \in [Refunds -> [stage : {"new", "save", "done", "refused", "failed"},
                                    payment : Calls \cup {"none"}]]
        /\ refund'[r].stage = "failed"
        /\ \A s \in Refunds : s # r => refund'[s] = refund[s]
    BY <1>1, <2>1 DEF Shape
  <2>3. Shape'
    BY <1>1, <1>3, <2>1, <2>2 DEF Shape
  <2>4. \A c \in Calls : CallOK(c)' /\ RecordOK(c)'
    BY <1>1, <1>3, KeepPayment DEF IInv
  <2>5. ASSUME NEW s \in Refunds, NEW q, Saving(s, q)' PROVE Saving(s, q)
    BY <2>2, <2>5 DEF Saving
  <2>6. ASSUME NEW p \in Calls PROVE OverlapOK(p)'
    <3>1. OverlapOK(p)
      BY DEF IInv
    <3> QED BY <1>1, <1>3, <2>5, <3>1 DEF OverlapOK
  <2>7. ASSUME NEW s \in Refunds PROVE RefundOK(s)'
    <3>1. ASSUME refund'[s].stage = "save" PROVE refund'[s] = refund[s]
      BY <2>2, <3>1
    <3> QED BY <1>3, <3>1 DEF RefundOK, IInv, Paid
  <2> QED BY <2>3, <2>4, <2>6, <2>7 DEF IInv
<1> QED BY <1>2, <1>3 DEF RefundFails

LEMMA NextInv == ASSUME IInv, [Next]_vars PROVE IInv'
<1>1. CASE UNCHANGED vars
  <2>1. Shape'
    BY <1>1 DEF vars, IInv, Shape
  <2>2. \A c \in Calls : CallOK(c)' /\ RecordOK(c)' /\ OverlapOK(c)'
    BY <1>1, KeepPayment, KeepOverlap DEF vars, IInv
  <2>3. \A r \in Refunds : RefundOK(r)'
    BY <1>1 DEF vars, IInv, RefundOK, Paid
  <2> QED BY <2>1, <2>2, <2>3 DEF IInv
<1> QED BY <1>1, AcceptInv, ChargeInv, SaveInv, CallFailsInv, LoadInv,
           SaveRefundInv, RefundFailsInv
        DEF Next

\* IInv is an inductive invariant.
THEOREM Invariant == Spec => []IInv
<1>1. Init => IInv
  BY InitInv
<1>2. IInv /\ [Next]_vars => IInv'
  BY NextInv
<1> QED BY <1>1, <1>2, PTL DEF Spec

----------------------------------------------------------------------------
\* TypeOK holds of every instance.
THEOREM TypeCorrect == Spec => []TypeOK
<1>1. IInv => TypeOK
  <2>1. {EventOf[s] : s \in DOMAIN EventOf} = {"Processed", "Failed", "Refunded"}
    BY Events
  <2>2. {"none"} \cup DOMAIN EventOf = {"none", "COMPLETED", "FAILED", "REFUNDED"}
    BY Events
  <2>3. {"Created"} \cup {EventOf[s] : s \in DOMAIN EventOf}
            = {"Created", "Processed", "Failed", "Refunded"}
    BY <2>1
  <2> QED BY <2>2, <2>3 DEF IInv, Shape, TypeOK
<1> QED BY <1>1, Invariant, PTL

\* Row and events never disagree, for any failures and overlaps of the calls.
THEOREM EventsAgree == Spec => []EventsTellTheRow
<1>1. IInv => EventsTellTheRow
  BY DEF IInv, RecordOK, EventsTellTheRow
<1> QED BY <1>1, Invariant, PTL

\* A second PaymentRefunded needs two refunds that overlapped.
THEOREM RefundedOnce == Spec => []RefundedOnceUnlessOverlapping
<1>1. IInv => RefundedOnceUnlessOverlapping
  BY DEF IInv, OverlapOK, RefundedOnceUnlessOverlapping
<1> QED BY <1>1, Invariant, PTL

\* The gateway's ledger and the records agree: up to the rounding to a cent for
\* every amount, and exactly for an order, however many items it has.
THEOREM MoneyAgrees == Spec => []MoneyIsRecorded
<1>1. ASSUME IInv, NEW c \in Calls
      PROVE  /\ Paid(c) => /\ charged[c] > 0 /\ row[c].amount > 0
                           /\ row[c].amount <= charged[c] + 5
                           /\ charged[c] <= row[c].amount + 5
             /\ charged[c] > 0 /\ ~Paid(c) => call[c].stage \in {"save", "failed"}
             /\ Paid(c) /\ Items[c] # <<>> => row[c].amount = charged[c]
  <2>1. CallOK(c) /\ RecordOK(c) /\ Shape /\ Asked(c) \in Nat
    BY <1>1, AskedType DEF IInv
  <2>2. ASSUME Paid(c)
        PROVE  /\ charged[c] > 0 /\ row[c].amount > 0
               /\ row[c].amount <= charged[c] + 5
               /\ charged[c] <= row[c].amount + 5
               /\ Items[c] # <<>> => row[c].amount = charged[c]
    <3>1. /\ charged[c] = Asked(c)
          /\ row[c].amount = Rounded(Asked(c)) /\ Rounded(Asked(c)) > 0
      BY <2>1, <2>2 DEF RecordOK, Paid, Acceptable
    <3>2. Items[c] # <<>> => row[c].amount = charged[c]
      BY <3>1, AskedType
    <3> QED BY <2>1, <3>1, <3>2, Rounding
  <2>3. ASSUME charged[c] > 0, ~Paid(c) PROVE call[c].stage \in {"save", "failed"}
    BY <2>1, <2>3 DEF Shape, CallOK, RecordOK, Paid
  <2> QED BY <2>2, <2>3
<1>2. IInv => MoneyIsRecorded
  BY <1>1 DEF MoneyIsRecorded, RecordedWithinACent
<1> QED BY <1>2, Invariant, PTL

----------------------------------------------------------------------------
\* The refinement

Status == [c \in Calls |-> row[c].status]

LEMMA LifecycleInit == Init => Lifecycle!Init
BY DEF Init, Lifecycle!Init, NoRow

\* A change of one row is a step of the lifecycle.
LEMMA RowStep ==
    ASSUME NEW p \in Calls, \A d \in Calls : d # p => row'[d] = row[d],
           \/ row[p].status = "none" /\ row'[p].status \in {"COMPLETED", "FAILED"}
           \/ row[p].status \in {"COMPLETED", "REFUNDED"} /\ row'[p].status = "REFUNDED"
    PROVE  [Lifecycle!Next]_Status
<1>1. Status' = [Status EXCEPT ![p] = row'[p].status]
  BY DEF Status
<1>2. Status[p] = row[p].status
  BY DEF Status
<1>3. CASE row[p].status = "none" /\ row'[p].status \in {"COMPLETED", "FAILED"}
  BY <1>1, <1>2, <1>3 DEF Status, Lifecycle!Next, Lifecycle!Record, Lifecycle!Outcomes
<1>4. CASE row[p].status = "COMPLETED" /\ row'[p].status = "REFUNDED"
  BY <1>1, <1>2, <1>4 DEF Status, Lifecycle!Next, Lifecycle!Refund
<1>5. CASE row[p].status = "REFUNDED" /\ row'[p].status = "REFUNDED"
  BY <1>1, <1>2, <1>5 DEF Status
<1> QED BY <1>3, <1>4, <1>5

LEMMA LifecycleStep ==
    ASSUME IInv, [Next]_vars
    PROVE  [Lifecycle!Next]_Status
<1>1. ASSUME UNCHANGED row PROVE UNCHANGED Status
  BY <1>1 DEF Status
<1>2. ASSUME NEW c \in Calls, call[c].stage = "save", SavePayment(c)
      PROVE  [Lifecycle!Next]_Status
  <2>1. row[c].status = "none"
    BY <1>2 DEF IInv, CallOK, Unrecorded, NoRow
  <2> QED BY <1>2, <2>1, SavePaymentEffect, RowStep
<1>3. ASSUME NEW r \in Refunds, refund[r].stage = "save", StoreRefund(r)
      PROVE  [Lifecycle!Next]_Status
  <2>1. PICK p : p = refund[r].payment
    OBVIOUS
  <2>2. /\ p \in Calls /\ Paid(p) /\ row'[p].status = "REFUNDED"
        /\ \A d \in Calls : d # p => row'[d] = row[d]
    BY <1>3, <2>1, StoreRefundEffect
  <2> QED BY <2>2, RowStep DEF Paid
<1>4. CASE UNCHANGED vars
  BY <1>1, <1>4 DEF vars
<1>5. ASSUME NEW c \in Calls, Accept(c) \/ Charge(c)
      PROVE  [Lifecycle!Next]_Status
  BY <1>1, <1>5 DEF Accept, Charge
<1>6. ASSUME NEW c \in Calls, Save(c) \/ CallFails(c)
      PROVE  [Lifecycle!Next]_Status
  BY <1>1, <1>2, <1>6 DEF Save, CallFails
<1>7. ASSUME NEW r \in Refunds, NEW p \in Calls, Load(r, p)
      PROVE  [Lifecycle!Next]_Status
  BY <1>1, <1>7 DEF Load
<1>8. ASSUME NEW r \in Refunds, SaveRefund(r) \/ RefundFails(r)
      PROVE  [Lifecycle!Next]_Status
  BY <1>1, <1>3, <1>8 DEF SaveRefund, RefundFails
<1> QED BY <1>4, <1>5, <1>6, <1>7, <1>8 DEF Next

\* The payment service implements PaymentLifecycle.
THEOREM ImplementsLifecycle == Spec => FollowsLifecycle
<1>1. Init => Lifecycle!Init
  BY LifecycleInit
<1>2. IInv /\ [Next]_vars => [Lifecycle!Next]_Status
  BY LifecycleStep
<1> QED BY <1>1, <1>2, Invariant, PTL DEF Spec, FollowsLifecycle, Lifecycle!Spec, Status

============================================================================
