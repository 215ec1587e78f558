------------------------------ MODULE Payments ------------------------------
(***************************************************************************)
(* The payment service: ProcessPaymentUseCase and RefundPaymentUseCase     *)
(* behind the workflow's activities and the administrator's endpoints,     *)
(* with the gateway, the payments table and its outbox.                    *)
(*                                                                         *)
(* Every execution of processPayment makes a payment of its own (a new     *)
(* uuid), so a call is identified with its payment.  A call is split where *)
(* it awaits: the gateway, the read, and the transaction of save, which    *)
(* writes the row and the events together.  Money is counted in mills: a   *)
(* request may carry fractions of a cent, a stored amount does not.        *)
(***************************************************************************)
EXTENDS Naturals, Sequences, FiniteSets

CONSTANTS
    Calls,      \* bound: executions of processPayment
    Refunds,    \* bound: executions of refundPayment
    Items,      \* Items[c]: price, in mills, and quantity of the items of the order
                \* c is to be paid for, or none: an administrator's payment
    Amount,     \* Amount[c]: the mills an administrator's payment asks for
    CardValid,  \* CardValid[c]: the card data pass PaymentMethod.create
    RoundedUp,  \* the amounts on half a cent whose product with 100, a double,
                \* is not below the half: 2.675 * 100 is 267.5, but
                \* 1.005 * 100 is 100.49999999999999
    MaxFaults   \* bound: calls that are cut off or get an error

\* OrderItem refuses a quantity that is not positive, Money a negative price.
Item == [price : Nat, quantity : Nat \ {0}]

ASSUME ItemsAssumption == Items \in [Calls -> Seq(Item)]
ASSUME AmountAssumption == Amount \in [Calls -> Nat]
ASSUME CardValidAssumption == CardValid \in [Calls -> BOOLEAN]
ASSUME RoundedUpAssumption == RoundedUp \subseteq Nat
ASSUME MaxFaultsAssumption == MaxFaults \in Nat

\* Variant: fractions of a cent are cut off.
RoundedDown(mills) == (mills \div 10) * 10

\* Money.create: Math.round(amount * 100) / 100 on doubles.  Any other amount is
\* further from half a cent than a double errs, half a cent goes either way.
Rounded(mills) ==
    IF mills % 10 = 5 /\ mills \notin RoundedUp
      THEN mills - 5
      ELSE ((mills + 5) \div 10) * 10

\* OrderItem: unitPrice is a Money, multiply makes another.
ItemTotal(item) == Rounded(Rounded(item.price) * item.quantity)

\* Order.create adds the totals of the items, Money by Money.
OrderTotal(items) ==
    LET total[n \in 0 .. Len(items)] ==
            IF n = 0 THEN 0 ELSE Rounded(total[n - 1] + ItemTotal(items[n]))
    IN  total[Len(items)]

\* What c asks the gateway for: the workflow passes the total of its order.
Asked(c) == IF Items[c] = <<>> THEN Amount[c] ELSE OrderTotal(Items[c])

VARIABLES
    call,     \* call[c]: where processPayment is, the status it will save
    refund,   \* refund[r]: where refundPayment is, and of which payment
    charged,  \* charged[c]: mills the gateway took
    row,      \* row[c]: status and amount in payments, or NoRow
    outbox,   \* outbox[c]: event types committed for the payment
    overlap,  \* history: payments two refunds had loaded at the same time
    faults    \* faults so far

vars == <<call, refund, charged, row, outbox, overlap, faults>>

\* VALID_TRANSITIONS of PaymentStatus.
CanTransition(from, to) ==
    <<from, to>> \in {<<"PENDING", "PROCESSING">>, <<"PROCESSING", "COMPLETED">>,
                      <<"PROCESSING", "FAILED">>, <<"COMPLETED", "REFUNDED">>}

NoRow == [status |-> "none", amount |-> 0]
NewCall == [stage |-> "new", status |-> "none"]
NewRefund == [stage |-> "new", payment |-> "none"]

\* The event each transition adds, after the PaymentCreated of create().
EventOf == [COMPLETED |-> "Processed", FAILED |-> "Failed", REFUNDED |-> "Refunded"]

\* What PaymentMethod.create, Money.create and Payment.create let pass.
Acceptable(c) == CardValid[c] /\ Rounded(Asked(c)) > 0

\* The gateway takes the amount it is given.
Taken(c) == [charged EXCEPT ![c] = Asked(c)]

\* The row PaymentMapper makes of a payment; an update leaves its amount alone.
RowOf(p, status) ==
    [status |-> status, amount |-> IF row[p] = NoRow THEN Rounded(Asked(p)) ELSE row[p].amount]

Fault == faults < MaxFaults /\ faults' = faults + 1

Init ==
    /\ call = [c \in Calls |-> NewCall]
    /\ refund = [r \in Refunds |-> NewRefund]
    /\ charged = [c \in Calls |-> 0]
    /\ row = [c \in Calls |-> NoRow]
    /\ outbox = [c \in Calls |-> <<>>]
    /\ overlap = {}
    /\ faults = 0

----------------------------------------------------------------------------
\* processPayment

\* Money, PaymentMethod and Payment.create refuse bad data before the gateway
\* is called; process() takes the payment from PENDING to PROCESSING.
Accept(c) ==
    /\ call[c] = NewCall
    /\ call' = [call EXCEPT ![c] =
                   IF Acceptable(c)
                     THEN [stage |-> "charge", status |-> "PROCESSING"]
                     ELSE [stage |-> "refused", status |-> "none"]]
    /\ UNCHANGED <<refund, charged, row, outbox, overlap, faults>>

\* charge() is given the requested amount, not the rounded one, and either
\* takes it or declines; complete() or fail() follows at once.
Charge(c) ==
    /\ call[c].stage = "charge"
    /\ \E outcome \in {s \in DOMAIN EventOf : CanTransition(call[c].status, s)} :
          /\ call' = [call EXCEPT ![c] = [stage |-> "save", status |-> outcome]]
          /\ charged' = IF outcome = "COMPLETED" THEN Taken(c) ELSE charged
    /\ UNCHANGED <<refund, row, outbox, overlap, faults>>

\* Variant: the events are inserted by a statement of their own.
StoreRowOnly(p, status, events) ==
    /\ row' = [row EXCEPT ![p] = RowOf(p, status)]
    /\ outbox' \in {[outbox EXCEPT ![p] = @ \o events], outbox}

\* The transaction of KyselyPaymentRepository.save; the events were cleared by
\* it, so the publishAll after it publishes nothing.
Store(p, status, events) ==
    /\ row' = [row EXCEPT ![p] = RowOf(p, status)]
    /\ outbox' = [outbox EXCEPT ![p] = @ \o events]

SavePayment(c) ==
    Store(c, call[c].status, <<"Created", EventOf[call[c].status]>>)

Save(c) ==
    /\ call[c].stage = "save"
    /\ SavePayment(c)
    /\ call' = [call EXCEPT ![c].stage = "done"]
    /\ UNCHANGED <<refund, charged, overlap, faults>>

\* The gateway throws, the database does or the process dies: whatever the
\* call had under way may have been done.
CallFails(c) ==
    /\ Fault
    /\ call[c].stage \in {"charge", "save"}
    /\ call' = [call EXCEPT ![c].stage = "failed"]
    /\ \/ UNCHANGED <<charged, row, outbox>>
       \/ /\ call[c].stage = "charge"
          /\ charged' = Taken(c)
          /\ UNCHANGED <<row, outbox>>
       \/ /\ call[c].stage = "save"
          /\ SavePayment(c)
          /\ UNCHANGED charged
    /\ UNCHANGED <<refund, overlap>>

----------------------------------------------------------------------------
\* refundPayment

\* Variant: any stored payment is refunded.
LoadUnchecked(r, p) ==
    /\ refund[r] = NewRefund
    /\ refund' = [refund EXCEPT ![r] =
                     [stage |-> IF row[p] = NoRow THEN "refused" ELSE "save", payment |-> p]]
    /\ overlap' = IF \E s \in Refunds : refund[s] = [stage |-> "save", payment |-> p]
                    THEN overlap \cup {p} ELSE overlap
    /\ UNCHANGED <<call, charged, row, outbox, faults>>

\* findById and refund(), which throws unless the loaded payment is COMPLETED.
\* The gateway is not told of a refund.
Load(r, p) ==
    /\ refund[r] = NewRefund
    /\ refund' = [refund EXCEPT ![r] =
                     [stage |-> IF CanTransition(row[p].status, "REFUNDED")
                                  THEN "save" ELSE "refused",
                      payment |-> p]]
    /\ overlap' = IF \E s \in Refunds : refund[s] = [stage |-> "save", payment |-> p]
                    THEN overlap \cup {p} ELSE overlap
    /\ UNCHANGED <<call, charged, row, outbox, faults>>

StoreRefund(r) == Store(refund[r].payment, "REFUNDED", <<"Refunded">>)

SaveRefund(r) ==
    /\ refund[r].stage = "save"
    /\ StoreRefund(r)
    /\ refund' = [refund EXCEPT ![r].stage = "done"]
    /\ UNCHANGED <<call, charged, overlap, faults>>

RefundFails(r) ==
    /\ Fault
    /\ refund[r].stage = "save"
    /\ StoreRefund(r) \/ UNCHANGED <<row, outbox>>
    /\ refund' = [refund EXCEPT ![r].stage = "failed"]
    /\ UNCHANGED <<call, charged, overlap>>

----------------------------------------------------------------------------
Next ==
    \/ \E c \in Calls : Accept(c) \/ Charge(c) \/ Save(c) \/ CallFails(c)
    \/ \E r \in Refunds :
          \/ \E p \in Calls : Load(r, p)
          \/ SaveRefund(r) \/ RefundFails(r)

Spec == Init /\ [][Next]_vars

----------------------------------------------------------------------------
\* Properties

TypeOK ==
    /\ call \in [Calls -> [stage : {"new", "charge", "save", "done", "refused", "failed"},
                           status : {"none", "PROCESSING", "COMPLETED", "FAILED"}]]
    /\ refund \in [Refunds -> [stage : {"new", "save", "done", "refused", "failed"},
                               payment : Calls \cup {"none"}]]
    /\ charged \in [Calls -> Nat]
    /\ row \in [Calls -> [status : {"none"} \cup DOMAIN EventOf, amount : Nat]]
    /\ outbox \in [Calls -> Seq({"Created"} \cup {EventOf[s] : s \in DOMAIN EventOf})]
    /\ overlap \subseteq Calls
    /\ faults \in 0..MaxFaults

\* The committed events of a payment tell its history up to this status.
Tell(events, status) ==
    \/ status = "none" /\ events = <<>>
    \/ status = "FAILED" /\ events = <<"Created", "Failed">>
    \/ status = "COMPLETED" /\ events = <<"Created", "Processed">>
    \/ /\ status = "REFUNDED"
       /\ Len(events) > 2
       /\ events[1] = "Created" /\ events[2] = "Processed"
       /\ \A i \in 3..Len(events) : events[i] = "Refunded"

\* docs/structure.md:355 "in the same DB transaction as the entity change": the
\* events of a payment tell exactly what its row says, whichever calls failed,
\* died or overlapped.
EventsTellTheRow == \A p \in Calls : Tell(outbox[p], row[p].status)

\* A payment is announced as refunded twice (and the customer told twice) only
\* if two refunds of it had both loaded it before either saved.
RefundedOnceUnlessOverlapping ==
    \A p \in Calls : Len(outbox[p]) > 3 => p \in overlap

\* The gateway took money for exactly the payments recorded as paid, except for
\* calls that are still between the charge and the save or failed there: up to
\* the rounding to a cent what is recorded, and for an order, whose total is
\* rounded before it is asked for, exactly that.
Paid(c) == row[c].status \in {"COMPLETED", "REFUNDED"}

RecordedWithinACent ==
    \A c \in Calls :
        /\ Paid(c) => /\ charged[c] > 0 /\ row[c].amount > 0
                      /\ row[c].amount <= charged[c] + 5
                      /\ charged[c] <= row[c].amount + 5
        /\ charged[c] > 0 /\ ~Paid(c) => call[c].stage \in {"save", "failed"}

MoneyIsRecorded ==
    /\ RecordedWithinACent
    /\ \A c \in Calls : Paid(c) /\ Items[c] # <<>> => row[c].amount = charged[c]

Lifecycle == INSTANCE PaymentLifecycle WITH
                 Payments <- Calls, status <- [c \in Calls |-> row[c].status]

\* Whatever the calls do to one another, the record of a payment follows the
\* lifecycle: one outcome, then at most a refund of a completed payment.
FollowsLifecycle == Lifecycle!Spec

============================================================================
