-------------------------- MODULE PaymentLifecycle --------------------------
(***************************************************************************)
(* What the payment service promises about the record of a payment: it is  *)
(* written once, with the outcome of its charge, a completed payment may   *)
(* be refunded, and nothing else ever happens to it.  The statuses PENDING *)
(* and PROCESSING of the state machine are never stored.                   *)
(***************************************************************************)
CONSTANT Payments

VARIABLE status

Outcomes == {"COMPLETED", "FAILED"}

Init == status = [p \in Payments |-> "none"]

Record(p) ==
    /\ status[p] = "none"
    /\ \E o \in Outcomes : status' = [status EXCEPT ![p] = o]

Refund(p) ==
    /\ status[p] = "COMPLETED"
    /\ status' = [status EXCEPT ![p] = "REFUNDED"]

Next == \E p \in Payments : Record(p) \/ Refund(p)

Spec == Init /\ [][Next]_status

============================================================================
