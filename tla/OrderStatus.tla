---------------------------- MODULE OrderStatus ----------------------------
(***************************************************************************)
(* The status of an order and its state machine, as the order aggregate    *)
(* enforces it in memory (order-status.value-object.ts, order.entity.ts).  *)
(* The aggregate checks a transition against the status it was loaded      *)
(* with; nothing in this module says what is stored.                       *)
(***************************************************************************)

\* OrderStatusEnum.
Status == {"PENDING", "INVENTORY_RESERVED", "PAYMENT_PROCESSED", "CONFIRMED",
           "SHIPPED", "DELIVERED", "CANCELLED"}

\* VALID_TRANSITIONS, as a set of pairs.
ValidTransitions ==
    {<<"PENDING", "INVENTORY_RESERVED">>,
     <<"PENDING", "CANCELLED">>,
     <<"INVENTORY_RESERVED", "PAYMENT_PROCESSED">>,
     <<"INVENTORY_RESERVED", "CANCELLED">>,
     <<"PAYMENT_PROCESSED", "CONFIRMED">>,
     <<"CONFIRMED", "SHIPPED">>,
     <<"SHIPPED", "DELIVERED">>}

\* assertTransition: reserveInventory(), processPayment(), confirm(), ship(),
\* deliver() and cancel() throw unless the loaded status may move to `to`.
CanTransition(from, to) == <<from, to>> \in ValidTransitions

============================================================================
