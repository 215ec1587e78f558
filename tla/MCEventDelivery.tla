-------------------------- MODULE MCEventDelivery --------------------------
(***************************************************************************)
(* Two groups on one topic: the order consumer, which only the API process *)
(* joins, and the notification consumer, which both processes join.        *)
(***************************************************************************)
EXTENDS EventDelivery

MCMembers == [g \in Groups |-> IF g = "order" THEN {"api"} ELSE Processes]

============================================================================
