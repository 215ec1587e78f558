--------------------------- MODULE MCNotifications ---------------------------
(***************************************************************************)
(* Notifications for the two events of one topic, which overtake and repeat *)
(* each other, and for pairs of sources of different lanes.                *)
(***************************************************************************)
EXTENDS Notifications

MCScopes ==
    {{"ShipmentCreated", "ShipmentDelivered"},
     {"NotifyConfirmed", "OrderCancelled"}}

MCSources == UNION MCScopes

==============================================================================
