---------------------------- MODULE MCDeployment ----------------------------
(***************************************************************************)
(* Two databases: the order database, whose one migration creates its      *)
(* tables and then outbox_events, and the inventory database, whose second *)
(* migration adds a column the seed needs.                                 *)
(***************************************************************************)
EXTENDS Deployment

MCScript == <<[name |-> "order", statements |-> <<2>>, outbox |-> <<1, 2>>],
              [name |-> "inventory", statements |-> <<1, 1>>, outbox |-> <<1, 1>>]>>

============================================================================
