---------------------------- MODULE MCInventory ----------------------------
(***************************************************************************)
(* Two rows, a short one and one with room, and calls for two orders: the  *)
(* first names both rows and is reserved, retried and released, the second *)
(* competes for the short row, naming it twice.  Two reservations of the   *)
(* other row bring it exactly to its low-stock threshold, 62 div 5.        *)
(***************************************************************************)
EXTENDS Inventory

MCTotal == [s \in Skus |-> IF s = "short" THEN 2 ELSE 62]

FirstOrder == <<[sku |-> "short", qty |-> 1], [sku |-> "ample", qty |-> 25]>>
SecondOrder == <<[sku |-> "short", qty |-> 1], [sku |-> "short", qty |-> 1]>>

MCKind ==
    [c \in Calls |-> IF c = "release" THEN "release" ELSE "reserve"]

MCItems == [c \in Calls |-> IF c = "other" THEN SecondOrder ELSE FirstOrder]

============================================================================
