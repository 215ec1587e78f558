----------------------------- MODULE MCShipping -----------------------------
(***************************************************************************)
(* Four updates: the three that lead to a delivery and one that races them.*)
(* Calls and shipments are interchangeable.                                *)
(***************************************************************************)
EXTENDS Shipping, TLC

Symmetry == Permutations(Updates) \cup Permutations(Shipments)

============================================================================
