----------------------------- MODULE MCPayments -----------------------------
(***************************************************************************)
(* The payment of an order, whose prices carry half a cent, and the        *)
(* payments of an administrator: one of a whole number and half a cent,    *)
(* one that carries another fraction of a cent, one that rounds to         *)
(* nothing, one with bad card data.                                        *)
(***************************************************************************)
EXTENDS Payments, TLC

MCItems ==
    [c \in Calls |-> IF c = "order" THEN <<[price |-> 575, quantity |-> 2],
                                           [price |-> 335, quantity |-> 1]>> ELSE <<>>]

MCAmount ==
    [c \in Calls |-> CASE c = "tiny" -> 4
                      [] c = "half" -> 1005
                      [] OTHER -> 1008]

MCCardValid == [c \in Calls |-> c # "badcard"]

\* Of the halves above: 0.335 * 100 is 33.5, while 0.575 * 100 is
\* 57.49999999999999 and 1.005 * 100 is 100.49999999999999.
MCRoundedUp == {335}

\* The executions of refundPayment have nothing of their own.
RefundSymmetry == Permutations(Refunds)

============================================================================
