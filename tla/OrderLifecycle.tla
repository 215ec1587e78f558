--------------------------- MODULE OrderLifecycle ---------------------------
(***************************************************************************)
(* What an order promises to the customer and to the services around it,   *)
(* whatever retries, late attempts, redelivered events and cancel requests *)
(* do underneath: in which order things happen to it, which of them may    *)
(* still happen once its workflow undoes it or has ended, and what has     *)
(* happened by the time it shows a status.                                 *)
(*                                                                         *)
(* What happened stays happened: a refund does not take a payment out of   *)
(* `done`, it is one more thing that was done.                             *)
(***************************************************************************)
VARIABLES
    stage,   \* "placed", "going", "undoing", "completed" or "closed"
    done,    \* what has happened to the order
    shown    \* the status it shows

vars == <<stage, done, shown>>

\* What each thing that can happen waits for.
Requires ==
    [asked     |-> {},                      \* a customer asks to cancel
     confirmed |-> {},                      \* the customer confirms
     reserved  |-> {},                      \* stock is reserved
     charged   |-> {"reserved"},            \* money is taken
     paid      |-> {"charged"},             \* and a payment recorded
     shipped   |-> {"paid", "confirmed"},   \* a shipment is made
     told      |-> {"shipped"},             \* the customer is told
     delivered |-> {"shipped"},             \* and gets the shipment
     refunded  |-> {"paid"},                \* the payment is refunded
     released  |-> {"reserved"}]            \* the stock is given back

\* What has happened to an order that shows a status.
StandsFor ==
    [PENDING            |-> {},
     CANCELLED          |-> {},
     INVENTORY_RESERVED |-> {"reserved"},
     PAYMENT_PROCESSED  |-> {"paid"},
     CONFIRMED          |-> {"paid", "confirmed"},
     SHIPPED            |-> {"shipped"},
     DELIVERED          |-> {"delivered"}]

Init ==
    /\ stage = "placed"
    /\ done = {}
    /\ shown = "PENDING"

\* The saga begins, gives up and starts to undo, completes, or ends undone.
Begin ==
    /\ stage = "placed"
    /\ stage' = "going"
    /\ UNCHANGED <<done, shown>>

GiveUp ==
    /\ stage = "going"
    /\ stage' = "undoing"
    /\ UNCHANGED <<done, shown>>

Complete ==
    /\ stage = "going"
    /\ "told" \in done
    /\ stage' = "completed"
    /\ UNCHANGED <<done, shown>>

Close ==
    /\ stage \in {"going", "undoing"}
    /\ stage' = "closed"
    /\ UNCHANGED <<done, shown>>

\* e happens: never before what it requires and never to an order whose saga
\* has not begun.  A completed saga has nothing left to do; one that ended
\* undone can still be surprised by an attempt it gave up.  Only an order that
\* is given up has its payment refunded and its stock given back.
Happen(e) ==
    /\ e \notin done
    /\ Requires[e] \subseteq done
    /\ e # "asked" => stage # "placed"
    /\ stage = "completed" => e \in {"asked", "delivered"}
    /\ e = "confirmed" => stage \in {"going", "undoing"}
    /\ e \in {"refunded", "released"} => stage \in {"undoing", "closed"}
    /\ done' = done \cup {e}
    /\ UNCHANGED <<stage, shown>>

\* The order shows another status, not always the latest one it has earned; it
\* is never PENDING again, and CANCELLED only if it was given up or a customer
\* asked for it.
Show(st) ==
    /\ st # "PENDING"
    /\ StandsFor[st] \subseteq done
    /\ st = "CANCELLED" => "asked" \in done \/ stage \in {"undoing", "closed"}
    /\ shown' = st
    /\ UNCHANGED <<stage, done>>

Next ==
    \/ Begin \/ GiveUp \/ Complete \/ Close
    \/ \E e \in DOMAIN Requires : Happen(e)
    \/ \E st \in DOMAIN StandsFor : Show(st)

Spec == Init /\ [][Next]_vars

============================================================================
