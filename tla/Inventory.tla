----------------------------- MODULE Inventory -----------------------------
(***************************************************************************)
(* The stock that all orders share: the reserve and release use cases,     *)
(* running concurrently against inventory_items and the outbox of the      *)
(* inventory database.                                                     *)
(*                                                                         *)
(* A call is one execution of a use case, made by an activity attempt of   *)
(* some order's workflow (retries and zombie attempts included) or by an   *)
(* administrator, so any call may start at any time.  Every database       *)
(* access is a step of its own: reserve loads all its items, checks them   *)
(* in memory, then writes the rows one after the other, each followed by   *)
(* its event; release goes through load, check, write and event item by    *)
(* item.  No transaction and no lock spans two of these steps, and a row   *)
(* is written with the quantity computed from what was loaded.             *)
(*                                                                         *)
(* total_quantity is constant: nothing in the program calls the deduct use *)
(* case, and no endpoint changes it.                                       *)
(***************************************************************************)
EXTENDS Integers, Sequences, FiniteSets, Functions

CONSTANTS
    Skus,       \* rows of inventory_items
    Total,      \* Total[s]: total_quantity of s
    Calls,      \* executions of a use case
    Kind,       \* Kind[c]: "reserve" or "release"
    Items,      \* Items[c]: the items of the call's order, sku and quantity
    MaxFaults   \* bound: database errors and crashes in a behaviour

Item == [sku: Skus, qty: Nat \ {0}]

ASSUME CallsAssumption == IsFiniteSet(Calls)
ASSUME TotalAssumption == Total \in [Skus -> Nat]
ASSUME KindAssumption == Kind \in [Calls -> {"reserve", "release"}]
ASSUME ItemsAssumption == Items \in [Calls -> Seq(Item)]
ASSUME NoEmptyOrder == \A c \in Calls : Items[c] # <<>>
ASSUME MaxFaultsAssumption == MaxFaults \in Nat

VARIABLES
    reserved,   \* reserved[s]: reserved_quantity of s
    pc,         \* what each call does next, or how it ended
    seen,       \* seen[c][i]: the quantity loaded for the i-th item
    wrote,      \* wrote[c]: how many rows the call has written
    outbox,     \* outbox[c]: how many events the call has inserted
    overlapped, \* history: some call started while another was under way
    faults      \* faults so far

vars == <<reserved, pc, seen, wrote, outbox, overlapped, faults>>

None == -1

Ended == {"done", "refused", "failed"}
Busy == {"load", "check", "write", "publish"}

ItemNumbers(c) == 1..Len(Items[c])
Sku(c, i) == Items[c][i].sku
Qty(c, i) == Items[c][i].qty

\* The item the call works on next.
Current(c) == wrote[c] + 1

----------------------------------------------------------------------------
Init ==
    /\ reserved = [s \in Skus |-> 0]
    /\ pc = [c \in Calls |-> "idle"]
    /\ seen = [c \in Calls |-> [i \in ItemNumbers(c) |-> None]]
    /\ wrote = [c \in Calls |-> 0]
    /\ outbox = [c \in Calls |-> 0]
    /\ overlapped = FALSE
    /\ faults = 0

Start(c) ==
    /\ pc[c] = "idle"
    /\ pc' = [pc EXCEPT ![c] = "load"]
    /\ overlapped' = (overlapped \/ \E d \in Calls : pc[d] \in Busy)
    /\ UNCHANGED <<reserved, seen, wrote, outbox, faults>>

\* findBySku.  Reserve loads all its items at once (Promise.all), in any
\* order; release loads the item whose turn it is.
Load(c, i) ==
    /\ pc[c] = "load"
    /\ seen[c][i] = None
    /\ Kind[c] = "release" => i = Current(c)
    /\ seen' = [seen EXCEPT ![c][i] = reserved[Sku(c, i)]]
    /\ pc' = [pc EXCEPT ![c] =
                 IF Kind[c] = "release"
                      \/ \A j \in ItemNumbers(c) \ {i} : seen[c][j] # None
                   THEN "check" ELSE "load"]
    /\ UNCHANGED <<reserved, wrote, outbox, overlapped, faults>>

\* Whether item i of call c can be served from the quantity that was loaded.
\* Two items of one order may name the same row: each is checked alone.
Served(c, i) ==
    IF Kind[c] = "reserve"
      THEN Total[Sku(c, i)] - seen[c][i] >= Qty(c, i)
      ELSE Qty(c, i) <= seen[c][i]

\* Variant: the availability is not checked.
CheckSkipped(c) ==
    /\ pc[c] = "check"
    /\ pc' = [pc EXCEPT ![c] = "write"]
    /\ UNCHANGED <<reserved, seen, wrote, outbox, overlapped, faults>>

\* Variant: an item is checked again when its turn to be written comes.
CheckWhileWriting(c) ==
    /\ pc[c] \in {"check", "write"}
    /\ pc' = [pc EXCEPT ![c] =
                 IF Served(c, Current(c)) THEN "write" ELSE "refused"]
    /\ UNCHANGED <<reserved, seen, wrote, outbox, overlapped, faults>>

\* InventoryItem.reserve of every item, or InventoryItem.release of one.
Check(c) ==
    LET checked == IF Kind[c] = "reserve" THEN ItemNumbers(c) ELSE {Current(c)}
    IN  /\ pc[c] = "check"
        /\ pc' = [pc EXCEPT ![c] =
                     IF \A i \in checked : Served(c, i) THEN "write" ELSE "refused"]
        /\ UNCHANGED <<reserved, seen, wrote, outbox, overlapped, faults>>

\* Variant: release adds what it should take away.
ReserveAgain(c, i) == seen[c][i] + Qty(c, i)

\* What updateQuantities writes for item i: an absolute quantity.
NewQuantity(c, i) ==
    IF Kind[c] = "reserve" THEN seen[c][i] + Qty(c, i) ELSE seen[c][i] - Qty(c, i)

Write(c) ==
    LET i == Current(c)
    IN  /\ pc[c] = "write"
        /\ reserved' = [reserved EXCEPT ![Sku(c, i)] = NewQuantity(c, i)]
        /\ wrote' = [wrote EXCEPT ![c] = i]
        /\ pc' = [pc EXCEPT ![c] = "publish"]
        /\ UNCHANGED <<seen, outbox, overlapped, faults>>

\* What follows the event of a row: the next row of a reserve, whose items are
\* all checked by now, the next item of a release, or the end.
AfterPublish(c) ==
    IF wrote[c] = Len(Items[c]) THEN "done"
    ELSE IF Kind[c] = "reserve" THEN "write" ELSE "load"

\* publishAll inserts the row's event into the outbox.
Publish(c) ==
    /\ pc[c] = "publish"
    /\ outbox' = [outbox EXCEPT ![c] = wrote[c]]
    /\ pc' = [pc EXCEPT ![c] = AfterPublish(c)]
    /\ UNCHANGED <<reserved, seen, wrote, overlapped, faults>>

\* A database call throws or the process dies; what was written stays.
Fail(c) ==
    /\ pc[c] \in Busy
    /\ faults < MaxFaults
    /\ faults' = faults + 1
    /\ pc' = [pc EXCEPT ![c] = "failed"]
    /\ UNCHANGED <<reserved, seen, wrote, outbox, overlapped>>

Next ==
    \E c \in Calls :
        \/ Start(c)
        \/ \E i \in ItemNumbers(c) : Load(c, i)
        \/ Check(c)
        \/ Write(c)
        \/ Publish(c)
        \/ Fail(c)

Spec == Init /\ [][Next]_vars

----------------------------------------------------------------------------
\* The stock as the dashboard shows it

Larger(m, n) == IF m >= n THEN m ELSE n

\* availableQuantity of a listed row, a difference of its two columns.
Available(s) == Total[s] - reserved[s]

LowStockThreshold(s) == Larger(5, Total[s] \div 5)

\* Variant: a row at the threshold is not low yet.
IsLowStockBelow(s) == Available(s) < LowStockThreshold(s)

IsLowStock(s) == Available(s) <= LowStockThreshold(s)

\* The rows of the dashboard's list; the overview's alerts are those of the list
\* with lowStockOnly.
Listed(lowStockOnly) == {s \in Skus : lowStockOnly => IsLowStock(s)}

\* stockState of a list item.
StockState(s) ==
    IF Available(s) <= Larger(5, LowStockThreshold(s) \div 2) THEN "CRITICAL"
    ELSE IF Available(s) <= LowStockThreshold(s) THEN "LOW"
    ELSE "HEALTHY"

----------------------------------------------------------------------------
\* Properties

TypeOK ==
    /\ reserved \in [Skus -> Int]
    /\ pc \in [Calls -> {"idle"} \cup Busy \cup Ended]
    /\ DOMAIN seen = Calls
    /\ \A c \in Calls : seen[c] \in [ItemNumbers(c) -> Nat \cup {None}]
    /\ wrote \in [Calls -> Nat]
    /\ outbox \in [Calls -> Nat]
    /\ overlapped \in BOOLEAN
    /\ faults \in 0..MaxFaults
    /\ \A c \in Calls : /\ outbox[c] <= wrote[c]
                        /\ wrote[c] <= Len(Items[c])

\* Whatever calls run concurrently, are repeated or die half way, and even when
\* updates are lost, a row never shows fewer than no reservations nor more than
\* its stock: every quantity written was checked against the one it was
\* computed from.
WithinStock == \A s \in Skus : reserved[s] \in 0..Total[s]

\* What the writes of call c add to row s.
Written(c, s) ==
    LET mine == {i \in 1..wrote[c] : Sku(c, i) = s}
        sum  == SumFunctionOnSet([i \in ItemNumbers(c) |-> Qty(c, i)], mine)
    IN  IF Kind[c] = "reserve" THEN sum ELSE -sum

NamesARowTwice(c) ==
    \E i, j \in ItemNumbers(c) : i # j /\ Sku(c, i) = Sku(c, j)

\* As long as no two calls overlapped and no reserve named a row twice, the
\* rows account for every unit reserved and released, the part a failed call
\* left behind included.  Without either proviso an update can be lost.
ExactWhenSerial ==
    ~overlapped
      /\ (\A c \in Calls : Kind[c] = "reserve" /\ NamesARowTwice(c) => wrote[c] = 0)
    => \A s \in Skus :
           reserved[s] = SumFunction([c \in Calls |-> Written(c, s)])

\* reserve-inventory.use-case.ts:33 "if any throws, none should be persisted":
\* a reserve that finds one item short has written no row of any item.
RefusedReserveWritesNothing ==
    \A c \in Calls : Kind[c] = "reserve" /\ pc[c] = "refused" => wrote[c] = 0

\* The three places that judge a row do not contradict one another, whatever its
\* total and whatever the calls made of it: the alerts and the filtered list
\* hold exactly the rows that are not HEALTHY, and a row a reserve would refuse
\* even one unit of is CRITICAL.
StockViewsAgree ==
    /\ Listed(TRUE) = {s \in Listed(FALSE) : StockState(s) # "HEALTHY"}
    /\ \A s \in Skus : Available(s) < 1 => StockState(s) = "CRITICAL"

\* docs/structure.md:355 "inserts events into the outbox_events table in the
\* same DB transaction as the entity change": a call that ended, however it
\* ended, left an event for every row it changed.
EveryWriteHasItsEvent ==
    \A c \in Calls : pc[c] \in Ended => outbox[c] = wrote[c]

============================================================================
