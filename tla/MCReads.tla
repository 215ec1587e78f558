------------------------------ MODULE MCReads ------------------------------
(***************************************************************************)
(* Reads over a day and a half.  Paging needs three orders to shift rows   *)
(* from page to page; the overview needs two days and servers whose local  *)
(* time is not UTC, or changes; the detail needs one order and its         *)
(* payments.                                                               *)
(***************************************************************************)
EXTENDS Reads

CONSTANTS o1, o2, o3

\* A request where the clocks stay at UTC.
AtUTC(kind, made, paying) ==
    [kind |-> kind, zone |-> 0, after |-> 0, turn |-> 0, made |-> made, paying |-> paying]

\* The overview where local time is behind UTC, and where the clocks change: on the
\* second day, so that the first day's midnight is before the change and the second's
\* after it, or at a midnight, which the change skips.
Overview(zone, after, turn) ==
    [kind |-> "overview", zone |-> zone, after |-> after, turn |-> turn,
     made |-> {o1}, paying |-> {}]

MCScenarios ==
    {AtUTC("pages", {o1, o2, o3}, {}),
     AtUTC("overview", {o1, o2}, {}),
     AtUTC("overview", {o1}, {o1}),
     AtUTC("detail", {o1}, {o1}),
     AtUTC("list", {o1, o2}, {}),
     AtUTC("health", {o1}, {}),
     AtUTC("ready", {o1}, {}),
     Overview(-1, -1, 5), Overview(0, 1, 5), Overview(0, 1, 4), Overview(1, 0, 5)}

============================================================================
