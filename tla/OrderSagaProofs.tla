-------------------------- MODULE OrderSagaProofs --------------------------
(***************************************************************************)
(* Machine-checked proofs about OrderSaga, for every retry limit, every    *)
(* set of cancel requests, every set of faults and every number of them.   *)
(*                                                                         *)
(* Control says where the workflow can be: which compensations are on the  *)
(* stack at each call, and that no call is made twice, so that an attempt  *)
(* is identified by its call and number.  Facts says what each in-flight   *)
(* write, event and result stands on, which is what makes StatusIsEarned   *)
(* inductive.  Undone says what the catch block has tried by each of its   *)
(* calls, for CompensatedOrExhausted.                                      *)
(***************************************************************************)
EXTENDS OrderSaga, TLAPS

\* The order in which the workflow can make its calls.
Rank(s) ==
    CASE s = "NotStarted"      -> 0
      [] s = "Reserve"         -> 1
      [] s = "MarkReserved"    -> 2
      [] s = "Pay"             -> 3
      [] s = "MarkPaid"        -> 4
      [] s = "AwaitConfirm"    -> 5
      [] s = "Confirm"         -> 6
      [] s = "Ship"            -> 7
      [] s = "MarkShipped"     -> 8
      [] s = "NotifyConfirmed" -> 9
      [] s = "Refund"          -> 10
      [] s = "Release"         -> 11
      [] s = "Cancel"          -> 12
      [] s = "NotifyCancelled" -> 13
      [] OTHER                 -> 14

\* The compensations the workflow holds while it awaits call s.
StackAt(s) ==
    CASE s \in {"NotStarted", "Reserve"}  -> <<>>
      [] s \in {"MarkReserved", "Pay"}    -> <<"Release">>
      [] s \in {"MarkPaid", "AwaitConfirm", "Confirm", "Ship", "MarkShipped",
                "NotifyConfirmed"}        -> <<"Release", "Refund">>
      [] s = "Refund"                     -> <<"Release">>
      [] OTHER                            -> <<>>

StackMatchesCall == wf \notin Closed => comps = StackAt(wf)

NotCalledYet == \A s \in ActivitySteps : Rank(s) > Rank(wf) => att[s] = 0

Control == TypeOK /\ StackMatchesCall /\ NotCalledYet

----------------------------------------------------------------------------
\* An attempt executes at most once, and only after it was scheduled.
RunsScheduled == \A r \in running : r.n <= att[r.step]

RunsUnique == \A r, q \in running : r.step = q.step /\ r.n = q.n => r = q

\* What must have happened before the workflow makes call s (or closes so).
Needs(s) ==
    /\ s \in (TrySteps \ {"Reserve"})
              \cup {"AwaitConfirm", "Completed", "Refund", "Release"} =>
           reservedBy # {}
    /\ s \in {"MarkPaid", "AwaitConfirm", "Confirm", "Ship", "MarkShipped",
             "NotifyConfirmed", "Completed", "Refund"} => paidWith # 0
    /\ s \in {"Confirm", "Ship", "MarkShipped", "NotifyConfirmed",
             "Completed"} => confirmed
    /\ s \in {"MarkShipped", "NotifyConfirmed", "Completed"} => shippedBy # {}
    /\ s = "Completed" => "ORDER_CONFIRMED" \in notified
    /\ s \in CatchSteps => error # "none"

CallsAreDue == Needs(wf) /\ \A s \in ActivitySteps : att[s] > 0 => Needs(s)

NoErrorYet == wf \in TrySteps \cup {"NotStarted", "AwaitConfirm", "Completed"} =>
                  error = "none"

\* What attempt r has done by the time it reaches its phase.
Real(r) ==
    /\ r.step = "Reserve" /\ r.phase \in {"saved", "ok"} => reservedBy # {}
    /\ r.step = "Ship" /\ r.phase \in {"saved", "ok"} => shippedBy # {}
    /\ r.step = "NotifyConfirmed" /\ r.phase = "ok" =>
           "ORDER_CONFIRMED" \in notified
    /\ r.step = "Pay" /\ r.phase \in {"start", "mid"} => payments[r.n] = "none"
    /\ r.step = "Pay" /\ r.phase = "mid" => charged # {}
    /\ r.step = "Pay" /\ r.phase = "ok" => Recorded(r.n)

ResultsAreReal == \A r \in running : Real(r)

\* What the ledgers say was done was asked for.
LedgersAreCalled ==
    /\ \A n \in Attempts : n > att["Pay"] => payments[n] = "none"
    /\ \A n \in Attempts : Recorded(n) => charged # {}
    /\ paidWith # 0 => Recorded(paidWith)
    /\ shippedBy # {} => att["Ship"] > 0
    /\ releasedBy # {} => att["Release"] > 0
    /\ \A n \in Attempts :
           payments[n] = "REFUNDED" => n = paidWith /\ att["Refund"] > 0

EventsAreEarned ==
    /\ syncing \subseteq events
    /\ \A e \in events : Earned(SyncTarget[e])

Facts ==
    /\ Control
    /\ RunsScheduled
    /\ RunsUnique
    /\ CallsAreDue
    /\ NoErrorYet
    /\ ResultsAreReal
    /\ LedgersAreCalled
    /\ EventsAreEarned
    /\ StatusIsEarned

----------------------------------------------------------------------------
\* A workflow step touches the control variables and `running`; every other
\* step leaves the control variables alone.
ControlVars == <<wf, comps, error, paidWith, att>>

USE MaxAttemptsAssumption, FaultsAssumption, MaxFaultsAssumption

LEMMA RankValues ==
    /\ Rank("NotStarted") = 0
    /\ Rank("Reserve") = 1
    /\ Rank("MarkReserved") = 2
    /\ Rank("Pay") = 3
    /\ Rank("MarkPaid") = 4
    /\ Rank("AwaitConfirm") = 5
    /\ Rank("Confirm") = 6
    /\ Rank("Ship") = 7
    /\ Rank("MarkShipped") = 8
    /\ Rank("NotifyConfirmed") = 9
    /\ Rank("Refund") = 10
    /\ Rank("Release") = 11
    /\ Rank("Cancel") = 12
    /\ Rank("NotifyCancelled") = 13
    /\ \A s \in Closed : Rank(s) = 14
BY DEF Rank, Closed

LEMMA RankType == \A s : Rank(s) \in Nat
BY DEF Rank

LEMMA StackValues ==
    /\ StackAt("NotStarted") = <<>>
    /\ StackAt("Reserve") = <<>>
    /\ StackAt("MarkReserved") = <<"Release">>
    /\ StackAt("Pay") = <<"Release">>
    /\ StackAt("MarkPaid") = <<"Release", "Refund">>
    /\ StackAt("AwaitConfirm") = <<"Release", "Refund">>
    /\ StackAt("Confirm") = <<"Release", "Refund">>
    /\ StackAt("Ship") = <<"Release", "Refund">>
    /\ StackAt("MarkShipped") = <<"Release", "Refund">>
    /\ StackAt("NotifyConfirmed") = <<"Release", "Refund">>
    /\ StackAt("Refund") = <<"Release">>
    /\ StackAt("Release") = <<>>
    /\ StackAt("Cancel") = <<>>
    /\ StackAt("NotifyCancelled") = <<>>
BY DEF StackAt

LEMMA StacksDiffer ==
    /\ <<>> # <<"Release">>
    /\ <<>> # <<"Release", "Refund">>
    /\ <<"Release">> # <<"Release", "Refund">>
<1>1. Len(<<>>) = 0 /\ Len(<<"Release">>) = 1 /\ Len(<<"Release", "Refund">>) = 2
  OBVIOUS
<1> QED BY <1>1

LEMMA RankOfCalls == \A s \in ActivitySteps : Rank(s) \in 1..13
BY RankValues DEF ActivitySteps, TrySteps, CatchSteps

LEMMA NextStepCalls ==
    /\ NextStep["Reserve"] = "MarkReserved"
    /\ NextStep["Pay"] = "MarkPaid"
    /\ NextStep["MarkReserved"] = "Pay"
    /\ NextStep["Confirm"] = "Ship"
    /\ NextStep["Ship"] = "MarkShipped"
    /\ NextStep["MarkShipped"] = "NotifyConfirmed"
    /\ NextStep["Cancel"] = "NotifyCancelled"
    /\ {"MarkReserved", "Pay", "MarkPaid", "Ship", "MarkShipped",
        "NotifyConfirmed", "NotifyCancelled"} \subseteq ActivitySteps
BY DEF NextStep, ActivitySteps, TrySteps, CatchSteps

LEMMA NextStepRests ==
    /\ NextStep["MarkPaid"] = "AwaitConfirm"
    /\ NextStep["NotifyConfirmed"] \in Closed
    /\ NextStep["NotifyCancelled"] \in Closed
BY DEF NextStep, Closed

\* A workflow step schedules at most one attempt: the next one of the call it
\* then awaits.
Schedules ==
    \/ att' = att /\ running' \subseteq running
    \/ /\ wf' \in ActivitySteps
       /\ att' = [att EXCEPT ![wf'] = att[wf'] + 1]
       /\ \E others \in SUBSET running :
              running' = others \cup {Run(wf', att[wf'] + 1)}

\* What the control variables are after a workflow step.
ControlStep ==
    /\ Schedules
    /\ wf' \in ActivitySteps \cup Closed \cup {"NotStarted", "AwaitConfirm"}
    /\ comps' \in {<<>>, <<"Release">>, <<"Release", "Refund">>}
    /\ att' \in [ActivitySteps -> 0..MaxAttempts]
    /\ running' \subseteq Runs
    /\ StackMatchesCall'
    /\ NotCalledYet'

\* The workflow makes a call it has not made before.
LEMMA GotoControl ==
    ASSUME Control, NEW others, others \subseteq running,
           NEW step \in ActivitySteps, Rank(wf) < Rank(step),
           Goto(step, others), comps' = StackAt(step)
    PROVE  ControlStep
<1>1. wf' = step
  BY DEF Goto
<1>2. att' = [att EXCEPT ![step] = 1] /\ running' = others \cup {Run(step, 1)}
  BY DEF Goto
<1>3. att' \in [ActivitySteps -> 0..MaxAttempts]
  BY <1>2 DEF Control, TypeOK
<1>4. Run(step, 1) \in Runs
  BY DEF Run, Runs, Attempts, Phases
<1>5. NotCalledYet'
  <2> SUFFICES ASSUME NEW s \in ActivitySteps, Rank(s) > Rank(step)
               PROVE  att'[s] = 0
    BY <1>1 DEF NotCalledYet
  <2>1. s # step /\ Rank(s) > Rank(wf)
    BY RankType
  <2> QED BY <1>2, <2>1 DEF Control, TypeOK, NotCalledYet
<1>6. comps' \in {<<>>, <<"Release">>, <<"Release", "Refund">>}
  BY StackValues DEF ActivitySteps, TrySteps, CatchSteps
<1>7. StackMatchesCall'
  BY <1>1 DEF StackMatchesCall
<1>8. Schedules
  <2>1. att[step] = 0
    BY DEF Control, NotCalledYet
  <2> QED BY <1>1, <1>2, <2>1 DEF Schedules
<1> QED BY <1>1, <1>2, <1>3, <1>4, <1>5, <1>6, <1>7, <1>8
    DEF Control, TypeOK, ControlStep

\* The workflow stops awaiting an activity: it closes, or waits for the signal.
LEMMA RestControl ==
    ASSUME Control, NEW others, others \subseteq running,
           NEW step \in Closed \cup {"AwaitConfirm"},
           Rank(wf) < Rank(step), Goto(step, others),
           step = "AwaitConfirm" => comps' = StackAt(step),
           comps' \in {<<>>, <<"Release">>, <<"Release", "Refund">>}
    PROVE  ControlStep
<1>1. step \notin ActivitySteps
  BY DEF Closed, ActivitySteps, TrySteps, CatchSteps
<1>2. wf' = step /\ att' = att /\ running' = others
  BY <1>1 DEF Goto
<1>3. NotCalledYet'
  <2> SUFFICES ASSUME NEW s \in ActivitySteps, Rank(s) > Rank(step)
               PROVE  att[s] = 0
    BY <1>2 DEF NotCalledYet
  <2>1. Rank(s) > Rank(wf)
    BY RankType
  <2> QED BY <2>1 DEF Control, NotCalledYet
<1>4. StackMatchesCall'
  BY <1>2 DEF StackMatchesCall
<1> QED BY <1>2, <1>3, <1>4 DEF Control, TypeOK, ControlStep, Schedules

\* The catch block's next call.
LEMMA UnwindControl ==
    ASSUME Control, NEW others, others \subseteq running,
           wf \in (ActivitySteps \ {"Cancel", "NotifyCancelled"})
                     \cup {"AwaitConfirm"},
           Unwind(comps, others)
    PROVE  /\ ControlStep
           /\ wf' \in {"Refund", "Release", "Cancel"}
           /\ wf' = "Refund" => wf \in {"MarkPaid", "AwaitConfirm", "Confirm",
                                      "Ship", "MarkShipped", "NotifyConfirmed"}
           /\ wf' = "Release" => wf \in {"MarkReserved", "Pay", "Refund"}
<1>0. comps = StackAt(wf)
  BY DEF Control, StackMatchesCall, ActivitySteps, TrySteps, CatchSteps, Closed
<1>1. CASE comps = <<>>
  <2>1. comps' = <<>> /\ wf' = "Cancel" /\ Goto("Cancel", others)
    BY <1>1 DEF Unwind, Goto
  <2>2. Rank(wf) < Rank("Cancel")
    BY RankValues DEF ActivitySteps, TrySteps, CatchSteps
  <2> QED BY <2>1, <2>2, GotoControl, StackValues DEF ActivitySteps, CatchSteps
<1>2. CASE comps = <<"Release">>
  <2>1. comps' = <<>> /\ wf' = "Release" /\ Goto("Release", others)
    BY <1>2 DEF Unwind, Goto
  <2>2. wf \in {"MarkReserved", "Pay", "Refund"}
    BY <1>0, <1>2, StackValues, StacksDiffer
       DEF ActivitySteps, TrySteps, CatchSteps
  <2>3. Rank(wf) < Rank("Release")
    BY <2>2, RankValues
  <2> QED BY <2>1, <2>2, <2>3, GotoControl, StackValues
          DEF ActivitySteps, CatchSteps
<1>3. CASE comps = <<"Release", "Refund">>
  <2>1. comps' = <<"Release">> /\ wf' = "Refund" /\ Goto("Refund", others)
    BY <1>3 DEF Unwind, Goto
  <2>2. wf \in {"MarkPaid", "AwaitConfirm", "Confirm", "Ship", "MarkShipped",
                "NotifyConfirmed"}
    BY <1>0, <1>3, StackValues, StacksDiffer
       DEF ActivitySteps, TrySteps, CatchSteps
  <2>3. Rank(wf) < Rank("Refund")
    BY <2>2, RankValues
  <2> QED BY <2>1, <2>2, <2>3, GotoControl, StackValues
          DEF ActivitySteps, CatchSteps
<1> QED BY <1>1, <1>2, <1>3 DEF Control, TypeOK

\* An attempt that failed or timed out: another attempt, or the call rejects.
LEMMA RetryOrRejectControl ==
    ASSUME Control, NEW others, others \subseteq running,
           wf \in ActivitySteps, RetryOrReject(others)
    PROVE  ControlStep /\ error' \in {error, "ActivityFailure"}
<1>1. CASE att[wf] < MaxAttempts
  <2>1. /\ att' = [att EXCEPT ![wf] = att[wf] + 1]
        /\ running' = others \cup {Run(wf, att[wf] + 1)}
        /\ wf' = wf /\ comps' = comps /\ error' = error
    BY <1>1 DEF RetryOrReject
  <2>2. att[wf] + 1 \in Attempts
    BY <1>1 DEF Control, TypeOK, Attempts
  <2>3. att' \in [ActivitySteps -> 0..MaxAttempts] /\ running' \subseteq Runs
    BY <2>1, <2>2 DEF Control, TypeOK, Attempts, Run, Runs, Phases
  <2>4. NotCalledYet'
    BY <2>1, RankType DEF Control, TypeOK, NotCalledYet
  <2>5. Schedules
    BY <2>1 DEF Schedules
  <2> QED BY <2>1, <2>3, <2>4, <2>5
          DEF Control, TypeOK, StackMatchesCall, ControlStep
<1>2. CASE ~(att[wf] < MaxAttempts)
  <2>1. CallRejects(others)
    BY <1>2 DEF RetryOrReject
  <2>2. CASE wf \in TrySteps /\ error' = "ActivityFailure" /\ Unwind(comps, others)
    BY <2>2, UnwindControl DEF ActivitySteps, TrySteps, CatchSteps
  <2>3. CASE wf \in {"Refund", "Release"} /\ Unwind(comps, others) /\ UNCHANGED error
    BY <2>3, UnwindControl DEF ActivitySteps, TrySteps, CatchSteps
  <2>4. CASE /\ wf \in {"Cancel", "NotifyCancelled"} /\ Goto("Failed", others)
             /\ UNCHANGED <<comps, error>>
    <3>1. Rank(wf) < Rank("Failed")
      BY <2>4, RankValues DEF Closed
    <3> QED BY <2>4, <3>1, RestControl DEF Control, TypeOK, Closed
  <2> QED BY <2>1, <2>2, <2>3, <2>4 DEF CallRejects
<1> QED BY <1>1, <1>2

\* The awaited call returns: the workflow pushes its compensation and goes on.
LEMMA CompleteControl ==
    ASSUME Control, NEW r \in running, CompleteActivity(r)
    PROVE  ControlStep
<1>1. r \in Runs /\ r.step = wf /\ wf \in ActivitySteps
  BY DEF Control, TypeOK, CompleteActivity, Current, Runs
<1>2. CASE wf \in {"Refund", "Release"}
  BY <1>1, <1>2, UnwindControl DEF CompleteActivity
<1>3. CASE wf \notin {"Refund", "Release"}
  <2>1. Goto(NextStep[wf], running \ {r}) /\ comps' = Push(comps, wf)
    BY <1>1, <1>3 DEF CompleteActivity
  <2>2. comps = StackAt(wf)
    BY <1>1 DEF Control, StackMatchesCall, ActivitySteps, TrySteps, CatchSteps,
         Closed
  <2>3. CASE wf \in {"Reserve", "Pay"}
    <3>1. CASE wf = "Reserve"
      <4>1. comps' = StackAt("MarkReserved")
        BY <2>1, <2>2, <3>1, StackValues DEF Push
      <4> QED BY <3>1, <4>1, <2>1, NextStepCalls, GotoControl, RankValues
    <3>2. CASE wf = "Pay"
      <4>1. comps' = Append(<<"Release">>, "Refund")
        BY <2>1, <2>2, <3>2, StackValues DEF Push
      <4>2. comps' = StackAt("MarkPaid")
        BY <4>1, StackValues
      <4> QED BY <3>2, <4>2, <2>1, NextStepCalls, GotoControl, RankValues
    <3> QED BY <2>3, <3>1, <3>2
  <2>4. CASE wf \in {"MarkReserved", "Confirm", "Ship", "MarkShipped", "Cancel"}
    <3>1. comps' = StackAt(wf)
      BY <2>1, <2>2, <2>4 DEF Push
    <3>2. CASE wf = "MarkReserved"
      BY <3>1, <3>2, <2>1, NextStepCalls, GotoControl, StackValues, RankValues
    <3>3. CASE wf = "Confirm"
      BY <3>1, <3>3, <2>1, NextStepCalls, GotoControl, StackValues, RankValues
    <3>4. CASE wf = "Ship"
      BY <3>1, <3>4, <2>1, NextStepCalls, GotoControl, StackValues, RankValues
    <3>5. CASE wf = "MarkShipped"
      BY <3>1, <3>5, <2>1, NextStepCalls, GotoControl, StackValues, RankValues
    <3>6. CASE wf = "Cancel"
      BY <3>1, <3>6, <2>1, NextStepCalls, GotoControl, StackValues, RankValues
    <3> QED BY <2>4, <3>2, <3>3, <3>4, <3>5, <3>6
  <2>5. CASE wf \in {"MarkPaid", "NotifyConfirmed", "NotifyCancelled"}
    <3>1. comps' = StackAt(wf)
      BY <2>1, <2>2, <2>5 DEF Push
    <3>2. comps' \in {<<>>, <<"Release">>, <<"Release", "Refund">>}
      BY <3>1, <2>2 DEF Control, TypeOK
    <3>3. CASE wf = "MarkPaid"
      <4>1. NextStep[wf] = "AwaitConfirm" /\ comps' = StackAt("AwaitConfirm")
        BY <3>1, <3>3, NextStepRests, StackValues
      <4>2. Rank(wf) < Rank("AwaitConfirm")
        BY <3>3, RankValues
      <4> QED BY <4>1, <4>2, <2>1, <3>2, RestControl
    <3>4. CASE wf \in {"NotifyConfirmed", "NotifyCancelled"}
      <4>1. NextStep[wf] \in Closed
        BY <3>4, NextStepRests
      <4>2. Rank(wf) < Rank(NextStep[wf]) /\ NextStep[wf] # "AwaitConfirm"
        BY <3>4, <4>1, RankValues DEF Closed
      <4> QED BY <4>1, <4>2, <2>1, <3>2, RestControl
    <3> QED BY <2>5, <3>3, <3>4
  <2> QED BY <1>1, <1>3, <2>3, <2>4, <2>5 DEF ActivitySteps, TrySteps, CatchSteps
<1> QED BY <1>2, <1>3

----------------------------------------------------------------------------
\* Everything else leaves the control variables alone and keeps TypeOK.

LEMMA StepRuns ==
    ASSUME running \subseteq Runs, NEW r \in running, NEW from,
           NEW to \in Phases, Step(r, from, to)
    PROVE  running' \subseteq Runs
<1>1. [r EXCEPT !.phase = to] \in Runs
  BY DEF Runs
<1> QED BY <1>1 DEF Step

LEMMA AttemptNumber == ASSUME Control, NEW r \in running
                       PROVE  r.n \in Attempts /\ r.step \in ActivitySteps
BY DEF Control, TypeOK, Runs

LEMMA FaultType == ASSUME Control, NEW kind, Fault(kind)
                   PROVE  faults' \in 0..MaxFaults
BY DEF Control, TypeOK, Fault

LEMMA KeepsControl ==
    ASSUME Control, UNCHANGED <<wf, comps, att>>
    PROVE  StackMatchesCall' /\ NotCalledYet'
BY DEF Control, StackMatchesCall, NotCalledYet

LEMMA InitControl == Init => Control
<1> SUFFICES ASSUME Init PROVE Control
  OBVIOUS
<1>1. TypeOK
  <2>1. att \in [ActivitySteps -> 0..MaxAttempts]
    BY DEF Init
  <2>2. payments \in [Attempts -> PaymentStatus]
    BY DEF Init, PaymentStatus
  <2>3. /\ cancelAt \in [Cancellers -> {"idle", "loaded", "stopped",
                                        "cancelled", "refused"}]
        /\ cancelSeen \in [Cancellers -> Status]
    BY DEF Init, Status
  <2>4. faults \in 0..MaxFaults
    BY DEF Init
  <2> QED BY <2>1, <2>2, <2>3, <2>4 DEF Init, TypeOK, Status
<1>2. StackMatchesCall
  BY StackValues DEF Init, StackMatchesCall
<1>3. NotCalledYet
  BY DEF Init, NotCalledYet
<1> QED BY <1>1, <1>2, <1>3 DEF Control

LEMMA ExecuteControl ==
    ASSUME Control, NEW r \in running, Execute(r)
    PROVE  Control'
<1>0. running \subseteq Runs /\ r.n \in Attempts
  BY AttemptNumber DEF Control, TypeOK
<1>p. {"start", "mid", "saved", "ok", "err"} = Phases
  BY DEF Phases
<1>c. SUFFICES TypeOK' /\ UNCHANGED <<wf, comps, att>>
  BY KeepsControl DEF Control
<1> USE DEF Control, TypeOK, orderVars, workflowVars, ledgerVars
<1>1. CASE WriteReservation(r)
  BY <1>0, <1>p, <1>1, StepRuns DEF WriteReservation
<1>2. CASE PublishReservation(r)
  BY <1>0, <1>p, <1>2, StepRuns DEF PublishReservation, SyncEvents, SyncTarget
<1>3. CASE WriteRelease(r)
  BY <1>0, <1>p, <1>3, StepRuns DEF WriteRelease
<1>4. CASE PublishRelease(r)
  BY <1>0, <1>p, <1>4, StepRuns DEF PublishRelease
<1>5. CASE ChargeGateway(r)
  BY <1>0, <1>p, <1>5, StepRuns DEF ChargeGateway
<1>6. CASE RecordPayment(r)
  BY <1>0, <1>p, <1>6, StepRuns DEF RecordPayment, PaymentStatus, SyncEvents, SyncTarget
<1>7. CASE DeclinePayment(r)
  BY <1>0, <1>p, <1>7, StepRuns, FaultType DEF DeclinePayment, PaymentStatus
<1>8. CASE LoadPayment(r)
  BY <1>0, <1>p, <1>8, StepRuns DEF LoadPayment
<1>9. CASE SaveRefund(r)
  BY <1>0, <1>p, <1>9, StepRuns DEF SaveRefund, PaymentStatus
<1>10. CASE LoadOrder(r)
  BY <1>0, <1>p, <1>10, StepRuns DEF LoadOrder
<1>11. CASE SaveOrder(r)
  BY <1>0, <1>p, <1>11, StepRuns DEF SaveOrder, OrderSteps, Target, Status
<1>12. CASE RequestPickup(r)
  BY <1>0, <1>p, <1>12, StepRuns DEF RequestPickup
<1>13. CASE SaveShipment(r)
  BY <1>0, <1>p, <1>13, StepRuns DEF SaveShipment
<1>14. CASE PublishShipment(r)
  BY <1>0, <1>p, <1>14, StepRuns DEF PublishShipment, SyncEvents, SyncTarget
<1>15. CASE NotifyUser(r)
  BY <1>0, <1>p, <1>15, StepRuns DEF NotifyUser
<1> QED BY <1>1, <1>2, <1>3, <1>4, <1>5, <1>6, <1>7, <1>8, <1>9, <1>10,
           <1>11, <1>12, <1>13, <1>14, <1>15 DEF Execute

LEMMA WorkersControl == ASSUME Control, Workers PROVE Control'
<1>1. PICK r \in running : Execute(r) \/ AttemptThrows(r) \/ WorkerCrash(r)
  BY DEF Workers
<1>2. CASE Execute(r)
  BY <1>2, ExecuteControl
<1>3. CASE AttemptThrows(r)
  <2>1. [r EXCEPT !.phase = "err"] \in Runs
    BY DEF Control, TypeOK, Runs, Phases
  <2>2. running' \subseteq Runs
    BY <1>3, <2>1 DEF AttemptThrows, Control, TypeOK
  <2> QED BY <1>3, <2>2, FaultType, KeepsControl
          DEF AttemptThrows, Control, TypeOK, orderVars, workflowVars, ledgerVars
<1>4. CASE WorkerCrash(r)
  BY <1>4, FaultType, KeepsControl
     DEF WorkerCrash, Control, TypeOK, orderVars, workflowVars, ledgerVars
<1> QED BY <1>1, <1>2, <1>3, <1>4

LEMMA ConsumerControl == ASSUME Control, Consumer PROVE Control'
<1> SUFFICES TypeOK' /\ UNCHANGED <<wf, comps, att>>
  BY KeepsControl DEF Control
<1> USE DEF Control, TypeOK, orderVars, workflowVars, ledgerVars
<1>1. CASE DeliverShipment
  BY <1>1 DEF DeliverShipment, SyncEvents, SyncTarget
<1>2. ASSUME NEW e \in SyncEvents, SyncLoad(e) \/ SyncSave(e) \/ SyncFails(e)
      PROVE  TypeOK' /\ UNCHANGED <<wf, comps, att>>
  <2>1. CASE SyncLoad(e)
    BY <2>1 DEF SyncLoad
  <2>2. CASE SyncSave(e)
    <3>1. SyncTarget[e] \in Status
      BY DEF SyncEvents, SyncTarget, Status
    <3> QED BY <2>2, <3>1 DEF SyncSave
  <2>3. CASE SyncFails(e)
    BY <2>3, FaultType DEF SyncFails
  <2> QED BY <1>2, <2>1, <2>2, <2>3
<1> QED BY <1>1, <1>2 DEF Consumer

LEMMA CancelControl == ASSUME Control, CancelEndpoint PROVE Control'
<1> SUFFICES TypeOK' /\ UNCHANGED <<wf, comps, att>>
  BY KeepsControl DEF Control
<1>1. PICK c \in Cancellers :
         CancelLoad(c) \/ CancelStopsWorkflow(c) \/ CancelSaves(c)
  BY DEF CancelEndpoint
<1> USE DEF Control, TypeOK, orderVars, workflowVars, ledgerVars
<1>2. CASE CancelLoad(c)
  BY <1>2 DEF CancelLoad
<1>3. CASE CancelStopsWorkflow(c)
  BY <1>3 DEF CancelStopsWorkflow
<1>4. CASE CancelSaves(c)
  <2>1. "CANCELLED" \in Status
    BY DEF Status
  <2> QED BY <1>4, <2>1 DEF CancelSaves
<1> QED BY <1>1, <1>2, <1>3, <1>4

LEMMA WorkflowControl == ASSUME Control, Workflow PROVE Control'
<1>1. CASE StartWorkflow
  <2>1. wf = "NotStarted" /\ Goto("Reserve", running) /\ comps' = comps
    BY <1>1 DEF StartWorkflow
  <2>2. comps' = StackAt("Reserve")
    BY <2>1, StackValues DEF Control, StackMatchesCall, Closed
  <2>3. Rank(wf) < Rank("Reserve")
    BY <2>1, RankValues
  <2>4. ControlStep
    BY <2>1, <2>2, <2>3, GotoControl DEF ActivitySteps, TrySteps
  <2> QED BY <1>1, <2>4 DEF StartWorkflow, Control, ControlStep, TypeOK,
              orderVars, ledgerVars
<1>2. CASE SignalConfirm
  BY <1>2, KeepsControl DEF SignalConfirm, Control, TypeOK, orderVars, ledgerVars
<1>3. CASE ConfirmationArrives
  <2>1. wf = "AwaitConfirm" /\ Goto("Confirm", running) /\ comps' = comps
    BY <1>3 DEF ConfirmationArrives
  <2>2. comps' = StackAt("Confirm")
    BY <2>1, StackValues DEF Control, StackMatchesCall, Closed
  <2>3. Rank(wf) < Rank("Confirm")
    BY <2>1, RankValues
  <2>4. ControlStep
    BY <2>1, <2>2, <2>3, GotoControl DEF ActivitySteps, TrySteps
  <2> QED BY <1>3, <2>4 DEF ConfirmationArrives, Control, ControlStep, TypeOK,
              orderVars, ledgerVars
<1>4. CASE ConfirmationTimesOut
  <2>1. ControlStep
    BY <1>4, UnwindControl DEF ConfirmationTimesOut
  <2> QED BY <1>4, <2>1 DEF ConfirmationTimesOut, Control, ControlStep, TypeOK,
              orderVars, ledgerVars
<1>5. CASE TimeOutActivity
  <2>1. ControlStep /\ error' \in {error, "ActivityFailure"}
    BY <1>5, RetryOrRejectControl DEF TimeOutActivity
  <2>2. faults' \in 0..MaxFaults
    BY <1>5, FaultType DEF TimeOutActivity, Control, TypeOK
  <2> QED BY <1>5, <2>1, <2>2 DEF TimeOutActivity, Control, ControlStep, TypeOK,
              orderVars, ledgerVars
<1>6. CASE WorkflowCancelled
  <2>1. wf' \in Closed /\ comps' = <<>> /\ att' = att
    BY <1>6 DEF WorkflowCancelled, Closed
  <2>2. Rank(wf) < Rank(wf')
    BY <1>6, <2>1, RankOfCalls, RankValues DEF WorkflowCancelled
  <2>3. NotCalledYet'
    <3> SUFFICES ASSUME NEW s \in ActivitySteps, Rank(s) > Rank(wf')
                 PROVE  att'[s] = 0
      BY DEF NotCalledYet
    <3>1. Rank(s) > Rank(wf)
      BY <2>2, RankType
    <3> QED BY <2>1, <3>1 DEF Control, NotCalledYet
  <2>4. StackMatchesCall'
    BY <2>1 DEF StackMatchesCall
  <2> QED BY <1>6, <2>1, <2>3, <2>4 DEF WorkflowCancelled, Control, TypeOK,
              orderVars, ledgerVars
<1>7. ASSUME NEW r \in running,
             CompleteActivity(r) \/ FailActivity(r) \/ DropLateResult(r)
      PROVE  Control'
  <2>0. r.n \in Attempts /\ r.step \in ActivitySteps
    BY AttemptNumber
  <2>1. CASE CompleteActivity(r)
    <3>1. ControlStep
      BY <2>1, CompleteControl
    <3> QED BY <2>0, <2>1, <3>1 DEF CompleteActivity, Control, ControlStep,
                TypeOK, orderVars, ledgerVars
  <2>2. CASE FailActivity(r)
    <3>1. wf \in ActivitySteps /\ RetryOrReject(running \ {r})
      BY <2>0, <2>2 DEF FailActivity, Current
    <3>2. ControlStep /\ error' \in {error, "ActivityFailure"}
      BY <3>1, RetryOrRejectControl
    <3> QED BY <2>2, <3>2 DEF FailActivity, Control, ControlStep, TypeOK,
                orderVars, ledgerVars
  <2>3. CASE DropLateResult(r)
    BY <2>3, KeepsControl DEF DropLateResult, Control, TypeOK, orderVars,
       workflowVars, ledgerVars
  <2> QED BY <1>7, <2>1, <2>2, <2>3
<1> QED BY <1>1, <1>2, <1>3, <1>4, <1>5, <1>6, <1>7 DEF Workflow

LEMMA NextControl == ASSUME Control, [Next]_vars PROVE Control'
<1>1. CASE UNCHANGED vars
  BY <1>1, KeepsControl DEF Control, TypeOK, vars, orderVars, workflowVars,
     ledgerVars
<1> QED BY <1>1, WorkflowControl, WorkersControl, ConsumerControl, CancelControl
        DEF Next

\* Control is an inductive invariant.
THEOREM ControlInvariant == Spec => []Control
<1>1. Init => Control
  BY InitControl
<1>2. Control /\ [Next]_vars => Control'
  BY NextControl
<1> QED BY <1>1, <1>2, PTL DEF Spec

\* TypeOK holds of every instance: no attempt beyond the retry limit, no
\* compensation stack the workflow's code cannot build.
THEOREM TypeCorrect == Spec => []TypeOK
<1>1. Control => TypeOK
  BY DEF Control
<1> QED BY <1>1, ControlInvariant, PTL

----------------------------------------------------------------------------
\* What happened stays happened.
Grows ==
    /\ reservedBy # {} => reservedBy' # {}
    /\ charged # {} => charged' # {}
    /\ shippedBy # {} => shippedBy' # {}
    /\ notified \subseteq notified'
    /\ confirmed => confirmed'
    /\ paidWith # 0 => paidWith' # 0
    /\ error # "none" => error' # "none"
    /\ \A n \in Attempts : Recorded(n) => Recorded(n)'

LEMMA EarnedGrows == ASSUME Grows, NEW st, Earned(st) PROVE Earned(st)'
BY DEF Grows, Earned

LEMMA NeedsGrows == ASSUME Grows, NEW s, Needs(s) PROVE Needs(s)'
BY DEF Grows, Needs

\* Every status an order step asks for is earned by the time the step is made.
LEMMA TargetEarned ==
    ASSUME Facts, NEW s \in OrderSteps, att[s] > 0
    PROVE  Earned(Target[s])
<1>1. s \in ActivitySteps
  BY DEF OrderSteps, Target, ActivitySteps, TrySteps, CatchSteps
<1>2. Needs(s) /\ (paidWith # 0 => paidWith \in Attempts /\ Recorded(paidWith))
  BY <1>1 DEF Facts, CallsAreDue, LedgersAreCalled, Control, TypeOK
<1>3. CASE s = "MarkReserved"
  BY <1>2, <1>3 DEF Target, Earned, Needs, TrySteps
<1>4. CASE s = "MarkPaid"
  BY <1>2, <1>4 DEF Target, Earned, Needs, TrySteps
<1>5. CASE s = "Confirm"
  BY <1>2, <1>5 DEF Target, Earned, Needs, TrySteps
<1>6. CASE s = "MarkShipped"
  BY <1>2, <1>6 DEF Target, Earned, Needs, TrySteps
<1>7. CASE s = "Cancel"
  BY <1>7 DEF Target, Earned
<1> QED BY <1>3, <1>4, <1>5, <1>6, <1>7 DEF OrderSteps, Target

\* Attempts are scheduled once each.
LEMMA SchedulesRuns ==
    ASSUME Facts, Schedules
    PROVE  RunsScheduled' /\ RunsUnique'
<1>1. CASE att' = att /\ running' \subseteq running
  BY <1>1 DEF Facts, RunsScheduled, RunsUnique
<1>2. ASSUME wf' \in ActivitySteps,
             att' = [att EXCEPT ![wf'] = att[wf'] + 1],
             NEW others \in SUBSET running,
             running' = others \cup {Run(wf', att[wf'] + 1)}
      PROVE  RunsScheduled' /\ RunsUnique'
  <2>1. att \in [ActivitySteps -> Nat] /\ running \subseteq Runs
    BY DEF Facts, Control, TypeOK
  <2>2. /\ Run(wf', att[wf'] + 1).step = wf'
        /\ Run(wf', att[wf'] + 1).n = att[wf'] + 1
    BY DEF Run
  <2>3. ASSUME NEW r \in others
        PROVE  /\ r.n \in Nat /\ r.step \in ActivitySteps /\ r.n <= att[r.step]
               /\ r.step = wf' => r.n # att[wf'] + 1
    BY <2>1 DEF Facts, RunsScheduled, Runs, Attempts
  <2>4. RunsScheduled'
    <3> SUFFICES ASSUME NEW r \in running' PROVE r.n <= att'[r.step]
      BY DEF RunsScheduled
    <3>1. CASE r \in others
      BY <1>2, <2>1, <2>3, <3>1
    <3>2. CASE r = Run(wf', att[wf'] + 1)
      BY <1>2, <2>1, <2>2, <3>2
    <3> QED BY <1>2, <3>1, <3>2
  <2>5. RunsUnique'
    <3> SUFFICES ASSUME NEW r \in running', NEW q \in running',
                        r.step = q.step, r.n = q.n
                 PROVE  r = q
      BY DEF RunsUnique
    <3>1. CASE r \in others /\ q \in others
      BY <3>1 DEF Facts, RunsUnique
    <3>2. CASE r \notin others \/ q \notin others
      BY <1>2, <2>2, <2>3, <3>2
    <3> QED BY <3>1, <3>2
  <2> QED BY <2>4, <2>5
<1> QED BY <1>1, <1>2 DEF Schedules

\* A workflow step that leaves the ledgers alone keeps Facts once the call it
\* makes is due.
LEMMA WorkflowFacts ==
    ASSUME Facts, Control', Schedules, Grows, Needs(wf)', NoErrorYet',
           UNCHANGED <<orderVars, ledgerVars>>,
           paidWith' # paidWith =>
               /\ paidWith' # 0
               /\ Recorded(paidWith')
               /\ att["Refund"] = 0
    PROVE  Facts'
<1> USE DEF orderVars, ledgerVars
<1>1. RunsScheduled' /\ RunsUnique'
  BY SchedulesRuns
<1>2. att \in [ActivitySteps -> Nat]
  BY DEF Facts, Control, TypeOK
<1>3. \A s \in ActivitySteps : att'[s] >= att[s]
  BY <1>2 DEF Schedules
<1>4. CallsAreDue'
  <2> SUFFICES ASSUME NEW s \in ActivitySteps, att'[s] > 0 PROVE Needs(s)'
    BY DEF CallsAreDue
  <2>1. CASE s = wf'
    BY <2>1 DEF Needs
  <2>2. CASE s # wf'
    <3>1. att[s] > 0
      BY <1>2, <2>2 DEF Schedules
    <3> QED BY <3>1, NeedsGrows DEF Facts, CallsAreDue
  <2> QED BY <2>1, <2>2
<1>5. ResultsAreReal'
  <2> SUFFICES ASSUME NEW r \in running'
               PROVE  Real(r)'
    BY DEF ResultsAreReal
  <2>1. CASE r \in running
    BY <2>1 DEF Facts, ResultsAreReal, Real, Recorded
  <2>2. CASE r \notin running
    <3>1. wf' \in ActivitySteps /\ r = Run(wf', att[wf'] + 1)
      BY <2>2 DEF Schedules
    <3>2. r.step = wf' /\ r.n = att[wf'] + 1 /\ r.phase = "start"
      BY <3>1 DEF Run
    <3>3. r.n \in Attempts
      BY DEF Control, TypeOK, Runs
    <3>4. wf' = "Pay" => payments[r.n] = "none"
      BY <1>2, <3>2, <3>3 DEF Facts, LedgersAreCalled, ActivitySteps, TrySteps,
         Attempts
    <3> QED BY <3>2, <3>4 DEF Real
  <2> QED BY <2>1, <2>2
<1>6. LedgersAreCalled'
  <2>1. {"Pay", "Ship", "Release", "Refund"} \subseteq ActivitySteps
    BY DEF ActivitySteps, TrySteps, CatchSteps
  <2>2. \A s \in ActivitySteps : att[s] \in Nat /\ att'[s] \in Nat
    BY DEF Facts, Control, TypeOK
  <2>3. \A n \in Attempts : n > att'["Pay"] => payments'[n] = "none"
    BY <1>3, <2>1, <2>2 DEF Facts, LedgersAreCalled, Attempts
  <2>4. paidWith' # 0 => Recorded(paidWith)'
    BY DEF Facts, LedgersAreCalled, Recorded
  <2>5. /\ shippedBy' # {} => att'["Ship"] > 0
        /\ releasedBy' # {} => att'["Release"] > 0
    BY <1>3, <2>1, <2>2 DEF Facts, LedgersAreCalled
  <2>6. \A n \in Attempts :
           payments'[n] = "REFUNDED" => n = paidWith' /\ att'["Refund"] > 0
    BY <1>3, <2>1, <2>2 DEF Facts, LedgersAreCalled
  <2>7. \A n \in Attempts : Recorded(n)' => charged' # {}
    BY DEF Facts, LedgersAreCalled, Recorded
  <2> QED BY <2>3, <2>4, <2>5, <2>6, <2>7 DEF LedgersAreCalled, Recorded
<1>7. EventsAreEarned'
  <2> SUFFICES ASSUME NEW e \in events PROVE Earned(SyncTarget[e])'
    BY DEF Facts, EventsAreEarned
  <2> QED BY EarnedGrows DEF Facts, EventsAreEarned
<1>8. StatusIsEarned'
  <2>1. Earned(status)
    BY DEF Facts, StatusIsEarned
  <2>2. Earned(status)'
    BY <2>1, EarnedGrows DEF Earned, Grows
  <2> QED BY <2>2 DEF StatusIsEarned
<1> QED BY <1>1, <1>4, <1>5, <1>6, <1>7, <1>8 DEF Facts

\* The step of one attempt keeps Facts if it keeps what it touches.
LEMMA AttemptFacts ==
    ASSUME Facts, Control', NEW r \in running, NEW to \in Phases,
           running' = (running \ {r}) \cup {[r EXCEPT !.phase = to]},
           UNCHANGED workflowVars,
           Grows, Real([r EXCEPT !.phase = to])',
           \A n \in Attempts :
               payments[n] = "none" /\ ~(r.step = "Pay" /\ r.n = n) =>
                   payments'[n] = "none",
           LedgersAreCalled', EventsAreEarned', StatusIsEarned'
    PROVE  Facts'
<1> DEFINE t == [r EXCEPT !.phase = to]
<1>1. r \in Runs /\ running \subseteq Runs
  BY DEF Facts, Control, TypeOK
<1>2. t.step = r.step /\ t.n = r.n /\ t.phase = to
  BY <1>1 DEF Runs
<1> HIDE DEF t
<1>3. running' = (running \ {r}) \cup {t} /\ Real(t)'
  BY DEF t
<1>4. RunsScheduled'
  BY <1>2, <1>3 DEF Facts, RunsScheduled, workflowVars
<1>5. RunsUnique'
  <2> SUFFICES ASSUME NEW p \in running', NEW q \in running',
                      p.step = q.step, p.n = q.n
               PROVE  p = q
    BY DEF RunsUnique
  <2> QED BY <1>2, <1>3 DEF Facts, RunsUnique
<1>6. CallsAreDue'
  BY NeedsGrows DEF Facts, CallsAreDue, workflowVars
<1>7. NoErrorYet'
  BY DEF Facts, NoErrorYet, workflowVars
<1>8. ResultsAreReal'
  <2> SUFFICES ASSUME NEW q \in running, q # r PROVE Real(q)'
    BY <1>3 DEF ResultsAreReal
  <2>1. Real(q) /\ q.n \in Attempts /\ ~(q.step = r.step /\ q.n = r.n)
    BY <1>1 DEF Facts, ResultsAreReal, RunsUnique, Runs
  <2>2. q.step = "Pay" /\ q.phase \in {"start", "mid"} => payments'[q.n] = "none"
    BY <2>1 DEF Real
  <2> QED BY <2>1, <2>2 DEF Real, Grows
<1> QED BY <1>4, <1>5, <1>6, <1>7, <1>8 DEF Facts

LEMMA RunScheduled ==
    ASSUME Facts, NEW r \in running
    PROVE  /\ r \in Runs
           /\ r.n \in Attempts
           /\ r.step \in ActivitySteps
           /\ att[r.step] > 0
           /\ r.n <= att[r.step]
           /\ Needs(r.step)
           /\ Real(r)
<1>1. r \in Runs /\ att \in [ActivitySteps -> Nat]
  BY DEF Facts, Control, TypeOK
<1>2. r.n \in Attempts /\ r.step \in ActivitySteps /\ r.n <= att[r.step]
  BY <1>1 DEF Runs, Facts, RunsScheduled
<1>3. att[r.step] > 0
  BY <1>1, <1>2 DEF Attempts
<1> QED BY <1>1, <1>2, <1>3 DEF Facts, CallsAreDue, ResultsAreReal

\* Nothing but the attempt's phase changes.
LEMMA SilentAttemptFacts ==
    ASSUME Facts, Control', NEW r \in running, NEW to \in Phases,
           running' = (running \ {r}) \cup {[r EXCEPT !.phase = to]},
           UNCHANGED <<orderVars, workflowVars, ledgerVars>>,
           Real([r EXCEPT !.phase = to])
    PROVE  Facts'
<1> USE DEF orderVars, workflowVars, ledgerVars
<1>1. Grows /\ Real([r EXCEPT !.phase = to])'
  BY DEF Grows, Recorded, Real
<1>2. LedgersAreCalled'
  BY DEF Facts, LedgersAreCalled, Recorded
<1>3. EventsAreEarned'
  BY DEF Facts, EventsAreEarned, Earned, Recorded
<1>4. StatusIsEarned'
  BY DEF Facts, StatusIsEarned, Earned, Recorded
<1> QED BY <1>1, <1>2, <1>3, <1>4, AttemptFacts

LEMMA EventsGrow ==
    ASSUME Facts, Grows, syncing' = syncing, NEW new \in SUBSET SyncEvents,
           events' = events \cup new,
           \A e \in new : Earned(SyncTarget[e])'
    PROVE  EventsAreEarned'
<1>1. ASSUME NEW e \in events PROVE Earned(SyncTarget[e])'
  BY EarnedGrows DEF Facts, EventsAreEarned
<1> QED BY <1>1 DEF Facts, EventsAreEarned

LEMMA StatusStays == ASSUME Facts, Grows, status' = status PROVE StatusIsEarned'
<1>1. Earned(status)'
  BY EarnedGrows DEF Facts, StatusIsEarned, Earned, Grows
<1> QED BY <1>1 DEF StatusIsEarned

\* The reservation and the release.
LEMMA StockFacts ==
    ASSUME Facts, Control', NEW r \in running,
           \/ WriteReservation(r) \/ PublishReservation(r)
           \/ WriteRelease(r) \/ PublishRelease(r)
    PROVE  Facts'
<1>0. r \in Runs /\ Real(r) /\ att[r.step] > 0 /\ r.step \in ActivitySteps
  BY RunScheduled
<1> USE DEF orderVars, workflowVars, ledgerVars, Phases
<1>t. ASSUME NEW to PROVE /\ [r EXCEPT !.phase = to].step = r.step
                          /\ [r EXCEPT !.phase = to].n = r.n
                          /\ [r EXCEPT !.phase = to].phase = to
  BY <1>0 DEF Runs
<1>1. CASE WriteReservation(r)
  <2>1. r.step = "Reserve" /\ reservedBy' # {} /\ Grows
    BY <1>1 DEF WriteReservation, Grows, Recorded
  <2>2. Real([r EXCEPT !.phase = "saved"])'
    BY <2>1, <1>t DEF Real
  <2>3. LedgersAreCalled'
    BY <1>1 DEF WriteReservation, Facts, LedgersAreCalled, Recorded
  <2>4. EventsAreEarned'
    BY <1>1, <2>1, EarnedGrows DEF WriteReservation, Facts, EventsAreEarned
  <2> QED BY <1>1, <2>1, <2>2, <2>3, <2>4, StatusStays, AttemptFacts
          DEF WriteReservation, Step
<1>2. CASE PublishReservation(r)
  <2>1. r.step = "Reserve" /\ reservedBy # {} /\ Grows
    BY <1>0, <1>2 DEF PublishReservation, Step, Grows, Recorded, Real
  <2>2. Real([r EXCEPT !.phase = "ok"])'
    BY <1>2, <2>1, <1>t DEF Real, PublishReservation
  <2>3. LedgersAreCalled'
    BY <1>2 DEF PublishReservation, Facts, LedgersAreCalled, Recorded
  <2>4. Earned(SyncTarget["inventory.reserved"])'
    BY <1>2, <2>1 DEF PublishReservation, Earned, SyncTarget
  <2>5. EventsAreEarned'
    BY <1>2, <2>1, <2>4, EarnedGrows
       DEF PublishReservation, Facts, EventsAreEarned
  <2> QED BY <1>2, <2>1, <2>2, <2>3, <2>5, StatusStays, AttemptFacts
          DEF PublishReservation, Step
<1>3. CASE WriteRelease(r)
  <2>1. r.step = "Release" /\ Grows
    BY <1>3 DEF WriteRelease, Grows, Recorded
  <2>2. Real([r EXCEPT !.phase = "saved"])'
    BY <2>1, <1>t DEF Real
  <2>3. LedgersAreCalled'
    BY <1>0, <1>3, <2>1 DEF WriteRelease, Facts, LedgersAreCalled, Recorded
  <2>4. EventsAreEarned'
    BY <1>3, <2>1, EarnedGrows DEF WriteRelease, Facts, EventsAreEarned
  <2> QED BY <1>3, <2>1, <2>2, <2>3, <2>4, StatusStays, AttemptFacts
          DEF WriteRelease, Step
<1>4. CASE PublishRelease(r)
  <2>1. Real([r EXCEPT !.phase = "ok"])
    BY <1>4, <1>t DEF PublishRelease, Real
  <2> QED BY <1>4, <2>1, SilentAttemptFacts DEF PublishRelease, Step
<1> QED BY <1>1, <1>2, <1>3, <1>4

\* The payment and the refund.
LEMMA PaymentFacts ==
    ASSUME Facts, Control', NEW r \in running,
           \/ ChargeGateway(r) \/ RecordPayment(r) \/ DeclinePayment(r)
           \/ LoadPayment(r) \/ SaveRefund(r)
    PROVE  Facts'
<1>0. /\ r \in Runs /\ Real(r) /\ att[r.step] > 0 /\ r.n \in Attempts
      /\ r.n <= att[r.step] /\ Needs(r.step)
  BY RunScheduled
<1>p. payments \in [Attempts -> PaymentStatus] /\ paidWith \in Attempts \cup {0}
  BY DEF Facts, Control, TypeOK
<1> USE DEF orderVars, workflowVars, ledgerVars, Phases
<1>t. ASSUME NEW to PROVE /\ [r EXCEPT !.phase = to].step = r.step
                          /\ [r EXCEPT !.phase = to].n = r.n
                          /\ [r EXCEPT !.phase = to].phase = to
  BY <1>0 DEF Runs
<1>w. ASSUME r.step = "Pay", payments[r.n] = "none"
      PROVE  r.n # paidWith /\ \A n \in Attempts : n > att["Pay"] => n # r.n
  <2>1. att["Pay"] \in Nat
    BY DEF Facts, Control, TypeOK, ActivitySteps, TrySteps
  <2>2. r.n # paidWith
    BY <1>0, <1>w DEF Facts, LedgersAreCalled, Recorded, Attempts
  <2> QED BY <1>0, <1>w, <2>1, <2>2 DEF Attempts
<1>1. CASE ChargeGateway(r)
  <2>1. r.step = "Pay" /\ payments[r.n] = "none" /\ payments' = payments /\ Grows
    BY <1>0, <1>1 DEF ChargeGateway, Step, Grows, Recorded, Real
  <2>2. Real([r EXCEPT !.phase = "mid"])'
    BY <1>1, <2>1, <1>t DEF ChargeGateway, Real
  <2>3. LedgersAreCalled'
    BY <1>1 DEF ChargeGateway, Facts, LedgersAreCalled, Recorded
  <2>4. EventsAreEarned'
    BY <1>1, <2>1, EarnedGrows DEF ChargeGateway, Facts, EventsAreEarned
  <2> QED BY <1>1, <2>1, <2>2, <2>3, <2>4, StatusStays, AttemptFacts
          DEF ChargeGateway, Step
<1>2. CASE RecordPayment(r)
  <2>1. /\ r.step = "Pay" /\ payments[r.n] = "none"
        /\ payments' = [payments EXCEPT ![r.n] = "COMPLETED"]
        /\ events' = events \cup {"PaymentProcessed"}
    BY <1>0, <1>2 DEF RecordPayment, Step, Real
  <2>2. /\ Recorded(r.n)'
        /\ \A n \in Attempts : n # r.n => payments'[n] = payments[n]
        /\ payments'[r.n] = "COMPLETED"
    BY <1>0, <1>p, <2>1 DEF Recorded
  <2>3. Grows
    BY <1>2, <2>2 DEF RecordPayment, Grows, Recorded
  <2>4. Real([r EXCEPT !.phase = "ok"])'
    BY <1>2, <2>1, <2>2, <1>t DEF Real
  <2>c. charged' # {}
    BY <1>0, <1>2 DEF RecordPayment, Step, Real
  <2>5. LedgersAreCalled'
    BY <1>2, <1>w, <2>1, <2>2, <2>c
       DEF RecordPayment, Facts, LedgersAreCalled, Recorded
  <2>6. reservedBy' # {}
    BY <1>0, <1>2, <2>1 DEF RecordPayment, Needs, TrySteps
  <2>7. Earned(SyncTarget["PaymentProcessed"])'
    BY <1>0, <2>2, <2>6 DEF Earned, SyncTarget
  <2>8. EventsAreEarned'
    BY <1>2, <2>1, <2>3, <2>7, EarnedGrows
       DEF RecordPayment, Facts, EventsAreEarned
  <2> QED BY <1>2, <2>1, <2>2, <2>3, <2>4, <2>5, <2>8, StatusStays, AttemptFacts
          DEF RecordPayment, Step
<1>3. CASE DeclinePayment(r)
  <2>1. /\ r.step = "Pay" /\ payments[r.n] = "none"
        /\ payments' = [payments EXCEPT ![r.n] = "FAILED"]
    BY <1>0, <1>3 DEF DeclinePayment, Step, Real
  <2>2. /\ \A n \in Attempts : n # r.n => payments'[n] = payments[n]
        /\ payments'[r.n] = "FAILED"
    BY <1>0, <1>p, <2>1
  <2>3. Grows
    BY <1>3, <2>1, <2>2 DEF DeclinePayment, Grows, Recorded
  <2>4. Real([r EXCEPT !.phase = "err"])'
    BY <1>t DEF Real
  <2>5. LedgersAreCalled'
    BY <1>3, <1>w, <2>1, <2>2 DEF DeclinePayment, Facts, LedgersAreCalled, Recorded
  <2>6. EventsAreEarned'
    BY <1>3, <2>3, EarnedGrows DEF DeclinePayment, Facts, EventsAreEarned
  <2> QED BY <1>3, <2>2, <2>3, <2>4, <2>5, <2>6, StatusStays, AttemptFacts
          DEF DeclinePayment, Step
<1>4. CASE LoadPayment(r)
  <2>1. PICK to \in Phases : Step(r, "start", to) /\ r.step = "Refund"
    BY <1>4 DEF LoadPayment
  <2>2. Real([r EXCEPT !.phase = to])
    BY <2>1, <1>t DEF Real
  <2> QED BY <1>4, <2>1, <2>2, SilentAttemptFacts DEF LoadPayment, Step
<1>5. CASE SaveRefund(r)
  <2>1. /\ r.step = "Refund" /\ paidWith \in Attempts /\ Recorded(paidWith)
        /\ payments' = [payments EXCEPT ![paidWith] = "REFUNDED"]
    BY <1>0, <1>5, <1>p DEF SaveRefund, Needs, Facts, LedgersAreCalled
  <2>2. /\ \A n \in Attempts : n # paidWith => payments'[n] = payments[n]
        /\ payments'[paidWith] = "REFUNDED" /\ payments[paidWith] # "none"
    BY <1>p, <2>1 DEF Recorded
  <2>3. Grows
    BY <1>5, <2>2 DEF SaveRefund, Grows, Recorded
  <2>4. Real([r EXCEPT !.phase = "ok"])'
    BY <2>1, <1>t DEF Real
  <2>5. LedgersAreCalled'
    BY <1>0, <1>5, <2>1, <2>2
       DEF SaveRefund, Facts, LedgersAreCalled, Recorded
  <2>6. EventsAreEarned'
    BY <1>5, <2>3, EarnedGrows DEF SaveRefund, Facts, EventsAreEarned
  <2> QED BY <1>5, <2>2, <2>3, <2>4, <2>5, <2>6, StatusStays, AttemptFacts
          DEF SaveRefund, Step
<1> QED BY <1>1, <1>2, <1>3, <1>4, <1>5

\* The order's status, the shipment and the notification.
LEMMA OrderFacts ==
    ASSUME Facts, Control', NEW r \in running, LoadOrder(r) \/ SaveOrder(r)
    PROVE  Facts'
<1>0. /\ r \in Runs /\ Real(r) /\ att[r.step] > 0
  BY RunScheduled
<1> USE DEF orderVars, workflowVars, ledgerVars, Phases
<1>t. ASSUME NEW to PROVE /\ [r EXCEPT !.phase = to].step = r.step
                          /\ [r EXCEPT !.phase = to].n = r.n
                          /\ [r EXCEPT !.phase = to].phase = to
  BY <1>0 DEF Runs
<1>1. r.step \in OrderSteps /\ r.step \notin {"Reserve", "Ship", "Pay", "NotifyConfirmed"}
  BY DEF LoadOrder, SaveOrder, OrderSteps, Target
<1>2. CASE LoadOrder(r)
  <2>1. PICK to \in Phases : Step(r, "start", to)
    BY <1>2 DEF LoadOrder
  <2>2. Real([r EXCEPT !.phase = to])
    BY <1>1, <1>t DEF Real
  <2> QED BY <1>2, <2>1, <2>2, SilentAttemptFacts DEF LoadOrder, Step
<1>3. CASE SaveOrder(r)
  <2>1. Grows /\ Real([r EXCEPT !.phase = "ok"])'
    BY <1>1, <1>3, <1>t DEF SaveOrder, Grows, Recorded, Real
  <2>2. LedgersAreCalled'
    BY <1>3 DEF SaveOrder, Facts, LedgersAreCalled, Recorded
  <2>3. EventsAreEarned'
    BY <1>3, <2>1, EarnedGrows DEF SaveOrder, Facts, EventsAreEarned
  <2>4. Earned(Target[r.step])
    BY <1>0, <1>1, TargetEarned
  <2>5. StatusIsEarned'
    BY <1>3, <2>4 DEF SaveOrder, StatusIsEarned, Earned, Recorded
  <2> QED BY <1>3, <2>1, <2>2, <2>3, <2>5, AttemptFacts DEF SaveOrder, Step
<1> QED BY <1>2, <1>3

\* A shipment is only made after everything SHIPPED stands for but itself.
LEMMA ShipmentEarned ==
    ASSUME Facts, att["Ship"] > 0, shippedBy # {}
    PROVE  Earned("SHIPPED") /\ Earned("DELIVERED")
<1>1. Needs("Ship") /\ (paidWith # 0 => paidWith \in Attempts /\ Recorded(paidWith))
  BY DEF Facts, CallsAreDue, LedgersAreCalled, Control, TypeOK, ActivitySteps,
     TrySteps
<1> QED BY <1>1 DEF Needs, Earned, TrySteps

LEMMA ShippingFacts ==
    ASSUME Facts, Control', NEW r \in running,
           \/ RequestPickup(r) \/ SaveShipment(r) \/ PublishShipment(r)
           \/ NotifyUser(r)
    PROVE  Facts'
<1>0. r \in Runs /\ Real(r) /\ att[r.step] > 0 /\ r.n \in Attempts
  BY RunScheduled
<1> USE DEF orderVars, workflowVars, ledgerVars, Phases
<1>t. ASSUME NEW to PROVE /\ [r EXCEPT !.phase = to].step = r.step
                          /\ [r EXCEPT !.phase = to].n = r.n
                          /\ [r EXCEPT !.phase = to].phase = to
  BY <1>0 DEF Runs
<1>1. CASE RequestPickup(r)
  <2>1. Real([r EXCEPT !.phase = "mid"])
    BY <1>1, <1>t DEF RequestPickup, Real
  <2> QED BY <1>1, <2>1, SilentAttemptFacts DEF RequestPickup, Step
<1>2. CASE SaveShipment(r)
  <2>1. r.step = "Ship" /\ shippedBy' # {} /\ Grows
    BY <1>2 DEF SaveShipment, Grows, Recorded
  <2>2. Real([r EXCEPT !.phase = "saved"])'
    BY <2>1, <1>t DEF Real
  <2>3. LedgersAreCalled'
    BY <1>0, <1>2, <2>1 DEF SaveShipment, Facts, LedgersAreCalled, Recorded
  <2>4. EventsAreEarned'
    BY <1>2, <2>1, EarnedGrows DEF SaveShipment, Facts, EventsAreEarned
  <2> QED BY <1>2, <2>1, <2>2, <2>3, <2>4, StatusStays, AttemptFacts
          DEF SaveShipment, Step
<1>3. CASE PublishShipment(r)
  <2>1. r.step = "Ship" /\ shippedBy # {} /\ Grows
    BY <1>0, <1>3 DEF PublishShipment, Step, Grows, Recorded, Real
  <2>2. Real([r EXCEPT !.phase = "ok"])'
    BY <1>3, <2>1, <1>t DEF Real, PublishShipment
  <2>3. LedgersAreCalled'
    BY <1>3 DEF PublishShipment, Facts, LedgersAreCalled, Recorded
  <2>4. Earned(SyncTarget["shipment.created"])'
    BY <1>0, <2>1, ShipmentEarned, EarnedGrows DEF SyncTarget
  <2>5. EventsAreEarned'
    BY <1>3, <2>1, <2>4, EarnedGrows DEF PublishShipment, Facts, EventsAreEarned
  <2> QED BY <1>3, <2>1, <2>2, <2>3, <2>5, StatusStays, AttemptFacts
          DEF PublishShipment, Step
<1>4. CASE NotifyUser(r)
  <2>1. /\ r.step \in {"NotifyConfirmed", "NotifyCancelled"} /\ Grows
        /\ r.step = "NotifyConfirmed" => "ORDER_CONFIRMED" \in notified'
    BY <1>4 DEF NotifyUser, Grows, Recorded
  <2>2. Real([r EXCEPT !.phase = "ok"])'
    BY <2>1, <1>t DEF Real
  <2>3. LedgersAreCalled'
    BY <1>4 DEF NotifyUser, Facts, LedgersAreCalled, Recorded
  <2>4. EventsAreEarned'
    BY <1>4, <2>1, EarnedGrows DEF NotifyUser, Facts, EventsAreEarned
  <2> QED BY <1>4, <2>1, <2>2, <2>3, <2>4, StatusStays, AttemptFacts
          DEF NotifyUser, Step
<1> QED BY <1>1, <1>2, <1>3, <1>4

LEMMA WorkersFacts == ASSUME Facts, Workers PROVE Facts'
<1>c. Control'
  BY WorkersControl DEF Facts
<1>1. PICK r \in running : Execute(r) \/ AttemptThrows(r) \/ WorkerCrash(r)
  BY DEF Workers
<1>2. CASE Execute(r)
  BY <1>c, <1>2, StockFacts, PaymentFacts, OrderFacts, ShippingFacts DEF Execute
<1>3. CASE AttemptThrows(r)
  <2>1. r \in Runs
    BY RunScheduled
  <2>2. [r EXCEPT !.phase = "err"].phase = "err"
    BY <2>1 DEF Runs
  <2>3. Real([r EXCEPT !.phase = "err"])
    BY <2>2 DEF Real
  <2> QED BY <1>c, <1>3, <2>3, SilentAttemptFacts
          DEF AttemptThrows, Phases
<1>4. CASE WorkerCrash(r)
  <2> USE DEF WorkerCrash, orderVars, workflowVars, ledgerVars
  <2>1. RunsScheduled' /\ RunsUnique' /\ CallsAreDue' /\ NoErrorYet'
    BY <1>4 DEF Facts, RunsScheduled, RunsUnique, CallsAreDue, NoErrorYet, Needs
  <2>2. ResultsAreReal' /\ LedgersAreCalled'
    BY <1>4 DEF Facts, ResultsAreReal, Real, LedgersAreCalled, Recorded
  <2>3. EventsAreEarned' /\ StatusIsEarned'
    BY <1>4 DEF Facts, EventsAreEarned, StatusIsEarned, Earned, Recorded
  <2> QED BY <1>c, <2>1, <2>2, <2>3 DEF Facts
<1> QED BY <1>1, <1>2, <1>3, <1>4

\* A step of the consumer or of a cancel request: the workflow, the attempts
\* and the ledgers stay as they are.
LEMMA BystanderFacts ==
    ASSUME Facts, Control',
           UNCHANGED <<wf, error, confirmed, paidWith, att, running, reservedBy,
                       releasedBy, charged, payments, shippedBy, notified>>,
           Earned(status'), syncing' \subseteq events',
           \A e \in events' : Earned(SyncTarget[e])
    PROVE  Facts'
<1>1. RunsScheduled' /\ RunsUnique' /\ CallsAreDue' /\ NoErrorYet'
  BY DEF Facts, RunsScheduled, RunsUnique, CallsAreDue, NoErrorYet, Needs
<1>2. ResultsAreReal' /\ LedgersAreCalled'
  BY DEF Facts, ResultsAreReal, Real, LedgersAreCalled, Recorded
<1>3. EventsAreEarned' /\ StatusIsEarned'
  BY DEF EventsAreEarned, StatusIsEarned, Earned, Recorded
<1> QED BY <1>1, <1>2, <1>3 DEF Facts

LEMMA ConsumerFacts == ASSUME Facts, Consumer PROVE Facts'
<1>c. Control'
  BY ConsumerControl DEF Facts
<1>0. /\ syncing \subseteq events /\ Earned(status)
      /\ \A e \in events : Earned(SyncTarget[e])
  BY DEF Facts, EventsAreEarned, StatusIsEarned
<1> USE DEF orderVars, workflowVars, ledgerVars
<1>1. CASE DeliverShipment
  <2>1. Earned("DELIVERED")
    BY <1>1, ShipmentEarned DEF DeliverShipment, Facts, LedgersAreCalled
  <2>2. Earned(SyncTarget["shipment.delivered"])
    BY <2>1 DEF SyncTarget
  <2> QED BY <1>c, <1>0, <1>1, <2>2, BystanderFacts DEF DeliverShipment
<1>2. ASSUME NEW e \in SyncEvents, SyncLoad(e) \/ SyncSave(e) \/ SyncFails(e)
      PROVE  Facts'
  <2>1. CASE SyncLoad(e)
    BY <1>c, <1>0, <2>1, BystanderFacts DEF SyncLoad
  <2>2. CASE SyncSave(e)
    BY <1>c, <1>0, <2>2, BystanderFacts DEF SyncSave
  <2>3. CASE SyncFails(e)
    BY <1>c, <1>0, <2>3, BystanderFacts DEF SyncFails
  <2> QED BY <1>2, <2>1, <2>2, <2>3
<1> QED BY <1>1, <1>2 DEF Consumer

LEMMA CancelFacts == ASSUME Facts, CancelEndpoint PROVE Facts'
<1>c. Control'
  BY CancelControl DEF Facts
<1>0. /\ syncing \subseteq events /\ Earned(status) /\ Earned("CANCELLED")
      /\ \A e \in events : Earned(SyncTarget[e])
  BY DEF Facts, EventsAreEarned, StatusIsEarned, Earned
<1>1. PICK c \in Cancellers :
         CancelLoad(c) \/ CancelStopsWorkflow(c) \/ CancelSaves(c)
  BY DEF CancelEndpoint
<1> USE DEF workflowVars, ledgerVars
<1>2. CASE CancelLoad(c)
  BY <1>c, <1>0, <1>2, BystanderFacts DEF CancelLoad
<1>3. CASE CancelStopsWorkflow(c)
  BY <1>c, <1>0, <1>3, BystanderFacts DEF CancelStopsWorkflow
<1>4. CASE CancelSaves(c)
  BY <1>c, <1>0, <1>4, BystanderFacts DEF CancelSaves
<1> QED BY <1>1, <1>2, <1>3, <1>4

LEMMA GotoCall == ASSUME NEW step, NEW others, Goto(step, others)
                  PROVE  wf' = step
BY DEF Goto

\* What is due when the catch block makes its next call.
LEMMA UnwindDue ==
    ASSUME Facts, NEW others, others \subseteq running,
           wf \in (ActivitySteps \ {"Cancel", "NotifyCancelled"})
                     \cup {"AwaitConfirm"},
           Unwind(comps, others), error' # "none",
           UNCHANGED <<paidWith, reservedBy>>
    PROVE  ControlStep /\ Needs(wf)' /\ NoErrorYet'
<1>1. /\ ControlStep
      /\ wf' \in {"Refund", "Release", "Cancel"}
      /\ wf' = "Refund" => wf \in {"MarkPaid", "AwaitConfirm", "Confirm",
                                 "Ship", "MarkShipped", "NotifyConfirmed"}
      /\ wf' = "Release" => wf \in {"MarkReserved", "Pay", "Refund"}
  BY UnwindControl DEF Facts
<1>2. /\ wf' = "Refund" => paidWith # 0
      /\ wf' \in {"Refund", "Release"} => reservedBy # {}
  BY <1>1 DEF Facts, CallsAreDue, Needs, TrySteps
<1>3. Needs(wf)'
  BY <1>1, <1>2 DEF Needs, TrySteps
<1>4. NoErrorYet'
  BY <1>1 DEF NoErrorYet, TrySteps
<1> QED BY <1>1, <1>3, <1>4

LEMMA RetryOrRejectDue ==
    ASSUME Facts, NEW others, others \subseteq running,
           wf \in ActivitySteps, RetryOrReject(others),
           UNCHANGED <<confirmed, paidWith, reservedBy, shippedBy, notified>>
    PROVE  Needs(wf)' /\ NoErrorYet' /\ (error # "none" => error' # "none")
<1>0. Needs(wf) /\ NoErrorYet
  BY DEF Facts, CallsAreDue
<1>1. CASE att[wf] < MaxAttempts
  <2>1. wf' = wf /\ error' = error
    BY <1>1 DEF RetryOrReject
  <2> QED BY <1>0, <2>1 DEF Needs, NoErrorYet
<1>2. CASE ~(att[wf] < MaxAttempts)
  <2>1. CallRejects(others)
    BY <1>2 DEF RetryOrReject
  <2>2. CASE wf \in TrySteps /\ error' = "ActivityFailure" /\ Unwind(comps, others)
    BY <2>2, UnwindDue DEF ActivitySteps, TrySteps, CatchSteps
  <2>3. CASE wf \in {"Refund", "Release"} /\ Unwind(comps, others) /\ UNCHANGED error
    <3>1. error # "none"
      BY <1>0, <2>3 DEF Needs, CatchSteps
    <3> QED BY <2>3, <3>1, UnwindDue DEF ActivitySteps, TrySteps, CatchSteps
  <2>4. CASE /\ wf \in {"Cancel", "NotifyCancelled"} /\ Goto("Failed", others)
             /\ UNCHANGED <<comps, error>>
    <3>1. wf' = "Failed" /\ error' = error
      BY <2>4, GotoCall
    <3> QED BY <3>1 DEF Needs, NoErrorYet, TrySteps, CatchSteps
  <2> QED BY <2>1, <2>2, <2>3, <2>4 DEF CallRejects
<1> QED BY <1>1, <1>2

LEMMA CompleteDue ==
    ASSUME Facts, NEW r \in running, CompleteActivity(r)
    PROVE  /\ ControlStep /\ Needs(wf)' /\ NoErrorYet'
           /\ paidWith' # paidWith =>
                  paidWith' # 0 /\ Recorded(paidWith') /\ att["Refund"] = 0
<1>0. /\ r.step = wf /\ r.n \in Attempts /\ r.phase = "ok" /\ Real(r)
      /\ wf \in ActivitySteps /\ Needs(wf) /\ NoErrorYet
      /\ UNCHANGED <<error, confirmed, reservedBy, shippedBy, notified>>
  BY RunScheduled DEF CompleteActivity, Current, Facts, CallsAreDue, ledgerVars
<1>1. ControlStep
  BY CompleteControl DEF Facts
<1>2. paidWith' # paidWith =>
          paidWith' # 0 /\ Recorded(paidWith') /\ att["Refund"] = 0
  <2> SUFFICES ASSUME paidWith' # paidWith
               PROVE  paidWith' # 0 /\ Recorded(paidWith') /\ att["Refund"] = 0
    OBVIOUS
  <2>1. wf = "Pay" /\ paidWith' = r.n
    BY <1>0 DEF CompleteActivity
  <2>2. Recorded(paidWith') /\ paidWith' # 0
    BY <1>0, <2>1 DEF Real, Attempts
  <2>3. Rank("Refund") > Rank(wf)
    BY <2>1, RankValues
  <2>4. att["Refund"] = 0
    BY <2>3 DEF Facts, Control, NotCalledYet, ActivitySteps, CatchSteps
  <2> QED BY <2>2, <2>4
<1>3. CASE wf \in {"Refund", "Release"}
  <2>1. error # "none" /\ paidWith' = paidWith /\ Unwind(comps, running \ {r})
    BY <1>0, <1>3 DEF Needs, CatchSteps, CompleteActivity
  <2> QED BY <1>0, <1>1, <1>2, <1>3, <2>1, UnwindDue
          DEF ActivitySteps, TrySteps, CatchSteps
<1>4. CASE wf \notin {"Refund", "Release"}
  <2>1. wf' = NextStep[wf]
    BY <1>0, <1>4, GotoCall DEF CompleteActivity
  <2>p. /\ wf = "Pay" => paidWith' # 0
        /\ paidWith # 0 => paidWith' # 0
    BY <1>0, <1>2 DEF CompleteActivity, Attempts
  <2>2. Needs(wf)' /\ NoErrorYet'
    <3>1. CASE wf = "Reserve"
      BY <1>0, <2>1, <3>1 DEF Real, Needs, NoErrorYet, NextStep, TrySteps, CatchSteps
    <3>2. CASE wf = "MarkReserved"
      BY <1>0, <2>1, <3>2 DEF Needs, NoErrorYet, NextStep, TrySteps, CatchSteps
    <3>3. CASE wf = "Pay"
      BY <1>0, <2>1, <2>p, <3>3 DEF Needs, NoErrorYet, NextStep, TrySteps, CatchSteps
    <3>4. CASE wf = "MarkPaid"
      BY <1>0, <2>1, <2>p, <3>4 DEF Needs, NoErrorYet, NextStep, TrySteps, CatchSteps
    <3>5. CASE wf = "Confirm"
      BY <1>0, <2>1, <2>p, <3>5 DEF Needs, NoErrorYet, NextStep, TrySteps, CatchSteps
    <3>6. CASE wf = "Ship"
      BY <1>0, <2>1, <2>p, <3>6
         DEF Real, Needs, NoErrorYet, NextStep, TrySteps, CatchSteps
    <3>7. CASE wf = "MarkShipped"
      BY <1>0, <2>1, <2>p, <3>7 DEF Needs, NoErrorYet, NextStep, TrySteps, CatchSteps
    <3>8. CASE wf = "NotifyConfirmed"
      BY <1>0, <2>1, <2>p, <3>8
         DEF Real, Needs, NoErrorYet, NextStep, TrySteps, CatchSteps
    <3>9. CASE wf \in {"Cancel", "NotifyCancelled"}
      BY <1>0, <2>1, <3>9 DEF Needs, NoErrorYet, NextStep, TrySteps, CatchSteps
    <3> QED BY <1>0, <1>4, <3>1, <3>2, <3>3, <3>4, <3>5, <3>6, <3>7, <3>8, <3>9
            DEF ActivitySteps, TrySteps, CatchSteps
  <2> QED BY <1>1, <1>2, <2>2
<1> QED BY <1>3, <1>4

LEMMA WorkflowStepFacts == ASSUME Facts, Workflow PROVE Facts'
<1>c. Control'
  BY WorkflowControl DEF Facts
<1>0. Needs(wf) /\ NoErrorYet /\ Control
  BY DEF Facts, CallsAreDue
<1> USE DEF orderVars, ledgerVars
<1>1. CASE StartWorkflow
  <2>1. wf' = "Reserve" /\ Grows /\ Needs(wf)' /\ NoErrorYet'
    BY <1>0, <1>1, GotoCall
       DEF StartWorkflow, Grows, Recorded, Needs, NoErrorYet, TrySteps, CatchSteps
  <2>2. Schedules
    <3>1. Rank("Reserve") > Rank(wf) /\ "Reserve" \in ActivitySteps
      BY <1>1, RankValues DEF StartWorkflow, ActivitySteps, TrySteps
    <3>2. att["Reserve"] = 0
      BY <1>0, <3>1 DEF Control, NotCalledYet
    <3> QED BY <1>1, <3>1, <3>2 DEF StartWorkflow, Goto, Schedules
  <2> QED BY <1>c, <1>1, <2>1, <2>2, WorkflowFacts DEF StartWorkflow
<1>2. CASE SignalConfirm
  <2>1. Grows /\ Needs(wf)' /\ NoErrorYet' /\ Schedules
    BY <1>0, <1>2 DEF SignalConfirm, Grows, Recorded, Needs, NoErrorYet, Schedules
  <2> QED BY <1>c, <1>2, <2>1, WorkflowFacts DEF SignalConfirm
<1>3. CASE ConfirmationArrives
  <2>1. wf' = "Confirm" /\ Grows /\ Needs(wf)' /\ NoErrorYet'
    BY <1>0, <1>3, GotoCall
       DEF ConfirmationArrives, Grows, Recorded, Needs, NoErrorYet, TrySteps,
           CatchSteps
  <2>2. Schedules
    <3>1. Rank("Confirm") > Rank(wf) /\ "Confirm" \in ActivitySteps
      BY <1>3, RankValues DEF ConfirmationArrives, ActivitySteps, TrySteps
    <3>2. att["Confirm"] = 0
      BY <1>0, <3>1 DEF Control, NotCalledYet
    <3> QED BY <1>3, <3>1, <3>2 DEF ConfirmationArrives, Goto, Schedules
  <2> QED BY <1>c, <1>3, <2>1, <2>2, WorkflowFacts DEF ConfirmationArrives
<1>4. CASE ConfirmationTimesOut
  <2>1. ControlStep /\ Needs(wf)' /\ NoErrorYet'
    BY <1>4, UnwindDue DEF ConfirmationTimesOut
  <2>2. Grows
    BY <1>4 DEF ConfirmationTimesOut, Grows, Recorded
  <2> QED BY <1>c, <1>4, <2>1, <2>2, WorkflowFacts
          DEF ConfirmationTimesOut, ControlStep
<1>5. CASE TimeOutActivity
  <2>1. /\ wf \in ActivitySteps /\ RetryOrReject(running)
        /\ UNCHANGED <<orderVars, confirmed, cancelReq, paidWith, ledgerVars>>
    BY <1>5 DEF TimeOutActivity
  <2>2. ControlStep
    BY <1>0, <2>1, RetryOrRejectControl
  <2>3. Needs(wf)' /\ NoErrorYet' /\ (error # "none" => error' # "none")
    BY <2>1, RetryOrRejectDue
  <2>4. Grows
    BY <2>1, <2>3 DEF Grows, Recorded
  <2> QED BY <1>c, <2>1, <2>2, <2>3, <2>4, WorkflowFacts DEF ControlStep
<1>6. CASE WorkflowCancelled
  <2>1. /\ wf' \in {"Failed", "Cancelled"} /\ att' = att /\ running' = running
        /\ error' \in {error, "CancelledFailure"}
        /\ UNCHANGED <<orderVars, confirmed, cancelReq, paidWith, ledgerVars>>
    BY <1>6 DEF WorkflowCancelled
  <2>2. Needs(wf)' /\ NoErrorYet'
    BY <2>1 DEF Needs, NoErrorYet, TrySteps, CatchSteps
  <2>3. Grows /\ Schedules
    BY <2>1 DEF Grows, Recorded, Schedules
  <2> QED BY <1>c, <2>1, <2>2, <2>3, WorkflowFacts
<1>7. ASSUME NEW r \in running,
             CompleteActivity(r) \/ FailActivity(r) \/ DropLateResult(r)
      PROVE  Facts'
  <2>1. CASE CompleteActivity(r)
    <3>1. /\ ControlStep /\ Needs(wf)' /\ NoErrorYet'
          /\ paidWith' # paidWith =>
                 paidWith' # 0 /\ Recorded(paidWith') /\ att["Refund"] = 0
      BY <2>1, CompleteDue
    <3>2. Grows
      BY <2>1, <3>1 DEF CompleteActivity, Grows, Recorded
    <3> QED BY <1>c, <2>1, <3>1, <3>2, WorkflowFacts
            DEF CompleteActivity, ControlStep
  <2>2. CASE FailActivity(r)
    <3>1. /\ wf \in ActivitySteps /\ RetryOrReject(running \ {r})
          /\ UNCHANGED <<orderVars, confirmed, cancelReq, paidWith, ledgerVars>>
      BY <2>2, RunScheduled DEF FailActivity, Current
    <3>2. ControlStep
      BY <1>0, <3>1, RetryOrRejectControl
    <3>3. Needs(wf)' /\ NoErrorYet' /\ (error # "none" => error' # "none")
      BY <3>1, RetryOrRejectDue
    <3>4. Grows
      BY <3>1, <3>3 DEF Grows, Recorded
    <3> QED BY <1>c, <3>1, <3>2, <3>3, <3>4, WorkflowFacts DEF ControlStep
  <2>3. CASE DropLateResult(r)
    <3>1. Grows /\ Needs(wf)' /\ NoErrorYet' /\ Schedules
      BY <1>0, <2>3 DEF DropLateResult, workflowVars, Grows, Recorded, Needs,
         NoErrorYet, Schedules
    <3> QED BY <1>c, <2>3, <3>1, WorkflowFacts DEF DropLateResult, workflowVars
  <2> QED BY <1>7, <2>1, <2>2, <2>3
<1> QED BY <1>1, <1>2, <1>3, <1>4, <1>5, <1>6, <1>7 DEF Workflow

LEMMA InitFacts == Init => Facts
<1> SUFFICES ASSUME Init PROVE Facts
  OBVIOUS
<1>1. Control
  BY InitControl
<1>2. RunsScheduled /\ RunsUnique /\ ResultsAreReal
  BY DEF Init, RunsScheduled, RunsUnique, ResultsAreReal
<1>3. CallsAreDue /\ NoErrorYet
  BY DEF Init, CallsAreDue, Needs, NoErrorYet, TrySteps, CatchSteps
<1>4. LedgersAreCalled
  BY DEF Init, LedgersAreCalled, Recorded
<1>5. EventsAreEarned /\ StatusIsEarned
  BY DEF Init, EventsAreEarned, StatusIsEarned, Earned
<1> QED BY <1>1, <1>2, <1>3, <1>4, <1>5 DEF Facts

LEMMA NextFacts == ASSUME Facts, [Next]_vars PROVE Facts'
<1>1. CASE UNCHANGED vars
  <2> USE DEF vars, orderVars, workflowVars, ledgerVars
  <2>1. Control'
    BY <1>1, NextControl DEF Facts
  <2> QED BY <1>1, <2>1, BystanderFacts
          DEF Facts, EventsAreEarned, StatusIsEarned
<1> QED BY <1>1, WorkflowStepFacts, WorkersFacts, ConsumerFacts, CancelFacts
        DEF Next

\* Facts is an inductive invariant.
THEOREM FactsInvariant == Spec => []Facts
<1>1. Init => Facts
  BY InitFacts
<1>2. Facts /\ [Next]_vars => Facts'
  BY NextFacts
<1> QED BY <1>1, <1>2, PTL DEF Spec

----------------------------------------------------------------------------
\* The stored status never claims more than what happened to the order.
THEOREM StatusEarned == Spec => []StatusIsEarned
<1>1. Facts => StatusIsEarned
  BY DEF Facts
<1> QED BY <1>1, FactsInvariant, PTL

\* Nothing is shipped, nor about to be, for an order that is not confirmed or
\* whose payment the workflow does not hold.
THEOREM ShippedIsPaidAndConfirmed == Spec => []ShipsOnlyPaidAndConfirmed
<1>1. Facts => ShipsOnlyPaidAndConfirmed
  <2> SUFFICES ASSUME Facts, shippedBy # {} \/ \E r \in running : r.step = "Ship"
               PROVE  confirmed /\ paidWith # 0 /\ Recorded(paidWith)
    BY DEF ShipsOnlyPaidAndConfirmed
  <2>1. att["Ship"] > 0
    BY RunScheduled DEF Facts, LedgersAreCalled
  <2>2. Needs("Ship")
    BY <2>1 DEF Facts, CallsAreDue, ActivitySteps, TrySteps
  <2> QED BY <2>2 DEF Needs, Facts, LedgersAreCalled
<1> QED BY <1>1, FactsInvariant, PTL

\* Only the payment the workflow holds is refunded, and only after an error.
THEOREM OnlyHeldPaymentRefunded == Spec => []RefundsOnlyTheHeldPayment
<1>1. Facts => RefundsOnlyTheHeldPayment
  <2> SUFFICES ASSUME Facts, NEW n \in Attempts, payments[n] = "REFUNDED"
               PROVE  n = paidWith /\ error # "none"
    BY DEF RefundsOnlyTheHeldPayment
  <2>1. n = paidWith /\ att["Refund"] > 0
    BY DEF Facts, LedgersAreCalled
  <2>2. Needs("Refund")
    BY <2>1 DEF Facts, CallsAreDue, ActivitySteps, CatchSteps
  <2> QED BY <2>1, <2>2 DEF Needs, CatchSteps
<1> QED BY <1>1, FactsInvariant, PTL

\* An order whose workflow completed keeps its reservation, its payment and
\* its shipment.
THEOREM CompletedKeepsEffects == Spec => []CompletedKeepsItsEffects
<1>1. Facts => CompletedKeepsItsEffects
  <2> SUFFICES ASSUME Facts, wf = "Completed"
               PROVE  /\ reservedBy # {}
                      /\ releasedBy = {}
                      /\ payments[paidWith] = "COMPLETED"
                      /\ shippedBy # {}
                      /\ "ORDER_CONFIRMED" \in notified
    BY DEF CompletedKeepsItsEffects
  <2>1. Needs("Completed") /\ error = "none"
    BY DEF Facts, CallsAreDue, NoErrorYet
  <2>2. \A s \in CatchSteps : ~(att[s] > 0)
    BY <2>1 DEF Facts, CallsAreDue, Needs, ActivitySteps
  <2>3. releasedBy = {}
    BY <2>2 DEF Facts, LedgersAreCalled, CatchSteps
  <2>4. paidWith \in Attempts /\ Recorded(paidWith)
    BY <2>1 DEF Needs, Facts, LedgersAreCalled, Control, TypeOK
  <2>5. payments[paidWith] # "REFUNDED"
    BY <2>2, <2>4 DEF Facts, LedgersAreCalled, CatchSteps
  <2> QED BY <2>1, <2>3, <2>4, <2>5 DEF Needs, Recorded
<1> QED BY <1>1, FactsInvariant, PTL

----------------------------------------------------------------------------
\* Compensation.  Undone adds to Facts what makes CompensatedOrExhausted
\* inductive: the workflow holds a payment only from the call after Pay on, so
\* a catch block entered before that has nothing to refund, and the result of
\* a compensation stands on the write it reports.
RefundTried ==
    paidWith # 0 =>
        payments[paidWith] = "REFUNDED" \/ att["Refund"] = MaxAttempts

ReleaseTried ==
    att["MarkReserved"] > 0 =>
        releasedBy # {} \/ att["Release"] = MaxAttempts

HeldAfterPay == paidWith # 0 => Rank(wf) >= Rank("MarkPaid")

UndoResults ==
    \A r \in running :
        /\ r.step = "Refund" /\ r.phase = "ok" => payments[paidWith] = "REFUNDED"
        /\ r.step = "Release" /\ r.phase \in {"saved", "ok"} => releasedBy # {}

TriedInOrder ==
    ~cancelReq =>
        /\ wf \in {"Release", "Cancel", "NotifyCancelled", "Failed"} =>
               RefundTried
        /\ wf \in {"Cancel", "NotifyCancelled", "Failed"} => ReleaseTried

Undone == HeldAfterPay /\ UndoResults /\ TriedInOrder

\* Where the catch block goes from each call.
LEMMA UnwindTarget ==
    ASSUME Control, NEW others, others \subseteq running,
           wf \in (ActivitySteps \ {"Cancel", "NotifyCancelled"})
                     \cup {"AwaitConfirm"},
           Unwind(comps, others)
    PROVE  /\ wf' \in {"Refund", "Release", "Cancel"}
           /\ att' = [att EXCEPT ![wf'] = 1]
           /\ wf' = "Release" => wf \in {"MarkReserved", "Pay", "Refund"}
           /\ wf' = "Cancel" => wf \in {"Reserve", "Release"}
<1>0. comps = StackAt(wf)
  BY DEF Control, StackMatchesCall, ActivitySteps, TrySteps, CatchSteps, Closed
<1>1. CASE comps = <<>>
  <2>1. wf' = "Cancel" /\ att' = [att EXCEPT !["Cancel"] = 1]
    BY <1>1 DEF Unwind, Goto, ActivitySteps, CatchSteps
  <2>2. wf \in {"Reserve", "Release"}
    BY <1>0, <1>1, StackValues, StacksDiffer
       DEF ActivitySteps, TrySteps, CatchSteps
  <2> QED BY <2>1, <2>2
<1>2. CASE comps = <<"Release">>
  <2>1. Goto("Release", others)
    BY <1>2 DEF Unwind
  <2>2. wf' = "Release" /\ att' = [att EXCEPT !["Release"] = 1]
    BY <2>1 DEF Goto, ActivitySteps, CatchSteps
  <2>3. wf \in {"MarkReserved", "Pay", "Refund"}
    BY <1>0, <1>2, StackValues, StacksDiffer
       DEF ActivitySteps, TrySteps, CatchSteps
  <2> QED BY <2>2, <2>3
<1>3. CASE comps = <<"Release", "Refund">>
  <2>1. Goto("Refund", others)
    BY <1>3 DEF Unwind
  <2>2. wf' = "Refund" /\ att' = [att EXCEPT !["Refund"] = 1]
    BY <2>1 DEF Goto, ActivitySteps, CatchSteps
  <2> QED BY <2>2
<1> QED BY <1>1, <1>2, <1>3 DEF Control, TypeOK

\* The catch block goes on: what it leaves behind it has tried.
LEMMA UnwindTries ==
    ASSUME Facts, Undone, NEW others, others \subseteq running,
           wf \in (ActivitySteps \ {"Cancel", "NotifyCancelled"})
                     \cup {"AwaitConfirm"},
           Unwind(comps, others), ~cancelReq,
           UNCHANGED <<paidWith, releasedBy, payments>>,
           wf = "Refund" => RefundTried,
           wf = "Release" => ReleaseTried
    PROVE  HeldAfterPay' /\ TriedInOrder'
<1>1. /\ wf' \in {"Refund", "Release", "Cancel"}
      /\ att' = [att EXCEPT ![wf'] = 1]
      /\ wf' = "Release" => wf \in {"MarkReserved", "Pay", "Refund"}
      /\ wf' = "Cancel" => wf \in {"Reserve", "Release"}
  BY UnwindTarget DEF Facts
<1>2. att \in [ActivitySteps -> Nat] /\ paidWith \in Nat
  BY DEF Facts, Control, TypeOK, Attempts
<1>3. HeldAfterPay'
  BY <1>1, RankValues DEF HeldAfterPay
<1>4. wf \in {"Reserve", "MarkReserved", "Pay"} => paidWith = 0
  BY RankValues DEF Undone, HeldAfterPay
<1>5. wf = "Reserve" => att["MarkReserved"] = 0
  BY RankValues
     DEF Facts, Control, NotCalledYet, ActivitySteps, TrySteps
<1>6. wf' \in {"Release", "Cancel"} => RefundTried
  <2>1. wf = "Release" => RefundTried
    BY DEF Undone, TriedInOrder
  <2> QED BY <1>1, <1>4, <2>1 DEF RefundTried
<1>7. wf' = "Cancel" => ReleaseTried
  BY <1>1, <1>2, <1>5 DEF ReleaseTried
<1>8. wf' \in {"Release", "Cancel"} => RefundTried'
  BY <1>1, <1>2, <1>6 DEF RefundTried, ActivitySteps, CatchSteps
<1>9. wf' = "Cancel" => ReleaseTried'
  BY <1>1, <1>2, <1>7 DEF ReleaseTried, ActivitySteps, TrySteps, CatchSteps
<1> QED BY <1>1, <1>3, <1>8, <1>9 DEF TriedInOrder

\* The last call of the catch block is made or ends: nothing tried is undone.
LEMMA ClosingTries ==
    ASSUME Facts, Undone, NEW others,
           wf \in {"Cancel", "NotifyCancelled"},
           NEW step \in {"NotifyCancelled", "Failed"}, Goto(step, others),
           ~cancelReq, UNCHANGED <<paidWith, releasedBy, payments>>
    PROVE  HeldAfterPay' /\ TriedInOrder'
<1>1. /\ wf' = step
      /\ \A s \in ActivitySteps \ {"NotifyCancelled"} : att'[s] = att[s]
  BY DEF Goto, Closed, ActivitySteps, TrySteps, CatchSteps, Facts, Control, TypeOK
<1>2. RefundTried /\ ReleaseTried
  BY DEF Undone, TriedInOrder
<1>3. RefundTried' /\ ReleaseTried'
  BY <1>1, <1>2 DEF RefundTried, ReleaseTried, ActivitySteps, TrySteps, CatchSteps
<1>4. HeldAfterPay'
  BY <1>1, RankValues DEF HeldAfterPay, Closed
<1> QED BY <1>3, <1>4 DEF TriedInOrder

LEMMA RetryOrRejectTries ==
    ASSUME Facts, Undone, NEW others, others \subseteq running,
           wf \in ActivitySteps, RetryOrReject(others), ~cancelReq,
           UNCHANGED <<paidWith, releasedBy, payments>>
    PROVE  HeldAfterPay' /\ TriedInOrder'
<1>1. CASE att[wf] < MaxAttempts
  <2>1. wf' = wf /\ att' = [att EXCEPT ![wf] = att[wf] + 1]
    BY <1>1 DEF RetryOrReject
  <2>2. HeldAfterPay'
    BY <2>1 DEF Undone, HeldAfterPay
  <2>3. \A s \in ActivitySteps \ {wf} : att'[s] = att[s]
    BY <2>1 DEF Facts, Control, TypeOK
  <2>4. wf \in {"Release", "Cancel", "NotifyCancelled", "Failed"} =>
            RefundTried'
    BY <2>3 DEF Undone, TriedInOrder, RefundTried, ActivitySteps, TrySteps,
       CatchSteps
  <2>5. wf \in {"Cancel", "NotifyCancelled", "Failed"} => ReleaseTried'
    BY <2>3 DEF Undone, TriedInOrder, ReleaseTried, ActivitySteps, TrySteps,
       CatchSteps
  <2> QED BY <2>1, <2>2, <2>4, <2>5 DEF TriedInOrder
<1>2. CASE ~(att[wf] < MaxAttempts)
  <2>0. att[wf] = MaxAttempts
    BY <1>2 DEF Facts, Control, TypeOK
  <2>1. CallRejects(others)
    BY <1>2 DEF RetryOrReject
  <2>2. CASE wf \in TrySteps \cup {"Refund", "Release"} /\ Unwind(comps, others)
    BY <2>0, <2>2, UnwindTries
       DEF RefundTried, ReleaseTried, ActivitySteps, TrySteps, CatchSteps
  <2>3. CASE wf \in {"Cancel", "NotifyCancelled"} /\ Goto("Failed", others)
    BY <2>3, ClosingTries
  <2> QED BY <2>1, <2>2, <2>3 DEF CallRejects
<1> QED BY <1>1, <1>2

\* A workflow step schedules attempts and ends them; the results still under
\* way stay true.
LEMMA SchedulesResults ==
    ASSUME Facts, Undone, Schedules, UNCHANGED <<releasedBy, payments>>,
           paidWith' # paidWith => att["Refund"] = 0
    PROVE  UndoResults'
<1> SUFFICES ASSUME NEW r \in running'
             PROVE  /\ r.step = "Refund" /\ r.phase = "ok" =>
                           payments[paidWith'] = "REFUNDED"
                    /\ r.step = "Release" /\ r.phase \in {"saved", "ok"} =>
                           releasedBy # {}
  BY DEF UndoResults
<1>1. CASE r \in running
  <2>1. r.step = "Refund" => paidWith' = paidWith
    BY <1>1, RunScheduled
  <2> QED BY <1>1, <2>1 DEF Undone, UndoResults
<1>2. CASE r \notin running
  <2>1. r.phase = "start"
    BY <1>2 DEF Schedules, Run
  <2> QED BY <2>1
<1> QED BY <1>1, <1>2

LEMMA CompleteTries ==
    ASSUME Facts, Undone, NEW r \in running, CompleteActivity(r)
    PROVE  HeldAfterPay' /\ TriedInOrder'
<1>0. /\ r.step = wf /\ wf \in ActivitySteps /\ r.n \in Attempts
      /\ r.phase = "ok" /\ Current(r)
      /\ UNCHANGED <<cancelReq, releasedBy, payments>>
  BY RunScheduled DEF CompleteActivity, Current, ledgerVars
<1>1. CASE wf \in {"Refund", "Release"}
  <2>1. ~cancelReq /\ paidWith' = paidWith /\ Unwind(comps, running \ {r})
    BY <1>0, <1>1 DEF CompleteActivity
  <2>2. /\ wf = "Refund" => RefundTried
        /\ wf = "Release" => ReleaseTried
    BY <1>0 DEF Undone, UndoResults, RefundTried, ReleaseTried
  <2> QED BY <1>0, <1>1, <2>1, <2>2, UnwindTries
          DEF ActivitySteps, TrySteps, CatchSteps
<1>2. CASE wf \in {"Cancel", "NotifyCancelled"}
  <2>1. ~cancelReq /\ paidWith' = paidWith
    BY <1>0, <1>2 DEF CompleteActivity
  <2>2. /\ NextStep[wf] \in {"NotifyCancelled", "Failed"}
        /\ Goto(NextStep[wf], running \ {r})
    BY <1>0, <1>2 DEF CompleteActivity, NextStep
  <2> QED BY <1>0, <1>2, <2>1, <2>2, ClosingTries
<1>3. CASE wf \in TrySteps
  <2>1. wf' = NextStep[wf] /\ (wf = "Pay" \/ paidWith' = paidWith)
    BY <1>0, <1>3, GotoCall DEF CompleteActivity, TrySteps
  <2>2. wf' \notin {"Release", "Cancel", "NotifyCancelled", "Failed"}
    BY <1>3, <2>1 DEF NextStep, TrySteps
  <2>3. Rank(wf') = Rank(wf) + 1 \/ Rank(wf') = 14
    BY <1>3, <2>1, RankValues DEF NextStep, TrySteps, Closed
  <2>4. HeldAfterPay'
    BY <2>1, <2>3, RankValues, RankType DEF Undone, HeldAfterPay
  <2> QED BY <2>2, <2>4 DEF TriedInOrder
<1> QED BY <1>0, <1>1, <1>2, <1>3 DEF ActivitySteps, CatchSteps

LEMMA WorkflowUndone ==
    ASSUME Facts, Undone, Workflow
    PROVE  Undone'
<1> USE DEF orderVars, workflowVars, ledgerVars
<1>1. CASE StartWorkflow
  <2>1. wf = "NotStarted" /\ wf' = "Reserve"
    BY <1>1, GotoCall DEF StartWorkflow
  <2>2. paidWith = 0
    BY <2>1, RankValues DEF Undone, HeldAfterPay
  <2>3. HeldAfterPay' /\ TriedInOrder'
    BY <1>1, <2>1, <2>2 DEF StartWorkflow, HeldAfterPay, TriedInOrder
  <2>4. Schedules
    <3>1. Rank("Reserve") > Rank(wf) /\ "Reserve" \in ActivitySteps
      BY <2>1, RankValues DEF ActivitySteps, TrySteps
    <3>2. att["Reserve"] = 0
      BY <3>1 DEF Facts, Control, NotCalledYet
    <3> QED BY <1>1, <3>1, <3>2 DEF StartWorkflow, Goto, Schedules
  <2> QED BY <1>1, <2>3, <2>4, SchedulesResults DEF StartWorkflow, Undone
<1>2. CASE SignalConfirm
  BY <1>2 DEF SignalConfirm, Undone, HeldAfterPay, UndoResults, TriedInOrder,
     RefundTried, ReleaseTried
<1>3. CASE ConfirmationArrives
  <2>1. wf = "AwaitConfirm" /\ wf' = "Confirm"
    BY <1>3, GotoCall DEF ConfirmationArrives
  <2>2. HeldAfterPay' /\ TriedInOrder'
    BY <2>1, RankValues DEF HeldAfterPay, TriedInOrder
  <2>3. Schedules
    <3>1. Rank("Confirm") > Rank(wf) /\ "Confirm" \in ActivitySteps
      BY <2>1, RankValues DEF ActivitySteps, TrySteps
    <3>2. att["Confirm"] = 0
      BY <3>1 DEF Facts, Control, NotCalledYet
    <3> QED BY <1>3, <3>1, <3>2 DEF ConfirmationArrives, Goto, Schedules
  <2> QED BY <1>3, <2>2, <2>3, SchedulesResults DEF ConfirmationArrives, Undone
<1>4. CASE ConfirmationTimesOut
  <2>1. /\ wf = "AwaitConfirm" /\ Unwind(comps, running) /\ ~cancelReq
        /\ UNCHANGED <<paidWith, releasedBy, payments>>
    BY <1>4 DEF ConfirmationTimesOut
  <2>2. HeldAfterPay' /\ TriedInOrder'
    BY <2>1, UnwindTries
  <2>3. ControlStep
    BY <2>1, UnwindControl DEF Facts
  <2> QED BY <2>1, <2>2, <2>3, SchedulesResults DEF ControlStep, Undone
<1>5. CASE TimeOutActivity
  <2>1. /\ wf \in ActivitySteps /\ RetryOrReject(running) /\ ~cancelReq
        /\ UNCHANGED <<paidWith, releasedBy, payments>>
    BY <1>5 DEF TimeOutActivity
  <2>2. HeldAfterPay' /\ TriedInOrder'
    BY <2>1, RetryOrRejectTries
  <2>3. ControlStep
    BY <2>1, RetryOrRejectControl DEF Facts
  <2> QED BY <2>1, <2>2, <2>3, SchedulesResults DEF ControlStep, Undone
<1>6. CASE WorkflowCancelled
  <2>1. /\ wf' \in Closed /\ att' = att /\ running' = running /\ cancelReq'
        /\ UNCHANGED <<paidWith, releasedBy, payments>>
    BY <1>6 DEF WorkflowCancelled, Closed
  <2>2. HeldAfterPay'
    BY <2>1, RankValues DEF HeldAfterPay
  <2> QED BY <2>1, <2>2 DEF Undone, UndoResults, TriedInOrder
<1>7. ASSUME NEW r \in running,
             CompleteActivity(r) \/ FailActivity(r) \/ DropLateResult(r)
      PROVE  Undone'
  <2>1. CASE CompleteActivity(r)
    <3>1. /\ ControlStep
          /\ paidWith' # paidWith => att["Refund"] = 0
          /\ UNCHANGED <<releasedBy, payments>>
      BY <2>1, CompleteDue DEF CompleteActivity
    <3> QED BY <2>1, <3>1, CompleteTries, SchedulesResults
            DEF ControlStep, Undone
  <2>2. CASE FailActivity(r)
    <3>1. /\ wf \in ActivitySteps /\ RetryOrReject(running \ {r}) /\ ~cancelReq
          /\ UNCHANGED <<paidWith, releasedBy, payments>>
      BY <2>2, RunScheduled DEF FailActivity, Current
    <3>2. ControlStep
      BY <3>1, RetryOrRejectControl DEF Facts
    <3> QED BY <3>1, <3>2, RetryOrRejectTries, SchedulesResults
            DEF ControlStep, Undone
  <2>3. CASE DropLateResult(r)
    BY <2>3 DEF DropLateResult, Undone, HeldAfterPay, UndoResults,
       TriedInOrder, RefundTried, ReleaseTried
  <2> QED BY <1>7, <2>1, <2>2, <2>3
<1> QED BY <1>1, <1>2, <1>3, <1>4, <1>5, <1>6, <1>7 DEF Workflow

\* Everybody else leaves the workflow alone, and undoes no compensation.
LEMMA BystanderUndone ==
    ASSUME Undone, UNCHANGED <<wf, paidWith, att>>, cancelReq => cancelReq',
           releasedBy \subseteq releasedBy',
           paidWith # 0 /\ payments[paidWith] = "REFUNDED" =>
               payments'[paidWith] = "REFUNDED",
           UndoResults'
    PROVE  Undone'
BY DEF Undone, HeldAfterPay, TriedInOrder, RefundTried, ReleaseTried

\* A recorded refund is final: no attempt of Pay writes over it.
LEMMA RefundStays ==
    ASSUME Facts, NEW r \in running, Execute(r),
           paidWith # 0, payments[paidWith] = "REFUNDED"
    PROVE  payments'[paidWith] = "REFUNDED"
<1>0. /\ payments \in [Attempts -> PaymentStatus] /\ r.n \in Attempts
      /\ Real(r) /\ paidWith \in Attempts
  BY RunScheduled DEF Facts, Control, TypeOK
<1>1. CASE RecordPayment(r) \/ DeclinePayment(r)
  <2>1. payments[r.n] = "none"
    BY <1>0, <1>1 DEF RecordPayment, DeclinePayment, Step, Real
  <2>2. r.n # paidWith
    BY <2>1
  <2> QED BY <1>0, <1>1, <2>2 DEF RecordPayment, DeclinePayment
<1>2. CASE SaveRefund(r)
  BY <1>0, <1>2 DEF SaveRefund
<1>3. CASE ~(RecordPayment(r) \/ DeclinePayment(r) \/ SaveRefund(r))
  <2>1. payments' = payments
    BY <1>3 DEF Execute, WriteReservation, PublishReservation, WriteRelease,
       PublishRelease, ChargeGateway, LoadPayment, LoadOrder, SaveOrder,
       RequestPickup, SaveShipment, PublishShipment, NotifyUser, ledgerVars
  <2> QED BY <2>1
<1> QED BY <1>1, <1>2, <1>3

\* A compensation reports only what it wrote.
LEMMA ExecuteResults ==
    ASSUME Facts, Undone, NEW r \in running, Execute(r)
    PROVE  /\ UndoResults'
           /\ UNCHANGED <<wf, paidWith, att, cancelReq>>
           /\ releasedBy \subseteq releasedBy'
<1>0. /\ r \in Runs /\ r.n \in Attempts /\ UndoResults
      /\ payments \in [Attempts -> PaymentStatus]
  BY RunScheduled DEF Undone, Facts, Control, TypeOK
<1>1. /\ UNCHANGED <<wf, paidWith, att, cancelReq>>
      /\ releasedBy \subseteq releasedBy'
  BY DEF Execute, WriteReservation, PublishReservation, WriteRelease,
     PublishRelease, ChargeGateway, RecordPayment, DeclinePayment, LoadPayment,
     SaveRefund, LoadOrder, SaveOrder, RequestPickup, SaveShipment,
     PublishShipment, NotifyUser, workflowVars, ledgerVars
<1>2. PICK to \in Phases :
         running' = (running \ {r}) \cup {[r EXCEPT !.phase = to]}
  BY DEF Execute, WriteReservation, PublishReservation, WriteRelease,
     PublishRelease, ChargeGateway, RecordPayment, DeclinePayment, LoadPayment,
     SaveRefund, LoadOrder, SaveOrder, RequestPickup, SaveShipment,
     PublishShipment, NotifyUser, Step, Phases
<1>3. /\ [r EXCEPT !.phase = to].step = r.step
      /\ [r EXCEPT !.phase = to].phase = to
  BY <1>0 DEF Runs
<1>4. r.step = "Refund" /\ to = "ok" => payments'[paidWith] = "REFUNDED"
  <2> SUFFICES ASSUME r.step = "Refund", to = "ok"
               PROVE  payments'[paidWith] = "REFUNDED"
    OBVIOUS
  <2>1. LoadPayment(r) \/ SaveRefund(r)
    BY DEF Execute, WriteReservation, PublishReservation, WriteRelease,
       PublishRelease, ChargeGateway, RecordPayment, DeclinePayment, LoadOrder,
       SaveOrder, RequestPickup, SaveShipment, PublishShipment, NotifyUser,
       OrderSteps, Target
  <2>2. ~LoadPayment(r)
    <3> SUFFICES ASSUME LoadPayment(r) PROVE FALSE
      OBVIOUS
    <3>1. [r EXCEPT !.phase = to] \in running' /\ r.phase = "start"
      BY <1>2 DEF LoadPayment, Step
    <3>2. PICK p \in {"mid", "err"} :
             running' = (running \ {r}) \cup {[r EXCEPT !.phase = p]}
      BY DEF LoadPayment, Step
    <3>3. [r EXCEPT !.phase = p].phase = p /\ [r EXCEPT !.phase = p].n = r.n
          /\ [r EXCEPT !.phase = p].step = r.step
      BY <1>0 DEF Runs
    <3>4. [r EXCEPT !.phase = p] # r
      BY <3>1, <3>3
    <3>5. [r EXCEPT !.phase = p] \notin running
      BY <1>0, <3>3, <3>4 DEF Facts, RunsUnique
    <3> QED BY <1>2, <1>3, <3>2, <3>3, <3>5
  <2>3. paidWith \in Attempts
    BY RunScheduled DEF Needs, CatchSteps, Facts, Control, TypeOK
  <2> QED BY <1>0, <2>1, <2>2, <2>3 DEF SaveRefund
<1>5. r.step = "Release" /\ to \in {"saved", "ok"} => releasedBy' # {}
  <2> SUFFICES ASSUME r.step = "Release", to \in {"saved", "ok"}
               PROVE  releasedBy' # {}
    OBVIOUS
  <2>1. WriteRelease(r) \/ PublishRelease(r)
    BY DEF Execute, WriteReservation, PublishReservation, LoadPayment,
       SaveRefund, ChargeGateway, RecordPayment, DeclinePayment, LoadOrder,
       SaveOrder, RequestPickup, SaveShipment, PublishShipment, NotifyUser,
       OrderSteps, Target
  <2>2. CASE WriteRelease(r)
    BY <2>2 DEF WriteRelease
  <2>3. CASE PublishRelease(r)
    BY <1>0, <1>1, <2>3 DEF PublishRelease, Step, UndoResults
  <2> QED BY <2>1, <2>2, <2>3
<1>6. ASSUME NEW q \in running
      PROVE  /\ q.step = "Refund" /\ q.phase = "ok" =>
                    payments'[paidWith] = "REFUNDED"
             /\ q.step = "Release" /\ q.phase \in {"saved", "ok"} =>
                    releasedBy' # {}
  <2>1. q.step = "Refund" => paidWith # 0
    BY RunScheduled DEF Needs
  <2> QED BY <1>0, <1>1, <2>1, RefundStays DEF UndoResults
<1> QED BY <1>1, <1>2, <1>3, <1>4, <1>5, <1>6 DEF UndoResults

LEMMA WorkersUndone == ASSUME Facts, Undone, Workers PROVE Undone'
<1>1. PICK r \in running : Execute(r) \/ AttemptThrows(r) \/ WorkerCrash(r)
  BY DEF Workers
<1>2. CASE Execute(r)
  BY <1>2, ExecuteResults, RefundStays, BystanderUndone
<1>3. CASE AttemptThrows(r)
  <2>1. r \in Runs
    BY RunScheduled
  <2>2. [r EXCEPT !.phase = "err"].phase = "err"
    BY <2>1 DEF Runs
  <2>3. UndoResults'
    BY <1>3, <2>2
       DEF AttemptThrows, workflowVars, ledgerVars, Undone, UndoResults
  <2> QED BY <1>3, <2>3, BystanderUndone
          DEF AttemptThrows, workflowVars, ledgerVars
<1>4. CASE WorkerCrash(r)
  <2>1. UndoResults'
    BY <1>4 DEF WorkerCrash, workflowVars, ledgerVars, Undone, UndoResults
  <2> QED BY <1>4, <2>1, BystanderUndone
          DEF WorkerCrash, workflowVars, ledgerVars
<1> QED BY <1>1, <1>2, <1>3, <1>4

LEMMA OthersUndone ==
    ASSUME Undone, Consumer \/ CancelEndpoint \/ UNCHANGED vars
    PROVE  Undone'
<1>1. /\ UNCHANGED <<wf, paidWith, att, running, releasedBy, payments>>
      /\ cancelReq => cancelReq'
  <2>1. CASE Consumer
    BY <2>1 DEF Consumer, DeliverShipment, SyncLoad, SyncSave, SyncFails,
       workflowVars, ledgerVars
  <2>2. CASE CancelEndpoint
    <3>1. PICK c \in Cancellers :
             CancelLoad(c) \/ CancelStopsWorkflow(c) \/ CancelSaves(c)
      BY <2>2 DEF CancelEndpoint
    <3>2. CASE CancelLoad(c) \/ CancelSaves(c)
      BY <3>2 DEF CancelLoad, CancelSaves, workflowVars, ledgerVars
    <3>3. CASE CancelStopsWorkflow(c)
      <4>1. /\ UNCHANGED <<wf, paidWith, att, running, ledgerVars>>
            /\ cancelReq' = (cancelReq \/ wf \notin Closed \cup {"NotStarted"})
        BY <3>3 DEF CancelStopsWorkflow
      <4>2. cancelReq => cancelReq'
        BY <4>1, Zenon
      <4> QED BY <4>1, <4>2 DEF ledgerVars
    <3> QED BY <3>1, <3>2, <3>3
  <2>3. CASE UNCHANGED vars
    BY <2>3 DEF vars, workflowVars, ledgerVars
  <2> QED BY <2>1, <2>2, <2>3
<1>2. UndoResults'
  BY <1>1 DEF Undone, UndoResults
<1> QED BY <1>1, <1>2, BystanderUndone

\* Facts and Undone are inductive together.
THEOREM UndoneInvariant == Spec => [](Facts /\ Undone)
<1>1. Init => Facts /\ Undone
  BY InitFacts DEF Init, Undone, HeldAfterPay, UndoResults, TriedInOrder
<1>2. Facts /\ Undone /\ [Next]_vars => Facts' /\ Undone'
  BY NextFacts, WorkflowUndone, WorkersUndone, OthersUndone DEF Next
<1> QED BY <1>1, <1>2, PTL DEF Spec

\* Without a cancel request no compensation is skipped and none runs out of
\* order: the release starts after the refund was made or given up, cancelOrder
\* after the release was.
THEOREM CompensationsTried == Spec => []CompensatedOrExhausted
<1>1. Undone => CompensatedOrExhausted
  BY DEF Undone, TriedInOrder, RefundTried, ReleaseTried, CompensatedOrExhausted
<1> QED BY <1>1, UndoneInvariant, PTL

----------------------------------------------------------------------------
\* The saga implements OrderLifecycle.  Facts says what each write stands on,
\* which is what the abstract order of things requires; what is left is to
\* match the steps.

\* The calls of a saga that is neither undone nor over.
Going == TrySteps \cup {"AwaitConfirm"}

LEMMA StageOf ==
    ASSUME TypeOK
    PROVE  /\ Stage = "placed" <=> wf = "NotStarted"
           /\ Stage = "going" <=> wf \in Going
           /\ Stage = "undoing" <=> wf \in CatchSteps
           /\ Stage = "completed" <=> wf = "Completed"
           /\ Stage = "closed" <=> wf \in {"Failed", "Cancelled"}
<1>1. CASE wf = "NotStarted"
  BY <1>1 DEF Stage, Going, TrySteps, CatchSteps
<1>2. CASE wf \in CatchSteps
  BY <1>2 DEF Stage, Going, TrySteps, CatchSteps
<1>3. CASE wf \in Closed
  BY <1>3 DEF Stage, Going, TrySteps, CatchSteps, Closed
<1>4. CASE wf \in Going
  BY <1>4 DEF Stage, Going, TrySteps, CatchSteps
<1> QED BY <1>1, <1>2, <1>3, <1>4 DEF TypeOK, ActivitySteps, Going

\* Where a workflow step leads.
Moves ==
    \/ wf' = wf
    \/ wf = "NotStarted" /\ wf' = "Reserve"
    \/ wf \in Going /\ wf' \in Going \cup CatchSteps \cup {"Cancelled"}
    \/ wf = "NotifyConfirmed" /\ wf' = "Completed"
    \/ wf \in CatchSteps /\ wf' \in CatchSteps \cup {"Failed"}

LEMMA RetryOrRejectMoves ==
    ASSUME Facts, NEW others \in SUBSET running, wf \in ActivitySteps,
           RetryOrReject(others)
    PROVE  Moves
<1>1. CASE wf' = wf
  BY <1>1 DEF Moves
<1>2. CASE CallRejects(others)
  <2>1. CASE wf \in TrySteps /\ Unwind(comps, others)
    BY <2>1, UnwindControl DEF Facts, Moves, Going, ActivitySteps, TrySteps, CatchSteps
  <2>2. CASE wf \in {"Refund", "Release"} /\ Unwind(comps, others)
    BY <2>2, UnwindControl DEF Facts, Moves, ActivitySteps, CatchSteps
  <2>3. CASE wf \in {"Cancel", "NotifyCancelled"} /\ Goto("Failed", others)
    BY <2>3, GotoCall DEF Moves, CatchSteps
  <2> QED BY <1>2, <2>1, <2>2, <2>3 DEF CallRejects
<1> QED BY <1>1, <1>2 DEF RetryOrReject

LEMMA CompleteMoves ==
    ASSUME Facts, NEW r \in running, CompleteActivity(r)
    PROVE  Moves
<1>0. r.step = wf /\ wf \in ActivitySteps
  BY RunScheduled DEF CompleteActivity, Current
<1>1. CASE wf \in {"Refund", "Release"}
  <2>1. Unwind(comps, running \ {r})
    BY <1>0, <1>1 DEF CompleteActivity
  <2> QED BY <1>1, <2>1, UnwindControl DEF Facts, Moves, ActivitySteps, CatchSteps
<1>2. CASE wf \notin {"Refund", "Release"}
  <2>1. wf' = NextStep[wf]
    BY <1>0, <1>2, GotoCall DEF CompleteActivity
  <2> QED BY <1>0, <1>2, <2>1
          DEF NextStep, Moves, Going, ActivitySteps, TrySteps, CatchSteps
<1> QED BY <1>1, <1>2

LEMMA WorkflowMoves == ASSUME Facts, Workflow PROVE Moves
<1>1. CASE StartWorkflow
  BY <1>1, GotoCall DEF StartWorkflow, Moves
<1>2. CASE SignalConfirm
  BY <1>2 DEF SignalConfirm, Moves
<1>3. CASE ConfirmationArrives
  BY <1>3, GotoCall DEF ConfirmationArrives, Moves, Going, TrySteps
<1>4. CASE ConfirmationTimesOut
  BY <1>4, UnwindControl
     DEF ConfirmationTimesOut, Facts, Moves, Going, CatchSteps
<1>5. CASE TimeOutActivity
  BY <1>5, RetryOrRejectMoves DEF TimeOutActivity
<1>6. CASE WorkflowCancelled
  BY <1>6 DEF WorkflowCancelled, Moves, Going, ActivitySteps
<1>7. ASSUME NEW r \in running,
             CompleteActivity(r) \/ FailActivity(r) \/ DropLateResult(r)
      PROVE  Moves
  <2>1. CASE CompleteActivity(r)
    BY <2>1, CompleteMoves
  <2>2. CASE FailActivity(r)
    <3>1. wf \in ActivitySteps /\ RetryOrReject(running \ {r})
      BY <2>2, RunScheduled DEF FailActivity, Current
    <3> QED BY <3>1, RetryOrRejectMoves
  <2>3. CASE DropLateResult(r)
    BY <2>3 DEF DropLateResult, workflowVars, Moves
  <2> QED BY <1>7, <2>1, <2>2, <2>3
<1> QED BY <1>1, <1>2, <1>3, <1>4, <1>5, <1>6, <1>7 DEF Workflow

----------------------------------------------------------------------------
\* The effects the lifecycle knows, and when each is done.
Effects == {"asked", "confirmed", "reserved", "charged", "paid", "shipped",
            "told", "delivered", "refunded", "released"}

LEMMA DoneIs ==
    /\ Done \subseteq Effects
    /\ "asked" \in Done <=> \E c \in Cancellers : cancelAt[c] # "idle"
    /\ "confirmed" \in Done <=> confirmed
    /\ "reserved" \in Done <=> reservedBy # {}
    /\ "charged" \in Done <=> charged # {}
    /\ "paid" \in Done <=> \E n \in Attempts : Recorded(n)
    /\ "shipped" \in Done <=> shippedBy # {}
    /\ "told" \in Done <=> "ORDER_CONFIRMED" \in notified
    /\ "delivered" \in Done <=> "shipment.delivered" \in events
    /\ "refunded" \in Done <=> \E n \in Attempts : payments[n] = "REFUNDED"
    /\ "released" \in Done <=> releasedBy # {}
BY DEF Done, Happened, Effects

LEMMA RequiresIs ==
    /\ DOMAIN Lifecycle!Requires = Effects
    /\ Lifecycle!Requires["asked"] = {}
    /\ Lifecycle!Requires["confirmed"] = {}
    /\ Lifecycle!Requires["reserved"] = {}
    /\ Lifecycle!Requires["charged"] = {"reserved"}
    /\ Lifecycle!Requires["paid"] = {"charged"}
    /\ Lifecycle!Requires["shipped"] = {"paid", "confirmed"}
    /\ Lifecycle!Requires["told"] = {"shipped"}
    /\ Lifecycle!Requires["delivered"] = {"shipped"}
    /\ Lifecycle!Requires["refunded"] = {"paid"}
    /\ Lifecycle!Requires["released"] = {"reserved"}
BY DEF Lifecycle!Requires, Effects

LEMMA DoneStays ==
    ASSUME UNCHANGED <<cancelAt, confirmed, ledgerVars>>
    PROVE  Done' = Done
<1>1. \A e : Happened(e)' <=> Happened(e)
  BY DEF Happened, Recorded, ledgerVars
<1> QED BY <1>1 DEF Done

\* A step that does nothing but one of these things implements Happen.
LEMMA HappenStep ==
    ASSUME NEW e \in Effects,
           Happened(e)',
           \A f \in Effects \ {e} : Happened(f)' <=> Happened(f),
           UNCHANGED <<Stage, status>>,
           e \notin Done =>
               /\ Lifecycle!Requires[e] \subseteq Done
               /\ e # "asked" => Stage # "placed"
               /\ Stage = "completed" => e \in {"asked", "delivered"}
               /\ e = "confirmed" => Stage \in {"going", "undoing"}
               /\ e \in {"refunded", "released"} => Stage \in {"undoing", "closed"}
    PROVE  [Lifecycle!Next]_(Lifecycle!vars)
<1>1. Done' = Done \cup {e}
  BY DEF Done, Effects
<1>2. CASE e \in Done
  BY <1>1, <1>2 DEF Lifecycle!vars
<1>3. CASE e \notin Done
  BY <1>1, <1>3, RequiresIs DEF Lifecycle!Next, Lifecycle!Happen
<1> QED BY <1>2, <1>3

\* A step that only stores a status implements Show.
LEMMA ShowStep ==
    ASSUME NEW st \in Status \ {"PENDING"}, status' = st,
           UNCHANGED <<Stage, Done>>,
           Lifecycle!StandsFor[st] \subseteq Done,
           st = "CANCELLED" => "asked" \in Done \/ Stage \in {"undoing", "closed"}
    PROVE  [Lifecycle!Next]_(Lifecycle!vars)
<1>1. st \in DOMAIN Lifecycle!StandsFor
  BY DEF Lifecycle!StandsFor, Status
<1> QED BY <1>1 DEF Lifecycle!Next, Lifecycle!Show

\* What a status stands for was done by the time it is earned.
LEMMA EarnedStandsFor ==
    ASSUME NEW st \in Status, Earned(st),
           st = "DELIVERED" => "shipment.delivered" \in events
    PROVE  Lifecycle!StandsFor[st] \subseteq Done
BY DoneIs DEF Status, Earned, Lifecycle!StandsFor

----------------------------------------------------------------------------
\* An attempt runs only in a workflow that has begun, and a compensation or
\* cancelOrder only in one that has caught an error.
LEMMA CalledStage ==
    ASSUME Facts, NEW s \in ActivitySteps, att[s] > 0
    PROVE  /\ Stage # "placed"
           /\ s \in CatchSteps => Stage \in {"undoing", "closed"}
<1>0. TypeOK
  BY DEF Facts, Control
<1>1. wf # "NotStarted"
  <2> SUFFICES ASSUME wf = "NotStarted" PROVE FALSE
    OBVIOUS
  <2>1. Rank(s) > Rank(wf)
    BY RankOfCalls, RankValues
  <2> QED BY <2>1 DEF Facts, Control, NotCalledYet
<1>2. s \in CatchSteps => wf \notin Going \cup {"Completed"}
  BY DEF Facts, CallsAreDue, Needs, NoErrorYet, Going
<1>3. wf \in Going \cup CatchSteps \cup Closed
  BY <1>0, <1>1 DEF TypeOK, ActivitySteps, Going
<1> QED BY <1>0, <1>1, <1>2, <1>3, StageOf DEF Closed

\* A completed workflow has done all it had to do.
LEMMA CompletedHasDone ==
    ASSUME Facts, Stage = "completed"
    PROVE  {"confirmed", "reserved", "charged", "paid", "shipped", "told"}
               \subseteq Done
<1>1. wf = "Completed" /\ Needs("Completed")
  BY StageOf DEF Facts, Control, CallsAreDue
<1>2. paidWith \in Attempts /\ Recorded(paidWith)
  BY <1>1 DEF Needs, Facts, LedgersAreCalled, Control, TypeOK
<1>3. charged # {}
  BY <1>2 DEF Facts, LedgersAreCalled
<1> QED BY <1>1, <1>2, <1>3, DoneIs DEF Needs

LEMMA WorkflowLifecycle ==
    ASSUME Facts, Workflow, Facts'
    PROVE  [Lifecycle!Next]_(Lifecycle!vars)
<1>0. TypeOK /\ TypeOK' /\ Moves
  BY WorkflowMoves DEF Facts, Control
<1>1. CASE SignalConfirm
  <2>1. wf \notin Closed \cup {"NotStarted"} /\ confirmed'
    BY <1>1 DEF SignalConfirm
  <2>2. wf \in Going \cup CatchSteps
    BY <1>0, <2>1 DEF TypeOK, ActivitySteps, Going
  <2>3. Stage \in {"going", "undoing"}
    BY <1>0, <2>2, StageOf
  <2>4. UNCHANGED <<Stage, status>>
    BY <1>1 DEF SignalConfirm, orderVars, Stage
  <2>5. /\ Happened("confirmed")'
        /\ \A f \in Effects \ {"confirmed"} : Happened(f)' <=> Happened(f)
    BY <1>1, <2>1 DEF SignalConfirm, orderVars, ledgerVars, Happened, Recorded
  <2> QED BY <2>3, <2>4, <2>5, HappenStep, RequiresIs DEF Effects
<1>2. CASE ~SignalConfirm
  <2>1. UNCHANGED <<cancelAt, confirmed, status, ledgerVars>>
    BY <1>2 DEF Workflow, StartWorkflow, ConfirmationArrives,
       ConfirmationTimesOut, TimeOutActivity, WorkflowCancelled,
       CompleteActivity, FailActivity, DropLateResult, orderVars, workflowVars
  <2>2. UNCHANGED <<Done, status>>
    BY <2>1, DoneStays
  <2>3. CASE wf' = wf
    BY <2>2, <2>3 DEF Stage, Lifecycle!vars
  <2>4. CASE wf = "NotStarted" /\ wf' = "Reserve"
    <3>1. Stage = "placed" /\ Stage' = "going"
      BY <2>4 DEF Stage, CatchSteps
    <3> QED BY <2>2, <3>1 DEF Lifecycle!Next, Lifecycle!Begin
  <2>5. CASE wf \in Going /\ wf' \in Going \cup CatchSteps \cup {"Cancelled"}
    <3>1. Stage = "going" /\ Stage' \in {"going", "undoing", "closed"}
      BY <1>0, <2>5, StageOf DEF Stage, Going, TrySteps, CatchSteps
    <3> QED BY <2>2, <3>1
            DEF Lifecycle!Next, Lifecycle!GiveUp, Lifecycle!Close, Lifecycle!vars
  <2>6. CASE wf = "NotifyConfirmed" /\ wf' = "Completed"
    <3>1. Stage = "going" /\ Stage' = "completed"
      BY <2>6 DEF Stage, CatchSteps
    <3>2. "ORDER_CONFIRMED" \in notified'
      BY <2>6 DEF Facts, CallsAreDue, Needs
    <3>3. "told" \in Done
      BY <2>1, <3>2, DoneIs DEF ledgerVars
    <3> QED BY <2>2, <3>1, <3>3 DEF Lifecycle!Next, Lifecycle!Complete
  <2>7. CASE wf \in CatchSteps /\ wf' \in CatchSteps \cup {"Failed"}
    <3>1. Stage = "undoing" /\ Stage' \in {"undoing", "closed"}
      BY <2>7 DEF Stage, CatchSteps
    <3> QED BY <2>2, <3>1 DEF Lifecycle!Next, Lifecycle!Close, Lifecycle!vars
  <2> QED BY <1>0, <2>3, <2>4, <2>5, <2>6, <2>7 DEF Moves
<1> QED BY <1>1, <1>2

\* What an attempt does for the order, given what it requires.
LEMMA AttemptHappens ==
    ASSUME Facts, NEW r \in running, UNCHANGED <<wf, status>>,
           NEW e \in {"reserved", "charged", "paid", "shipped", "told",
                      "refunded", "released"},
           Happened(e)',
           \A f \in Effects \ {e} : Happened(f)' <=> Happened(f),
           e \in {"refunded", "released"} => r.step \in CatchSteps,
           Lifecycle!Requires[e] \subseteq Done
    PROVE  [Lifecycle!Next]_(Lifecycle!vars)
<1>1. r.step \in ActivitySteps /\ att[r.step] > 0
  BY RunScheduled
<1>2. /\ Stage # "placed"
      /\ e \in {"refunded", "released"} => Stage \in {"undoing", "closed"}
  BY <1>1, CalledStage
<1>3. Stage = "completed" => e \in Done
  BY <1>2, CompletedHasDone
<1>4. UNCHANGED <<Stage, status>>
  BY DEF Stage
<1> QED BY <1>2, <1>3, <1>4, HappenStep DEF Effects

\* An attempt that leaves the ledgers and the row alone.
LEMMA SilentLifecycle ==
    ASSUME UNCHANGED <<orderVars, workflowVars, ledgerVars>>
    PROVE  [Lifecycle!Next]_(Lifecycle!vars)
<1>1. UNCHANGED <<Done, Stage, status>>
  BY DoneStays DEF orderVars, workflowVars, Stage
<1> QED BY <1>1 DEF Lifecycle!vars

LEMMA StockLifecycle ==
    ASSUME Facts, NEW r \in running,
           \/ WriteReservation(r) \/ PublishReservation(r)
           \/ WriteRelease(r) \/ PublishRelease(r)
    PROVE  [Lifecycle!Next]_(Lifecycle!vars)
<1>0. Needs(r.step)
  BY RunScheduled
<1> USE DEF orderVars, workflowVars
<1>1. CASE WriteReservation(r)
  <2>1. /\ Happened("reserved")'
        /\ \A f \in Effects \ {"reserved"} : Happened(f)' <=> Happened(f)
    BY <1>1 DEF WriteReservation, Happened, Recorded
  <2> QED BY <1>1, <2>1, AttemptHappens, RequiresIs DEF WriteReservation
<1>2. CASE PublishReservation(r)
  <2>1. UNCHANGED <<Done, Stage, status>>
    BY <1>2 DEF PublishReservation, Done, Happened, Recorded, Stage
  <2> QED BY <2>1 DEF Lifecycle!vars
<1>3. CASE WriteRelease(r)
  <2>1. /\ Happened("released")'
        /\ \A f \in Effects \ {"released"} : Happened(f)' <=> Happened(f)
    BY <1>3 DEF WriteRelease, Happened, Recorded
  <2>2. r.step \in CatchSteps /\ "reserved" \in Done
    BY <1>0, <1>3, DoneIs DEF WriteRelease, Needs, CatchSteps
  <2> QED BY <1>3, <2>1, <2>2, AttemptHappens, RequiresIs DEF WriteRelease
<1>4. CASE PublishRelease(r)
  BY <1>4, SilentLifecycle DEF PublishRelease
<1> QED BY <1>1, <1>2, <1>3, <1>4

LEMMA PaymentLifecycleStep ==
    ASSUME Facts, NEW r \in running,
           \/ ChargeGateway(r) \/ RecordPayment(r) \/ DeclinePayment(r)
           \/ LoadPayment(r) \/ SaveRefund(r)
    PROVE  [Lifecycle!Next]_(Lifecycle!vars)
<1>0. /\ Needs(r.step) /\ Real(r) /\ r.n \in Attempts
      /\ payments \in [Attempts -> PaymentStatus]
      /\ paidWith \in Attempts \cup {0}
  BY RunScheduled DEF Facts, Control, TypeOK
<1> USE DEF orderVars, workflowVars
<1>1. CASE ChargeGateway(r)
  <2>1. /\ Happened("charged")'
        /\ \A f \in Effects \ {"charged"} : Happened(f)' <=> Happened(f)
    BY <1>1 DEF ChargeGateway, Happened, Recorded
  <2>2. "reserved" \in Done
    BY <1>0, <1>1, DoneIs DEF ChargeGateway, Needs, TrySteps
  <2> QED BY <1>1, <2>1, <2>2, AttemptHappens, RequiresIs DEF ChargeGateway
<1>2. CASE RecordPayment(r)
  <2>1. /\ payments' = [payments EXCEPT ![r.n] = "COMPLETED"]
        /\ r.step = "Pay" /\ payments[r.n] = "none" /\ charged # {}
    BY <1>0, <1>2 DEF RecordPayment, Step, Real
  <2>2. /\ Recorded(r.n)'
        /\ \A n \in Attempts :
              payments'[n] = "REFUNDED" <=> payments[n] = "REFUNDED"
    BY <1>0, <2>1 DEF Recorded
  <2>3. /\ Happened("paid")'
        /\ \A f \in Effects \ {"paid"} : Happened(f)' <=> Happened(f)
    BY <1>0, <1>2, <2>2 DEF RecordPayment, Happened
  <2>4. "charged" \in Done
    BY <2>1, DoneIs
  <2> QED BY <1>2, <2>3, <2>4, AttemptHappens, RequiresIs DEF RecordPayment
<1>3. CASE DeclinePayment(r)
  <2>1. /\ payments' = [payments EXCEPT ![r.n] = "FAILED"]
        /\ r.step = "Pay" /\ payments[r.n] = "none"
    BY <1>0, <1>3 DEF DeclinePayment, Step, Real
  <2>2. \A n \in Attempts : /\ Recorded(n)' <=> Recorded(n)
                            /\ payments'[n] = "REFUNDED" <=> payments[n] = "REFUNDED"
    BY <1>0, <2>1 DEF Recorded
  <2>3. UNCHANGED <<Done, Stage, status>>
    BY <1>3, <2>2 DEF DeclinePayment, Done, Happened, Stage
  <2> QED BY <2>3 DEF Lifecycle!vars
<1>4. CASE LoadPayment(r)
  BY <1>4, SilentLifecycle DEF LoadPayment
<1>5. CASE SaveRefund(r)
  <2>1. /\ payments' = [payments EXCEPT ![paidWith] = "REFUNDED"]
        /\ r.step = "Refund" /\ paidWith \in Attempts /\ Recorded(paidWith)
    BY <1>0, <1>5 DEF SaveRefund, Needs, Facts, LedgersAreCalled
  <2>2. /\ payments'[paidWith] = "REFUNDED"
        /\ \A n \in Attempts : Recorded(n)' <=> Recorded(n)
    BY <1>0, <2>1 DEF Recorded
  <2>3. /\ Happened("refunded")'
        /\ \A f \in Effects \ {"refunded"} : Happened(f)' <=> Happened(f)
    BY <1>5, <2>1, <2>2 DEF SaveRefund, Happened
  <2>4. r.step \in CatchSteps /\ "paid" \in Done
    BY <2>1, DoneIs DEF CatchSteps
  <2> QED BY <1>5, <2>3, <2>4, AttemptHappens, RequiresIs DEF SaveRefund
<1> QED BY <1>1, <1>2, <1>3, <1>4, <1>5

LEMMA OrderLifecycleStep ==
    ASSUME Facts, NEW r \in running, LoadOrder(r) \/ SaveOrder(r)
    PROVE  [Lifecycle!Next]_(Lifecycle!vars)
<1>0. r.step \in OrderSteps /\ r.step \in ActivitySteps /\ att[r.step] > 0
  BY RunScheduled DEF LoadOrder, SaveOrder
<1>1. CASE LoadOrder(r)
  BY <1>1, SilentLifecycle DEF LoadOrder
<1>2. CASE SaveOrder(r)
  <2>1. Target[r.step] \in Status \ {"PENDING", "DELIVERED"}
    BY <1>0 DEF OrderSteps, Target, Status
  <2>2. Lifecycle!StandsFor[Target[r.step]] \subseteq Done
    BY <1>0, <2>1, TargetEarned, EarnedStandsFor
  <2>3. Target[r.step] = "CANCELLED" => r.step \in CatchSteps
    BY <1>0 DEF OrderSteps, Target, CatchSteps
  <2>4. Target[r.step] = "CANCELLED" => Stage \in {"undoing", "closed"}
    BY <1>0, <2>3, CalledStage
  <2>5. UNCHANGED <<Done, Stage>> /\ status' = Target[r.step]
    BY <1>2, DoneStays DEF SaveOrder, workflowVars, Stage
  <2> QED BY <2>1, <2>2, <2>4, <2>5, ShowStep
<1> QED BY <1>1, <1>2

LEMMA ShippingLifecycle ==
    ASSUME Facts, NEW r \in running,
           \/ RequestPickup(r) \/ SaveShipment(r) \/ PublishShipment(r)
           \/ NotifyUser(r)
    PROVE  [Lifecycle!Next]_(Lifecycle!vars)
<1>0. /\ Needs(r.step)
      /\ paidWith # 0 => paidWith \in Attempts /\ Recorded(paidWith)
  BY RunScheduled DEF Facts, LedgersAreCalled, Control, TypeOK
<1> USE DEF orderVars, workflowVars
<1>1. CASE RequestPickup(r)
  BY <1>1, SilentLifecycle DEF RequestPickup
<1>2. CASE SaveShipment(r)
  <2>1. /\ Happened("shipped")'
        /\ \A f \in Effects \ {"shipped"} : Happened(f)' <=> Happened(f)
    BY <1>2 DEF SaveShipment, Happened, Recorded
  <2>2. {"paid", "confirmed"} \subseteq Done
    BY <1>0, <1>2, DoneIs DEF SaveShipment, Needs
  <2> QED BY <1>2, <2>1, <2>2, AttemptHappens, RequiresIs DEF SaveShipment
<1>3. CASE PublishShipment(r)
  <2>1. UNCHANGED <<Done, Stage, status>>
    BY <1>3 DEF PublishShipment, Done, Happened, Recorded, Stage
  <2> QED BY <2>1 DEF Lifecycle!vars
<1>4. CASE NotifyUser(r) /\ r.step = "NotifyConfirmed"
  <2>1. /\ Happened("told")'
        /\ \A f \in Effects \ {"told"} : Happened(f)' <=> Happened(f)
    BY <1>4 DEF NotifyUser, Happened, Recorded
  <2>2. "shipped" \in Done
    BY <1>0, <1>4, DoneIs DEF Needs
  <2> QED BY <1>4, <2>1, <2>2, AttemptHappens, RequiresIs DEF NotifyUser
<1>5. CASE NotifyUser(r) /\ r.step # "NotifyConfirmed"
  BY <1>5, SilentLifecycle DEF NotifyUser, ledgerVars
<1> QED BY <1>1, <1>2, <1>3, <1>4, <1>5

LEMMA WorkersLifecycle ==
    ASSUME Facts, Workers PROVE [Lifecycle!Next]_(Lifecycle!vars)
<1>1. PICK r \in running : Execute(r) \/ AttemptThrows(r) \/ WorkerCrash(r)
  BY DEF Workers
<1>2. CASE Execute(r)
  BY <1>2, StockLifecycle, PaymentLifecycleStep, OrderLifecycleStep,
     ShippingLifecycle DEF Execute
<1>3. CASE AttemptThrows(r) \/ WorkerCrash(r)
  BY <1>3, SilentLifecycle DEF AttemptThrows, WorkerCrash
<1> QED BY <1>1, <1>2, <1>3

----------------------------------------------------------------------------
LEMMA ConsumerLifecycle ==
    ASSUME Facts, Consumer PROVE [Lifecycle!Next]_(Lifecycle!vars)
<1> USE DEF orderVars, workflowVars
<1>1. CASE DeliverShipment
  <2>1. /\ Happened("delivered")'
        /\ \A f \in Effects \ {"delivered"} : Happened(f)' <=> Happened(f)
    BY <1>1 DEF DeliverShipment, Happened, Recorded
  <2>2. shippedBy # {} /\ att["Ship"] > 0
    BY <1>1 DEF DeliverShipment, Facts, LedgersAreCalled
  <2>3. Stage # "placed"
    BY <2>2, CalledStage DEF ActivitySteps, TrySteps
  <2>4. "shipped" \in Done
    BY <2>2, DoneIs
  <2>5. UNCHANGED <<Stage, status>>
    BY <1>1 DEF DeliverShipment, Stage
  <2> QED BY <2>1, <2>3, <2>4, <2>5, HappenStep, RequiresIs DEF Effects
<1>2. ASSUME NEW e \in SyncEvents, SyncLoad(e) \/ SyncSave(e) \/ SyncFails(e)
      PROVE  [Lifecycle!Next]_(Lifecycle!vars)
  <2>1. CASE SyncSave(e)
    <3>1. e \in events /\ Earned(SyncTarget[e])
      BY <2>1 DEF SyncSave, Facts, EventsAreEarned
    <3>2. SyncTarget[e] \in Status \ {"PENDING", "CANCELLED"}
      BY DEF SyncEvents, SyncTarget, Status
    <3>3. SyncTarget[e] = "DELIVERED" => e = "shipment.delivered"
      BY DEF SyncEvents, SyncTarget
    <3>4. Lifecycle!StandsFor[SyncTarget[e]] \subseteq Done
      BY <3>1, <3>2, <3>3, EarnedStandsFor
    <3>5. UNCHANGED <<Done, Stage>> /\ status' = SyncTarget[e]
      BY <2>1, DoneStays DEF SyncSave, Stage
    <3> QED BY <3>2, <3>4, <3>5, ShowStep
  <2>2. CASE SyncLoad(e) \/ SyncFails(e)
    <3>1. UNCHANGED <<cancelAt, confirmed, ledgerVars, wf, status>>
      BY <2>2 DEF SyncLoad, SyncFails
    <3>2. UNCHANGED <<Done, Stage, status>>
      BY <3>1, DoneStays DEF Stage
    <3> QED BY <3>2 DEF Lifecycle!vars
  <2> QED BY <1>2, <2>1, <2>2
<1> QED BY <1>1, <1>2 DEF Consumer

LEMMA CancelLifecycle ==
    ASSUME Facts, CancelEndpoint PROVE [Lifecycle!Next]_(Lifecycle!vars)
<1>0. cancelAt \in [Cancellers -> {"idle", "loaded", "stopped", "cancelled",
                                   "refused"}]
  BY DEF Facts, Control, TypeOK
<1>1. PICK c \in Cancellers :
         CancelLoad(c) \/ CancelStopsWorkflow(c) \/ CancelSaves(c)
  BY DEF CancelEndpoint
<1>s. UNCHANGED <<confirmed, ledgerVars, wf, Stage>>
  BY <1>1 DEF CancelLoad, CancelStopsWorkflow, CancelSaves, workflowVars, Stage
<1>a. /\ cancelAt'[c] # "idle"
      /\ \A f \in Effects \ {"asked"} : Happened(f)' <=> Happened(f)
  BY <1>0, <1>1, <1>s DEF CancelLoad, CancelStopsWorkflow, CancelSaves, Happened,
     ledgerVars, Recorded
<1>2. CASE CancelLoad(c) \/ CancelStopsWorkflow(c)
  <2>1. UNCHANGED <<Stage, status>>
    BY <1>2, <1>s DEF CancelLoad, CancelStopsWorkflow
  <2>2. Happened("asked")'
    BY <1>a DEF Happened
  <2> QED BY <1>a, <2>1, <2>2, HappenStep, RequiresIs DEF Effects
<1>3. CASE CancelSaves(c)
  <2>1. "asked" \in Done
    BY <1>3, DoneIs DEF CancelSaves
  <2>2. Happened("asked") <=> Happened("asked")'
    BY <1>a, <2>1 DEF Done, Happened
  <2>3. Done' = Done
    BY <1>a, <2>2 DEF Done, Effects
  <2>4. CASE status' = "CANCELLED"
    <3>1. Lifecycle!StandsFor["CANCELLED"] \subseteq Done
      BY DEF Lifecycle!StandsFor
    <3> QED BY <1>s, <2>1, <2>3, <2>4, <3>1, ShowStep DEF Status
  <2>5. CASE UNCHANGED status
    BY <1>s, <2>3, <2>5 DEF Lifecycle!vars
  <2> QED BY <1>3, <2>4, <2>5 DEF CancelSaves
<1> QED BY <1>1, <1>2, <1>3

LEMMA LifecycleInit == Init => Lifecycle!Init
<1> SUFFICES ASSUME Init PROVE Lifecycle!Init
  OBVIOUS
<1>1. Stage = "placed" /\ status = "PENDING"
  BY DEF Init, Stage, CatchSteps
<1>2. Done = {}
  BY DEF Init, Done, Happened, Recorded
<1> QED BY <1>1, <1>2 DEF Lifecycle!Init

LEMMA LifecycleStep ==
    ASSUME Facts, [Next]_vars, Facts'
    PROVE  [Lifecycle!Next]_(Lifecycle!vars)
<1>1. CASE UNCHANGED vars
  BY <1>1, SilentLifecycle DEF vars
<1>2. CASE Next
  BY <1>2, WorkflowLifecycle, WorkersLifecycle, ConsumerLifecycle, CancelLifecycle
     DEF Next
<1> QED BY <1>1, <1>2

\* The saga, with every fault, late attempt and stale save, implements the
\* lifecycle of an order.
THEOREM ImplementsOrderLifecycle == Spec => FollowsOrderLifecycle
<1>1. Init => Lifecycle!Init
  BY LifecycleInit
<1>2. Facts /\ [Next]_vars /\ Facts' => [Lifecycle!Next]_(Lifecycle!vars)
  BY LifecycleStep
<1> QED BY <1>1, <1>2, FactsInvariant, PTL
        DEF Spec, FollowsOrderLifecycle, Lifecycle!Spec

=============================================================================
