------------------------ MODULE NotificationsProofs ------------------------
(***************************************************************************)
(* Machine-checked proofs about Notifications, for every set of sources,   *)
(* number of retries and number of faults.                                 *)
(*                                                                         *)
(* The invariant says of every copy in a lane's log that it is a retry of  *)
(* one before it, and of every copy the lane is through with that its      *)
(* source was handled or cut off more often than the copy was retried.  So *)
(* whoever raised the retry count of the copy that is given up, this group *)
(* failed on each of the copies before.  The accounts of mails, records    *)
(* and events close with the call under way, the cuts and the losses.      *)
(***************************************************************************)
EXTENDS Notifications, TLAPS

Messages == [source : Sources, retry : 0..MaxRetries]

\* What the work on a message may have come to.
Works == {Idle, [stage |-> "send", status |-> "none"], [stage |-> "save", status |-> "SENT"],
          [stage |-> "save", status |-> "FAILED"], [stage |-> "publish", status |-> "SENT"]}

Shape ==
    /\ scope \in Scopes
    /\ happened \subseteq Sources
    /\ log \in [Lanes -> Seq(Messages)]
    /\ at \in [Lanes -> Nat]
    /\ work \in [Lanes -> Works]
    /\ mails \in Ledger /\ sent \in Ledger /\ failed \in Ledger /\ announced \in Ledger
    /\ stored \subseteq settled
    /\ settled \subseteq happened
    /\ dead \subseteq happened
    /\ cuts \in Ledger /\ losses \in Ledger
    /\ faults \in 0..MaxFaults

\* The i-th copy of lane l.
CopyOK(l, i) ==
    LET m == log[l][i]
    IN  /\ LaneOf[m.source] = l /\ m.source \in happened
        /\ m.retry > 0 => \E j \in 1 .. i - 1 : log[l][j] = Message(m.source, m.retry - 1)
        /\ i <= at[l] => cuts[m.source] > m.retry \/ m.source \in settled

LaneOK(l) ==
    /\ at[l] <= Len(log[l])
    /\ \A i \in 1 .. Len(log[l]) : CopyOK(l, i)
    /\ work[l] # Idle => /\ at[l] < Len(log[l])
                         /\ Served(l) \notin stored /\ TypeOf[Served(l)] # "none"

\* How mails m, records r, events e, cuts c and losses o add up, when x mails are
\* without their record yet, y records without their event, and z is 1 when the
\* source is stored as handled.
Sums(m, r, e, c, o, x, y, z) ==
    /\ r + x <= m
    /\ e + y <= r
    /\ m <= r + x + c
    /\ r <= e + y + c
    /\ m <= c + o + x + y + z

Kept(s) == IF s \in stored THEN 1 ELSE 0

Books(s) == Sums(mails[s], sent[s], announced[s], cuts[s], losses[s],
                 AtStage(s, "save"), AtStage(s, "publish"), Kept(s))

\* What has become of a source.
FateOK(s) ==
    /\ s \in settled /\ TypeOf[s] # "none" => sent[s] + failed[s] > 0
    /\ s \in settled => s \in stored \/ losses[s] > 0
    /\ s \in dead => cuts[s] > MaxRetries \/ losses[s] > 0

\* Something has come of whatever lies in the lane before some copy of s.
Reached(s) ==
    \E k \in 1 .. Len(log[LaneOf[s]]) :
        /\ log[LaneOf[s]][k].source = s
        /\ \A i \in 1 .. k - 1 : LET t == log[LaneOf[s]][i].source
                                 IN  t \in settled \/ cuts[t] > 0

OrderOK(s) == mails[s] > 0 => Reached(s)

IInv ==
    /\ Shape
    /\ \A l \in Lanes : LaneOK(l)
    /\ \A s \in Sources : Books(s) /\ FateOK(s) /\ OrderOK(s)

----------------------------------------------------------------------------
\* The data

LEMMA LanesOfSources == \A s \in Sources : LaneOf[s] \in Lanes
BY SourcesAssumption DEF AllSources, Lanes, LaneOf

LEMMA Counted ==
    ASSUME NEW ledger \in Ledger, NEW h \in Sources
    PROVE  /\ Count(ledger, h) \in Ledger
           /\ Count(ledger, h)[h] = ledger[h] + 1
           /\ \A s \in Sources \ {h} : Count(ledger, h)[s] = ledger[s]
BY DEF Count, Ledger

LEMMA Nums ==
    ASSUME Shape, NEW s \in Sources
    PROVE  /\ mails[s] \in Nat /\ sent[s] \in Nat /\ failed[s] \in Nat /\ announced[s] \in Nat
           /\ cuts[s] \in Nat /\ losses[s] \in Nat
           /\ Kept(s) \in {0, 1}
           /\ AtStage(s, "save") \in {0, 1} /\ AtStage(s, "publish") \in {0, 1}
BY DEF Shape, Ledger, Kept, AtStage

\* A copy of a lane and its source.
LEMMA CopyFacts ==
    ASSUME IInv, NEW l \in Lanes, NEW i \in 1 .. Len(log[l])
    PROVE  /\ log[l] \in Seq(Messages) /\ Len(log[l]) \in Nat
           /\ log[l][i] \in Messages
           /\ log[l][i].source \in Sources /\ log[l][i].retry \in 0..MaxRetries
           /\ CopyOK(l, i)
<1>1. log[l] \in Seq(Messages)
  BY DEF IInv, Shape
<1>2. log[l][i] \in Messages /\ Len(log[l]) \in Nat
  BY <1>1
<1> QED BY <1>1, <1>2 DEF Messages, IInv, LaneOK

\* What the next message of a lane is.
LEMMA ServedFacts ==
    ASSUME IInv, NEW l \in Lanes, at[l] < Len(log[l])
    PROVE  /\ at[l] \in Nat /\ Len(log[l]) \in Nat /\ at[l] + 1 \in 1 .. Len(log[l])
           /\ Upcoming(l) \in Messages
           /\ Served(l) \in Sources /\ Served(l) \in happened /\ LaneOf[Served(l)] = l
           /\ Upcoming(l).retry \in 0..MaxRetries
           /\ CopyOK(l, at[l] + 1)
<1>1. at[l] \in Nat /\ log[l] \in Seq(Messages)
  BY DEF IInv, Shape
<1>2. Len(log[l]) \in Nat
  BY <1>1
<1>3. at[l] + 1 \in 1 .. Len(log[l])
  BY <1>1, <1>2
<1> QED BY <1>1, <1>2, <1>3, CopyFacts DEF Upcoming, Served, CopyOK

\* Whoever retried it, the group was cut off on each copy before this one, or has
\* handled the event.
LEMMA Chained ==
    ASSUME IInv, NEW l \in Lanes, at[l] < Len(log[l])
    PROVE  cuts[Served(l)] >= Upcoming(l).retry \/ Served(l) \in settled
<1>0. Upcoming(l).retry \in Nat /\ cuts[Served(l)] \in Nat
  <2>1. Upcoming(l).retry \in 0..MaxRetries /\ Served(l) \in Sources
    BY ServedFacts
  <2> QED BY <2>1, MaxRetriesAssumption DEF IInv, Shape, Ledger
<1>1. CASE Upcoming(l).retry > 0
  <2>1. PICK j \in 1 .. at[l] + 1 - 1 :
            log[l][j] = Message(Served(l), Upcoming(l).retry - 1)
    BY <1>1, ServedFacts DEF CopyOK, Served, Upcoming
  <2>2. j \in 1 .. Len(log[l]) /\ j <= at[l]
    BY <2>1, ServedFacts
  <2>3. CopyOK(l, j)
    BY <2>2, CopyFacts
  <2>4. cuts[Served(l)] > Upcoming(l).retry - 1 \/ Served(l) \in settled
    BY <2>1, <2>2, <2>3 DEF CopyOK, Message
  <2> QED BY <1>0, <2>4
<1>2. CASE ~(Upcoming(l).retry > 0)
  BY <1>0, <1>2
<1> QED BY <1>1, <1>2

----------------------------------------------------------------------------
\* The logs

\* What no step takes back.
Grown ==
    /\ happened \subseteq happened' /\ settled \subseteq settled'
    /\ cuts' \in Ledger
    /\ \A s \in Sources : cuts[s] <= cuts'[s]

Longer ==
    /\ log' \in [Lanes -> Seq(Messages)]
    /\ \A k \in Lanes : /\ Len(log[k]) <= Len(log'[k])
                        /\ \A i \in 1 .. Len(log[k]) : log'[k][i] = log[k][i]

\* A copy that may be added to lane l.
NewOK(l, m) ==
    /\ m \in Messages /\ LaneOf[m.source] = l /\ m.source \in happened'
    /\ m.retry > 0 =>
          \E j \in 1 .. Len(log[l]) : log[l][j] = Message(m.source, m.retry - 1)

\* A step that adds a copy to a lane, or none, and passes copies whose sources were
\* handled or cut off often enough.
LEMMA LogStep ==
    ASSUME IInv, Grown, NEW l \in Lanes,
           log' = log \/ \E m \in Messages : Add(l, m) /\ NewOK(l, m),
           at' \in [Lanes -> Nat],
           \A k \in Lanes : at'[k] <= Len(log[k]),
           \A k \in Lanes : \A i \in 1 .. Len(log[k]) : i <= at'[k] =>
               \/ i <= at[k]
               \/ cuts'[log[k][i].source] > log[k][i].retry
               \/ log[k][i].source \in settled'
    PROVE  /\ Longer
           /\ \A k \in Lanes : /\ at'[k] <= Len(log'[k])
                               /\ \A i \in 1 .. Len(log'[k]) : CopyOK(k, i)'
<1>1. \A k \in Lanes : log[k] \in Seq(Messages) /\ Len(log[k]) \in Nat
  BY DEF IInv, Shape
<1>2. /\ Longer
      /\ \A k \in Lanes : \A i \in 1 .. Len(log'[k]) :
             \/ i \in 1 .. Len(log[k])
             \/ /\ k = l /\ NewOK(l, log'[k][i]) /\ i = Len(log[k]) + 1
                /\ i > Len(log[k])
  <2>1. CASE log' = log
    BY <1>1, <2>1 DEF Longer, IInv, Shape
  <2>2. ASSUME NEW m \in Messages, Add(l, m), NewOK(l, m)
        PROVE  <1>2!:
    <3>1. log' = [log EXCEPT ![l] = Append(log[l], m)]
      BY <2>2 DEF Add
    <3>2. log \in [Lanes -> Seq(Messages)]
      BY DEF IInv, Shape
    <3>3. log'[l] = Append(log[l], m) /\ \A k \in Lanes \ {l} : log'[k] = log[k]
      BY <3>1, <3>2
    <3>4. /\ Append(log[l], m) \in Seq(Messages)
          /\ Len(log'[l]) = Len(log[l]) + 1
          /\ \A i \in 1 .. Len(log[l]) : log'[l][i] = log[l][i]
          /\ log'[l][Len(log[l]) + 1] = m
      BY <1>1, <3>3
    <3>5. log' \in [Lanes -> Seq(Messages)]
      BY <3>1, <3>2, <3>4
    <3>6. Longer
      <4>1. /\ Len(log[l]) <= Len(log'[l])
            /\ \A i \in 1 .. Len(log[l]) : log'[l][i] = log[l][i]
        BY <1>1, <3>4
      <4>2. ASSUME NEW k \in Lanes, k # l
            PROVE  /\ Len(log[k]) <= Len(log'[k])
                   /\ \A i \in 1 .. Len(log[k]) : log'[k][i] = log[k][i]
        BY <1>1, <3>3, <4>2
      <4> QED BY <3>5, <4>1, <4>2 DEF Longer
    <3>7. ASSUME NEW k \in Lanes, NEW i \in 1 .. Len(log'[k])
          PROVE  \/ i \in 1 .. Len(log[k])
                 \/ /\ k = l /\ NewOK(l, log'[k][i]) /\ i = Len(log[k]) + 1
                    /\ i > Len(log[k])
      <4>1. CASE k = l
        <5>1. i \in 1 .. Len(log[l]) \/ i = Len(log[l]) + 1
          BY <1>1, <3>4, <4>1
        <5> QED BY <1>1, <2>2, <3>4, <4>1, <5>1
      <4>2. CASE k # l
        BY <3>3, <4>2
      <4> QED BY <4>1, <4>2
    <3> QED BY <3>6, <3>7
  <2> QED BY <2>1, <2>2
<1>3. ASSUME NEW k \in Lanes PROVE at'[k] <= Len(log'[k])
  <2>1. /\ at'[k] \in Nat /\ Len(log[k]) \in Nat /\ Len(log'[k]) \in Nat
        /\ at'[k] <= Len(log[k]) /\ Len(log[k]) <= Len(log'[k])
    <3>1. log'[k] \in Seq(Messages) /\ Len(log[k]) <= Len(log'[k])
      BY <1>2 DEF Longer
    <3> QED BY <1>1, <3>1
  <2> QED BY <2>1
<1>4. ASSUME NEW k \in Lanes, NEW i \in 1 .. Len(log[k]) PROVE CopyOK(k, i)'
  <2> DEFINE m == log[k][i]
  <2>1. log'[k][i] = m /\ CopyOK(k, i) /\ m.source \in Sources /\ m.retry \in 0..MaxRetries
    BY <1>2, CopyFacts DEF Longer
  <2>2. m.retry > 0 => \E j \in 1 .. i - 1 : log'[k][j] = Message(m.source, m.retry - 1)
    <3>1. SUFFICES ASSUME m.retry > 0
                   PROVE  \E j \in 1 .. i - 1 : log'[k][j] = Message(m.source, m.retry - 1)
      OBVIOUS
    <3>2. PICK j \in 1 .. i - 1 : log[k][j] = Message(m.source, m.retry - 1)
      BY <2>1, <3>1 DEF CopyOK
    <3>3. j \in 1 .. Len(log[k])
      BY <1>1, <3>2
    <3> QED BY <1>2, <3>2, <3>3 DEF Longer
  <2>3. i <= at'[k] => cuts'[m.source] > m.retry \/ m.source \in settled'
    <3>1. CASE i <= at[k]
      <4>1. cuts[m.source] \in Nat /\ cuts'[m.source] \in Nat /\ cuts[m.source] <= cuts'[m.source]
        BY <2>1 DEF Grown, IInv, Shape, Ledger
      <4>2. cuts[m.source] > m.retry \/ m.source \in settled
        BY <2>1, <3>1 DEF CopyOK
      <4>3. m.retry \in Nat
        BY <2>1, MaxRetriesAssumption
      <4> HIDE DEF m
      <4> QED BY <4>1, <4>2, <4>3 DEF Grown
    <3>2. CASE ~(i <= at[k])
      BY <3>2
    <3> QED BY <3>1, <3>2
  <2> QED BY <2>1, <2>2, <2>3 DEF CopyOK, Grown
<1>5. ASSUME NEW k \in Lanes, NEW i \in 1 .. Len(log'[k]),
             k = l, NewOK(l, log'[k][i]), i = Len(log[k]) + 1, i > Len(log[k])
      PROVE  CopyOK(k, i)'
  <2> DEFINE m == log'[k][i]
  <2>1. m.retry > 0 => \E j \in 1 .. i - 1 : log'[k][j] = Message(m.source, m.retry - 1)
    <3>1. SUFFICES ASSUME m.retry > 0
                   PROVE  \E j \in 1 .. i - 1 : log'[k][j] = Message(m.source, m.retry - 1)
      OBVIOUS
    <3>2. PICK j \in 1 .. Len(log[k]) : log[k][j] = Message(m.source, m.retry - 1)
      BY <1>5, <3>1 DEF NewOK
    <3>3. j \in 1 .. i - 1
      BY <1>1, <1>5, <3>2
    <3> QED BY <1>2, <3>2, <3>3 DEF Longer
  <2>2. ~(i <= at'[k])
    BY <1>1, <1>5
  <2> QED BY <1>5, <2>1, <2>2 DEF CopyOK, NewOK
<1> QED BY <1>2, <1>3, <1>4, <1>5

\* That stays so while the logs grow.
LEMMA ReachedKept ==
    ASSUME IInv, Grown, Longer, NEW s \in Sources, Reached(s)
    PROVE  Reached(s)'
<1> DEFINE l == LaneOf[s]
<1>1. l \in Lanes
  BY LanesOfSources
<1>2. PICK k \in 1 .. Len(log[l]) :
          /\ log[l][k].source = s
          /\ \A i \in 1 .. k - 1 : LET t == log[l][i].source IN t \in settled \/ cuts[t] > 0
  BY DEF Reached
<1>3. /\ Len(log[l]) \in Nat /\ Len(log'[l]) \in Nat /\ Len(log[l]) <= Len(log'[l])
  BY <1>1 DEF Longer, IInv, Shape
<1>4. k \in 1 .. Len(log'[l]) /\ log'[l][k] = log[l][k]
  BY <1>1, <1>2, <1>3 DEF Longer
<1>5. ASSUME NEW i \in 1 .. k - 1
      PROVE  log'[l][i].source \in settled' \/ cuts'[log'[l][i].source] > 0
  <2>1. i \in 1 .. Len(log[l]) /\ i \in 1 .. k - 1
    BY <1>2, <1>3
  <2>2. log'[l][i] = log[l][i] /\ log[l][i].source \in Sources
    BY <1>1, <2>1, CopyFacts DEF Longer
  <2>3. log[l][i].source \in settled \/ cuts[log[l][i].source] > 0
    BY <1>2, <2>1
  <2>4. /\ cuts[log[l][i].source] \in Nat /\ cuts'[log[l][i].source] \in Nat
        /\ cuts[log[l][i].source] <= cuts'[log[l][i].source]
    BY <2>2 DEF Grown, IInv, Shape, Ledger
  <2> QED BY <2>2, <2>3, <2>4 DEF Grown
<1> QED BY <1>2, <1>4, <1>5 DEF Reached
----------------------------------------------------------------------------
\* A step of one lane

Undisturbed(k) == at'[k] = at[k] /\ work'[k] = work[k]

\* What a step of lane l for source h leaves alone.
Around(l, h) ==
    /\ \A k \in Lanes \ {l} : Undisturbed(k)
    /\ \/ Undisturbed(l)
       \/ /\ work[l] # Idle => Served(l) = h
          /\ work'[l] # Idle => Served(l)' = h
    /\ \A s \in stored' \ stored : LaneOf[s] = l
    /\ \A s \in Sources \ {h} :
           /\ mails'[s] = mails[s] /\ sent'[s] = sent[s] /\ failed'[s] = failed[s]
           /\ announced'[s] = announced[s] /\ cuts'[s] = cuts[s]
           /\ s \in settled' <=> s \in settled
           /\ s \in dead' => s \in dead
           /\ losses[s] <= losses'[s]
           /\ s \in stored => s \in stored' \/ losses[s] < losses'[s]

\* How far the lanes may get.
Passes ==
    /\ at' \in [Lanes -> Nat]
    /\ \A k \in Lanes : at'[k] <= Len(log[k])
    /\ \A k \in Lanes : \A i \in 1 .. Len(log[k]) : i <= at'[k] =>
           \/ i <= at[k]
           \/ cuts'[log[k][i].source] > log[k][i].retry
           \/ log[k][i].source \in settled'

BusyOK(l) == work[l] # Idle => /\ at[l] < Len(log[l])
                               /\ Served(l) \notin stored /\ TypeOf[Served(l)] # "none"

LEMMA Stays == ASSUME IInv, at' = at PROVE Passes
BY DEF Passes, IInv, Shape, LaneOK

LEMMA GoesBack ==
    ASSUME IInv, NEW l \in Lanes, NEW offset \in 0 .. at[l],
           at' = [at EXCEPT ![l] = offset]
    PROVE  Passes
<1>1. at \in [Lanes -> Nat] /\ \A k \in Lanes : at[k] <= Len(log[k]) /\ Len(log[k]) \in Nat
  BY DEF IInv, Shape, LaneOK
<1>2. \A k \in Lanes : at'[k] \in Nat /\ at'[k] <= at[k]
  BY <1>1
<1>3. at' \in [Lanes -> Nat]
  BY <1>1
<1>4. ASSUME NEW k \in Lanes, NEW i \in 1 .. Len(log[k]), i <= at'[k] PROVE i <= at[k]
  BY <1>1, <1>2, <1>4
<1>5. \A k \in Lanes : at'[k] <= Len(log[k])
  BY <1>1, <1>2
<1> QED BY <1>3, <1>4, <1>5 DEF Passes

LEMMA GoesOn ==
    ASSUME IInv, NEW l \in Lanes, at[l] < Len(log[l]), at' = [at EXCEPT ![l] = @ + 1],
           cuts'[Served(l)] > Upcoming(l).retry \/ Served(l) \in settled'
    PROVE  Passes
<1>1. at \in [Lanes -> Nat] /\ \A k \in Lanes : at[k] <= Len(log[k]) /\ Len(log[k]) \in Nat
  BY DEF IInv, Shape, LaneOK
<1>2. at'[l] = at[l] + 1 /\ \A k \in Lanes \ {l} : at'[k] = at[k]
  BY <1>1
<1>3. at' \in [Lanes -> Nat]
  BY <1>1
<1>4. ASSUME NEW k \in Lanes, NEW i \in 1 .. Len(log[k]), i <= at'[k]
      PROVE  \/ i <= at[k]
             \/ cuts'[log[k][i].source] > log[k][i].retry
             \/ log[k][i].source \in settled'
  <2>1. i <= at[k] \/ (k = l /\ i = at[l] + 1)
    BY <1>1, <1>2, <1>4
  <2> QED BY <2>1 DEF Upcoming, Served
<1>5. \A k \in Lanes : at'[k] <= Len(log[k])
  BY <1>1, <1>2
<1> QED BY <1>3, <1>4, <1>5 DEF Passes

\* Two states in which the call of a lane is at the same stage.
LEMMA SameStage ==
    ASSUME IInv, Longer, NEW l \in Lanes, Undisturbed(l)
    PROVE  /\ work[l] # Idle => Served(l)' = Served(l) /\ at'[l] < Len(log'[l])
           /\ \A s \in Sources : LaneOf[s] = l =>
                  /\ AtStage(s, "save")' = AtStage(s, "save")
                  /\ AtStage(s, "publish")' = AtStage(s, "publish")
<1>1. ASSUME work[l] # Idle PROVE Served(l)' = Served(l) /\ at'[l] < Len(log'[l])
  <2>1. at[l] < Len(log[l])
    BY <1>1 DEF IInv, LaneOK
  <2>2. at[l] \in Nat /\ Len(log[l]) \in Nat /\ at[l] + 1 \in 1 .. Len(log[l])
    BY <2>1, ServedFacts
  <2>3. log'[l][at[l] + 1] = log[l][at[l] + 1] /\ Len(log[l]) <= Len(log'[l])
    BY <2>2 DEF Longer
  <2>4. Len(log'[l]) \in Nat
    BY DEF Longer
  <2> QED BY <2>1, <2>2, <2>3, <2>4 DEF Undisturbed, Served, Upcoming
<1>2. CASE work[l] # Idle
  BY <1>1, <1>2 DEF Undisturbed, AtStage
<1>3. CASE work[l] = Idle
  BY <1>3 DEF Undisturbed, AtStage, Idle
<1> QED BY <1>1, <1>2, <1>3

\* A source that the call of its lane is not about.
LEMMA NoStage ==
    ASSUME NEW s \in Sources, work[LaneOf[s]] # Idle => Served(LaneOf[s]) # s
    PROVE  AtStage(s, "save") = 0 /\ AtStage(s, "publish") = 0
BY DEF AtStage, Idle

\* A step of lane l for source h keeps the invariant when it does so for them.
LEMMA LaneStep ==
    ASSUME IInv, Shape', Grown, NEW l \in Lanes, NEW h,
           log' = log \/ \E m \in Messages : Add(l, m) /\ NewOK(l, m),
           Passes, Around(l, h),
           (Undisturbed(l) /\ stored' = stored) \/ BusyOK(l)',
           h \in Sources => /\ Books(h)' /\ FateOK(h)'
                            /\ mails'[h] > 0 => mails[h] > 0 \/ Reached(h)
    PROVE  IInv'
<1>1. /\ Longer
      /\ \A k \in Lanes : at'[k] <= Len(log'[k]) /\ \A i \in 1 .. Len(log'[k]) : CopyOK(k, i)'
  BY LogStep DEF Passes
<1>2. ASSUME NEW k \in Lanes PROVE LaneOK(k)'
  <2>1. BusyOK(k)'
    <3>1. CASE BusyOK(l)' /\ k = l
      BY <3>1
    <3>2. CASE k # l \/ (Undisturbed(l) /\ stored' = stored)
      <4>1. Undisturbed(k)
        BY <3>2 DEF Around
      <4>2. ASSUME work'[k] # Idle
            PROVE  /\ at'[k] < Len(log'[k])
                   /\ Served(k)' \notin stored' /\ TypeOf[Served(k)'] # "none"
        <5>1. work[k] # Idle
          BY <4>1, <4>2 DEF Undisturbed
        <5>2. Served(k)' = Served(k) /\ at'[k] < Len(log'[k])
          BY <1>1, <4>1, <5>1, SameStage
        <5>3. at[k] < Len(log[k]) /\ Served(k) \notin stored /\ TypeOf[Served(k)] # "none"
          BY <5>1 DEF IInv, LaneOK
        <5>4. LaneOf[Served(k)] = k
          BY <5>3, ServedFacts
        <5>5. Served(k) \notin stored'
          BY <3>2, <5>3, <5>4 DEF Around
        <5> QED BY <5>2, <5>3, <5>5
      <4> QED BY <4>2 DEF BusyOK
    <3> QED BY <3>1, <3>2
  <2> QED BY <1>1, <2>1 DEF BusyOK, LaneOK
<1>3. ASSUME NEW s \in Sources PROVE OrderOK(s)'
  <2>1. SUFFICES ASSUME mails'[s] > 0 PROVE Reached(s)'
    BY DEF OrderOK
  <2>2. mails[s] > 0 \/ Reached(s)
    BY <2>1 DEF Around
  <2>3. Reached(s)
    BY <2>2 DEF IInv, OrderOK
  <2> QED BY <1>1, <2>3, ReachedKept
<1>4. ASSUME NEW s \in Sources, s # h PROVE Books(s)' /\ FateOK(s)'
  <2>1. /\ AtStage(s, "save")' = AtStage(s, "save")
        /\ AtStage(s, "publish")' = AtStage(s, "publish")
    <3>1. CASE Undisturbed(LaneOf[s])
      BY <1>1, <3>1, SameStage, LanesOfSources
    <3>2. CASE ~Undisturbed(LaneOf[s])
      <4>1. LaneOf[s] = l
        BY <3>2, LanesOfSources DEF Around
      <4>2. /\ work[l] # Idle => Served(l) # s
            /\ work'[l] # Idle => Served(l)' # s
        BY <1>4, <3>2, <4>1 DEF Around
      <4> QED BY <4>1, <4>2, NoStage DEF AtStage, Idle
    <3> QED BY <3>1, <3>2
  <2>2. /\ mails'[s] = mails[s] /\ sent'[s] = sent[s] /\ failed'[s] = failed[s]
        /\ announced'[s] = announced[s] /\ cuts'[s] = cuts[s]
        /\ s \in settled' <=> s \in settled
        /\ s \in dead' => s \in dead
        /\ losses[s] <= losses'[s]
        /\ s \in stored => s \in stored' \/ losses[s] < losses'[s]
    BY <1>4 DEF Around
  <2>3. /\ mails[s] \in Nat /\ sent[s] \in Nat /\ failed[s] \in Nat /\ announced[s] \in Nat
        /\ cuts[s] \in Nat /\ losses[s] \in Nat /\ losses'[s] \in Nat
        /\ AtStage(s, "save") \in {0, 1} /\ AtStage(s, "publish") \in {0, 1}
    BY Nums DEF IInv, Shape, Ledger
  <2>4. Books(s) /\ FateOK(s)
    BY DEF IInv
  <2>5. Books(s)'
    BY <2>1, <2>2, <2>3, <2>4 DEF Books, Sums, Kept
  <2>6. FateOK(s)'
    BY <2>2, <2>3, <2>4 DEF FateOK
  <2> QED BY <2>5, <2>6
<1> QED BY <1>2, <1>3, <1>4 DEF IInv

----------------------------------------------------------------------------
\* The steps

\* No step is about this.
LEMMA Nobody == "none" \notin Sources
BY SourcesAssumption DEF AllSources

LEMMA AddType ==
    ASSUME Shape, NEW l \in Lanes, NEW m \in Messages, Add(l, m)
    PROVE  log' \in [Lanes -> Seq(Messages)]
<1>1. log \in [Lanes -> Seq(Messages)] /\ Append(log[l], m) \in Seq(Messages)
  BY DEF Shape
<1> QED BY <1>1 DEF Add

\* What a call under way is about.
LEMMA BusyFacts ==
    ASSUME IInv, NEW l \in Lanes, work[l] # Idle
    PROVE  /\ at[l] < Len(log[l])
           /\ Served(l) \in Sources /\ Served(l) \in happened /\ LaneOf[Served(l)] = l
           /\ Served(l) \notin stored /\ TypeOf[Served(l)] # "none"
           /\ work[l] \in Works \ {Idle}
           /\ Books(Served(l)) /\ FateOK(Served(l)) /\ OrderOK(Served(l))
<1>1. /\ at[l] < Len(log[l]) /\ Served(l) \notin stored /\ TypeOf[Served(l)] # "none"
      /\ work[l] \in Works
  BY DEF IInv, Shape, LaneOK
<1>2. Served(l) \in Sources /\ Served(l) \in happened /\ LaneOf[Served(l)] = l
  BY <1>1, ServedFacts
<1> QED BY <1>1, <1>2 DEF IInv

\* The stage of a call that is about h.
LEMMA StageOf ==
    ASSUME NEW l \in Lanes, NEW h, LaneOf[h] = l, Served(l) = h
    PROVE  /\ AtStage(h, "save") =
                  IF work[l] = [stage |-> "save", status |-> "SENT"] THEN 1 ELSE 0
           /\ AtStage(h, "publish") =
                  IF work[l] = [stage |-> "publish", status |-> "SENT"] THEN 1 ELSE 0
BY DEF AtStage

\* Where the record of a message says more than the action, for its retry count.
LEMMA Copied ==
    ASSUME NEW s \in Sources, NEW n \in 0..MaxRetries
    PROVE  /\ Message(s, n) \in Messages
           /\ Message(s, n).source = s /\ Message(s, n).retry = n
BY DEF Message, Messages

\* A copy comes to a lane.
LEMMA AddedInv ==
    ASSUME IInv, NEW s \in Sources, NEW n \in 0..MaxRetries, Add(LaneOf[s], Message(s, n)),
           s \in happened',
           n > 0 => \E j \in 1 .. Len(log[LaneOf[s]]) : log[LaneOf[s]][j] = Message(s, n - 1),
           happened \subseteq happened', happened' \subseteq Sources, faults' \in 0..MaxFaults,
           UNCHANGED <<scope, at, work, stored, ledgers, settled, dead, cuts, losses>>
    PROVE  IInv'
<1>1. LaneOf[s] \in Lanes
  BY LanesOfSources
<1>2. NewOK(LaneOf[s], Message(s, n))
  BY Copied DEF NewOK
<1>3. Shape'
  <2>1. log' \in [Lanes -> Seq(Messages)]
    BY <1>1, AddType, Copied DEF IInv
  <2> QED BY <2>1 DEF IInv, Shape, ledgers
<1>4. Grown
  BY DEF Grown, IInv, Shape, Ledger
<1>5. Around(LaneOf[s], "none") /\ Undisturbed(LaneOf[s]) /\ stored' = stored
  <2>1. \A t \in Sources : losses[t] <= losses[t]
    BY DEF IInv, Shape, Ledger
  <2> QED BY <2>1 DEF Around, Undisturbed, ledgers
<1>6. \E m \in Messages : Add(LaneOf[s], m) /\ NewOK(LaneOf[s], m)
  BY <1>2, Copied
<1>7. Passes
  BY Stays
<1> QED BY <1>1, <1>3, <1>4, <1>5, <1>6, <1>7, LaneStep, Nobody

LEMMA HappensInv == ASSUME IInv, NEW s \in Sources, Happens(s) PROVE IInv'
<1>1. Add(LaneOf[s], Message(s, 0)) /\ 0 \in 0..MaxRetries /\ ~(0 > 0)
  BY MaxRetriesAssumption DEF Happens
<1>2. /\ happened' = happened \cup {s} /\ happened' \subseteq Sources /\ faults' \in 0..MaxFaults
      /\ UNCHANGED <<scope, at, work, stored, ledgers, settled, dead, cuts, losses>>
  BY DEF Happens, IInv, Shape
<1> QED BY <1>1, <1>2, AddedInv

LEMMA Faults == ASSUME IInv, Fault PROVE faults' \in 0..MaxFaults
BY MaxFaultsAssumption DEF Fault, IInv, Shape

LEMMA AnotherCopyInv == ASSUME IInv, NEW s \in Sources, AnotherCopy(s) PROVE IInv'
<1>1. /\ s \in happened' /\ happened' = happened /\ happened' \subseteq Sources
      /\ faults' \in 0..MaxFaults
      /\ UNCHANGED <<scope, at, work, stored, ledgers, settled, dead, cuts, losses>>
  BY Faults DEF AnotherCopy, IInv, Shape
<1>2. CASE Add(LaneOf[s], Message(s, 0))
  <2>1. 0 \in 0..MaxRetries /\ ~(0 > 0)
    BY MaxRetriesAssumption
  <2> QED BY <1>1, <1>2, <2>1, AddedInv
<1>3. ASSUME NEW i \in DOMAIN log[LaneOf[s]],
             log[LaneOf[s]][i].source = s, log[LaneOf[s]][i].retry < MaxRetries,
             Add(LaneOf[s], Message(s, log[LaneOf[s]][i].retry + 1))
      PROVE  IInv'
  <2> DEFINE n == log[LaneOf[s]][i].retry
  <2>1. i \in 1 .. Len(log[LaneOf[s]]) /\ LaneOf[s] \in Lanes
    BY LanesOfSources DEF IInv, Shape
  <2>2. log[LaneOf[s]][i] \in Messages /\ n \in 0..MaxRetries
    BY <2>1, CopyFacts
  <2>3. log[LaneOf[s]][i] = Message(s, n)
    BY <1>3, <2>2 DEF Messages, Message
  <2>4. n + 1 \in 0..MaxRetries /\ (n + 1) - 1 = n
    BY <1>3, <2>2, MaxRetriesAssumption
  <2>5. \E j \in 1 .. Len(log[LaneOf[s]]) : log[LaneOf[s]][j] = Message(s, (n + 1) - 1)
    BY <2>1, <2>3, <2>4
  <2> HIDE DEF n
  <2>6. Add(LaneOf[s], Message(s, n + 1))
    BY <1>3 DEF n
  <2> QED BY <1>1, <2>4, <2>5, <2>6, AddedInv
<1> QED BY <1>2, <1>3 DEF AnotherCopy

\* The lane is through with its message, which is one of h.
LEMMA PassEffect ==
    ASSUME IInv, NEW l \in Lanes, at[l] < Len(log[l]), Pass(l)
    PROVE  /\ at' \in [Lanes -> Nat] /\ at' = [at EXCEPT ![l] = @ + 1]
           /\ work' \in [Lanes -> Works] /\ work'[l] = Idle
           /\ \A k \in Lanes \ {l} : Undisturbed(k)
           /\ BusyOK(l)'
           /\ \A s \in Sources : LaneOf[s] = l =>
                  AtStage(s, "save")' = 0 /\ AtStage(s, "publish")' = 0
<1>1. at \in [Lanes -> Nat] /\ work \in [Lanes -> Works] /\ Idle \in Works
  BY DEF IInv, Shape, Works
<1>2. /\ at' \in [Lanes -> Nat] /\ work' \in [Lanes -> Works] /\ work'[l] = Idle
      /\ at' = [at EXCEPT ![l] = @ + 1]
      /\ \A k \in Lanes \ {l} : at'[k] = at[k] /\ work'[k] = work[k]
  BY <1>1 DEF Pass
<1> QED BY <1>2 DEF Undisturbed, BusyOK, AtStage, Idle

LEMMA BeginInv == ASSUME IInv, NEW l \in Lanes, Begin(l) PROVE IInv'
<1>0. PICK h : h = Served(l)
  OBVIOUS
<1>1. /\ at[l] < Len(log[l]) /\ work[l] = Idle
      /\ UNCHANGED <<scope, happened, log, ledgers, dead, cuts, losses, faults>>
  BY DEF Begin
<1>2. h \in Sources /\ h \in happened /\ LaneOf[h] = l
  BY <1>0, <1>1, ServedFacts
<1>3. Grown
  BY <1>1 DEF Grown, Begin, Settle, IInv, Shape, Ledger
<1>4. /\ Books(h) /\ FateOK(h)
      /\ AtStage(h, "save") = 0 /\ AtStage(h, "publish") = 0
  BY <1>0, <1>1, <1>2, StageOf DEF IInv, Idle
<1>5. /\ mails[h] \in Nat /\ sent[h] \in Nat /\ failed[h] \in Nat /\ announced[h] \in Nat
      /\ cuts[h] \in Nat /\ losses[h] \in Nat
  BY <1>2, Nums DEF IInv
<1>6. \A s \in Sources : losses[s] <= losses'[s]
  BY <1>1 DEF IInv, Shape, Ledger
<1>7. log' = log
  BY <1>1
<1>8. CASE h \in stored /\ Pass(l) /\ UNCHANGED <<stored, settled>>
  <2>1. Shape'
    BY <1>1, <1>8, PassEffect DEF IInv, Shape, ledgers
  <2>2. Passes
    BY <1>0, <1>1, <1>8, GoesOn DEF Pass, IInv, Shape
  <2>3. Around(l, h)
    BY <1>0, <1>1, <1>6, <1>8, PassEffect DEF Around, ledgers
  <2>4. Books(h)' /\ FateOK(h)' /\ (mails'[h] > 0 => mails[h] > 0)
    <3>1. AtStage(h, "save")' = 0 /\ AtStage(h, "publish")' = 0
      BY <1>1, <1>2, <1>8, PassEffect
    <3>2. Books(h)'
      BY <1>1, <1>4, <1>8, <3>1 DEF Books, Kept, ledgers
    <3> QED BY <1>1, <1>4, <1>8, <3>2 DEF FateOK, ledgers
  <2>5. BusyOK(l)'
    BY <1>1, <1>8, PassEffect
  <2> QED BY <1>3, <1>7, <2>1, <2>2, <2>3, <2>4, <2>5, LaneStep
<1>9. CASE h \notin stored /\ TypeOf[h] = "none" /\ Settle(l)
  <2>0. Pass(l) /\ settled' = settled \cup {h} /\ stored' = stored \cup {h}
    BY <1>0, <1>9 DEF Settle
  <2>1. Shape'
    BY <1>1, <1>2, <2>0, PassEffect DEF IInv, Shape, ledgers
  <2>2. Passes
    BY <1>0, <1>1, <2>0, GoesOn DEF Pass
  <2>3. Around(l, h)
    BY <1>0, <1>1, <1>2, <1>6, <2>0, PassEffect DEF Around, ledgers
  <2>4. Books(h)' /\ FateOK(h)' /\ (mails'[h] > 0 => mails[h] > 0)
    <3>1. AtStage(h, "save")' = 0 /\ AtStage(h, "publish")' = 0
      BY <1>1, <1>2, <2>0, PassEffect
    <3>2. Books(h)'
      BY <1>1, <1>4, <1>5, <2>0, <3>1 DEF Books, Sums, Kept, ledgers
    <3> QED BY <1>1, <1>4, <1>9, <2>0, <3>2 DEF FateOK, ledgers
  <2>5. BusyOK(l)'
    BY <1>1, <2>0, PassEffect
  <2> QED BY <1>3, <1>7, <2>1, <2>2, <2>3, <2>4, <2>5, LaneStep
<1>10. CASE /\ h \notin stored /\ TypeOf[h] # "none"
            /\ work' = [work EXCEPT ![l].stage = "send"]
            /\ UNCHANGED <<at, stored, settled>>
  <2>0. /\ work \in [Lanes -> Works] /\ work' \in [Lanes -> Works]
        /\ work'[l] = [stage |-> "send", status |-> "none"]
        /\ \A k \in Lanes \ {l} : work'[k] = work[k]
    <3>1. work \in [Lanes -> Works]
      BY DEF IInv, Shape
    <3>2. [work[l] EXCEPT !.stage = "send"] = [stage |-> "send", status |-> "none"]
      BY <1>1 DEF Idle
    <3> QED BY <1>10, <3>1, <3>2 DEF Works
  <2>1. Shape'
    BY <1>1, <1>10, <2>0 DEF IInv, Shape, ledgers
  <2>2. Passes
    BY <1>10, Stays
  <2>3. Served(l)' = h
    BY <1>0, <1>7, <1>10 DEF Served, Upcoming
  <2>4. Around(l, h)
    BY <1>0, <1>1, <1>6, <1>10, <2>0, <2>3 DEF Around, Undisturbed, ledgers
  <2>5. Books(h)' /\ FateOK(h)' /\ (mails'[h] > 0 => mails[h] > 0)
    <3>1. AtStage(h, "save")' = 0 /\ AtStage(h, "publish")' = 0
      BY <1>2, <2>0 DEF AtStage
    <3>2. Books(h)'
      BY <1>1, <1>4, <1>10, <3>1 DEF Books, Kept, ledgers
    <3> QED BY <1>1, <1>4, <1>10, <3>2 DEF FateOK, ledgers
  <2>6. BusyOK(l)'
    BY <1>1, <1>7, <1>10, <2>3 DEF BusyOK
  <2> QED BY <1>3, <1>7, <2>1, <2>2, <2>4, <2>5, <2>6, LaneStep
<1> QED BY <1>0, <1>8, <1>9, <1>10 DEF Begin

\* A lane has come to the message it is about.
LEMMA ReachedHere ==
    ASSUME IInv, NEW l \in Lanes, at[l] < Len(log[l])
    PROVE  Reached(Served(l))
<1>1. /\ at[l] \in Nat /\ Len(log[l]) \in Nat /\ at[l] + 1 \in 1 .. Len(log[l])
      /\ LaneOf[Served(l)] = l /\ log[l][at[l] + 1].source = Served(l)
  BY ServedFacts DEF Served, Upcoming
<1>2. ASSUME NEW i \in 1 .. (at[l] + 1) - 1
      PROVE  log[l][i].source \in settled \/ cuts[log[l][i].source] > 0
  <2>1. i \in 1 .. Len(log[l]) /\ i <= at[l]
    BY <1>1, <1>2
  <2>2. /\ log[l][i].source \in Sources /\ log[l][i].retry \in 0..MaxRetries
        /\ CopyOK(l, i)
    BY <2>1, CopyFacts
  <2>3. cuts[log[l][i].source] \in Nat /\ log[l][i].retry \in Nat
    BY <2>2, MaxRetriesAssumption DEF IInv, Shape, Ledger
  <2>4. cuts[log[l][i].source] > log[l][i].retry \/ log[l][i].source \in settled
    BY <2>1, <2>2 DEF CopyOK
  <2> QED BY <2>3, <2>4
<1> QED BY <1>1, <1>2 DEF Reached

LEMMA SendInv == ASSUME IInv, NEW l \in Lanes, Send(l) PROVE IInv'
<1>0. PICK h : h = Served(l)
  OBVIOUS
<1>1. /\ work[l].stage = "send"
      /\ UNCHANGED <<scope, happened, log, at, stored, sent, failed, announced, settled, dead,
                     cuts, losses, faults>>
  BY DEF Send
<1>2. work[l] # Idle
  BY <1>1 DEF Idle
<1>3. /\ at[l] < Len(log[l]) /\ h \in Sources /\ LaneOf[h] = l
      /\ h \notin stored /\ TypeOf[h] # "none"
      /\ Books(h) /\ FateOK(h)
  BY <1>0, <1>2, BusyFacts
<1>4. PICK status \in {"SENT", "FAILED"} :
          /\ work' = [work EXCEPT ![l] = [stage |-> "save", status |-> status]]
          /\ mails' = IF status = "SENT" THEN Count(mails, h) ELSE mails
  BY <1>0 DEF Send
<1>5. /\ work' \in [Lanes -> Works] /\ work'[l] = [stage |-> "save", status |-> status]
      /\ \A k \in Lanes \ {l} : work'[k] = work[k]
  BY <1>4 DEF IInv, Shape, Works
<1>6. /\ mails' \in Ledger /\ mails'[h] = mails[h] + (IF status = "SENT" THEN 1 ELSE 0)
      /\ \A s \in Sources \ {h} : mails'[s] = mails[s]
  <2>1. mails \in Ledger /\ mails[h] \in Nat
    BY <1>3, Nums DEF IInv, Shape
  <2>2. CASE status = "SENT"
    BY <1>3, <1>4, <2>1, <2>2, Counted
  <2>3. CASE status # "SENT"
    BY <1>4, <2>1, <2>3
  <2> QED BY <2>2, <2>3
<1>7. Shape'
  BY <1>1, <1>5, <1>6 DEF IInv, Shape
<1>8. Grown /\ Passes /\ log' = log
  <2>1. Grown
    BY <1>1 DEF Grown, IInv, Shape, Ledger
  <2> QED BY <1>1, <2>1, Stays
<1>9. Served(l)' = h
  BY <1>0, <1>1 DEF Served, Upcoming
<1>10. Around(l, h)
  <2>1. \A s \in Sources : losses[s] <= losses'[s]
    BY <1>1 DEF IInv, Shape, Ledger
  <2> QED BY <1>0, <1>1, <1>5, <1>6, <1>9, <2>1 DEF Around, Undisturbed
<1>11. BusyOK(l)'
  BY <1>1, <1>3, <1>9 DEF BusyOK
<1>12. Books(h)' /\ FateOK(h)'
  <2>1. AtStage(h, "save") = 0 /\ AtStage(h, "publish") = 0
    BY <1>1, <1>3 DEF AtStage
  <2>2. /\ AtStage(h, "save")' = (IF status = "SENT" THEN 1 ELSE 0)
        /\ AtStage(h, "publish")' = 0
    BY <1>3, <1>4, <1>5, <1>9 DEF AtStage
  <2>3. /\ mails[h] \in Nat /\ sent[h] \in Nat /\ announced[h] \in Nat
        /\ cuts[h] \in Nat /\ losses[h] \in Nat
    BY <1>3, Nums DEF IInv
  <2>4. Books(h)'
    BY <1>1, <1>3, <1>6, <2>1, <2>2, <2>3 DEF Books, Sums, Kept
  <2> QED BY <1>1, <1>3, <2>4 DEF FateOK
<1>13. Reached(h)
  BY <1>0, <1>3, ReachedHere
<1> QED BY <1>7, <1>8, <1>10, <1>11, <1>12, <1>13, LaneStep

\* One more of one kind of record.
LEMMA StoreEffect ==
    ASSUME Shape, NEW l \in Lanes, Served(l) \in Sources, Store(l)
    PROVE  /\ sent' \in Ledger /\ failed' \in Ledger
           /\ \A s \in Sources \ {Served(l)} : sent'[s] = sent[s] /\ failed'[s] = failed[s]
           /\ work[l].status = "SENT" =>
                  /\ sent'[Served(l)] = sent[Served(l)] + 1
                  /\ failed'[Served(l)] = failed[Served(l)]
           /\ work[l].status # "SENT" =>
                  /\ sent'[Served(l)] = sent[Served(l)]
                  /\ failed'[Served(l)] = failed[Served(l)] + 1
<1>1. sent \in Ledger /\ failed \in Ledger
  BY DEF Shape
<1>2. CASE work[l].status = "SENT"
  BY <1>1, <1>2, Counted DEF Store
<1>3. CASE work[l].status # "SENT"
  BY <1>1, <1>3, Counted DEF Store
<1> QED BY <1>2, <1>3

LEMMA SaveInv == ASSUME IInv, NEW l \in Lanes, Save(l) PROVE IInv'
<1>0. PICK h : h = Served(l)
  OBVIOUS
<1>1. /\ work[l].stage = "save" /\ Store(l)
      /\ UNCHANGED <<scope, happened, log, mails, announced, dead, cuts, losses, faults>>
  BY DEF Save
<1>2. work[l] # Idle
  BY <1>1 DEF Idle
<1>3. /\ at[l] < Len(log[l]) /\ h \in Sources /\ h \in happened /\ LaneOf[h] = l
      /\ h \notin stored /\ TypeOf[h] # "none" /\ work[l] \in Works \ {Idle}
      /\ Books(h) /\ FateOK(h)
  BY <1>0, <1>2, BusyFacts
<1>4. /\ sent' \in Ledger /\ failed' \in Ledger
      /\ \A s \in Sources \ {h} : sent'[s] = sent[s] /\ failed'[s] = failed[s]
  BY <1>0, <1>1, <1>3, StoreEffect DEF IInv
<1>5. /\ mails[h] \in Nat /\ sent[h] \in Nat /\ failed[h] \in Nat /\ announced[h] \in Nat
      /\ cuts[h] \in Nat /\ losses[h] \in Nat
  BY <1>3, Nums DEF IInv
<1>6. Grown
  BY <1>1 DEF Grown, Save, Settle, IInv, Shape, Ledger
<1>7. \A s \in Sources : losses[s] <= losses'[s]
  BY <1>1 DEF IInv, Shape, Ledger
<1>8. CASE work[l].status = "SENT"
  <2>0. /\ work' = [work EXCEPT ![l].stage = "publish"] /\ UNCHANGED <<at, stored, settled>>
        /\ work[l] = [stage |-> "save", status |-> "SENT"]
        /\ sent'[h] = sent[h] + 1 /\ failed'[h] = failed[h]
    BY <1>0, <1>1, <1>3, <1>8, StoreEffect DEF Save, Works, IInv
  <2>1. /\ work' \in [Lanes -> Works]
        /\ work'[l] = [stage |-> "publish", status |-> "SENT"]
        /\ \A k \in Lanes \ {l} : work'[k] = work[k]
    BY <2>0 DEF IInv, Shape, Works
  <2>2. Shape'
    BY <1>1, <1>4, <2>0, <2>1 DEF IInv, Shape
  <2>3. Passes /\ log' = log
    BY <1>1, <2>0, Stays
  <2>4. Served(l)' = h
    BY <1>0, <1>1, <2>0 DEF Served, Upcoming
  <2>5. Around(l, h)
    BY <1>0, <1>1, <1>4, <1>7, <2>0, <2>1, <2>4 DEF Around, Undisturbed
  <2>6. BusyOK(l)'
    BY <1>1, <1>3, <2>0, <2>4 DEF BusyOK
  <2>7. Books(h)' /\ FateOK(h)' /\ (mails'[h] > 0 => mails[h] > 0)
    <3>1. AtStage(h, "save") = 1 /\ AtStage(h, "publish") = 0
      BY <1>0, <1>3, <2>0 DEF AtStage
    <3>2. AtStage(h, "save")' = 0 /\ AtStage(h, "publish")' = 1
      BY <1>3, <2>1, <2>4 DEF AtStage
    <3>3. Books(h)'
      BY <1>1, <1>3, <1>5, <2>0, <3>1, <3>2 DEF Books, Sums, Kept
    <3> QED BY <1>1, <1>3, <1>5, <2>0, <3>3 DEF FateOK
  <2> QED BY <1>6, <2>2, <2>3, <2>5, <2>6, <2>7, LaneStep
<1>9. CASE work[l].status # "SENT"
  <2>0. /\ Pass(l) /\ settled' = settled \cup {h} /\ stored' = stored \cup {h}
        /\ work[l] = [stage |-> "save", status |-> "FAILED"]
        /\ sent'[h] = sent[h] /\ failed'[h] = failed[h] + 1
    BY <1>0, <1>1, <1>3, <1>9, StoreEffect DEF Save, Settle, Works, IInv
  <2>1. Shape'
    BY <1>1, <1>3, <1>4, <2>0, PassEffect DEF IInv, Shape
  <2>2. Passes /\ log' = log
    BY <1>0, <1>1, <1>3, <2>0, GoesOn DEF Pass
  <2>3. Around(l, h)
    BY <1>0, <1>1, <1>3, <1>4, <1>7, <2>0, PassEffect DEF Around
  <2>4. BusyOK(l)'
    BY <1>3, <2>0, PassEffect
  <2>5. Books(h)' /\ FateOK(h)' /\ (mails'[h] > 0 => mails[h] > 0)
    <3>1. AtStage(h, "save") = 0 /\ AtStage(h, "publish") = 0
      BY <1>0, <1>3, <2>0 DEF AtStage
    <3>2. AtStage(h, "save")' = 0 /\ AtStage(h, "publish")' = 0
      BY <1>3, <2>0, PassEffect
    <3>3. Books(h)'
      BY <1>1, <1>3, <1>5, <2>0, <3>1, <3>2 DEF Books, Sums, Kept
    <3> QED BY <1>1, <1>3, <1>5, <2>0, <3>3 DEF FateOK
  <2> QED BY <1>6, <2>1, <2>2, <2>3, <2>4, <2>5, LaneStep
<1> QED BY <1>8, <1>9

LEMMA PublishInv == ASSUME IInv, NEW l \in Lanes, Publish(l) PROVE IInv'
<1>0. PICK h : h = Served(l)
  OBVIOUS
<1>1. /\ work[l].stage = "publish" /\ announced' = Count(announced, h)
      /\ Pass(l) /\ settled' = settled \cup {h} /\ stored' = stored \cup {h}
      /\ UNCHANGED <<scope, happened, log, mails, sent, failed, dead, cuts, losses, faults>>
  BY <1>0 DEF Publish, Settle
<1>2. work[l] # Idle
  BY <1>1 DEF Idle
<1>3. /\ at[l] < Len(log[l]) /\ h \in Sources /\ h \in happened /\ LaneOf[h] = l
      /\ h \notin stored /\ TypeOf[h] # "none"
      /\ work[l] = [stage |-> "publish", status |-> "SENT"]
      /\ Books(h) /\ FateOK(h)
  BY <1>0, <1>1, <1>2, BusyFacts DEF Works
<1>4. /\ announced' \in Ledger /\ announced'[h] = announced[h] + 1
      /\ \A s \in Sources \ {h} : announced'[s] = announced[s]
  BY <1>1, <1>3, Counted DEF IInv, Shape
<1>5. /\ mails[h] \in Nat /\ sent[h] \in Nat /\ failed[h] \in Nat /\ announced[h] \in Nat
      /\ cuts[h] \in Nat /\ losses[h] \in Nat
  BY <1>3, Nums DEF IInv
<1>6. Grown
  BY <1>1 DEF Grown, IInv, Shape, Ledger
<1>7. \A s \in Sources : losses[s] <= losses'[s]
  BY <1>1 DEF IInv, Shape, Ledger
<1>8. Shape'
  BY <1>1, <1>3, <1>4, PassEffect DEF IInv, Shape
<1>9. Passes /\ log' = log
  BY <1>0, <1>1, <1>3, GoesOn DEF Pass
<1>10. Around(l, h)
  BY <1>0, <1>1, <1>3, <1>4, <1>7, PassEffect DEF Around
<1>11. BusyOK(l)'
  BY <1>1, <1>3, PassEffect
<1>12. Books(h)' /\ FateOK(h)' /\ (mails'[h] > 0 => mails[h] > 0)
  <2>1. AtStage(h, "save") = 0 /\ AtStage(h, "publish") = 1
    BY <1>0, <1>3 DEF AtStage
  <2>2. AtStage(h, "save")' = 0 /\ AtStage(h, "publish")' = 0
    BY <1>1, <1>3, PassEffect
  <2>3. Books(h)'
    BY <1>1, <1>3, <1>4, <1>5, <2>1, <2>2 DEF Books, Sums, Kept
  <2> QED BY <1>1, <1>3, <1>5, <2>1, <2>3 DEF FateOK, Books, Sums
<1> QED BY <1>6, <1>8, <1>9, <1>10, <1>11, <1>12, LaneStep

----------------------------------------------------------------------------
\* The failures

\* What a call that failed may have done.
LEMMA PartlyEffect ==
    ASSUME IInv, NEW l \in Lanes, work[l] # Idle, PartlyDone(l)
    PROVE  /\ mails' \in Ledger /\ sent' \in Ledger /\ failed' \in Ledger /\ announced' \in Ledger
           /\ \A s \in Sources \ {Served(l)} :
                  /\ mails'[s] = mails[s] /\ sent'[s] = sent[s] /\ failed'[s] = failed[s]
                  /\ announced'[s] = announced[s]
           /\ sent[Served(l)] + failed[Served(l)] <= sent'[Served(l)] + failed'[Served(l)]
           /\ Sums(mails'[Served(l)], sent'[Served(l)], announced'[Served(l)],
                   cuts[Served(l)] + 1, losses[Served(l)], 0, 0, 0)
<1>0. PICK h : h = Served(l)
  OBVIOUS
<1>1. /\ h \in Sources /\ LaneOf[h] = l /\ h \notin stored
      /\ work[l] \in Works \ {Idle} /\ Books(h)
  BY <1>0, BusyFacts
<1>2. /\ mails[h] \in Nat /\ sent[h] \in Nat /\ failed[h] \in Nat /\ announced[h] \in Nat
      /\ cuts[h] \in Nat /\ losses[h] \in Nat
      /\ mails \in Ledger /\ sent \in Ledger /\ failed \in Ledger /\ announced \in Ledger
  BY <1>1, Nums DEF IInv, Shape
<1>3. PICK x, y : x = AtStage(h, "save") /\ y = AtStage(h, "publish")
  OBVIOUS
<1>4. /\ x = IF work[l] = [stage |-> "save", status |-> "SENT"] THEN 1 ELSE 0
      /\ y = IF work[l] = [stage |-> "publish", status |-> "SENT"] THEN 1 ELSE 0
  BY <1>0, <1>1, <1>3, StageOf
<1>5. x \in {0, 1} /\ y \in {0, 1} /\ x + y <= 1
  BY <1>4
<1>6. Sums(mails[h], sent[h], announced[h], cuts[h], losses[h], x, y, 0)
  BY <1>1, <1>3 DEF Books, Kept
<1>7. CASE UNCHANGED ledgers
  <2>1. Sums(mails[h], sent[h], announced[h], cuts[h] + 1, losses[h], 0, 0, 0)
    BY <1>2, <1>5, <1>6 DEF Sums
  <2> QED BY <1>0, <1>2, <1>7, <2>1 DEF ledgers
<1>8. CASE /\ work[l].stage = "send"
           /\ mails' = Count(mails, h)
           /\ UNCHANGED <<sent, failed, announced>>
  <2>1. x = 0 /\ y = 0
    BY <1>4, <1>8
  <2>2. /\ mails' \in Ledger /\ mails'[h] = mails[h] + 1
        /\ \A s \in Sources \ {h} : mails'[s] = mails[s]
    BY <1>1, <1>2, <1>8, Counted
  <2>3. Sums(mails[h] + 1, sent[h], announced[h], cuts[h] + 1, losses[h], 0, 0, 0)
    BY <1>2, <1>6, <2>1 DEF Sums
  <2> QED BY <1>0, <1>2, <1>8, <2>2, <2>3
<1>9. CASE /\ work[l].stage = "save" /\ Store(l) /\ UNCHANGED <<mails, announced>>
  <2>1. /\ sent' \in Ledger /\ failed' \in Ledger
        /\ \A s \in Sources \ {h} : sent'[s] = sent[s] /\ failed'[s] = failed[s]
    BY <1>0, <1>1, <1>9, StoreEffect DEF IInv
  <2>2. CASE work[l].status = "SENT"
    <3>1. x = 1 /\ y = 0 /\ sent'[h] = sent[h] + 1 /\ failed'[h] = failed[h]
      BY <1>0, <1>1, <1>4, <1>9, <2>2, StoreEffect DEF Works, IInv
    <3>2. Sums(mails[h], sent[h] + 1, announced[h], cuts[h] + 1, losses[h], 0, 0, 0)
      BY <1>2, <1>6, <3>1 DEF Sums
    <3> QED BY <1>0, <1>2, <1>9, <2>1, <3>1, <3>2
  <2>3. CASE work[l].status # "SENT"
    <3>1. x = 0 /\ y = 0 /\ sent'[h] = sent[h] /\ failed'[h] = failed[h] + 1
      BY <1>0, <1>1, <1>4, <1>9, <2>3, StoreEffect DEF Works, IInv
    <3>2. Sums(mails[h], sent[h], announced[h], cuts[h] + 1, losses[h], 0, 0, 0)
      BY <1>2, <1>6, <3>1 DEF Sums
    <3> QED BY <1>0, <1>2, <1>9, <2>1, <3>1, <3>2
  <2> QED BY <2>2, <2>3
<1>10. CASE /\ work[l].stage = "publish"
            /\ announced' = Count(announced, h)
            /\ UNCHANGED <<mails, sent, failed>>
  <2>1. x = 0 /\ y = 1
    BY <1>1, <1>4, <1>10 DEF Works
  <2>2. /\ announced' \in Ledger /\ announced'[h] = announced[h] + 1
        /\ \A s \in Sources \ {h} : announced'[s] = announced[s]
    BY <1>1, <1>2, <1>10, Counted
  <2>3. Sums(mails[h], sent[h], announced[h] + 1, cuts[h] + 1, losses[h], 0, 0, 0)
    BY <1>2, <1>6, <2>1 DEF Sums
  <2> QED BY <1>0, <1>2, <1>10, <2>2, <2>3
<1> QED BY <1>0, <1>7, <1>8, <1>9, <1>10 DEF PartlyDone

\* A call that fails is retried as its copy's count allows, which is no more often
\* than the group was cut off on it.
LEMMA ThrowsInv == ASSUME IInv, NEW l \in Lanes, Throws(l) PROVE IInv'
<1>0. PICK h, n : h = Served(l) /\ n = Upcoming(l).retry
  OBVIOUS
<1>1. /\ work[l] # Idle /\ cuts' = Count(cuts, h) /\ PartlyDone(l) /\ Retry(l) /\ Pass(l)
      /\ UNCHANGED <<scope, happened, losses, stored, settled>>
      /\ faults' \in 0..MaxFaults
  BY <1>0, Faults DEF Throws, Retry
<1>2. /\ at[l] < Len(log[l]) /\ h \in Sources /\ h \in happened /\ LaneOf[h] = l
      /\ h \notin stored /\ FateOK(h) /\ Books(h)
  BY <1>0, <1>1, BusyFacts
<1>3. /\ at[l] + 1 \in 1 .. Len(log[l]) /\ n \in 0..MaxRetries /\ n \in Nat
      /\ Upcoming(l) \in Messages
  BY <1>0, <1>2, ServedFacts, MaxRetriesAssumption
<1>4. Upcoming(l) = Message(h, n) /\ log[l][at[l] + 1] = Message(h, n)
  BY <1>0, <1>3 DEF Upcoming, Served, Message, Messages
<1>5. /\ cuts' \in Ledger /\ cuts'[h] = cuts[h] + 1
      /\ \A s \in Sources \ {h} : cuts'[s] = cuts[s]
  BY <1>1, <1>2, Counted DEF IInv, Shape
<1>6. /\ sent[h] \in Nat /\ failed[h] \in Nat /\ cuts[h] \in Nat /\ losses[h] \in Nat
      /\ \A s \in Sources : losses[s] <= losses'[s] /\ cuts[s] \in Nat
  BY <1>1, <1>2, Nums DEF IInv, Shape, Ledger
<1>7. Grown
  BY <1>1, <1>5, <1>6 DEF Grown
<1>8. cuts'[h] > n \/ h \in settled'
  BY <1>0, <1>1, <1>2, <1>3, <1>5, <1>6, Chained
<1>9. Passes
  BY <1>0, <1>1, <1>2, <1>8, GoesOn DEF Pass
<1>10. /\ mails' \in Ledger /\ sent' \in Ledger /\ failed' \in Ledger /\ announced' \in Ledger
       /\ \A s \in Sources \ {h} :
              /\ mails'[s] = mails[s] /\ sent'[s] = sent[s] /\ failed'[s] = failed[s]
              /\ announced'[s] = announced[s]
       /\ sent[h] + failed[h] <= sent'[h] + failed'[h]
       /\ Sums(mails'[h], sent'[h], announced'[h], cuts[h] + 1, losses[h], 0, 0, 0)
  BY <1>0, <1>1, PartlyEffect
<1>11. \/ dead' = dead \cup {h} /\ log' = log /\ n + 1 > MaxRetries
       \/ dead' = dead /\ n + 1 \in 0..MaxRetries /\ Add(l, Message(h, n + 1))
  BY <1>0, <1>1, <1>3, MaxRetriesAssumption DEF Retry
<1>12. log' = log \/ \E m \in Messages : Add(l, m) /\ NewOK(l, m)
  <2>1. ASSUME n + 1 \in 0..MaxRetries PROVE NewOK(l, Message(h, n + 1))
    <3>1. /\ Message(h, n + 1) \in Messages
          /\ Message(h, n + 1).source = h /\ Message(h, n + 1).retry = n + 1
      BY <1>2, <2>1, Copied
    <3>2. (n + 1) - 1 = n
      BY <1>3
    <3> QED BY <1>1, <1>2, <1>3, <1>4, <3>1, <3>2 DEF NewOK
  <2> QED BY <1>2, <1>11, <2>1, Copied
<1>13. Shape'
  <2>1. log' \in [Lanes -> Seq(Messages)]
    BY <1>2, <1>11, AddType, Copied DEF IInv, Shape
  <2> QED BY <1>1, <1>2, <1>5, <1>10, <1>11, <2>1, PassEffect DEF IInv, Shape
<1>14. Around(l, h)
  BY <1>0, <1>1, <1>2, <1>5, <1>6, <1>10, <1>11, PassEffect DEF Around
<1>15. BusyOK(l)'
  BY <1>1, <1>2, PassEffect
<1>16. Books(h)'
  <2>1. AtStage(h, "save")' = 0 /\ AtStage(h, "publish")' = 0
    BY <1>1, <1>2, PassEffect
  <2> QED BY <1>1, <1>2, <1>5, <1>10, <2>1 DEF Books, Kept
<1>17. FateOK(h)'
  <2>1. sent'[h] \in Nat /\ failed'[h] \in Nat
    BY <1>2, <1>10 DEF Ledger
  <2>2. h \in settled' => losses'[h] > 0
    BY <1>1, <1>2 DEF FateOK
  <2>3. h \in dead' => cuts'[h] > MaxRetries \/ losses'[h] > 0
    <3>1. CASE n + 1 > MaxRetries
      BY <1>3, <1>5, <1>6, <1>8, <2>2, <3>1, MaxRetriesAssumption
    <3>2. CASE dead' = dead
      BY <1>1, <1>2, <1>5, <1>6, <3>2, MaxRetriesAssumption DEF FateOK
    <3> QED BY <1>11, <3>1, <3>2
  <2> QED BY <1>1, <1>2, <1>6, <1>10, <2>1, <2>2, <2>3 DEF FateOK
<1>18. Reached(h)
  BY <1>0, <1>2, ReachedHere
<1> QED BY <1>7, <1>9, <1>12, <1>13, <1>14, <1>15, <1>16, <1>17, <1>18, LaneStep

\* The next owner of a lane starts where the lane was or before, and what its store
\* has lost is accounted for.
LEMMA HandoverInv == ASSUME IInv, NEW l \in Lanes, Handover(l) PROVE IInv'
<1>0. PICK h : h = IF work[l] = Idle THEN "none" ELSE Served(l)
  OBVIOUS
<1>1. PICK offset \in 0 .. at[l], kept \in SUBSET (settled \cap OfLane(l)) :
          Resume(l, offset, kept)
  BY DEF Handover
<1>2. PICK lost : lost = (stored \cap OfLane(l)) \ kept
  OBVIOUS
<1>3. /\ at' = [at EXCEPT ![l] = offset]
      /\ work' = [work EXCEPT ![l] = Idle]
      /\ stored' = (stored \ OfLane(l)) \cup kept
      /\ cuts' = [s \in Sources |->
                     IF s \in (IF work[l] = Idle THEN {} ELSE {Served(l)})
                       THEN cuts[s] + 1 ELSE cuts[s]]
      /\ losses' = [s \in Sources |-> IF s \in lost THEN losses[s] + 1 ELSE losses[s]]
  BY <1>1, <1>2 DEF Resume
<1>4. /\ PartlyDone(l) /\ faults' \in 0..MaxFaults
      /\ UNCHANGED <<scope, happened, log, settled, dead>>
  BY Faults DEF Handover
<1>5. \A s \in Sources : cuts[s] \in Nat /\ losses[s] \in Nat
  BY DEF IInv, Shape, Ledger
<1>6. /\ cuts' \in Ledger /\ losses' \in Ledger
      /\ \A s \in Sources : /\ cuts[s] <= cuts'[s] /\ losses[s] <= losses'[s]
                            /\ s \in lost => losses[s] < losses'[s]
                            /\ s \notin lost => losses'[s] = losses[s]
  BY <1>3, <1>5 DEF Ledger
<1>7. /\ \A s \in Sources \ {h} : cuts'[s] = cuts[s]
      /\ work[l] # Idle => cuts'[Served(l)] = cuts[Served(l)] + 1
  <2>1. CASE work[l] = Idle
    BY <1>3, <2>1
  <2>2. CASE work[l] # Idle
    BY <1>0, <1>3, <2>2, BusyFacts
  <2> QED BY <2>1, <2>2
<1>8. /\ stored' \subseteq settled /\ kept \subseteq OfLane(l)
      /\ \A s \in stored' \ stored : LaneOf[s] = l
      /\ \A s \in Sources : s \in stored => s \in stored' \/ s \in lost
  BY <1>1, <1>2, <1>3 DEF IInv, Shape, OfLane
<1>9. /\ work' \in [Lanes -> Works] /\ work'[l] = Idle
      /\ \A k \in Lanes \ {l} : Undisturbed(k)
  BY <1>3 DEF IInv, Shape, Undisturbed, Works
<1>10. Passes
  BY <1>3, GoesBack
<1>11. Grown
  BY <1>4, <1>6 DEF Grown
<1>12. BusyOK(l)'
  BY <1>9 DEF BusyOK
<1>13. CASE work[l] = Idle
  <2>1. UNCHANGED ledgers
    BY <1>4, <1>13 DEF PartlyDone, Idle
  <2>2. h = "none"
    BY <1>0, <1>13
  <2>3. Shape'
    BY <1>4, <1>6, <1>8, <1>9, <1>10, <2>1 DEF IInv, Shape, Passes, ledgers
  <2>4. Around(l, h)
    BY <1>4, <1>6, <1>7, <1>8, <1>9, <1>13, <2>1 DEF Around, ledgers
  <2> QED BY <1>4, <1>10, <1>11, <1>12, <2>2, <2>3, <2>4, LaneStep, Nobody
<1>14. CASE work[l] # Idle
  <2>1. h = Served(l)
    BY <1>0, <1>14
  <2>2. /\ at[l] < Len(log[l]) /\ h \in Sources /\ LaneOf[h] = l
        /\ h \notin stored /\ FateOK(h)
    BY <1>14, <2>1, BusyFacts
  <2>3. /\ mails' \in Ledger /\ sent' \in Ledger /\ failed' \in Ledger /\ announced' \in Ledger
        /\ \A s \in Sources \ {h} :
               /\ mails'[s] = mails[s] /\ sent'[s] = sent[s] /\ failed'[s] = failed[s]
               /\ announced'[s] = announced[s]
        /\ sent[h] + failed[h] <= sent'[h] + failed'[h]
        /\ Sums(mails'[h], sent'[h], announced'[h], cuts[h] + 1, losses[h], 0, 0, 0)
    BY <1>4, <1>14, <2>1, PartlyEffect
  <2>4. Shape'
    BY <1>4, <1>6, <1>8, <1>9, <1>10, <2>3 DEF IInv, Shape, Passes
  <2>5. Around(l, h)
    BY <1>4, <1>6, <1>7, <1>8, <1>9, <2>1, <2>3 DEF Around
  <2>6. /\ cuts[h] \in Nat /\ losses[h] \in Nat /\ sent[h] \in Nat /\ failed[h] \in Nat
        /\ mails'[h] \in Nat /\ sent'[h] \in Nat /\ failed'[h] \in Nat /\ announced'[h] \in Nat
        /\ cuts'[h] = cuts[h] + 1 /\ losses'[h] = losses[h]
    <3>1. h \notin lost
      BY <1>2, <2>2
    <3>2. sent[h] \in Nat /\ failed[h] \in Nat
      BY <2>2, Nums DEF IInv
    <3> QED BY <1>5, <1>6, <1>7, <1>14, <2>1, <2>2, <2>3, <3>1, <3>2 DEF Ledger
  <2>7. Books(h)'
    <3>1. AtStage(h, "save")' = 0 /\ AtStage(h, "publish")' = 0
      BY <1>9, <2>2 DEF AtStage, Idle
    <3>2. Kept(h)' \in {0, 1}
      BY DEF Kept
    <3> QED BY <2>3, <2>6, <3>1, <3>2 DEF Books, Sums
  <2>8. FateOK(h)'
    BY <1>4, <2>2, <2>3, <2>6, MaxRetriesAssumption DEF FateOK
  <2>9. Reached(h)
    BY <2>1, <2>2, ReachedHere
  <2> QED BY <1>4, <1>10, <1>11, <1>12, <2>4, <2>5, <2>7, <2>8, <2>9, LaneStep
<1> QED BY <1>13, <1>14

LEMMA InitInv == Init => IInv
<1>1. SUFFICES ASSUME Init PROVE IInv
  OBVIOUS
<1>2. \A l \in Lanes : log[l] = <<>> /\ at[l] = 0 /\ work[l] = Idle /\ Len(log[l]) = 0
  BY <1>1 DEF Init
<1>3. \A s \in Sources : /\ mails[s] = 0 /\ sent[s] = 0 /\ failed[s] = 0 /\ announced[s] = 0
                         /\ cuts[s] = 0 /\ losses[s] = 0
  BY <1>1 DEF Init, None
<1>4. Shape
  <2>1. Idle \in Works /\ <<>> \in Seq(Messages) /\ None \in Ledger
    BY DEF Works, None, Ledger
  <2> QED BY <1>1, <2>1, MaxFaultsAssumption DEF Init, Shape
<1>5. \A l \in Lanes : LaneOK(l)
  BY <1>2 DEF LaneOK
<1>6. ASSUME NEW s \in Sources PROVE Books(s) /\ FateOK(s) /\ OrderOK(s)
  <2>1. AtStage(s, "save") = 0 /\ AtStage(s, "publish") = 0
    BY <1>2, LanesOfSources, NoStage
  <2>2. Kept(s) = 0
    BY <1>1 DEF Init, Kept
  <2> QED BY <1>1, <1>3, <2>1, <2>2 DEF Init, Books, Sums, FateOK, OrderOK
<1> QED BY <1>4, <1>5, <1>6 DEF IInv

LEMMA StutterInv == ASSUME IInv, UNCHANGED vars PROVE IInv'
<1>1. /\ UNCHANGED <<scope, happened, log, at, work, stored, mails, sent, failed, announced,
                     settled, dead, cuts, losses, faults>>
  BY DEF vars, lanes, ledgers
<1>2. Shape'
  BY <1>1 DEF IInv, Shape
<1>3. Grown
  BY <1>1 DEF Grown, IInv, Shape, Ledger
<1>4. Passes
  BY <1>1, Stays
<1>5. Around("order", "none") /\ Undisturbed("order") /\ stored' = stored
  <2>1. \A s \in Sources : losses[s] <= losses[s]
    BY DEF IInv, Shape, Ledger
  <2> QED BY <1>1, <2>1 DEF Around, Undisturbed
<1>6. "order" \in Lanes
  BY DEF Lanes
<1> QED BY <1>1, <1>2, <1>3, <1>4, <1>5, <1>6, LaneStep, Nobody

LEMMA NextInv == IInv /\ [Next]_vars => IInv'
<1>1. ASSUME IInv, NEW s \in Sources, Happens(s) \/ AnotherCopy(s) PROVE IInv'
  BY <1>1, HappensInv, AnotherCopyInv
<1>2. ASSUME IInv, NEW l \in Lanes, Serve(l) \/ Throws(l) \/ Handover(l) PROVE IInv'
  BY <1>2, BeginInv, SendInv, SaveInv, PublishInv, ThrowsInv, HandoverInv DEF Serve
<1> QED BY <1>1, <1>2, StutterInv DEF Next

----------------------------------------------------------------------------
\* What it says

\* The invariant holds in every behaviour, whatever comes to the topics, in
\* whatever order and however often.
THEOREM Invariant == Spec => []IInv
<1>1. Init => IInv
  BY InitInv
<1>2. IInv /\ [Next]_vars => IInv'
  BY NextInv
<1> QED BY <1>1, <1>2, PTL DEF Spec

\* The type invariant of the notification service.
THEOREM TypeCorrect == Spec => []TypeOK
<1>1. Works \subseteq [stage : {"idle", "send", "save", "publish"},
                       status : {"none", "SENT", "FAILED"}]
  BY DEF Works, Idle
<1>2. ASSUME IInv PROVE TypeOK
  <2>1. Shape
    BY <1>2 DEF IInv
  <2>2. work \in [Lanes -> [stage : {"idle", "send", "save", "publish"},
                            status : {"none", "SENT", "FAILED"}]]
    BY <1>1, <2>1 DEF Shape
  <2>3. log \in [Lanes -> Seq([source : Sources, retry : 0..MaxRetries])]
    BY <2>1 DEF Shape, Messages
  <2>4. \A l \in Lanes : at[l] \in 0..Len(log[l])
    BY <1>2 DEF IInv, Shape, LaneOK
  <2> QED BY <2>1, <2>2, <2>3, <2>4 DEF Shape, TypeOK
<1>3. IInv => TypeOK
  BY <1>2
<1> QED BY <1>3, Invariant, PTL

\* A customer gets one mail about a source, and at most one more for each call that
\* failed or was cut off and each time the store lost it, whoever calls, retries,
\* publishes or requeues.
THEOREM OneMail == Spec => []OneMailUnlessCut
<1>1. ASSUME IInv, NEW s \in Sources PROVE mails[s] <= 1 + cuts[s] + losses[s]
  <2>1. PICK x, y, z : x = AtStage(s, "save") /\ y = AtStage(s, "publish") /\ z = Kept(s)
    OBVIOUS
  <2>2. x \in {0, 1} /\ y \in {0, 1} /\ z \in {0, 1} /\ x + y <= 1
    <3>1. x + y <= 1
      BY <2>1 DEF AtStage
    <3> QED BY <1>1, <2>1, <3>1, Nums DEF IInv
  <2>3. z = 1 => x = 0 /\ y = 0
    <3>1. CASE work[LaneOf[s]] # Idle
      <4>1. Served(LaneOf[s]) \notin stored
        BY <1>1, <3>1, LanesOfSources, BusyFacts
      <4> QED BY <2>1, <4>1 DEF Kept, AtStage
    <3>2. CASE work[LaneOf[s]] = Idle
      BY <2>1, <3>2, NoStage
    <3> QED BY <3>1, <3>2
  <2>4. mails[s] <= cuts[s] + losses[s] + x + y + z
    BY <1>1, <2>1 DEF IInv, Books, Sums
  <2>5. mails[s] \in Nat /\ cuts[s] \in Nat /\ losses[s] \in Nat
    BY <1>1, Nums DEF IInv
  <2> QED BY <2>2, <2>3, <2>4, <2>5
<1>2. IInv => OneMailUnlessCut
  BY <1>1 DEF OneMailUnlessCut
<1> QED BY <1>2, Invariant, PTL

\* No record says SENT without a mail, no event without a record, and a mail
\* without a record, or a record without an event, was cut off.
THEOREM Records == Spec => []RecordsAreTrue
<1>1. ASSUME IInv, NEW s \in Sources
      PROVE  /\ sent[s] <= mails[s]
             /\ announced[s] <= sent[s]
             /\ mails[s] <= sent[s] + AtStage(s, "save") + cuts[s]
             /\ sent[s] <= announced[s] + AtStage(s, "publish") + cuts[s]
  BY <1>1, Nums DEF IInv, Books, Sums
<1>2. IInv => RecordsAreTrue
  BY <1>1 DEF RecordsAreTrue
<1> QED BY <1>2, Invariant, PTL

\* What was handled left a record, and what was given up had failed MaxRetries + 1
\* times in this group, unless its store had lost it, whatever retry counts the
\* copies came with.
THEOREM NothingIsForgotten == Spec => []NothingForgotten
<1>1. IInv => NothingForgotten
  BY DEF IInv, FateOK, NothingForgotten
<1> QED BY <1>1, Invariant, PTL

\* A customer hears of one event of a topic before another that was published
\* earlier only if the mail about the latter was refused or its handling failed.
THEOREM ToldInTopicOrder == Spec => []ToldInOrder
<1>1. ASSUME IInv, NEW s \in Sources, NEW t \in Sources,
             LaneOf[s] = LaneOf[t], Precedes(s, t), TypeOf[s] # "none", mails[t] > 0
      PROVE  mails[s] > 0 \/ failed[s] > 0 \/ cuts[s] > 0
  <2>1. PICK l : l = LaneOf[t] /\ l = LaneOf[s]
    BY <1>1
  <2>2. l \in Lanes /\ log[l] \in Seq(Messages)
    BY <1>1, <2>1, LanesOfSources DEF IInv, Shape
  <2>3. PICK k \in 1 .. Len(log[l]) :
            /\ log[l][k].source = t
            /\ \A i \in 1 .. k - 1 : LET c == log[l][i].source IN c \in settled \/ cuts[c] > 0
    BY <1>1, <2>1 DEF IInv, OrderOK, Reached
  <2>4. PICK i \in 1 .. Len(log[l]) :
            /\ log[l][i].source = s
            /\ \A j \in 1 .. Len(log[l]) : log[l][j].source = t => i < j
    BY <1>1, <2>1, <2>2 DEF Precedes
  <2>5. i \in 1 .. k - 1
    BY <2>2, <2>3, <2>4
  <2>6. s \in settled \/ cuts[s] > 0
    BY <2>3, <2>4, <2>5
  <2>7. CASE s \in settled
    <3>1. sent[s] + failed[s] > 0
      BY <1>1, <2>7 DEF IInv, FateOK
    <3>2. Books(s) /\ AtStage(s, "save") \in {0, 1}
      BY <1>1, Nums DEF IInv
    <3>3. sent[s] \in Nat /\ failed[s] \in Nat /\ mails[s] \in Nat
      BY <1>1, Nums DEF IInv
    <3> QED BY <3>1, <3>2, <3>3 DEF Books, Sums
  <2> QED BY <2>6, <2>7
<1>2. IInv => ToldInOrder
  BY <1>1 DEF ToldInOrder
<1> QED BY <1>2, Invariant, PTL

============================================================================
