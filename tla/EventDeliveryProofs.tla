------------------------ MODULE EventDeliveryProofs ------------------------
(***************************************************************************)
(* Machine-checked proofs about EventDelivery, for every number of events, *)
(* every set of processes and groups, every batch size and retry limit,    *)
(* every set of faults and every number of them.                           *)
(***************************************************************************)
EXTENDS EventDelivery, FiniteSetTheorems, TLAPS

Msgs == [event : Events, retry : 0..MaxRetries]
Works == [stage : WorkStages, event : 0..NumEvents, retry : 0..MaxRetries]

OutboxTyped ==
    /\ inserted \subseteq Events
    /\ published \subseteq inserted
    /\ poll \in [Polls -> [stage : Stages, rows : Seq(Events)]]

LogTyped ==
    /\ topic \in Seq(Msgs)
    /\ position \in [Groups -> Nat]
    /\ committed \in [Groups -> Nat]

MembersTyped ==
    /\ owner \in [Groups -> Processes]
    /\ \A g \in Groups : owner[g] \in Members[g]
    /\ work \in [Processes -> [Groups -> Works]]
    /\ producer \in [Processes -> {"none", "connected", "rejected"}]
    /\ processed \in [Processes -> [Groups -> SUBSET Events]]

HistoryTyped ==
    /\ handled \in [Groups -> [Events -> Nat]]
    /\ failures \in [Groups -> [Events -> Nat]]
    /\ dead \in [Groups -> SUBSET Events]

Counters ==
    /\ losses \in [Groups -> [Events -> Nat]]
    /\ \A g \in Groups, e \in Events : losses[g][e] <= faults
    /\ throws \in 0..MaxThrows
    /\ faults \in 0..MaxFaults

Typed == OutboxTyped /\ LogTyped /\ MembersTyped /\ HistoryTyped /\ Counters

----------------------------------------------------------------------------
\* A tick under way has rows left, all of them inserted.
RowsAreReal ==
    \A t \in Polls :
        poll[t].stage # "idle" =>
            /\ poll[t].rows # <<>>
            /\ \A i \in 1..Len(poll[t].rows) : poll[t].rows[i] \in inserted

\* A row is marked, or about to be marked, only when its event is in the log.
Logged(e) == \E i \in 1..Len(topic) : topic[i].event = e

SentIsLogged ==
    /\ \A e \in published : Logged(e)
    /\ \A t \in Polls : poll[t].stage = "mark" => Logged(Head(poll[t].rows))

Offsets ==
    \A g \in Groups : committed[g] <= position[g] /\ position[g] <= Len(topic)

\* The message in a process's hands is in the log; the owner's is the next one.
InHand(p, g) == Message(work[p][g].event, work[p][g].retry)

WorkIsLogged ==
    \A p \in Processes, g \in Groups :
        work[p][g].stage # "idle" => \E i \in 1..Len(topic) : topic[i] = InHand(p, g)

OwnerIsAtPosition ==
    \A g \in Groups :
        work[owner[g]][g].stage # "idle" =>
            /\ position[g] < Len(topic)
            /\ topic[position[g] + 1] = InHand(owner[g], g)

StoredIsHandled ==
    \A p \in Processes, g \in Groups : \A e \in processed[p][g] : handled[g][e] > 0

\* The copies of an event that a group is through with settled it, or there is
\* another copy ahead.
Ahead(g, e) == \E j \in position[g] + 1 .. Len(topic) : topic[j].event = e

Covered ==
    \A g \in Groups : \A i \in 1..position[g] :
        Settled(g, topic[i].event) \/ Ahead(g, topic[i].event)

\* A copy with a retry count follows one with the count before it.
CopiesAreChained ==
    \A i \in 1..Len(topic) :
        topic[i].retry > 0 =>
            \E j \in 1..i - 1 : topic[j] = Message(topic[i].event, topic[i].retry - 1)

\* Group g handled the event or failed on it at least n times.
Tried(g, e, n) == handled[g][e] > 0 \/ failures[g][e] >= n

PassedIsTried ==
    \A g \in Groups : \A i \in 1..position[g] :
        Tried(g, topic[i].event, topic[i].retry + 1)

InHandIsTried ==
    \A p \in Processes, g \in Groups :
        /\ work[p][g].stage = "handle" =>
               Tried(g, work[p][g].event, work[p][g].retry)
        /\ work[p][g].stage = "requeue" =>
               Tried(g, work[p][g].event, work[p][g].retry + 1)

\* The owner has handled the event or is about to, and every other time it was
\* handled, or will be by a former owner, is paid for by a loss.
Handlers(g, e) ==
    {p \in Processes : work[p][g].stage = "handle" /\ work[p][g].event = e}

OwnerHasSeen(g, e) == e \in processed[owner[g]][g] \/ owner[g] \in Handlers(g, e)

HandlingIsPaidFor ==
    \A g \in Groups, e \in Events :
        /\ IsFiniteSet(Handlers(g, e))
        /\ handled[g][e] + Cardinality(Handlers(g, e)) <=
               losses[g][e] + (IF OwnerHasSeen(g, e) THEN 1 ELSE 0)

Flow == RowsAreReal /\ SentIsLogged /\ Offsets /\ WorkIsLogged
          /\ OwnerIsAtPosition /\ StoredIsHandled /\ Covered

Tries == CopiesAreChained /\ PassedIsTried /\ InHandIsTried
           /\ DeadLetteredOnlyWhenExhausted

IInv == Typed /\ Flow /\ Tries /\ HandlingIsPaidFor

USE NumEventsAssumption, MaxRetriesAssumption, MaxThrowsAssumption,
    MaxFaultsAssumption

----------------------------------------------------------------------------
\* The outbox

LEMMA AppendFacts ==
    ASSUME NEW S, NEW s \in Seq(S), NEW m \in S, NEW q, q = Append(s, m)
    PROVE  /\ q \in Seq(S)
           /\ Len(q) = Len(s) + 1
           /\ \A i \in 1..Len(s) : q[i] = s[i]
           /\ q[Len(s) + 1] = m
OBVIOUS

LEMMA TailFacts ==
    ASSUME NEW S, NEW s \in Seq(S), s # <<>>, Len(s) # 1
    PROVE  /\ Tail(s) \in Seq(S)
           /\ Tail(s) # <<>>
           /\ \A i \in 1..Len(Tail(s)) : i + 1 \in 1..Len(s) /\ Tail(s)[i] = s[i + 1]
<1>1. Len(s) \in Nat \ {0, 1}
  OBVIOUS
<1>2. Tail(s) \in Seq(S) /\ Len(Tail(s)) = Len(s) - 1
  OBVIOUS
<1>3. Tail(s) # <<>>
  <2>1. Len(Tail(s)) # 0
    BY <1>1, <1>2
  <2>2. Len(<<>>) = 0
    OBVIOUS
  <2> QED BY <2>1, <2>2
<1>4. \A i \in 1..Len(Tail(s)) : i + 1 \in 1..Len(s) /\ Tail(s)[i] = s[i + 1]
  BY <1>1, <1>2
<1> QED BY <1>2, <1>3, <1>4

LEMMA HeadFacts ==
    ASSUME NEW S, NEW s \in Seq(S), s # <<>>
    PROVE  1 \in 1..Len(s) /\ Head(s) = s[1] /\ Head(s) \in S
OBVIOUS

\* Tick t has work at hand; u is any tick after it went on to its next row.
LEMMA NextRowFacts ==
    ASSUME OutboxTyped, RowsAreReal, NEW t \in Polls, poll[t].stage # "idle",
           NextRow(t)
    PROVE  /\ poll' \in [Polls -> [stage : Stages, rows : Seq(Events)]]
           /\ \A u \in Polls : u # t => poll'[u] = poll[u]
           /\ poll'[t].stage \in {"idle", "send"}
           /\ poll'[t].stage # "idle" =>
                  /\ poll'[t].rows # <<>>
                  /\ \A i \in 1..Len(poll'[t].rows) : poll'[t].rows[i] \in inserted
<1> DEFINE rows == poll[t].rows
<1>1. rows \in Seq(Events) /\ rows # <<>> /\ \A i \in 1..Len(rows) : rows[i] \in inserted
  BY DEF OutboxTyped, RowsAreReal
<1>2. CASE Len(rows) = 1
  <2>1. poll' = [poll EXCEPT ![t] = Idle]
    BY <1>2 DEF NextRow
  <2>2. Idle \in [stage : Stages, rows : Seq(Events)]
    BY DEF Idle, Stages
  <2> QED BY <2>1, <2>2 DEF OutboxTyped, Idle
<1>3. CASE Len(rows) # 1
  <2>1. poll' = [poll EXCEPT ![t] = [stage |-> "send", rows |-> Tail(rows)]]
    BY <1>3 DEF NextRow
  <2>2. /\ Tail(rows) \in Seq(Events)
        /\ Tail(rows) # <<>>
        /\ \A i \in 1..Len(Tail(rows)) : Tail(rows)[i] \in inserted
    BY <1>1, <1>3, TailFacts
  <2>3. [stage |-> "send", rows |-> Tail(rows)] \in [stage : Stages, rows : Seq(Events)]
    BY <2>2 DEF Stages
  <2>4. poll'[t] = [stage |-> "send", rows |-> Tail(rows)]
    BY <2>1 DEF OutboxTyped
  <2> QED BY <2>1, <2>2, <2>3, <2>4 DEF OutboxTyped
<1> QED BY <1>2, <1>3

LEMMA BatchFacts ==
    ASSUME NEW rows, rows \subseteq Events, rows # {}, NEW b \in Batches(rows)
    PROVE  b \in Seq(Events) /\ b # <<>> /\ \A i \in 1..Len(b) : b[i] \in rows
<1>1. IsFiniteSet(rows) /\ Cardinality(rows) \in Nat \ {0}
  <2>1. IsFiniteSet(Events)
    BY FS_Interval DEF Events
  <2>2. IsFiniteSet(rows)
    BY <2>1, FS_Subset
  <2> QED BY <2>2, FS_CardinalityType, FS_EmptySet
<1>2. PICK k \in Nat \ {0} : b \in [1..k -> rows]
  BY <1>1, BatchSizeAssumption DEF Batches
<1>3. b \in Seq(rows) /\ Len(b) = k
  BY <1>2
<1> QED BY <1>2, <1>3

LEMMA StageFacts ==
    ASSUME OutboxTyped, NEW t \in Polls, NEW st
    PROVE  [poll EXCEPT ![t].stage = st]
               = [poll EXCEPT ![t] = [stage |-> st, rows |-> poll[t].rows]]
<1>1. poll[t] \in [stage : Stages, rows : Seq(Events)]
  BY DEF OutboxTyped
<1>2. [poll[t] EXCEPT !.stage = st] = [stage |-> st, rows |-> poll[t].rows]
  BY <1>1
<1>3. [poll EXCEPT ![t].stage = st] = [poll EXCEPT ![t] = [poll[t] EXCEPT !.stage = st]]
  BY DEF OutboxTyped
<1> QED BY <1>2, <1>3

\* What the poller sees of the state: a step of the poller keeps it.
OutboxGood == OutboxTyped /\ RowsAreReal /\ SentIsLogged

LogGrows ==
    \/ topic' = topic
    \/ \E e \in Events : topic' = Append(topic, Message(e, 0))

LEMMA MessageType == \A e \in Events, n \in 0..MaxRetries : Message(e, n) \in Msgs
BY DEF Message, Msgs

LEMMA NoRetryType == \A e \in Events : Message(e, 0) \in Msgs
BY MessageType

\* Whatever is in the log stays there.
LEMMA LoggedGrows ==
    ASSUME LogTyped, \/ topic' = topic
                     \/ \E m \in Msgs : topic' = Append(topic, m)
    PROVE  /\ topic' \in Seq(Msgs)
           /\ Len(topic) <= Len(topic')
           /\ \A i \in 1..Len(topic) : i \in 1..Len(topic') /\ topic'[i] = topic[i]
           /\ \A e : Logged(e) => Logged(e)'
<1>1. /\ topic' \in Seq(Msgs)
      /\ Len(topic) <= Len(topic')
      /\ \A i \in 1..Len(topic) : i \in 1..Len(topic') /\ topic'[i] = topic[i]
  <2>1. CASE topic' = topic
    BY <2>1 DEF LogTyped
  <2>2. ASSUME NEW m \in Msgs, topic' = Append(topic, m)
        PROVE  <1>1!:
    BY <2>2, AppendFacts DEF LogTyped
  <2> QED BY <2>1, <2>2
<1> QED BY <1>1 DEF Logged

LEMMA InsertGood ==
    ASSUME Typed, OutboxGood, NEW e \in Events, Insert(e) PROVE OutboxGood' /\ LogGrows
BY DEF Insert, Typed, OutboxGood, OutboxTyped, RowsAreReal, SentIsLogged, Logged, LogGrows

LEMMA SelectGood ==
    ASSUME Typed, OutboxGood, NEW t \in Polls, Select(t) PROVE OutboxGood' /\ LogGrows
<1> DEFINE rows == inserted \ (published \cup Locked)
<1>1. PICK b \in Batches(rows) : poll' = [poll EXCEPT ![t] = [stage |-> "select", rows |-> b]]
  BY DEF Select
<1>2. rows # {} /\ rows \subseteq Events /\ rows \subseteq inserted
  BY DEF Select, OutboxGood, OutboxTyped
<1>3. b \in Seq(Events) /\ b # <<>> /\ \A i \in 1..Len(b) : b[i] \in inserted
  <2> HIDE DEF rows
  <2> QED BY <1>2, BatchFacts
<1>4. [stage |-> "select", rows |-> b] \in [stage : Stages, rows : Seq(Events)]
  BY <1>3 DEF Stages
<1>5. OutboxTyped'
  BY <1>1, <1>4 DEF OutboxGood, OutboxTyped, Select
<1>6. /\ poll'[t] = [stage |-> "select", rows |-> b]
      /\ \A u \in Polls : u # t => poll'[u] = poll[u]
  BY <1>1 DEF OutboxGood, OutboxTyped
<1>7. RowsAreReal'
  BY <1>3, <1>6 DEF OutboxGood, RowsAreReal, Select
<1>8. SentIsLogged'
  BY <1>6 DEF OutboxGood, SentIsLogged, Select, Logged
<1> QED BY <1>5, <1>7, <1>8 DEF OutboxGood, Select, LogGrows

LEMMA EndSelectGood ==
    ASSUME Typed, OutboxGood, NEW t \in Polls, EndSelect(t) PROVE OutboxGood' /\ LogGrows
<1>1. /\ poll' = [poll EXCEPT ![t] = [stage |-> "send", rows |-> poll[t].rows]]
      /\ poll[t].stage = "select"
  BY StageFacts DEF EndSelect, OutboxGood
<1>2. poll[t].rows \in Seq(Events)
  BY DEF OutboxGood, OutboxTyped
<1>3. [stage |-> "send", rows |-> poll[t].rows] \in [stage : Stages, rows : Seq(Events)]
  BY <1>2 DEF Stages
<1>4. OutboxTyped'
  BY <1>1, <1>3 DEF OutboxGood, OutboxTyped, EndSelect
<1>5. /\ poll'[t] = [stage |-> "send", rows |-> poll[t].rows]
      /\ \A u \in Polls : u # t => poll'[u] = poll[u]
  BY <1>1 DEF OutboxGood, OutboxTyped
<1>6. RowsAreReal'
  BY <1>1, <1>5 DEF OutboxGood, RowsAreReal, EndSelect
<1>7. SentIsLogged'
  BY <1>5 DEF OutboxGood, SentIsLogged, EndSelect, Logged
<1> QED BY <1>4, <1>6, <1>7 DEF OutboxGood, EndSelect, LogGrows

LEMMA SendGood ==
    ASSUME Typed, OutboxGood, NEW t \in Polls, Send(t) PROVE OutboxGood' /\ LogGrows
<1>1. /\ poll' = [poll EXCEPT ![t] = [stage |-> "mark", rows |-> poll[t].rows]]
      /\ poll[t].stage = "send"
  BY StageFacts DEF Send, OutboxGood
<1>2. poll[t].rows \in Seq(Events) /\ poll[t].rows # <<>>
  BY <1>1 DEF OutboxGood, OutboxTyped, RowsAreReal
<1>3. [stage |-> "mark", rows |-> poll[t].rows] \in [stage : Stages, rows : Seq(Events)]
  BY <1>2 DEF Stages
<1>4. OutboxTyped'
  BY <1>1, <1>3 DEF OutboxGood, OutboxTyped, Send
<1>5. /\ poll'[t] = [stage |-> "mark", rows |-> poll[t].rows]
      /\ \A u \in Polls : u # t => poll'[u] = poll[u]
  BY <1>1 DEF OutboxGood, OutboxTyped
<1>6. RowsAreReal'
  BY <1>1, <1>5 DEF OutboxGood, RowsAreReal, Send
<1>7. PICK e \in Events : /\ e = Head(poll[t].rows)
                          /\ topic' = Append(topic, Message(e, 0))
                          /\ Message(e, 0) \in Msgs
  BY <1>2, HeadFacts, NoRetryType DEF Send
<1>8. LogTyped /\ topic \in Seq(Msgs)
  BY DEF Typed, LogTyped
<1>9. Logged(e)'
  <2>1. Len(topic') = Len(topic) + 1 /\ topic'[Len(topic) + 1] = Message(e, 0)
    BY <1>7, <1>8, AppendFacts
  <2>2. Len(topic) + 1 \in 1..Len(topic') /\ topic'[Len(topic) + 1].event = e
    BY <1>8, <2>1 DEF Message
  <2> QED BY <2>2 DEF Logged
<1>10. \A d : Logged(d) => Logged(d)'
  BY <1>7, <1>8, LoggedGrows
<1>11. SentIsLogged'
  <2>1. \A d \in published' : Logged(d)'
    BY <1>10 DEF Send, OutboxGood, SentIsLogged
  <2>2. ASSUME NEW u \in Polls, poll'[u].stage = "mark"
        PROVE  Logged(Head(poll[u].rows))'
    <3>1. CASE u = t
      BY <1>5, <1>7, <1>9, <3>1 DEF Logged
    <3>2. CASE u # t
      <4>1. Logged(Head(poll[u].rows))
        BY <1>5, <2>2, <3>2 DEF OutboxGood, SentIsLogged
      <4> QED BY <1>5, <1>10, <3>2, <4>1 DEF Logged
    <3> QED BY <3>1, <3>2
  <2> QED BY <2>1, <2>2 DEF SentIsLogged
<1> QED BY <1>4, <1>6, <1>7, <1>11 DEF OutboxGood, LogGrows

\* The tick goes on: no row is about to be marked by it, and its rows are real.
LEMMA NextRowGood ==
    ASSUME Typed, OutboxGood, NEW t \in Polls, poll[t].stage # "idle", NextRow(t),
           inserted' = inserted, published' \subseteq inserted,
           \A e \in published' : Logged(e), \A e : Logged(e) => Logged(e)'
    PROVE  OutboxGood'
<1>1. /\ poll' \in [Polls -> [stage : Stages, rows : Seq(Events)]]
      /\ \A u \in Polls : u # t => poll'[u] = poll[u]
      /\ poll'[t].stage \in {"idle", "send"}
      /\ poll'[t].stage # "idle" =>
             /\ poll'[t].rows # <<>>
             /\ \A i \in 1..Len(poll'[t].rows) : poll'[t].rows[i] \in inserted
  BY NextRowFacts DEF OutboxGood
<1>2. OutboxTyped'
  BY <1>1 DEF OutboxGood, OutboxTyped
<1>3. RowsAreReal'
  BY <1>1 DEF OutboxGood, RowsAreReal
<1>4. SentIsLogged'
  <2>1. ASSUME NEW u \in Polls, poll'[u].stage = "mark"
        PROVE  Logged(Head(poll[u].rows))' /\ poll'[u] = poll[u]
    <3>1. poll'[u] = poll[u]
      BY <1>1, <2>1
    <3>2. Logged(Head(poll[u].rows))
      BY <2>1, <3>1 DEF OutboxGood, SentIsLogged
    <3>3. PICK e : e = Head(poll[u].rows)
      OBVIOUS
    <3>4. Logged(e)'
      BY <3>2, <3>3
    <3> QED BY <3>1, <3>3, <3>4 DEF Logged
  <2>2. \A e \in published' : Logged(e)'
    OBVIOUS
  <2> QED BY <2>1, <2>2 DEF SentIsLogged
<1> QED BY <1>2, <1>3, <1>4 DEF OutboxGood

LEMMA MarkGood ==
    ASSUME Typed, OutboxGood, NEW t \in Polls, Mark(t) PROVE OutboxGood' /\ LogGrows
<1>1. PICK e \in Events : e = Head(poll[t].rows) /\ e \in inserted
  BY HeadFacts DEF Mark, OutboxGood, OutboxTyped, RowsAreReal
<1>2. Logged(e) /\ published' = published \cup {e}
  BY <1>1 DEF Mark, OutboxGood, SentIsLogged
<1>3. published' \subseteq inserted /\ \A d \in published' : Logged(d)
  BY <1>1, <1>2 DEF OutboxGood, OutboxTyped, SentIsLogged
<1>4. \A d : Logged(d) => Logged(d)'
  BY DEF Mark, Logged
<1>5. OutboxGood'
  BY <1>3, <1>4, NextRowGood DEF Mark
<1> QED BY <1>5 DEF Mark, LogGrows

LEMMA PollFailsGood ==
    ASSUME Typed, OutboxGood, NEW t \in Polls, SendFails(t) \/ MarkFails(t)
    PROVE  OutboxGood' /\ LogGrows
<1>1. LogGrows
  <2>1. CASE SendFails(t)
    <3>1. Head(poll[t].rows) \in Events
      BY <2>1, HeadFacts DEF SendFails, OutboxGood, OutboxTyped, RowsAreReal
    <3> QED BY <2>1, <3>1 DEF SendFails, LogGrows
  <2>2. CASE MarkFails(t)
    BY <2>2 DEF MarkFails, LogGrows
  <2> QED BY <2>1, <2>2
<1>2. \A d : Logged(d) => Logged(d)'
  BY <1>1, LoggedGrows, NoRetryType DEF Typed, LogGrows
<1>3. OutboxGood'
  BY <1>2, NextRowGood DEF SendFails, MarkFails, OutboxGood, OutboxTyped, SentIsLogged
<1> QED BY <1>1, <1>3

OutboxStep ==
    \/ \E e \in Events : Insert(e)
    \/ \E t \in Polls : Poll(t) \/ SendFails(t) \/ MarkFails(t)

LEMMA OutboxStepGood ==
    ASSUME Typed, OutboxGood, OutboxStep PROVE OutboxGood' /\ LogGrows
BY InsertGood, SelectGood, EndSelectGood, SendGood, MarkGood, PollFailsGood
   DEF OutboxStep, Poll

----------------------------------------------------------------------------
\* What any step keeps, from what it does to the log, the offsets and the work

LogExtends ==
    /\ topic' \in Seq(Msgs)
    /\ Len(topic) <= Len(topic')
    /\ \A i \in 1..Len(topic) : i \in 1..Len(topic') /\ topic'[i] = topic[i]

HistoryGrows ==
    \A g \in Groups : /\ dead[g] \subseteq dead'[g]
                      /\ \A e \in Events : /\ handled[g][e] <= handled'[g][e]
                                           /\ failures[g][e] <= failures'[g][e]

LEMMA MessageFacts ==
    ASSUME NEW s \in Seq(Msgs), NEW i \in 1..Len(s)
    PROVE  /\ s[i] \in Msgs
           /\ s[i].event \in Events
           /\ s[i].retry \in 0..MaxRetries
           /\ s[i] = Message(s[i].event, s[i].retry)
<1>1. s[i] \in Msgs
  OBVIOUS
<1> QED BY <1>1 DEF Msgs, Message

LEMMA SettledGrows ==
    ASSUME HistoryTyped, HistoryTyped', HistoryGrows, NEW g \in Groups,
           NEW e \in Events, Settled(g, e)
    PROVE  Settled(g, e)'
BY DEF HistoryTyped, HistoryGrows, Settled

LEMMA TriedGrows ==
    ASSUME HistoryTyped, HistoryTyped', HistoryGrows, NEW g \in Groups,
           NEW e \in Events, NEW n \in Nat, Tried(g, e, n)
    PROVE  Tried(g, e, n)'
<1>1. /\ handled[g][e] \in Nat /\ handled'[g][e] \in Nat
      /\ failures[g][e] \in Nat /\ failures'[g][e] \in Nat
      /\ handled[g][e] <= handled'[g][e] /\ failures[g][e] <= failures'[g][e]
  BY DEF HistoryTyped, HistoryGrows
<1> QED BY <1>1 DEF Tried

LEMMA CoveredKept ==
    ASSUME LogTyped, LogTyped', HistoryTyped, HistoryTyped', Offsets, Covered,
           LogExtends, HistoryGrows,
           \A g \in Groups :
               \/ position'[g] <= position[g]
               \/ /\ position'[g] = position[g] + 1
                  /\ position[g] < Len(topic)
                  /\ \A e \in Events : topic[position[g] + 1].event = e =>
                         \/ Settled(g, e)'
                         \/ \E j \in position[g] + 2 .. Len(topic') : topic'[j].event = e
    PROVE  Covered'
<1> SUFFICES ASSUME NEW g \in Groups, NEW i \in 1..position'[g], NEW e \in Events,
                    topic'[i].event = e
             PROVE  \/ Settled(g, e)'
                    \/ \E j \in position'[g] + 1 .. Len(topic') : topic'[j].event = e
  <2>1. ASSUME NEW g \in Groups, NEW i \in 1..position'[g]
        PROVE  i \in 1..Len(topic') /\ topic'[i].event \in Events
    <3>0. /\ position[g] \in Nat /\ position'[g] \in Nat /\ position[g] <= Len(topic)
          /\ Len(topic) \in Nat /\ Len(topic') \in Nat /\ Len(topic) <= Len(topic')
      BY DEF LogTyped, Offsets, LogExtends
    <3>1. i \in 1..Len(topic')
      BY <3>0
    <3> QED BY <3>1, MessageFacts DEF LogTyped
  <2> QED BY <2>1 DEF Covered, Ahead, Settled
<1>1. position[g] \in Nat /\ position'[g] \in Nat /\ position[g] <= Len(topic)
      /\ Len(topic) \in Nat /\ Len(topic') \in Nat /\ Len(topic) <= Len(topic')
  BY DEF LogTyped, Offsets, LogExtends
<1>2. CASE i <= position[g]
  <2>1. i \in 1..position[g] /\ i \in 1..Len(topic) /\ topic[i].event = e
    BY <1>1, <1>2 DEF LogExtends
  <2>2. CASE Settled(g, e)
    BY <2>2, SettledGrows
  <2>3. CASE ~Settled(g, e)
    <3>1. PICK j \in position[g] + 1 .. Len(topic) : topic[j].event = e
      BY <2>1, <2>3 DEF Covered, Ahead
    <3>2. j \in 1..Len(topic) /\ topic'[j].event = e
      BY <1>1, <3>1 DEF LogExtends
    <3>3. CASE j > position'[g]
      BY <1>1, <3>1, <3>2, <3>3
    <3>4. CASE j <= position'[g]
      <4>1. position'[g] = position[g] + 1 /\ j = position[g] + 1
        BY <1>1, <3>1, <3>4
      <4> QED BY <1>1, <3>1, <4>1
    <3> QED BY <1>1, <3>1, <3>3, <3>4
  <2> QED BY <2>2, <2>3
<1>3. CASE i > position[g]
  <2>1. position'[g] = position[g] + 1 /\ i = position[g] + 1 /\ position[g] < Len(topic)
    BY <1>1, <1>3
  <2>2. topic[i].event = e
    BY <1>1, <2>1 DEF LogExtends
  <2> QED BY <1>1, <2>1, <2>2
<1> QED BY <1>1, <1>2, <1>3

LEMMA WorkKept ==
    ASSUME LogTyped, WorkIsLogged, LogExtends,
           \A p \in Processes, g \in Groups :
               \/ work'[p][g] = work[p][g]
               \/ work'[p][g].stage = "idle"
               \/ \E i \in 1..Len(topic) :
                     topic[i] = Message(work'[p][g].event, work'[p][g].retry)
    PROVE  WorkIsLogged'
<1> SUFFICES ASSUME NEW p \in Processes, NEW g \in Groups,
                    work'[p][g].stage # "idle"
             PROVE  \E i \in 1..Len(topic') :
                        topic'[i] = Message(work'[p][g].event, work'[p][g].retry)
  BY DEF WorkIsLogged, InHand
<1>1. PICK i \in 1..Len(topic) :
          topic[i] = Message(work'[p][g].event, work'[p][g].retry)
  BY DEF WorkIsLogged, InHand
<1> QED BY <1>1 DEF LogExtends

LEMMA AtPositionKept ==
    ASSUME LogTyped, OwnerIsAtPosition, LogExtends, Offsets,
           \A g \in Groups :
               \/ work'[owner'[g]][g].stage = "idle"
               \/ /\ position'[g] = position[g]
                  /\ position[g] < Len(topic)
                  /\ topic[position[g] + 1] =
                         Message(work'[owner'[g]][g].event, work'[owner'[g]][g].retry)
    PROVE  OwnerIsAtPosition'
<1> SUFFICES ASSUME NEW g \in Groups, work'[owner'[g]][g].stage # "idle"
             PROVE  /\ position'[g] < Len(topic')
                    /\ topic'[position'[g] + 1] =
                           Message(work'[owner'[g]][g].event, work'[owner'[g]][g].retry)
  BY DEF OwnerIsAtPosition, InHand
<1>1. /\ position'[g] = position[g]
      /\ position[g] < Len(topic)
      /\ topic[position[g] + 1] =
             Message(work'[owner'[g]][g].event, work'[owner'[g]][g].retry)
  OBVIOUS
<1>2. position[g] \in Nat /\ Len(topic) \in Nat /\ Len(topic') \in Nat
      /\ Len(topic) <= Len(topic')
  BY DEF LogTyped, LogExtends
<1>3. position[g] + 1 \in 1..Len(topic)
  BY <1>1, <1>2
<1>4. topic'[position[g] + 1] = topic[position[g] + 1]
  BY <1>3 DEF LogExtends
<1> QED BY <1>1, <1>2, <1>4

LEMMA ChainKept ==
    ASSUME LogTyped, CopiesAreChained,
           \/ topic' = topic
           \/ \E m \in Msgs :
                 /\ topic' = Append(topic, m)
                 /\ \/ m.retry = 0
                    \/ \E i \in 1..Len(topic) : topic[i] = Message(m.event, m.retry - 1)
    PROVE  CopiesAreChained'
<1>1. CASE topic' = topic
  BY <1>1 DEF CopiesAreChained
<1>2. ASSUME NEW m \in Msgs, topic' = Append(topic, m),
             \/ m.retry = 0
             \/ \E i \in 1..Len(topic) : topic[i] = Message(m.event, m.retry - 1)
      PROVE  CopiesAreChained'
  <2>1. /\ Len(topic') = Len(topic) + 1
        /\ \A i \in 1..Len(topic) : topic'[i] = topic[i]
        /\ topic'[Len(topic) + 1] = m
        /\ Len(topic) \in Nat
    BY <1>2, AppendFacts DEF LogTyped
  <2> SUFFICES ASSUME NEW i \in 1..Len(topic) + 1, topic'[i].retry > 0
               PROVE  \E j \in 1..i - 1 :
                          topic'[j] = Message(topic'[i].event, topic'[i].retry - 1)
    BY <2>1 DEF CopiesAreChained
  <2>2. CASE i \in 1..Len(topic)
    <3>1. topic'[i] = topic[i]
      BY <2>1, <2>2
    <3>2. PICK j \in 1..i - 1 : topic[j] = Message(topic[i].event, topic[i].retry - 1)
      BY <2>2, <3>1 DEF CopiesAreChained
    <3>3. topic'[j] = topic[j]
      BY <2>1, <2>2, <3>2
    <3> QED BY <3>1, <3>2, <3>3
  <2>3. CASE i = Len(topic) + 1
    <3>1. topic'[i] = m /\ m.retry # 0
      BY <2>1, <2>3 DEF Msgs
    <3>2. PICK j \in 1..Len(topic) : topic[j] = Message(m.event, m.retry - 1)
      BY <1>2, <3>1
    <3>3. j \in 1..i - 1 /\ topic'[j] = topic[j]
      BY <2>1, <2>3, <3>2
    <3> QED BY <3>1, <3>2, <3>3
  <2> QED BY <2>1, <2>2, <2>3
<1> QED BY <1>1, <1>2

LEMMA PassedKept ==
    ASSUME LogTyped, LogTyped', HistoryTyped, HistoryTyped', Offsets,
           PassedIsTried, LogExtends, HistoryGrows,
           \A g \in Groups :
               \/ position'[g] <= position[g]
               \/ /\ position'[g] = position[g] + 1
                  /\ position[g] < Len(topic)
                  /\ \A e \in Events, n \in Nat :
                         topic[position[g] + 1] = Message(e, n) => Tried(g, e, n + 1)'
    PROVE  PassedIsTried'
<1> SUFFICES ASSUME NEW g \in Groups, NEW i \in 1..position'[g], NEW e \in Events,
                    NEW n \in Nat, topic'[i] = Message(e, n)
             PROVE  Tried(g, e, n + 1)'
  <2>1. ASSUME NEW g \in Groups, NEW i \in 1..position'[g]
        PROVE  /\ topic'[i].event \in Events
               /\ topic'[i].retry \in Nat
               /\ topic'[i] = Message(topic'[i].event, topic'[i].retry)
    <3>0. /\ position[g] \in Nat /\ position'[g] \in Nat /\ position[g] <= Len(topic)
          /\ Len(topic) \in Nat /\ Len(topic') \in Nat /\ Len(topic) <= Len(topic')
      BY DEF LogTyped, Offsets, LogExtends
    <3>1. i \in 1..Len(topic')
      BY <3>0
    <3> QED BY <3>1, MessageFacts DEF LogTyped
  <2> QED BY <2>1 DEF PassedIsTried, Tried
<1>1. /\ position[g] \in Nat /\ position'[g] \in Nat /\ position[g] <= Len(topic)
      /\ Len(topic) \in Nat /\ Len(topic') \in Nat /\ Len(topic) <= Len(topic')
  BY DEF LogTyped, Offsets, LogExtends
<1>2. i \in 1..Len(topic) /\ topic[i] = Message(e, n)
  BY <1>1 DEF LogExtends
<1>3. CASE i <= position[g]
  <2>1. topic[i].event = e /\ topic[i].retry = n
    BY <1>2 DEF Message
  <2>2. Tried(g, e, n + 1)
    BY <1>1, <1>3, <2>1 DEF PassedIsTried
  <2> QED BY <2>2, TriedGrows
<1>4. CASE i > position[g]
  BY <1>1, <1>2, <1>4
<1> QED BY <1>1, <1>3, <1>4

\* A step of the groups that keeps the tables and the ticks keeps what the
\* poller relies on.
LEMMA OutboxKept ==
    ASSUME LogTyped, OutboxGood, UNCHANGED outboxVars, LogExtends
    PROVE  OutboxGood'
<1>1. \A e : Logged(e) => Logged(e)'
  BY DEF LogExtends, Logged
<1>2. OutboxTyped' /\ RowsAreReal'
  BY DEF OutboxGood, OutboxTyped, RowsAreReal, outboxVars
<1>3. \A e \in published' : Logged(e)'
  BY <1>1 DEF OutboxGood, SentIsLogged, outboxVars
<1>4. ASSUME NEW t \in Polls, poll'[t].stage = "mark"
      PROVE  Logged(Head(poll[t].rows))'
  <2>1. PICK e : e = Head(poll[t].rows)
    OBVIOUS
  <2>2. poll' = poll /\ Logged(e)
    BY <1>4, <2>1 DEF OutboxGood, SentIsLogged, outboxVars
  <2> QED BY <1>1, <2>1, <2>2 DEF Logged
<1> QED BY <1>2, <1>3, <1>4 DEF OutboxGood, SentIsLogged

LEMMA OutboxStepRest ==
    ASSUME IInv, OutboxStep
    PROVE  /\ UNCHANGED <<groupVars, losses, throws>>
           /\ faults' = faults \/ (faults < MaxFaults /\ faults' = faults + 1)
BY DEF OutboxStep, Insert, Poll, Select, EndSelect, Send, Mark, SendFails, MarkFails,
   Fault

LEMMA OutboxStepInv == ASSUME IInv, OutboxStep PROVE IInv'
<1>1. OutboxGood' /\ LogGrows
  BY OutboxStepGood DEF IInv, Flow, OutboxGood, Typed
<1>2. LogTyped' /\ LogExtends
  <2>1. LogExtends
    BY <1>1, LoggedGrows, NoRetryType DEF IInv, Typed, LogGrows, LogExtends
  <2> QED BY <2>1, OutboxStepRest DEF IInv, Typed, LogTyped, LogExtends, groupVars
<1>3. MembersTyped' /\ HistoryTyped' /\ HistoryGrows
  <2>1. UNCHANGED <<owner, work, producer, processed, handled, failures, dead>>
    BY OutboxStepRest DEF groupVars
  <2>2. MembersTyped'
    BY <2>1 DEF IInv, Typed, MembersTyped
  <2>3. HistoryTyped'
    BY <2>1 DEF IInv, Typed, HistoryTyped
  <2>4. HistoryGrows
    BY <2>1 DEF IInv, Typed, HistoryTyped, HistoryGrows
  <2> QED BY <2>2, <2>3, <2>4
<1>4. Counters'
  BY OutboxStepRest DEF IInv, Typed, Counters
<1>5. Offsets'
  BY <1>2, OutboxStepRest DEF IInv, Typed, LogTyped, Flow, Offsets, LogExtends, groupVars
<1>6. WorkIsLogged'
  BY <1>2, OutboxStepRest, WorkKept DEF IInv, Typed, Flow, groupVars
<1>7. OwnerIsAtPosition'
  BY <1>2, OutboxStepRest, AtPositionKept
     DEF IInv, Typed, Flow, OwnerIsAtPosition, InHand, groupVars
<1>8. StoredIsHandled'
  BY OutboxStepRest DEF IInv, Flow, StoredIsHandled, groupVars
<1>9. Covered' /\ PassedIsTried'
  <2>1. \A g \in Groups : position'[g] <= position[g]
    BY OutboxStepRest DEF IInv, Typed, LogTyped, groupVars
  <2> QED BY <1>2, <1>3, <2>1, CoveredKept, PassedKept DEF IInv, Typed, Flow, Tries
<1>10. CopiesAreChained'
  <2>1. \A e \in Events : Message(e, 0) \in Msgs /\ Message(e, 0).retry = 0
    BY NoRetryType DEF Message
  <2> QED BY <1>1, <2>1, ChainKept DEF IInv, Typed, Tries, LogGrows
<1>11. InHandIsTried' /\ DeadLetteredOnlyWhenExhausted'
  BY OutboxStepRest
     DEF IInv, Tries, InHandIsTried, Tried, DeadLetteredOnlyWhenExhausted, groupVars
<1>12. HandlingIsPaidFor'
  BY OutboxStepRest
     DEF IInv, HandlingIsPaidFor, Handlers, OwnerHasSeen, groupVars
<1> QED
  BY <1>1, <1>2, <1>3, <1>4, <1>5, <1>6, <1>7, <1>8, <1>9, <1>10, <1>11, <1>12
     DEF IInv, Typed, Flow, Tries, OutboxGood

----------------------------------------------------------------------------
\* A step of process p for group g

SetsWork(p, g, w) == work' = [work EXCEPT ![p][g] = w]

LEMMA WorkUpdate ==
    ASSUME MembersTyped, NEW p \in Processes, NEW g \in Groups, NEW w \in Works,
           SetsWork(p, g, w)
    PROVE  /\ work' \in [Processes -> [Groups -> Works]]
           /\ work'[p][g] = w
           /\ \A q \in Processes, h \in Groups :
                  q # p \/ h # g => work'[q][h] = work[q][h]
<1>1. work \in [Processes -> [Groups -> Works]]
  BY DEF MembersTyped
<1>2. PICK row \in [Groups -> Works] : row = [work[p] EXCEPT ![g] = w]
  BY <1>1
<1>3. work' = [work EXCEPT ![p] = row]
  BY <1>2 DEF SetsWork
<1>4. work' \in [Processes -> [Groups -> Works]] /\ work'[p] = row
      /\ \A q \in Processes : q # p => work'[q] = work[q]
  BY <1>1, <1>3
<1>5. row[g] = w /\ \A h \in Groups : h # g => row[h] = work[p][h]
  BY <1>1, <1>2
<1> QED BY <1>4, <1>5

LEMMA InHandFacts ==
    ASSUME LogTyped, WorkIsLogged, NEW p \in Processes, NEW g \in Groups,
           work[p][g].stage # "idle"
    PROVE  /\ work[p][g].event \in Events
           /\ work[p][g].retry \in 0..MaxRetries
           /\ \E i \in 1..Len(topic) : topic[i] = InHand(p, g)
<1>1. PICK i \in 1..Len(topic) : topic[i] = InHand(p, g)
  BY DEF WorkIsLogged
<1>2. topic[i].event \in Events /\ topic[i].retry \in 0..MaxRetries
  BY MessageFacts DEF LogTyped
<1>3. topic[i].event = work[p][g].event /\ topic[i].retry = work[p][g].retry
  BY <1>1 DEF InHand, Message
<1> QED BY <1>1, <1>2, <1>3

\* What the step appends has a copy with the count before it in the log.
LogStep ==
    \/ topic' = topic
    \/ \E m \in Msgs :
          /\ topic' = Append(topic, m)
          /\ \E i \in 1..Len(topic) : topic[i] = Message(m.event, m.retry - 1)

\* The owner goes on only when it settled the message or there is another copy.
PositionStep(p, g) ==
    \/ position' = position
    \/ /\ owner[g] = p
       /\ position' = [position EXCEPT ![g] = @ + 1]
       /\ position[g] < Len(topic)
       /\ \A e \in Events : topic[position[g] + 1].event = e =>
              \/ Settled(g, e)'
              \/ \E j \in position[g] + 2 .. Len(topic') : topic'[j].event = e
       /\ \A e \in Events, n \in Nat :
              topic[position[g] + 1] = Message(e, n) => Tried(g, e, n + 1)'
       /\ work'[p][g].stage = "idle"

WorkStep(p, g, w) ==
    \/ w.stage = "idle"
    \/ /\ \E i \in 1..Len(topic) : topic[i] = Message(w.event, w.retry)
       /\ owner[g] = p => /\ position[g] < Len(topic)
                          /\ topic[position[g] + 1] = Message(w.event, w.retry)
       /\ position' = position
       /\ w.event \in Events
       /\ w.stage = "handle" => Tried(g, w.event, w.retry)'
       /\ w.stage = "requeue" => Tried(g, w.event, w.retry + 1)'

LEMMA GroupStep ==
    ASSUME IInv, NEW p \in Processes, NEW g \in Groups, NEW w \in Works,
           SetsWork(p, g, w), UNCHANGED <<outboxVars, owner, committed>>,
           LogTyped', HistoryTyped', HistoryGrows,
           LogStep, PositionStep(p, g), WorkStep(p, g, w)
    PROVE  /\ OutboxGood' /\ Offsets' /\ WorkIsLogged' /\ OwnerIsAtPosition'
           /\ Covered' /\ CopiesAreChained' /\ PassedIsTried' /\ InHandIsTried'
<1>0. LogTyped /\ MembersTyped /\ HistoryTyped /\ OutboxGood /\ Offsets /\ WorkIsLogged
      /\ OwnerIsAtPosition /\ Covered /\ CopiesAreChained /\ PassedIsTried
      /\ InHandIsTried
  BY DEF IInv, Typed, Flow, Tries, OutboxGood
<1>1. LogExtends
  <2>1. topic' = topic \/ \E m \in Msgs : topic' = Append(topic, m)
    BY DEF LogStep
  <2> QED BY <1>0, <2>1, LoggedGrows DEF LogExtends
<1>2. /\ work'[p][g] = w
      /\ \A q \in Processes, h \in Groups :
             q # p \/ h # g => work'[q][h] = work[q][h]
  BY <1>0, WorkUpdate
<1>3. /\ \A h \in Groups : h # g => position'[h] = position[h]
      /\ \/ position'[g] = position[g]
         \/ position'[g] = position[g] + 1 /\ owner[g] = p /\ position[g] < Len(topic)
              /\ work'[p][g].stage = "idle"
  BY <1>0 DEF PositionStep, LogTyped
<1>4. OutboxGood'
  BY <1>0, <1>1, OutboxKept
<1>5. Offsets'
  <2> SUFFICES ASSUME NEW h \in Groups
               PROVE  committed[h] <= position'[h] /\ position'[h] <= Len(topic')
    BY DEF Offsets
  <2>1. /\ committed[h] \in Nat /\ position[h] \in Nat
        /\ committed[h] <= position[h] /\ position[h] <= Len(topic)
        /\ Len(topic) <= Len(topic') /\ Len(topic) \in Nat /\ Len(topic') \in Nat
    BY <1>0, <1>1 DEF Offsets, LogTyped, LogExtends
  <2>2. \/ position'[h] = position[h]
        \/ position'[h] = position[h] + 1 /\ position[h] < Len(topic)
    BY <1>3
  <2> QED BY <2>1, <2>2
<1>6. WorkIsLogged'
  <2>1. \A q \in Processes, h \in Groups :
            \/ work'[q][h] = work[q][h]
            \/ work'[q][h].stage = "idle"
            \/ \E i \in 1..Len(topic) :
                  topic[i] = Message(work'[q][h].event, work'[q][h].retry)
    <3>1. \/ w.stage = "idle"
          \/ \E i \in 1..Len(topic) : topic[i] = Message(w.event, w.retry)
      BY DEF WorkStep
    <3>2. \A q \in Processes, h \in Groups :
              work'[q][h] = work[q][h] \/ work'[q][h] = w
      BY <1>2
    <3> QED BY <3>1, <3>2
  <2> QED BY <1>0, <1>1, <2>1, WorkKept
<1>7. OwnerIsAtPosition'
  <2>1. ASSUME NEW h \in Groups, work'[owner[h]][h].stage # "idle"
        PROVE  /\ position'[h] = position[h]
               /\ position[h] < Len(topic)
               /\ topic[position[h] + 1] =
                      Message(work'[owner[h]][h].event, work'[owner[h]][h].retry)
    <3>0. owner[h] \in Processes
      BY <1>0 DEF MembersTyped
    <3>1. CASE owner[h] = p /\ h = g
      BY <1>2, <2>1, <3>1 DEF WorkStep
    <3>2. CASE owner[h] # p \/ h # g
      <4>1. work'[owner[h]][h] = work[owner[h]][h]
        BY <1>2, <3>0, <3>2
      <4>2. position'[h] = position[h]
        BY <1>3, <3>2
      <4> QED BY <1>0, <2>1, <4>1, <4>2 DEF OwnerIsAtPosition, InHand
    <3> QED BY <3>1, <3>2
  <2> QED BY <1>0, <1>1, <2>1, AtPositionKept
<1>8. \A h \in Groups :
          \/ position'[h] <= position[h]
          \/ /\ position'[h] = position[h] + 1
             /\ position[h] < Len(topic)
             /\ \A e \in Events : topic[position[h] + 1].event = e =>
                    \/ Settled(h, e)'
                    \/ \E j \in position[h] + 2 .. Len(topic') : topic'[j].event = e
             /\ \A e \in Events, n \in Nat :
                    topic[position[h] + 1] = Message(e, n) => Tried(h, e, n + 1)'
  <2>1. \A h \in Groups : position[h] \in Nat
    BY <1>0 DEF LogTyped
  <2>2. CASE position' = position
    BY <2>1, <2>2
  <2>3. CASE position' # position
    <3> SUFFICES ASSUME NEW h \in Groups, ~(position'[h] <= position[h])
                 PROVE  <1>8!(h)!2
      OBVIOUS
    <3>1. h = g
      BY <1>3, <2>1
    <3>2. position'[g] = position[g] + 1
      BY <1>3, <2>1, <3>1
    <3> QED BY <2>3, <3>1, <3>2 DEF PositionStep
  <2> QED BY <2>2, <2>3
<1>9. Covered'
  BY <1>0, <1>1, <1>8, CoveredKept
<1>10. PassedIsTried'
  BY <1>0, <1>1, <1>8, PassedKept
<1>11. CopiesAreChained'
  BY <1>0, ChainKept DEF LogStep
<1>12. InHandIsTried'
  <2> SUFFICES ASSUME NEW q \in Processes, NEW h \in Groups
               PROVE  /\ work'[q][h].stage = "handle" =>
                            Tried(h, work[q][h].event, work[q][h].retry)'
                      /\ work'[q][h].stage = "requeue" =>
                            Tried(h, work[q][h].event, work[q][h].retry + 1)'
    BY DEF InHandIsTried
  <2>1. CASE q = p /\ h = g
    BY <1>2, <2>1 DEF WorkStep, Tried
  <2>2. CASE ~(q = p /\ h = g)
    <3>1. work'[q][h] = work[q][h]
      BY <1>2, <2>2
    <3>2. CASE work[q][h].stage = "idle"
      BY <3>1, <3>2
    <3>3. CASE work[q][h].stage # "idle"
      <4>1. PICK e \in Events, n \in Nat :
                e = work[q][h].event /\ n = work[q][h].retry
        BY <1>0, <3>3, InHandFacts
      <4>2. work[q][h].stage = "handle" => Tried(h, e, n)
        BY <1>0, <4>1 DEF InHandIsTried
      <4>3. work[q][h].stage = "requeue" => Tried(h, e, n + 1)
        BY <1>0, <4>1 DEF InHandIsTried
      <4>4. work[q][h].stage = "handle" => Tried(h, e, n)'
        BY <1>0, <4>2, TriedGrows
      <4>5. work[q][h].stage = "requeue" => Tried(h, e, n + 1)'
        BY <1>0, <4>3, TriedGrows
      <4> QED BY <3>1, <4>1, <4>4, <4>5 DEF Tried
    <3> QED BY <3>2, <3>3
  <2> QED BY <2>1, <2>2
<1> QED BY <1>4, <1>5, <1>6, <1>7, <1>9, <1>10, <1>11, <1>12

\* The owner is through with the message e with count n, which it settled, put
\* back or found in its store.
LEMMA ThroughFacts ==
    ASSUME LogTyped, MembersTyped, Offsets, NEW p \in Processes, NEW g \in Groups,
           NEW e \in Events, NEW n \in Nat, Through(p, g),
           owner[g] = p =>
               position[g] < Len(topic) /\ topic[position[g] + 1] = Message(e, n),
           Settled(g, e)' \/ (/\ Len(topic) < Len(topic')
                              /\ topic'[Len(topic')].event = e
                              /\ Len(topic') \in Nat),
           Tried(g, e, n + 1)'
    PROVE  /\ SetsWork(p, g, Resting)
           /\ Resting \in Works
           /\ WorkStep(p, g, Resting)
           /\ position' \in [Groups -> Nat]
           /\ PositionStep(p, g)
<1>1. SetsWork(p, g, Resting) /\ WorkStep(p, g, Resting)
  BY DEF Through, SetsWork, WorkStep, Resting
<1>2. Resting \in Works
  BY DEF Resting, Works, WorkStages
<1>3. work'[p][g] = Resting
  BY <1>1, <1>2, WorkUpdate
<1>4. CASE owner[g] # p
  <2>1. position' = position
    BY <1>4 DEF Through
  <2> QED BY <1>1, <1>2, <2>1 DEF PositionStep, LogTyped
<1>5. CASE owner[g] = p
  <2>1. position' = [position EXCEPT ![g] = @ + 1]
    BY <1>5 DEF Through
  <2>2. position' \in [Groups -> Nat]
    BY <2>1 DEF LogTyped
  <2>3. ASSUME NEW d \in Events, NEW m \in Nat, topic[position[g] + 1] = Message(d, m)
        PROVE  Tried(g, d, m + 1)'
    BY <1>5, <2>3 DEF Message
  <2>4. ASSUME NEW d \in Events, topic[position[g] + 1].event = d
        PROVE  \/ Settled(g, d)'
               \/ \E j \in position[g] + 2 .. Len(topic') : topic'[j].event = d
    <3>1. d = e
      BY <1>5, <2>4 DEF Message
    <3>2. CASE Settled(g, e)'
      BY <3>1, <3>2
    <3>3. CASE ~Settled(g, e)'
      <4>1. /\ Len(topic) < Len(topic') /\ topic'[Len(topic')].event = e
            /\ Len(topic) \in Nat /\ Len(topic') \in Nat
            /\ position[g] \in Nat /\ position[g] < Len(topic)
        BY <1>5, <3>3 DEF LogTyped
      <4>2. Len(topic') \in position[g] + 2 .. Len(topic')
        BY <4>1
      <4> QED BY <3>1, <4>1, <4>2
    <3> QED BY <3>2, <3>3
  <2>5. work'[p][g].stage = "idle"
    BY <1>3 DEF Resting
  <2> QED BY <1>1, <1>2, <1>5, <2>1, <2>2, <2>3, <2>4, <2>5 DEF PositionStep
<1> QED BY <1>4, <1>5

\* A step that leaves the history and the log alone.
LEMMA SameHistory ==
    ASSUME HistoryTyped, UNCHANGED <<handled, failures, dead>>
    PROVE  HistoryTyped' /\ HistoryGrows
BY DEF HistoryTyped, HistoryGrows

----------------------------------------------------------------------------
\* Who handles an event

PaidFor(g, e) ==
    /\ IsFiniteSet(Handlers(g, e))
    /\ handled[g][e] + Cardinality(Handlers(g, e)) <=
           losses[g][e] + (IF OwnerHasSeen(g, e) THEN 1 ELSE 0)

LEMMA HandlersUpdate ==
    ASSUME MembersTyped, NEW p \in Processes, NEW g \in Groups, NEW w \in Works,
           SetsWork(p, g, w)
    PROVE  /\ \A h \in Groups : h # g =>
                  \A e \in Events : Handlers(h, e)' = Handlers(h, e)
           /\ \A e \in Events :
                  Handlers(g, e)' = IF w.stage = "handle" /\ w.event = e
                                      THEN Handlers(g, e) \cup {p}
                                      ELSE Handlers(g, e) \ {p}
<1>1. /\ work'[p][g] = w
      /\ \A q \in Processes, h \in Groups :
             q # p \/ h # g => work'[q][h] = work[q][h]
  BY WorkUpdate
<1>2. ASSUME NEW h \in Groups, h # g, NEW e \in Events
      PROVE  Handlers(h, e)' = Handlers(h, e)
  BY <1>1, <1>2 DEF Handlers
<1>3. ASSUME NEW e \in Events
      PROVE  Handlers(g, e)' = IF w.stage = "handle" /\ w.event = e
                                 THEN Handlers(g, e) \cup {p}
                                 ELSE Handlers(g, e) \ {p}
  BY <1>1, <1>3 DEF Handlers
<1> QED BY <1>2, <1>3

\* The steps that keep the account of group g and event e.
LEMMA PaidKept ==
    ASSUME HistoryTyped, HistoryTyped', losses \in [Groups -> [Events -> Nat]], losses' = losses,
           NEW p \in Processes, NEW g \in Groups, NEW e \in Events, PaidFor(g, e),
           \/ /\ Handlers(g, e)' = Handlers(g, e)
              /\ handled'[g][e] = handled[g][e]
              /\ OwnerHasSeen(g, e) => OwnerHasSeen(g, e)'
           \/ /\ Handlers(g, e)' = Handlers(g, e) \cup {p}
              /\ handled'[g][e] = handled[g][e]
              /\ ~OwnerHasSeen(g, e) /\ OwnerHasSeen(g, e)'
           \/ /\ p \in Handlers(g, e)
              /\ Handlers(g, e)' = Handlers(g, e) \ {p}
              /\ handled'[g][e] = handled[g][e] + 1
              /\ OwnerHasSeen(g, e) => OwnerHasSeen(g, e)'
           \/ /\ p \in Handlers(g, e)
              /\ Handlers(g, e)' = Handlers(g, e) \ {p}
              /\ handled'[g][e] = handled[g][e]
    PROVE  PaidFor(g, e)'
<1>1. PICK S, T : S = Handlers(g, e) /\ T = Handlers(g, e)'
  OBVIOUS
<1>2. IsFiniteSet(S) /\ Cardinality(S) \in Nat /\ handled[g][e] \in Nat
      /\ handled'[g][e] \in Nat
  BY <1>1, FS_CardinalityType DEF PaidFor, HistoryTyped
<1>3. handled[g][e] + Cardinality(S) <= losses[g][e] + (IF OwnerHasSeen(g, e) THEN 1 ELSE 0)
  BY <1>1 DEF PaidFor
<1>4. /\ IsFiniteSet(T) /\ Cardinality(T) \in Nat
      /\ handled'[g][e] + Cardinality(T) <=
             losses[g][e] + (IF OwnerHasSeen(g, e)' THEN 1 ELSE 0)
  <2>1. CASE T = S /\ handled'[g][e] = handled[g][e]
               /\ (OwnerHasSeen(g, e) => OwnerHasSeen(g, e)')
    BY <1>2, <1>3, <2>1
  <2>2. CASE T = S \cup {p} /\ handled'[g][e] = handled[g][e]
               /\ ~OwnerHasSeen(g, e) /\ OwnerHasSeen(g, e)'
    <3>1. IsFiniteSet(T) /\ (Cardinality(T) = Cardinality(S)
                               \/ Cardinality(T) = Cardinality(S) + 1)
      BY <1>2, <2>2, FS_AddElement
    <3> QED BY <1>2, <1>3, <2>2, <3>1
  <2>3. CASE p \in S /\ T = S \ {p}
    <3>1. IsFiniteSet(T) /\ Cardinality(T) = Cardinality(S) - 1
      BY <1>2, <2>3, FS_RemoveElement
    <3>2. Cardinality(T) \in Nat
      BY <3>1, FS_CardinalityType
    <3>3. \/ /\ handled'[g][e] = handled[g][e] + 1
             /\ OwnerHasSeen(g, e) => OwnerHasSeen(g, e)'
          \/ handled'[g][e] = handled[g][e]
          \/ T = S /\ handled'[g][e] = handled[g][e]
      BY <1>1
    <3>4. CASE handled'[g][e] = handled[g][e]
      BY <1>2, <1>3, <3>1, <3>2, <3>4
    <3>5. CASE /\ handled'[g][e] = handled[g][e] + 1
               /\ OwnerHasSeen(g, e) => OwnerHasSeen(g, e)'
      BY <1>2, <1>3, <3>1, <3>2, <3>5
    <3> QED BY <3>3, <3>4, <3>5
  <2> QED BY <1>1, <2>1, <2>2, <2>3
<1>5. T = Handlers(g, e)' /\ losses' = losses
  BY <1>1
<1> QED BY <1>4, <1>5 DEF PaidFor

\* A step for group g keeps the account of the others.
LEMMA OthersPaid ==
    ASSUME MembersTyped, HistoryTyped, HistoryTyped', losses \in [Groups -> [Events -> Nat]],
           losses' = losses, owner' = owner, HandlingIsPaidFor,
           NEW p \in Processes, NEW g \in Groups, NEW w \in Works, SetsWork(p, g, w),
           \A h \in Groups : h # g =>
               /\ handled'[h] = handled[h]
               /\ \A q \in Processes : processed'[q][h] = processed[q][h],
           \A e \in Events : PaidFor(g, e)'
    PROVE  HandlingIsPaidFor'
<1> SUFFICES ASSUME NEW h \in Groups, NEW e \in Events PROVE PaidFor(h, e)'
  BY DEF HandlingIsPaidFor, PaidFor
<1>1. CASE h = g
  BY <1>1
<1>2. CASE h # g
  <2>1. Handlers(h, e)' = Handlers(h, e)
    BY <1>2, HandlersUpdate
  <2>2. OwnerHasSeen(h, e) => OwnerHasSeen(h, e)'
    BY <1>2, <2>1 DEF OwnerHasSeen, MembersTyped
  <2>3. handled'[h][e] = handled[h][e]
    BY <1>2
  <2>4. PaidFor(h, e)
    BY DEF HandlingIsPaidFor, PaidFor
  <2> QED BY <2>1, <2>2, <2>3, <2>4, PaidKept
<1> QED BY <1>1, <1>2

----------------------------------------------------------------------------
\* The consumers' actions

\* What a step of process p for group g shows of the rest of the invariant.
LEMMA Assemble ==
    ASSUME IInv, NEW p \in Processes, NEW g \in Groups, NEW w \in Works,
           SetsWork(p, g, w), UNCHANGED <<outboxVars, owner, committed, losses>>,
           LogTyped', HistoryTyped', HistoryGrows,
           LogStep, PositionStep(p, g), WorkStep(p, g, w),
           producer' \in [Processes -> {"none", "connected", "rejected"}],
           processed' \in [Processes -> [Groups -> SUBSET Events]], Counters',
           StoredIsHandled', DeadLetteredOnlyWhenExhausted',
           \A h \in Groups : h # g =>
               /\ handled'[h] = handled[h]
               /\ \A q \in Processes : processed'[q][h] = processed[q][h],
           \A e \in Events : PaidFor(g, e)'
    PROVE  IInv'
<1>1. /\ OutboxGood' /\ Offsets' /\ WorkIsLogged' /\ OwnerIsAtPosition'
      /\ Covered' /\ CopiesAreChained' /\ PassedIsTried' /\ InHandIsTried'
  <2>1. UNCHANGED <<outboxVars, owner, committed>>
    OBVIOUS
  <2> QED BY <2>1, GroupStep
<1>2. MembersTyped /\ HistoryTyped /\ HandlingIsPaidFor /\ losses \in [Groups -> [Events -> Nat]]
  BY DEF IInv, Typed, Counters
<1>3. MembersTyped'
  <2>1. work' \in [Processes -> [Groups -> Works]]
    BY <1>2, WorkUpdate
  <2> QED BY <1>2, <2>1 DEF MembersTyped
<1>4. HandlingIsPaidFor'
  BY <1>2, OthersPaid
<1> QED BY <1>1, <1>3, <1>4 DEF IInv, Typed, Flow, Tries, OutboxGood

\* The owner of a group meets a message it can only have passed, or have in its
\* hands, after the attempts its retry count tells of.
LEMMA ReceivedIsTried ==
    ASSUME IInv, NEW g \in Groups, NEW e \in Events, NEW n \in 0..MaxRetries,
           position[g] < Len(topic), topic[position[g] + 1] = Message(e, n)
    PROVE  Tried(g, e, n)
<1>1. position[g] \in Nat /\ Len(topic) \in Nat /\ failures[g][e] \in Nat
  BY DEF IInv, Typed, LogTyped, HistoryTyped
<1>2. CASE n = 0
  BY <1>1, <1>2 DEF Tried
<1>3. CASE n # 0
  <2>1. topic[position[g] + 1].event = e /\ topic[position[g] + 1].retry = n
    BY DEF Message
  <2>2. position[g] + 1 \in 1..Len(topic) /\ n > 0
    BY <1>1, <1>3
  <2>3. PICK j \in 1..(position[g] + 1) - 1 : topic[j] = Message(e, n - 1)
    BY <2>1, <2>2 DEF IInv, Tries, CopiesAreChained
  <2>4. j \in 1..position[g] /\ topic[j].event = e /\ topic[j].retry = n - 1
    BY <1>1, <2>3 DEF Message
  <2>5. Tried(g, e, (n - 1) + 1)
    BY <2>4 DEF IInv, Tries, PassedIsTried
  <2>6. (n - 1) + 1 = n
    OBVIOUS
  <2> QED BY <2>5, <2>6
<1> QED BY <1>2, <1>3

LEMMA ReceiveInv ==
    ASSUME IInv, NEW p \in Processes, NEW g \in Groups, Receive(p, g) PROVE IInv'
<1>0. LogTyped /\ MembersTyped /\ HistoryTyped /\ Offsets /\ StoredIsHandled
      /\ HandlingIsPaidFor /\ Counters
  BY DEF IInv, Typed, Flow
<1>1. /\ owner[g] = p /\ work[p][g] = Resting /\ position[g] < Len(topic)
      /\ UNCHANGED <<outboxVars, topic, owner, committed, processed, handled,
                     failures, dead, producer, losses, throws, faults>>
  BY DEF Receive
<1>2. PICK e \in Events, n \in 0..MaxRetries : topic[position[g] + 1] = Message(e, n)
  <2>1. position[g] + 1 \in 1..Len(topic)
    BY <1>0, <1>1 DEF LogTyped
  <2> QED BY <1>0, <2>1, MessageFacts DEF LogTyped
<1>3. topic[position[g] + 1].event = e /\ topic[position[g] + 1].retry = n
  BY <1>2 DEF Message
<1>4. HistoryTyped' /\ HistoryGrows
  BY <1>0, <1>1, SameHistory
<1>5. LogStep
  BY <1>1 DEF LogStep
<1>6. StoredIsHandled' /\ DeadLetteredOnlyWhenExhausted'
  BY <1>0, <1>1 DEF StoredIsHandled, DeadLetteredOnlyWhenExhausted, IInv, Tries
<1>7. \A d \in Events : p \notin Handlers(g, d)
  BY <1>1 DEF Handlers, Resting
<1>8. ASSUME NEW w \in Works, SetsWork(p, g, w), PositionStep(p, g),
             position' \in [Groups -> Nat], WorkStep(p, g, w),
             \A d \in Events : PaidFor(g, d)'
      PROVE  IInv'
  <2>1. LogTyped'
    BY <1>0, <1>1, <1>8 DEF LogTyped
  <2>2. Counters'
    BY <1>0, <1>1 DEF Counters
  <2>3. /\ producer' \in [Processes -> {"none", "connected", "rejected"}]
        /\ processed' \in [Processes -> [Groups -> SUBSET Events]]
    BY <1>0, <1>1 DEF MembersTyped
  <2>4. UNCHANGED <<outboxVars, owner, committed, losses>>
    BY <1>1
  <2>5. \A h \in Groups : h # g =>
            /\ handled'[h] = handled[h]
            /\ \A q \in Processes : processed'[q][h] = processed[q][h]
    BY <1>1
  <2> QED BY <1>4, <1>5, <1>6, <1>8, <2>1, <2>2, <2>3, <2>4, <2>5, Assemble
<1>9. CASE e \in processed[p][g]
  <2>1. Through(p, g)
    BY <1>3, <1>9 DEF Receive
  <2>2. handled'[g][e] > 0
    BY <1>0, <1>1, <1>9 DEF StoredIsHandled
  <2>3. Settled(g, e)' /\ Tried(g, e, n + 1)'
    BY <2>2 DEF Settled, Tried
  <2>4. /\ SetsWork(p, g, Resting) /\ Resting \in Works /\ WorkStep(p, g, Resting)
        /\ position' \in [Groups -> Nat] /\ PositionStep(p, g)
    <3>1. n \in Nat
      OBVIOUS
    <3> QED BY <1>0, <1>1, <1>2, <2>1, <2>3, <3>1, ThroughFacts
  <2>5. ASSUME NEW d \in Events PROVE PaidFor(g, d)'
    <3>1. Handlers(g, d)' = Handlers(g, d)
      BY <1>0, <1>7, <2>4, HandlersUpdate DEF Resting
    <3>2. OwnerHasSeen(g, d) => OwnerHasSeen(g, d)'
      BY <1>1, <3>1 DEF OwnerHasSeen
    <3>3. PaidFor(g, d) /\ handled'[g][d] = handled[g][d] /\ losses \in [Groups -> [Events -> Nat]]
          /\ losses' = losses
      BY <1>0, <1>1 DEF HandlingIsPaidFor, PaidFor, Counters
    <3> QED BY <1>0, <1>4, <3>1, <3>2, <3>3, PaidKept
  <2> QED BY <1>8, <2>4, <2>5
<1>10. CASE e \notin processed[p][g]
  <2> DEFINE w == [stage |-> "handle", event |-> e, retry |-> n]
  <2>1. SetsWork(p, g, w) /\ position' = position
    BY <1>3, <1>10 DEF Receive, SetsWork
  <2>2. w \in Works
    BY DEF Works, WorkStages, Events
  <2>3. position' \in [Groups -> Nat] /\ PositionStep(p, g)
    BY <1>0, <2>1 DEF LogTyped, PositionStep
  <2>4. WorkStep(p, g, w)
    <3>1. Tried(g, e, n)'
      BY <1>1, <1>2, ReceivedIsTried DEF Tried
    <3>2. position[g] + 1 \in 1..Len(topic)
      BY <1>0, <1>1 DEF LogTyped
    <3> QED BY <1>1, <1>2, <2>1, <3>1, <3>2 DEF WorkStep
  <2>5. ASSUME NEW d \in Events PROVE PaidFor(g, d)'
    <3>1. Handlers(g, d)' = IF e = d THEN Handlers(g, d) \cup {p}
                                     ELSE Handlers(g, d) \ {p}
      <4> HIDE DEF w
      <4>1. w.stage = "handle" /\ w.event = e
        BY DEF w
      <4> QED BY <1>0, <2>1, <2>2, <4>1, HandlersUpdate
    <3>2. PaidFor(g, d) /\ handled'[g][d] = handled[g][d] /\ losses \in [Groups -> [Events -> Nat]]
          /\ losses' = losses
      BY <1>0, <1>1 DEF HandlingIsPaidFor, PaidFor, Counters
    <3>3. CASE d # e
      <4>1. Handlers(g, d)' = Handlers(g, d)
        BY <1>7, <3>1, <3>3
      <4>2. OwnerHasSeen(g, d) => OwnerHasSeen(g, d)'
        BY <1>1, <4>1 DEF OwnerHasSeen
      <4> QED BY <1>0, <1>4, <3>2, <4>1, <4>2, PaidKept
    <3>4. CASE d = e
      <4>1. Handlers(g, d)' = Handlers(g, d) \cup {p}
        BY <3>1, <3>4
      <4>2. ~OwnerHasSeen(g, d) /\ OwnerHasSeen(g, d)'
        BY <1>1, <1>7, <1>10, <3>4, <4>1 DEF OwnerHasSeen
      <4> QED BY <1>0, <1>4, <3>2, <4>1, <4>2, PaidKept
    <3> QED BY <3>3, <3>4
  <2> QED BY <1>8, <2>1, <2>2, <2>3, <2>4, <2>5
<1> QED BY <1>9, <1>10

LEMMA HandleInv ==
    ASSUME IInv, NEW p \in Processes, NEW g \in Groups, Handle(p, g) PROVE IInv'
<1>0. LogTyped /\ MembersTyped /\ HistoryTyped /\ Offsets /\ StoredIsHandled
      /\ HandlingIsPaidFor /\ Counters /\ WorkIsLogged /\ OwnerIsAtPosition
  BY DEF IInv, Typed, Flow
<1>1. PICK e \in Events, n \in 0..MaxRetries :
          e = work[p][g].event /\ n = work[p][g].retry
  BY <1>0, InHandFacts DEF Handle
<1>2. /\ work[p][g].stage = "handle"
      /\ handled' = [handled EXCEPT ![g][e] = @ + 1]
      /\ processed' = [processed EXCEPT ![p][g] = @ \cup {e}]
      /\ Through(p, g)
      /\ UNCHANGED <<outboxVars, topic, owner, committed, failures, dead,
                     producer, losses, throws, faults>>
  BY <1>1 DEF Handle
<1>3. /\ handled' \in [Groups -> [Events -> Nat]]
      /\ handled'[g][e] = handled[g][e] + 1
      /\ \A d \in Events : d # e => handled'[g][d] = handled[g][d]
      /\ \A h \in Groups : h # g => handled'[h] = handled[h]
  BY <1>0, <1>2 DEF HistoryTyped
<1>4. /\ processed' \in [Processes -> [Groups -> SUBSET Events]]
      /\ processed'[p][g] = processed[p][g] \cup {e}
      /\ \A q \in Processes, h \in Groups :
             q # p \/ h # g => processed'[q][h] = processed[q][h]
  BY <1>0, <1>2 DEF MembersTyped
<1>5. HistoryTyped'
  BY <1>0, <1>2, <1>3 DEF HistoryTyped
<1>6. HistoryGrows
  <2> SUFFICES ASSUME NEW h \in Groups, NEW d \in Events
               PROVE  handled[h][d] <= handled'[h][d]
    BY <1>0, <1>2 DEF HistoryTyped, HistoryGrows
  <2>1. handled[h][d] \in Nat
    BY <1>0 DEF HistoryTyped
  <2> QED BY <1>3, <2>1
<1>7. handled'[g][e] > 0
  <2>1. handled[g][e] \in Nat
    BY <1>0 DEF HistoryTyped
  <2> QED BY <1>3, <2>1
<1>8. /\ SetsWork(p, g, Resting) /\ Resting \in Works /\ WorkStep(p, g, Resting)
      /\ position' \in [Groups -> Nat] /\ PositionStep(p, g)
  <2>1. Settled(g, e)' /\ Tried(g, e, n + 1)'
    BY <1>7 DEF Settled, Tried
  <2>2. owner[g] = p =>
            position[g] < Len(topic) /\ topic[position[g] + 1] = Message(e, n)
    BY <1>0, <1>1, <1>2 DEF OwnerIsAtPosition, InHand
  <2>3. n \in Nat
    OBVIOUS
  <2> QED BY <1>0, <1>2, <2>1, <2>2, <2>3, ThroughFacts
<1>9. LogTyped' /\ Counters'
  BY <1>0, <1>2, <1>8 DEF LogTyped, Counters
<1>10. StoredIsHandled'
  <2> SUFFICES ASSUME NEW q \in Processes, NEW h \in Groups,
                      NEW d \in processed'[q][h], d \in Events
               PROVE  handled'[h][d] > 0
    BY <1>4 DEF StoredIsHandled
  <2>1. d \in processed[q][h] \/ (h = g /\ d = e)
    BY <1>4
  <2>2. CASE d \in processed[q][h]
    <3>1. handled[h][d] > 0 /\ handled[h][d] \in Nat /\ handled'[h][d] \in Nat
          /\ handled[h][d] <= handled'[h][d]
      BY <1>0, <1>5, <1>6, <2>2 DEF StoredIsHandled, HistoryTyped, HistoryGrows
    <3> QED BY <3>1
  <2> QED BY <1>7, <2>1, <2>2
<1>11. DeadLetteredOnlyWhenExhausted'
  <2> SUFFICES ASSUME NEW h \in Groups, NEW d \in dead[h]
               PROVE  failures[h][d] > MaxRetries \/ handled'[h][d] > 0
    BY <1>2 DEF DeadLetteredOnlyWhenExhausted
  <2>1. d \in Events /\ handled[h][d] \in Nat /\ handled'[h][d] \in Nat
    BY <1>0, <1>5 DEF HistoryTyped
  <2>2. handled[h][d] <= handled'[h][d]
    BY <1>6, <2>1 DEF HistoryGrows
  <2>3. failures[h][d] > MaxRetries \/ handled[h][d] > 0
    BY DEF IInv, Tries, DeadLetteredOnlyWhenExhausted
  <2> QED BY <2>1, <2>2, <2>3
<1>12. ASSUME NEW d \in Events PROVE PaidFor(g, d)'
  <2>1. Handlers(g, d)' = Handlers(g, d) \ {p}
    BY <1>0, <1>8, HandlersUpdate DEF Resting
  <2>2. PaidFor(g, d) /\ losses \in [Groups -> [Events -> Nat]] /\ losses' = losses
    BY <1>0, <1>2 DEF HandlingIsPaidFor, PaidFor, Counters
  <2>3. CASE d # e
    <3>1. Handlers(g, d)' = Handlers(g, d)
      BY <1>1, <2>1, <2>3 DEF Handlers
    <3>2. OwnerHasSeen(g, d) => OwnerHasSeen(g, d)'
      BY <1>0, <1>2, <1>4, <3>1 DEF OwnerHasSeen, MembersTyped
    <3>3. handled'[g][d] = handled[g][d]
      BY <1>3, <2>3
    <3> QED BY <1>0, <1>5, <2>2, <3>1, <3>2, <3>3, PaidKept
  <2>4. CASE d = e
    <3>1. p \in Handlers(g, d)
      BY <1>1, <1>2, <2>4 DEF Handlers
    <3>2. OwnerHasSeen(g, d) => OwnerHasSeen(g, d)'
      BY <1>0, <1>2, <1>4, <2>1, <2>4 DEF OwnerHasSeen, MembersTyped
    <3>3. handled'[g][d] = handled[g][d] + 1
      BY <1>3, <2>4
    <3> QED BY <1>0, <1>5, <2>1, <2>2, <3>1, <3>2, <3>3, PaidKept
  <2> QED BY <2>3, <2>4
<1>13. LogStep
  BY <1>2 DEF LogStep
<1>14. producer' \in [Processes -> {"none", "connected", "rejected"}]
  BY <1>0, <1>2 DEF MembersTyped
<1>15. UNCHANGED <<outboxVars, owner, committed, losses>>
  BY <1>2
<1>16. \A h \in Groups : h # g =>
           /\ handled'[h] = handled[h]
           /\ \A q \in Processes : processed'[q][h] = processed[q][h]
  BY <1>3, <1>4
<1> QED BY <1>4, <1>5, <1>6, <1>8, <1>9, <1>10, <1>11, <1>12, <1>13, <1>14, <1>15,
           <1>16, Assemble

\* The steps that handle nothing: the message leaves the hands of p, or goes on
\* to its requeue.
LEMMA UnhandledInv ==
    ASSUME IInv, NEW p \in Processes, NEW g \in Groups, NEW w \in Works,
           w.stage # "handle", SetsWork(p, g, w), PositionStep(p, g), WorkStep(p, g, w), LogStep,
           topic' \in Seq(Msgs), position' \in [Groups -> Nat],
           UNCHANGED <<outboxVars, owner, committed, processed, handled, losses>>,
           HistoryTyped', HistoryGrows, DeadLetteredOnlyWhenExhausted', Counters',
           producer' \in [Processes -> {"none", "connected", "rejected"}]
    PROVE  IInv'
<1>0. LogTyped /\ MembersTyped /\ HistoryTyped /\ StoredIsHandled
      /\ HandlingIsPaidFor /\ Counters
  BY DEF IInv, Typed, Flow
<1>1. LogTyped'
  BY <1>0 DEF LogTyped
<1>2. StoredIsHandled'
  BY <1>0 DEF StoredIsHandled
<1>3. processed' \in [Processes -> [Groups -> SUBSET Events]]
  BY <1>0 DEF MembersTyped
<1>4. ASSUME NEW d \in Events PROVE PaidFor(g, d)'
  <2>1. Handlers(g, d)' = Handlers(g, d) \ {p}
    BY <1>0, HandlersUpdate
  <2>2. PaidFor(g, d) /\ losses \in [Groups -> [Events -> Nat]] /\ losses' = losses
        /\ handled'[g][d] = handled[g][d]
    BY <1>0 DEF HandlingIsPaidFor, PaidFor, Counters
  <2>3. CASE p \in Handlers(g, d)
    BY <1>0, <2>1, <2>2, <2>3, PaidKept
  <2>4. CASE p \notin Handlers(g, d)
    <3>1. Handlers(g, d)' = Handlers(g, d)
      BY <2>1, <2>4
    <3>2. OwnerHasSeen(g, d) => OwnerHasSeen(g, d)'
      BY <3>1 DEF OwnerHasSeen
    <3> QED BY <1>0, <2>2, <3>1, <3>2, PaidKept
  <2> QED BY <2>3, <2>4
<1>5. UNCHANGED <<outboxVars, owner, committed, losses>>
  OBVIOUS
<1>6. \A h \in Groups : h # g =>
           /\ handled'[h] = handled[h]
           /\ \A q \in Processes : processed'[q][h] = processed[q][h]
  OBVIOUS
<1> QED BY <1>1, <1>2, <1>3, <1>4, <1>5, <1>6, Assemble

LEMMA HandlerThrowsInv ==
    ASSUME IInv, NEW p \in Processes, NEW g \in Groups, HandlerThrows(p, g)
    PROVE  IInv'
<1>0. LogTyped /\ MembersTyped /\ HistoryTyped /\ Offsets /\ StoredIsHandled
      /\ HandlingIsPaidFor /\ Counters /\ WorkIsLogged /\ OwnerIsAtPosition
      /\ InHandIsTried
  BY DEF IInv, Typed, Flow, Tries
<1>1. PICK e \in Events, n \in 0..MaxRetries :
          e = work[p][g].event /\ n = work[p][g].retry
  BY <1>0, InHandFacts DEF HandlerThrows
<1>2. /\ work[p][g].stage = "handle"
      /\ throws < MaxThrows
      /\ throws' = throws + 1
      /\ failures' = [failures EXCEPT ![g][e] = @ + 1]
      /\ work' = [work EXCEPT ![p][g].stage = "requeue"]
      /\ UNCHANGED <<outboxVars, topic, owner, position, committed, processed,
                     handled, dead, producer, losses, faults>>
  BY <1>1 DEF HandlerThrows
<1> DEFINE w == [stage |-> "requeue", event |-> e, retry |-> n]
<1>3. SetsWork(p, g, w)
  <2>1. work[p][g] \in Works
    BY <1>0 DEF MembersTyped
  <2>2. [work[p][g] EXCEPT !.stage = "requeue"] = w
    BY <1>1, <2>1 DEF Works
  <2>3. [work EXCEPT ![p][g].stage = "requeue"]
            = [work EXCEPT ![p][g] = [work[p][g] EXCEPT !.stage = "requeue"]]
    BY <1>0 DEF MembersTyped
  <2> QED BY <1>2, <2>2, <2>3 DEF SetsWork
<1>4. w \in Works /\ w.stage = "requeue" /\ w.event = e /\ w.retry = n
  BY DEF Works, WorkStages, Events
<1> HIDE DEF w
<1>5. /\ failures' \in [Groups -> [Events -> Nat]]
      /\ failures'[g][e] = failures[g][e] + 1
      /\ \A d \in Events : d # e => failures'[g][d] = failures[g][d]
      /\ \A h \in Groups : h # g => failures'[h] = failures[h]
  BY <1>0, <1>2 DEF HistoryTyped
<1>6. HistoryTyped'
  BY <1>0, <1>2, <1>5 DEF HistoryTyped
<1>7. \A h \in Groups, d \in Events : failures[h][d] <= failures'[h][d]
  <2> TAKE h \in Groups, d \in Events
  <2>1. failures[h][d] \in Nat
    BY <1>0 DEF HistoryTyped
  <2> QED BY <1>5, <2>1
<1>8. HistoryGrows
  BY <1>0, <1>2, <1>7 DEF HistoryTyped, HistoryGrows
<1>9. DeadLetteredOnlyWhenExhausted'
  <2> SUFFICES ASSUME NEW h \in Groups, NEW d \in dead[h]
               PROVE  failures'[h][d] > MaxRetries \/ handled[h][d] > 0
    BY <1>2 DEF DeadLetteredOnlyWhenExhausted
  <2>1. d \in Events /\ failures[h][d] \in Nat /\ failures'[h][d] \in Nat
    BY <1>0, <1>6 DEF HistoryTyped
  <2>2. failures[h][d] <= failures'[h][d]
    BY <1>7, <2>1
  <2>3. failures[h][d] > MaxRetries \/ handled[h][d] > 0
    BY DEF IInv, Tries, DeadLetteredOnlyWhenExhausted
  <2> QED BY <2>1, <2>2, <2>3
<1>10. Counters'
  BY <1>0, <1>2 DEF Counters
<1>11. PositionStep(p, g) /\ LogStep /\ topic' \in Seq(Msgs)
       /\ position' \in [Groups -> Nat]
  BY <1>0, <1>2 DEF PositionStep, LogStep, LogTyped
<1>12. WorkStep(p, g, w)
  <2>1. \E i \in 1..Len(topic) : topic[i] = Message(e, n)
    BY <1>0, <1>1, <1>2 DEF WorkIsLogged, InHand
  <2>2. owner[g] = p =>
            position[g] < Len(topic) /\ topic[position[g] + 1] = Message(e, n)
    BY <1>0, <1>1, <1>2 DEF OwnerIsAtPosition, InHand
  <2>3. Tried(g, e, n + 1)'
    <3>1. Tried(g, e, n)
      BY <1>0, <1>1, <1>2 DEF InHandIsTried
    <3>2. failures[g][e] \in Nat /\ failures'[g][e] = failures[g][e] + 1
          /\ handled'[g][e] = handled[g][e]
      BY <1>0, <1>2, <1>5 DEF HistoryTyped
    <3> QED BY <3>1, <3>2 DEF Tried
  <2> QED BY <1>2, <1>4, <2>1, <2>2, <2>3 DEF WorkStep
<1>13. producer' \in [Processes -> {"none", "connected", "rejected"}]
  BY <1>0, <1>2 DEF MembersTyped
<1>14. UNCHANGED <<outboxVars, owner, committed, processed, handled, losses>>
  BY <1>2
<1>15. w.stage # "handle"
  BY <1>4
<1> QED BY <1>3, <1>4, <1>6, <1>8, <1>9, <1>10, <1>11, <1>12, <1>13, <1>14, <1>15,
           UnhandledInv

\* A message in the stage of its requeue is sent back, or given up.
LEMMA ResendFacts ==
    ASSUME LogTyped, HistoryTyped, WorkIsLogged, InHandIsTried,
           DeadLetteredOnlyWhenExhausted, NEW p \in Processes, NEW g \in Groups,
           NEW e \in Events, NEW n \in 0..MaxRetries,
           e = work[p][g].event, n = work[p][g].retry,
           work[p][g].stage = "requeue", Resend(work[p][g], g),
           UNCHANGED <<handled, failures>>
    PROVE  /\ topic' \in Seq(Msgs) /\ LogStep
           /\ HistoryTyped' /\ HistoryGrows /\ DeadLetteredOnlyWhenExhausted'
           /\ Tried(g, e, n + 1)'
           /\ \/ Settled(g, e)'
              \/ /\ Len(topic) < Len(topic')
                 /\ topic'[Len(topic')].event = e
                 /\ Len(topic') \in Nat
<1>1. Tried(g, e, n + 1) /\ Tried(g, e, n + 1)'
  BY DEF InHandIsTried, Tried
<1>2. CASE n + 1 > MaxRetries
  <2>1. dead' = [dead EXCEPT ![g] = @ \cup {e}] /\ topic' = topic
    BY <1>2 DEF Resend
  <2>2. dead' \in [Groups -> SUBSET Events] /\ dead'[g] = dead[g] \cup {e}
        /\ \A h \in Groups : h # g => dead'[h] = dead[h]
    BY <2>1 DEF HistoryTyped
  <2>3. HistoryTyped' /\ HistoryGrows
    BY <2>2 DEF HistoryTyped, HistoryGrows
  <2>4. failures[g][e] > MaxRetries \/ handled[g][e] > 0
    <3>1. failures[g][e] \in Nat
      BY DEF HistoryTyped
    <3> QED BY <1>1, <1>2, <3>1 DEF Tried
  <2>5. DeadLetteredOnlyWhenExhausted'
    <3> SUFFICES ASSUME NEW h \in Groups, NEW d \in dead'[h]
                 PROVE  failures[h][d] > MaxRetries \/ handled[h][d] > 0
      BY DEF DeadLetteredOnlyWhenExhausted
    <3>1. d \in dead[h] \/ (h = g /\ d = e)
      BY <2>2
    <3> QED BY <2>4, <3>1 DEF DeadLetteredOnlyWhenExhausted
  <2>6. Settled(g, e)'
    BY <2>2 DEF Settled
  <2>7. topic' \in Seq(Msgs) /\ LogStep
    BY <2>1 DEF LogTyped, LogStep
  <2> QED BY <1>1, <2>3, <2>5, <2>6, <2>7
<1>3. CASE ~(n + 1 > MaxRetries)
  <2> DEFINE m == Message(e, n + 1)
  <2>1. topic' = Append(topic, m) /\ dead' = dead
    BY <1>3 DEF Resend
  <2>2. m \in Msgs /\ m.event = e /\ m.retry = n + 1
    <3>1. n + 1 \in 0..MaxRetries
      BY <1>3
    <3> QED BY <3>1, MessageType DEF Message
  <2>3. HistoryTyped' /\ HistoryGrows
    BY <2>1, SameHistory
  <2>4. DeadLetteredOnlyWhenExhausted'
    BY <2>1 DEF DeadLetteredOnlyWhenExhausted
  <2>5. LogStep
    <3>1. \E i \in 1..Len(topic) : topic[i] = Message(e, n)
      BY DEF WorkIsLogged, InHand
    <3>2. m.retry - 1 = n
      BY <2>2
    <3> HIDE DEF m
    <3> QED BY <2>1, <2>2, <3>1, <3>2 DEF LogStep
  <2>6. topic' \in Seq(Msgs) /\ Len(topic') = Len(topic) + 1
        /\ topic'[Len(topic) + 1] = m
    <3> HIDE DEF m
    <3> QED BY <2>1, <2>2, AppendFacts DEF LogTyped
  <2>7. Len(topic) \in Nat
    BY DEF LogTyped
  <2>8. Len(topic) < Len(topic') /\ Len(topic') \in Nat /\ topic'[Len(topic')].event = e
    BY <2>2, <2>6, <2>7
  <2> QED BY <1>1, <2>3, <2>4, <2>5, <2>6, <2>8
<1> QED BY <1>2, <1>3

LEMMA RequeueInv ==
    ASSUME IInv, NEW p \in Processes, NEW g \in Groups,
           Requeue(p, g) \/ RequeueFails(p, g) \/ RequeueRefused(p, g)
    PROVE  IInv'
<1>0. LogTyped /\ MembersTyped /\ HistoryTyped /\ Offsets /\ Counters /\ WorkIsLogged
      /\ OwnerIsAtPosition /\ InHandIsTried /\ DeadLetteredOnlyWhenExhausted
  BY DEF IInv, Typed, Flow, Tries
<1>1. /\ work[p][g].stage = "requeue"
      /\ UNCHANGED <<outboxVars, owner, committed, processed, handled, failures,
                     losses, throws>>
  BY DEF Requeue, RequeueFails, RequeueRefused
<1>2. PICK e \in Events, n \in 0..MaxRetries :
          e = work[p][g].event /\ n = work[p][g].retry
  BY <1>0, <1>1, InHandFacts
<1>3. Counters'
  BY <1>0 DEF Requeue, RequeueFails, RequeueRefused, Counters, Fault
<1>4. producer' \in [Processes -> {"none", "connected", "rejected"}]
  BY <1>0 DEF Requeue, RequeueFails, RequeueRefused, MembersTyped
<1>5. Resting \in Works /\ Resting.stage = "idle"
  BY DEF Resting, Works, WorkStages
<1>6. /\ topic' \in Seq(Msgs) /\ LogStep
      /\ HistoryTyped' /\ HistoryGrows /\ DeadLetteredOnlyWhenExhausted'
  <2>1. CASE Resend(work[p][g], g)
    BY <1>0, <1>1, <1>2, <2>1, ResendFacts
  <2>2. CASE UNCHANGED <<topic, dead>>
    <3>1. topic' \in Seq(Msgs) /\ LogStep
      BY <1>0, <2>2 DEF LogTyped, LogStep
    <3>2. HistoryTyped' /\ HistoryGrows
      BY <1>0, <1>1, <2>2, SameHistory
    <3>3. DeadLetteredOnlyWhenExhausted'
      BY <1>0, <1>1, <2>2 DEF DeadLetteredOnlyWhenExhausted
    <3> QED BY <3>1, <3>2, <3>3
  <2>3. Resend(work[p][g], g) \/ UNCHANGED <<topic, dead>>
    BY DEF Requeue, RequeueFails, RequeueRefused
  <2> QED BY <2>1, <2>2, <2>3
<1>7. /\ SetsWork(p, g, Resting) /\ WorkStep(p, g, Resting)
      /\ position' \in [Groups -> Nat] /\ PositionStep(p, g)
  <2>1. CASE Requeue(p, g)
    <3>1. Through(p, g) /\ Resend(work[p][g], g)
      BY <2>1 DEF Requeue
    <3>2. /\ Tried(g, e, n + 1)'
          /\ \/ Settled(g, e)'
             \/ /\ Len(topic) < Len(topic')
                /\ topic'[Len(topic')].event = e
                /\ Len(topic') \in Nat
      BY <1>0, <1>1, <1>2, <3>1, ResendFacts
    <3>3. owner[g] = p =>
              position[g] < Len(topic) /\ topic[position[g] + 1] = Message(e, n)
      BY <1>0, <1>1, <1>2 DEF OwnerIsAtPosition, InHand
    <3>4. n \in Nat
      OBVIOUS
    <3> QED BY <1>0, <3>1, <3>2, <3>3, <3>4, ThroughFacts
  <2>2. CASE RequeueFails(p, g) \/ RequeueRefused(p, g)
    <3>1. position' = position /\ SetsWork(p, g, Resting)
      BY <2>2 DEF RequeueFails, RequeueRefused, SetsWork
    <3> QED BY <1>0, <1>5, <3>1 DEF WorkStep, PositionStep, LogTyped
  <2> QED BY <2>1, <2>2
<1>8. UNCHANGED <<outboxVars, owner, committed, processed, handled, losses>>
  BY <1>1
<1>9. Resting.stage # "handle"
  BY <1>5
<1> QED BY <1>3, <1>4, <1>5, <1>6, <1>7, <1>8, <1>9, UnhandledInv

LEMMA CommitInv == ASSUME IInv, NEW g \in Groups, Commit(g) PROVE IInv'
<1>1. /\ committed' = [committed EXCEPT ![g] = position[g]]
      /\ UNCHANGED <<outboxVars, topic, owner, position, work, processed, handled,
                     failures, dead, producer, losses, throws, faults>>
  BY DEF Commit
<1>2. LogTyped' /\ Offsets'
  BY <1>1 DEF IInv, Typed, Flow, LogTyped, Offsets
<1>3. OutboxGood'
  BY <1>1
     DEF IInv, Typed, Flow, OutboxGood, OutboxTyped, RowsAreReal, SentIsLogged, Logged,
         outboxVars
<1>4. MembersTyped' /\ HistoryTyped' /\ Counters'
  BY <1>1 DEF IInv, Typed, MembersTyped, HistoryTyped, Counters
<1>5. WorkIsLogged' /\ OwnerIsAtPosition' /\ StoredIsHandled' /\ Covered'
  BY <1>1 DEF IInv, Flow, WorkIsLogged, OwnerIsAtPosition, InHand, StoredIsHandled,
              Covered, Settled, Ahead
<1>6. Tries'
  BY <1>1 DEF IInv, Tries, CopiesAreChained, PassedIsTried, InHandIsTried, Tried,
              DeadLetteredOnlyWhenExhausted
<1>7. HandlingIsPaidFor'
  BY <1>1 DEF IInv, HandlingIsPaidFor, Handlers, OwnerHasSeen
<1> QED BY <1>2, <1>3, <1>4, <1>5, <1>6, <1>7 DEF IInv, Typed, Flow, OutboxGood

----------------------------------------------------------------------------
\* Crashes and rebalances

\* A loss drops work and memory, or takes positions back to the offsets; what the
\* owner of a group may have forgotten is counted.
LEMMA LossInv ==
    ASSUME IInv, OutboxGood', MembersTyped', position' \in [Groups -> Nat],
           UNCHANGED <<topic, committed, handled, failures, dead, throws>>,
           faults < MaxFaults, faults' = faults + 1,
           losses' \in [Groups -> [Events -> Nat]],
           \A h \in Groups, e \in Events :
               \/ losses'[h][e] = losses[h][e] + 1
               \/ /\ losses'[h][e] = losses[h][e]
                  /\ owner'[h] = owner[h]
                  /\ work'[owner[h]][h] = work[owner[h]][h]
                  /\ e \in processed[owner[h]][h] => e \in processed'[owner[h]][h],
           \A h \in Groups : position'[h] \in {position[h], committed[h]},
           \A q \in Processes, h \in Groups :
               /\ work'[q][h] = work[q][h] \/ work'[q][h].stage = "idle"
               /\ processed'[q][h] \subseteq processed[q][h],
           \A h \in Groups :
               \/ owner'[h] = owner[h] /\ position'[h] = position[h]
               \/ work'[owner'[h]][h].stage = "idle"
    PROVE  IInv'
<1>0. LogTyped /\ MembersTyped /\ HistoryTyped /\ Offsets /\ Counters /\ WorkIsLogged
      /\ OwnerIsAtPosition /\ StoredIsHandled /\ Covered /\ CopiesAreChained
      /\ PassedIsTried /\ InHandIsTried /\ DeadLetteredOnlyWhenExhausted
      /\ HandlingIsPaidFor
  BY DEF IInv, Typed, Flow, Tries
<1>1. LogTyped' /\ LogExtends
  BY <1>0 DEF LogTyped, LogExtends
<1>2. HistoryTyped' /\ HistoryGrows
  BY <1>0, SameHistory
<1>3. Counters'
  <2>1. losses \in [Groups -> [Events -> Nat]] /\ faults \in Nat /\ faults' \in Nat
        /\ faults' \in 0..MaxFaults
    BY <1>0 DEF Counters
  <2>2. ASSUME NEW h \in Groups, NEW e \in Events PROVE losses'[h][e] <= faults'
    <3>1. losses[h][e] <= faults /\ losses[h][e] \in Nat
      BY <1>0, <2>1 DEF Counters
    <3>2. losses'[h][e] = losses[h][e] + 1 \/ losses'[h][e] = losses[h][e]
      OBVIOUS
    <3> QED BY <2>1, <3>1, <3>2
  <2> QED BY <1>0, <2>1, <2>2 DEF Counters
<1>4. \A h \in Groups : /\ position[h] \in Nat /\ committed[h] \in Nat
                        /\ committed[h] <= position[h] /\ position[h] <= Len(topic)
                        /\ position'[h] <= position[h] /\ committed[h] <= position'[h]
                        /\ Len(topic) \in Nat
  <2>1. Len(topic) \in Nat
    BY <1>0 DEF LogTyped
  <2>2. \A h \in Groups : /\ position[h] \in Nat /\ committed[h] \in Nat
                          /\ committed[h] <= position[h] /\ position[h] <= Len(topic)
    BY <1>0 DEF LogTyped, Offsets
  <2>3. ASSUME NEW h \in Groups
        PROVE  position'[h] <= position[h] /\ committed[h] <= position'[h]
    <3>1. position'[h] = position[h] \/ position'[h] = committed[h]
      OBVIOUS
    <3> QED BY <2>2, <3>1
  <2> QED BY <2>1, <2>2, <2>3
<1>5. Offsets'
  BY <1>4 DEF Offsets
<1>6. WorkIsLogged'
  BY <1>0, <1>1, WorkKept
<1>7. OwnerIsAtPosition'
  <2>1. \A h \in Groups : owner[h] \in Processes /\ owner'[h] \in Processes
    BY <1>0 DEF MembersTyped
  <2>2. ASSUME NEW h \in Groups, work'[owner'[h]][h].stage # "idle"
        PROVE  /\ position'[h] = position[h]
               /\ position[h] < Len(topic)
               /\ topic[position[h] + 1] =
                      Message(work'[owner'[h]][h].event, work'[owner'[h]][h].retry)
    <3>1. owner'[h] = owner[h] /\ position'[h] = position[h]
          /\ work'[owner'[h]][h] = work[owner[h]][h]
      BY <2>1, <2>2
    <3> QED BY <1>0, <2>2, <3>1 DEF OwnerIsAtPosition, InHand
  <2> QED BY <1>0, <1>1, <2>2, AtPositionKept
<1>8. StoredIsHandled'
  BY <1>0 DEF StoredIsHandled
<1>9. Covered' /\ PassedIsTried'
  BY <1>0, <1>1, <1>2, <1>4, CoveredKept, PassedKept
<1>10. CopiesAreChained' /\ DeadLetteredOnlyWhenExhausted'
  BY <1>0 DEF CopiesAreChained, DeadLetteredOnlyWhenExhausted
<1>11. InHandIsTried'
  <2> SUFFICES ASSUME NEW q \in Processes, NEW h \in Groups, work'[q][h].stage # "idle"
               PROVE  /\ work'[q][h].stage = "handle" =>
                            Tried(h, work[q][h].event, work[q][h].retry)'
                      /\ work'[q][h].stage = "requeue" =>
                            Tried(h, work[q][h].event, work[q][h].retry + 1)'
    BY DEF InHandIsTried
  <2>1. work'[q][h] = work[q][h]
    OBVIOUS
  <2> QED BY <1>0, <2>1 DEF InHandIsTried, Tried
<1>12. HandlingIsPaidFor'
  <2> SUFFICES ASSUME NEW h \in Groups, NEW e \in Events PROVE PaidFor(h, e)'
    BY DEF HandlingIsPaidFor, PaidFor
  <2>1. PICK S, T : S = Handlers(h, e) /\ T = Handlers(h, e)'
    OBVIOUS
  <2>2. T \subseteq S
    BY <2>1 DEF Handlers
  <2>3. PaidFor(h, e)
    BY <1>0 DEF HandlingIsPaidFor, PaidFor
  <2>4. /\ IsFiniteSet(S) /\ IsFiniteSet(T) /\ Cardinality(T) <= Cardinality(S)
        /\ Cardinality(S) \in Nat /\ Cardinality(T) \in Nat
    BY <2>1, <2>2, <2>3, FS_Subset, FS_CardinalityType DEF PaidFor
  <2>5. /\ handled[h][e] \in Nat /\ losses[h][e] \in Nat /\ losses'[h][e] \in Nat
        /\ handled[h][e] + Cardinality(S)
               <= losses[h][e] + (IF OwnerHasSeen(h, e) THEN 1 ELSE 0)
    BY <1>0, <2>1, <2>3 DEF PaidFor, HistoryTyped, Counters
  <2>6. handled[h][e] + Cardinality(T)
            <= losses'[h][e] + (IF OwnerHasSeen(h, e)' THEN 1 ELSE 0)
    <3>1. CASE losses'[h][e] = losses[h][e] + 1
      BY <2>4, <2>5, <3>1
    <3>2. CASE /\ losses'[h][e] = losses[h][e]
               /\ owner'[h] = owner[h]
               /\ work'[owner[h]][h] = work[owner[h]][h]
               /\ e \in processed[owner[h]][h] => e \in processed'[owner[h]][h]
      <4>1. OwnerHasSeen(h, e) => OwnerHasSeen(h, e)'
        BY <3>2 DEF OwnerHasSeen, Handlers
      <4> QED BY <2>4, <2>5, <3>2, <4>1
    <3> QED BY <3>1, <3>2
  <2>7. handled'[h][e] = handled[h][e]
    OBVIOUS
  <2> QED BY <2>1, <2>4, <2>6, <2>7 DEF PaidFor
<1> QED BY <1>1, <1>2, <1>3, <1>5, <1>6, <1>7, <1>8, <1>9, <1>10, <1>11, <1>12
        DEF IInv, Typed, Flow, Tries, OutboxGood

LEMMA RebalanceInv ==
    ASSUME IInv, NEW g \in Groups, NEW q \in Processes, Rebalance(g, q) PROVE IInv'
<1>0. LogTyped /\ MembersTyped /\ OutboxGood /\ Counters
  BY DEF IInv, Typed, Flow, OutboxGood
<1>1. /\ q \in Members[g] /\ work[q][g] = Resting
      /\ owner' = [owner EXCEPT ![g] = q]
      /\ position' = [position EXCEPT ![g] = committed[g]]
      /\ UNCHANGED <<outboxVars, topic, committed, work, processed, handled,
                     failures, dead, producer, throws>>
      /\ faults < MaxFaults /\ faults' = faults + 1
      /\ losses' = [losses EXCEPT ![g] = [e \in Events |-> @[e] + 1]]
  BY DEF Rebalance, Fault
<1>2. OutboxGood'
  <2>1. LogExtends
    BY <1>0, <1>1 DEF LogTyped, LogExtends
  <2> QED BY <1>0, <1>1, <2>1, OutboxKept
<1>3. /\ position' \in [Groups -> Nat]
      /\ \A h \in Groups : position'[h] \in {position[h], committed[h]}
  BY <1>0, <1>1 DEF LogTyped
<1>4. MembersTyped'
  BY <1>0, <1>1 DEF MembersTyped
<1>5. \A h \in Groups :
          \/ owner'[h] = owner[h] /\ position'[h] = position[h]
          \/ work'[owner'[h]][h].stage = "idle"
  BY <1>0, <1>1 DEF MembersTyped, LogTyped, Resting
<1>6. UNCHANGED <<topic, committed, handled, failures, dead, throws>>
      /\ work' = work /\ processed' = processed
  BY <1>1
<1>7. /\ losses' \in [Groups -> [Events -> Nat]]
      /\ \A h \in Groups, e \in Events :
             losses'[h][e] = IF h = g THEN losses[h][e] + 1 ELSE losses[h][e]
  BY <1>0, <1>1 DEF Counters
<1>8. \A h \in Groups : h # g => owner'[h] = owner[h]
  BY <1>0, <1>1 DEF MembersTyped
<1> QED BY <1>1, <1>2, <1>3, <1>4, <1>5, <1>6, <1>7, <1>8, LossInv

LEMMA RestartInv == ASSUME IInv, NEW p \in Processes, Restart(p) PROVE IInv'
<1>0. LogTyped /\ MembersTyped /\ OutboxGood /\ Counters
  BY DEF IInv, Typed, Flow, OutboxGood
<1>1. /\ poll' = [t \in Polls |-> IF t[1] = p THEN Idle ELSE poll[t]]
      /\ UNCHANGED <<inserted, published, topic, committed, handled, failures, dead,
                     throws>>
      /\ faults < MaxFaults /\ faults' = faults + 1
      /\ losses' = [h \in Groups |-> [e \in Events |->
                        losses[h][e] + (IF owner[h] = p THEN 1 ELSE 0)]]
      /\ position' = [h \in Groups |-> IF owner[h] = p THEN committed[h] ELSE position[h]]
  BY DEF Restart, Fault
<1>2. /\ work' \in [Processes -> [Groups -> Works]]
      /\ \A q \in Processes, h \in Groups :
             work'[q][h] = work[q][h] \/ work'[q][h].stage = "idle"
      /\ \A q \in Processes : q # p => work'[q] = work[q]
  <2>1. Resting \in Works /\ Resting.stage = "idle"
    BY DEF Resting, Works, WorkStages
  <2>2. work' = [work EXCEPT ![p] = [h \in Groups |-> Resting]]
    BY DEF Restart
  <2> HIDE DEF Restart
  <2> QED BY <1>0, <2>1, <2>2 DEF MembersTyped
<1>3. /\ processed' \in [Processes -> [Groups -> SUBSET Events]]
      /\ \A q \in Processes, h \in Groups : processed'[q][h] \subseteq processed[q][h]
  <2>1. processed' = [processed EXCEPT ![p] = [h \in Groups |-> {}]]
    BY DEF Restart
  <2> QED BY <1>0, <2>1 DEF MembersTyped
<1>4. producer' \in [Processes -> {"none", "connected", "rejected"}]
  <2>1. producer' = [producer EXCEPT ![p] = "none"]
    BY DEF Restart
  <2> QED BY <1>0, <2>1 DEF MembersTyped
<1>5. /\ owner' \in [Groups -> Processes]
      /\ \A h \in Groups :
             \/ owner[h] = p /\ owner'[h] \in Members[h] /\ work'[owner'[h]][h] = Resting
             \/ owner[h] # p /\ owner'[h] = owner[h]
  BY DEF Restart
<1>6. MembersTyped'
  BY <1>0, <1>2, <1>3, <1>4, <1>5 DEF MembersTyped
<1>7. /\ position' \in [Groups -> Nat]
      /\ \A h \in Groups : position'[h] \in {position[h], committed[h]}
      /\ \A h \in Groups :
             \/ owner'[h] = owner[h] /\ position'[h] = position[h]
             \/ work'[owner'[h]][h].stage = "idle"
  BY <1>0, <1>1, <1>5 DEF LogTyped, Resting
<1>8. OutboxGood'
  <2>1. Idle \in [stage : Stages, rows : Seq(Events)] /\ Idle.stage = "idle"
    BY DEF Idle, Stages
  <2>2. poll' \in [Polls -> [stage : Stages, rows : Seq(Events)]]
        /\ \A t \in Polls : poll'[t] = poll[t] \/ poll'[t].stage = "idle"
    BY <1>0, <1>1, <2>1 DEF OutboxGood, OutboxTyped
  <2>3. OutboxTyped'
    BY <1>0, <1>1, <2>2 DEF OutboxGood, OutboxTyped
  <2>4. RowsAreReal'
    BY <1>0, <1>1, <2>2 DEF OutboxGood, RowsAreReal
  <2>5. SentIsLogged'
    BY <1>0, <1>1, <2>2 DEF OutboxGood, SentIsLogged, Logged
  <2> QED BY <2>3, <2>4, <2>5 DEF OutboxGood
<1>9. /\ losses' \in [Groups -> [Events -> Nat]]
      /\ \A h \in Groups, e \in Events :
             losses'[h][e] = IF owner[h] = p THEN losses[h][e] + 1 ELSE losses[h][e]
  BY <1>0, <1>1 DEF Counters
<1>10. ASSUME NEW h \in Groups, owner[h] # p
       PROVE  /\ owner'[h] = owner[h]
              /\ work'[owner[h]][h] = work[owner[h]][h]
              /\ processed'[owner[h]][h] = processed[owner[h]][h]
  <2>1. owner[h] \in Processes
    BY <1>0 DEF MembersTyped
  <2>2. processed' = [processed EXCEPT ![p] = [k \in Groups |-> {}]]
    BY DEF Restart
  <2> QED BY <1>0, <1>2, <1>5, <1>10, <2>1, <2>2 DEF MembersTyped
<1> QED BY <1>1, <1>2, <1>3, <1>6, <1>7, <1>8, <1>9, <1>10, LossInv

LEMMA ExpireInv ==
    ASSUME IInv, NEW p \in Processes, NEW g \in Groups, NEW e \in Events, Expire(p, g, e)
    PROVE  IInv'
<1>0. LogTyped /\ MembersTyped /\ OutboxGood /\ Counters
  BY DEF IInv, Typed, Flow, OutboxGood
<1>1. /\ processed' = [processed EXCEPT ![p][g] = @ \ {e}]
      /\ losses' = [losses EXCEPT ![g][e] = @ + 1]
      /\ UNCHANGED <<outboxVars, topic, owner, position, committed, work, producer,
                     handled, failures, dead, throws>>
      /\ faults < MaxFaults /\ faults' = faults + 1
  BY DEF Expire, Fault
<1>2. OutboxGood'
  <2>1. LogExtends
    BY <1>0, <1>1 DEF LogTyped, LogExtends
  <2> QED BY <1>0, <1>1, <2>1, OutboxKept
<1>3. /\ processed' \in [Processes -> [Groups -> SUBSET Events]]
      /\ \A q \in Processes, h \in Groups :
             /\ processed'[q][h] \subseteq processed[q][h]
             /\ \A d \in Events : d # e \/ h # g =>
                    (d \in processed[q][h] => d \in processed'[q][h])
  BY <1>0, <1>1 DEF MembersTyped
<1>4. MembersTyped'
  BY <1>0, <1>1, <1>3 DEF MembersTyped
<1>5. /\ losses' \in [Groups -> [Events -> Nat]]
      /\ \A h \in Groups, d \in Events :
             losses'[h][d] = IF h = g /\ d = e THEN losses[h][d] + 1 ELSE losses[h][d]
  BY <1>0, <1>1 DEF Counters
<1>6. /\ position' \in [Groups -> Nat]
      /\ \A h \in Groups : position'[h] \in {position[h], committed[h]}
      /\ \A h \in Groups : owner'[h] = owner[h] /\ position'[h] = position[h]
  BY <1>0, <1>1 DEF LogTyped
<1>7. \A h \in Groups : owner[h] \in Processes
  BY <1>0 DEF MembersTyped
<1> QED BY <1>1, <1>2, <1>3, <1>4, <1>5, <1>6, <1>7, LossInv

----------------------------------------------------------------------------
\* The theorems

LEMMA InitInv == Init => IInv
<1> SUFFICES ASSUME Init PROVE IInv
  OBVIOUS
<1>1. OutboxTyped /\ RowsAreReal /\ SentIsLogged
  BY DEF Init, OutboxTyped, RowsAreReal, SentIsLogged, Idle, Stages
<1>2. LogTyped /\ Offsets
  BY DEF Init, LogTyped, Offsets
<1>3. \A p \in Processes, g \in Groups : work[p][g] = Resting
  BY DEF Init
<1>4. MembersTyped
  <2>1. Resting \in Works
    BY DEF Resting, Works, WorkStages
  <2> QED BY <2>1 DEF Init, MembersTyped
<1>5. HistoryTyped /\ Counters
  BY DEF Init, HistoryTyped, Counters
<1>6. WorkIsLogged /\ OwnerIsAtPosition /\ StoredIsHandled /\ Covered
  <2>1. WorkIsLogged /\ OwnerIsAtPosition
    BY <1>3, <1>4 DEF WorkIsLogged, OwnerIsAtPosition, MembersTyped, Resting
  <2>2. StoredIsHandled /\ Covered
    BY DEF Init, StoredIsHandled, Covered
  <2> QED BY <2>1, <2>2
<1>7. Tries
  BY <1>3 DEF Init, Tries, CopiesAreChained, PassedIsTried, InHandIsTried, Resting,
              DeadLetteredOnlyWhenExhausted
<1>8. HandlingIsPaidFor
  <2> SUFFICES ASSUME NEW g \in Groups, NEW e \in Events PROVE PaidFor(g, e)
    BY DEF HandlingIsPaidFor, PaidFor
  <2>1. Handlers(g, e) = {}
    BY <1>3 DEF Handlers, Resting
  <2>2. IsFiniteSet(Handlers(g, e)) /\ Cardinality(Handlers(g, e)) = 0
    BY <2>1, FS_EmptySet
  <2> QED BY <2>2 DEF PaidFor, Init
<1> QED BY <1>1, <1>2, <1>4, <1>5, <1>6, <1>7, <1>8 DEF IInv, Typed, Flow

LEMMA NextInv == IInv /\ [Next]_vars => IInv'
<1> SUFFICES ASSUME IInv, [Next]_vars PROVE IInv'
  OBVIOUS
<1>1. CASE UNCHANGED vars
  <2>1. UNCHANGED <<outboxVars, topic, owner, position, committed, work, producer,
                    processed, handled, failures, dead, losses, throws, faults>>
    BY <1>1 DEF vars, groupVars
  <2>2. OutboxTyped' /\ LogTyped' /\ MembersTyped' /\ HistoryTyped' /\ Counters'
    BY <2>1 DEF IInv, Typed, OutboxTyped, LogTyped, MembersTyped, HistoryTyped,
                Counters, outboxVars
  <2>3. Flow'
    BY <2>1 DEF IInv, Flow, RowsAreReal, SentIsLogged, Logged, Offsets, WorkIsLogged,
                InHand, OwnerIsAtPosition, StoredIsHandled, Covered, Settled, Ahead,
                outboxVars
  <2>4. Tries'
    BY <2>1 DEF IInv, Tries, CopiesAreChained, PassedIsTried, InHandIsTried, Tried,
                DeadLetteredOnlyWhenExhausted
  <2>5. HandlingIsPaidFor'
    BY <2>1 DEF IInv, HandlingIsPaidFor, Handlers, OwnerHasSeen
  <2> QED BY <2>2, <2>3, <2>4, <2>5 DEF IInv, Typed
<1>2. CASE OutboxStep
  BY <1>2, OutboxStepInv
<1>3. ASSUME NEW p \in Processes, NEW g \in Groups,
             Consume(p, g) \/ HandlerThrows(p, g) \/ RequeueFails(p, g)
      PROVE  IInv'
  BY <1>3, ReceiveInv, HandleInv, HandlerThrowsInv, RequeueInv DEF Consume
<1>4. ASSUME NEW g \in Groups, Commit(g) PROVE IInv'
  BY <1>4, CommitInv
<1>5. ASSUME NEW g \in Groups, NEW q \in Processes, Rebalance(g, q) PROVE IInv'
  BY <1>5, RebalanceInv
<1>6. ASSUME NEW p \in Processes, Restart(p) PROVE IInv'
  BY <1>6, RestartInv
<1>7. ASSUME NEW p \in Processes, NEW g \in Groups, NEW e \in Events, Expire(p, g, e)
      PROVE  IInv'
  BY <1>7, ExpireInv
<1> QED BY <1>1, <1>2, <1>3, <1>4, <1>5, <1>6, <1>7 DEF Next, OutboxStep

\* The inductive invariant: what the tables, the log, the offsets, the hands of
\* the processes and the counts know of one another.
THEOREM Invariant == Spec => []IInv
<1>1. Init => IInv
  BY InitInv
<1>2. IInv /\ [Next]_vars => IInv'
  BY NextInv
<1> QED BY <1>1, <1>2, PTL DEF Spec

\* Every variable keeps its type, and no offset runs past the log.
THEOREM TypeCorrect == Spec => []TypeOK
<1>1. IInv => TypeOK
  BY DEF IInv, Typed, OutboxTyped, LogTyped, MembersTyped, HistoryTyped, Counters,
         Flow, Offsets, TypeOK, Msgs, Works
<1> QED BY <1>1, Invariant, PTL

\* At-least-once: a row marked published is settled by every group or still
\* ahead of the offset the group would restart from.
THEOREM NothingIsLost == Spec => []NothingLost
<1>1. IInv => NothingLost
  <2> SUFFICES ASSUME IInv, NEW g \in Groups, NEW e \in published
               PROVE  \/ Settled(g, e)
                      \/ \E i \in committed[g] + 1 .. Len(topic) : topic[i].event = e
    BY DEF NothingLost
  <2>1. /\ position[g] \in Nat /\ committed[g] \in Nat /\ Len(topic) \in Nat
        /\ committed[g] <= position[g] /\ position[g] <= Len(topic)
    BY DEF IInv, Typed, LogTyped, Flow, Offsets
  <2>2. PICK i \in 1..Len(topic) : topic[i].event = e
    BY DEF IInv, Flow, SentIsLogged, Logged
  <2>3. CASE i > position[g]
    BY <2>1, <2>2, <2>3
  <2>4. CASE i <= position[g]
    <3>1. Settled(g, e) \/ Ahead(g, e)
      BY <2>1, <2>2, <2>4 DEF IInv, Flow, Covered
    <3> QED BY <2>1, <3>1 DEF Ahead
  <2> QED BY <2>1, <2>3, <2>4
<1> QED BY <1>1, Invariant, PTL

\* A group handles an event again only when a crash, a rebalance or the expiry of
\* the entry came between.
THEOREM HandledOncePerLoss == Spec => []HandledAgainOnlyAfterLoss
<1>1. IInv => HandledAgainOnlyAfterLoss
  <2> SUFFICES ASSUME IInv, NEW g \in Groups, NEW e \in Events
               PROVE  handled[g][e] <= 1 + losses[g][e]
    BY DEF HandledAgainOnlyAfterLoss
  <2>1. PaidFor(g, e) /\ handled[g][e] \in Nat /\ losses \in [Groups -> [Events -> Nat]]
    BY DEF IInv, Typed, HistoryTyped, Counters, HandlingIsPaidFor, PaidFor
  <2>2. Cardinality(Handlers(g, e)) \in Nat
    BY <2>1, FS_CardinalityType DEF PaidFor
  <2>3. handled[g][e] + Cardinality(Handlers(g, e)) <= losses[g][e] + 1
    BY <2>1, <2>2 DEF PaidFor
  <2> QED BY <2>1, <2>2, <2>3
<1> QED BY <1>1, Invariant, PTL

\* A group gives an event up only after its own handler used up the retries, or
\* when it had handled the event before.
THEOREM GivenUpOnlyWhenExhausted == Spec => []DeadLetteredOnlyWhenExhausted
<1>1. IInv => DeadLetteredOnlyWhenExhausted
  BY DEF IInv, Tries
<1> QED BY <1>1, Invariant, PTL

============================================================================
