---------------------------- MODULE OutboxProofs ----------------------------
(***************************************************************************)
(* What holds of the outbox for every number of use cases, events,         *)
(* instances, retries and faults.  The three safety properties and the     *)
(* refinement rest on one inductive invariant, OutboxInv, proved first.    *)
(***************************************************************************)
EXTENDS Outbox, SequenceTheorems, FiniteSetTheorems, TLAPS

\* The rows of a use case are events, and no other use case has them.
LEMMA RowsOfUseCase ==
    ASSUME NEW u \in UseCase
    PROVE  /\ Len(EventsOf[u]) \in Nat \ {0}
           /\ \A k \in 1..Len(EventsOf[u]) : EventsOf[u][k] \in RowsOf(u)
           /\ RowsOf(u) \subseteq Event
           /\ RowsOf(u) # {}
           /\ \A v \in UseCase : u # v => RowsOf(u) \cap RowsOf(v) = {}
<1>1. EventsOf[u] \in Seq(Event) /\ EventsOf[u] # << >>
  BY EventsOfAssumption
<1>2. Len(EventsOf[u]) \in Nat \ {0}
  BY <1>1, LenProperties, EmptySeq
<1>3. \A k \in 1..Len(EventsOf[u]) : EventsOf[u][k] \in Event
  BY <1>1, ElementOfSeq
<1>4. EventsOf[u][1] \in RowsOf(u)
  BY <1>2 DEF RowsOf
<1>. QED
  BY <1>2, <1>3, <1>4, EventsOfAssumption DEF RowsOf

LEMMA InitInv == Init => OutboxInv
<1>. SUFFICES ASSUME Init PROVE OutboxInv
  OBVIOUS
<1>1. TypeOK
  BY ParametersAssumption DEF Init, TypeOK, Statuses, UseCaseStates
<1>2. SentEventsDelivered
  BY RowsOfUseCase DEF Init, SentEventsDelivered
<1>3. RelayedDelivered /\ SnapshotsNotAhead /\ CommitFollowsUseCase
  BY DEF Init, RelayedDelivered, SnapshotsNotAhead, CommitFollowsUseCase
<1>4. RowsFollowUseCase
  BY RowsOfUseCase DEF Init, RowsFollowUseCase
<1>5. DeliveredHasRow /\ PublishedWasDelivered /\ FailedIsExhausted
  BY DEF Init, DeliveredHasRow, PublishedWasDelivered, FailedIsExhausted
<1>. QED
  BY <1>1, <1>2, <1>3, <1>4, <1>5 DEF OutboxInv

\* The event the deferred publish is about to hand over has a row.
LEMMA NextEventHasRow ==
    ASSUME OutboxInv, NEW u \in UseCase, pc[u] = "queued"
    PROVE  /\ sent[u] \in Nat /\ sent[u] + 1 \in 1..Len(EventsOf[u])
           /\ NextEvent(u) \in Event
           /\ status[NextEvent(u)] # "absent"
<1>1. sent[u] \in Nat /\ sent[u] < Len(EventsOf[u])
  BY DEF OutboxInv, SentEventsDelivered, TypeOK
<1>2. sent[u] + 1 \in 1..Len(EventsOf[u])
  BY <1>1, RowsOfUseCase
<1>3. NextEvent(u) \in RowsOf(u)
  BY <1>2, RowsOfUseCase DEF NextEvent
<1>. QED
  BY <1>1, <1>2, <1>3, RowsOfUseCase DEF OutboxInv, RowsFollowUseCase

\* The entries of a snapshot are events with a row.
LEMMA SnapshotHasRow ==
    ASSUME OutboxInv, NEW i \in Instance, NEW r \in batch[i] \cup failing[i]
    PROVE  /\ r.id \in Event /\ r.attempts \in Nat
           /\ status[r.id] # "absent" /\ r.attempts <= attempts[r.id]
<1>1. r \in Snapshot
  BY DEF OutboxInv, TypeOK
<1>. QED
  BY <1>1 DEF OutboxInv, SnapshotsNotAhead, Snapshot

\* RabbitMQ accepting one more message takes nothing back.
LEMMA DeliveredGrows ==
    ASSUME TypeOK, NEW e \in Event, delivered' = [delivered EXCEPT ![e] = @ + 1]
    PROVE  /\ delivered' \in [Event -> Nat]
           /\ \A f \in Event : delivered[f] \in Nat /\ delivered'[f] >= delivered[f]
           /\ \A f \in Event : f # e => delivered'[f] = delivered[f]
           /\ delivered'[e] >= 1
BY DEF TypeOK

\* A deferred publish that is about to mark its rows has delivered them all.
LEMMA SentRowsDelivered ==
    ASSUME OutboxInv, NEW u \in UseCase, pc[u] = "sent"
    PROVE  \A e \in RowsOf(u) : e \in Event /\ delivered[e] >= 1 /\ status[e] # "absent"
<1>1. sent[u] = Len(EventsOf[u])
  BY DEF OutboxInv, SentEventsDelivered
<1>2. \A k \in 1..Len(EventsOf[u]) : delivered[EventsOf[u][k]] >= 1
  BY <1>1, RowsOfUseCase DEF OutboxInv, SentEventsDelivered
<1>. QED
  BY <1>2, RowsOfUseCase DEF RowsOf, OutboxInv, RowsFollowUseCase

\* The transaction that writes the aggregate and its rows.
LEMMA SaveWithEventsInv ==
    ASSUME OutboxInv, NEW u \in UseCase, SaveWithEvents(u)
    PROVE  OutboxInv'
<1>. USE DEF OutboxInv, SaveWithEvents, InsertRows, pollVars, Statuses, UseCaseStates
<1>1. \A e \in RowsOf(u) : e \in Event /\ status[e] = "absent"
  BY RowsOfUseCase DEF RowsFollowUseCase
<1>2. \A j \in Instance : \A r \in batch[j] \cup failing[j] :
        r.id \in Event /\ r.id \notin RowsOf(u)
  BY <1>1, SnapshotHasRow
<1>3. \A e \in RowsOf(u) : delivered[e] = 0
  BY <1>1 DEF DeliveredHasRow
<1>4. TypeOK'
  BY DEF TypeOK
<1>5. SentEventsDelivered'
  BY RowsOfUseCase DEF SentEventsDelivered, TypeOK
<1>6. RelayedDelivered'
  BY DEF RelayedDelivered, TypeOK
<1>7. SnapshotsNotAhead'
  BY <1>2 DEF SnapshotsNotAhead, TypeOK
<1>8. RowsFollowUseCase'
  BY RowsOfUseCase DEF RowsFollowUseCase, TypeOK
<1>9. CommitFollowsUseCase'
  BY DEF CommitFollowsUseCase, TypeOK
<1>10. DeliveredHasRow'
  BY <1>3 DEF DeliveredHasRow, TypeOK
<1>11. PublishedWasDelivered'
  BY DEF PublishedWasDelivered, TypeOK
<1>12. FailedIsExhausted'
  BY DEF FailedIsExhausted, TypeOK
<1>. QED
  BY <1>4, <1>5, <1>6, <1>7, <1>8, <1>9, <1>10, <1>11, <1>12

\* A commit that leaves the rows for later.
LEMMA SaveAggregateOnlyInv ==
    ASSUME OutboxInv, NEW u \in UseCase, SaveAggregateOnly(u)
    PROVE  OutboxInv'
<1>. USE DEF OutboxInv, SaveAggregateOnly, rowVars, pollVars, UseCaseStates
<1>1. TypeOK'
  BY DEF TypeOK
<1>2. SentEventsDelivered'
  BY DEF SentEventsDelivered, TypeOK
<1>3. RelayedDelivered'
  BY DEF RelayedDelivered, TypeOK
<1>4. SnapshotsNotAhead'
  BY DEF SnapshotsNotAhead, TypeOK
<1>5. RowsFollowUseCase'
  BY RowsOfUseCase DEF RowsFollowUseCase, TypeOK
<1>6. CommitFollowsUseCase'
  BY DEF CommitFollowsUseCase, TypeOK
<1>7. DeliveredHasRow'
  BY DEF DeliveredHasRow, TypeOK
<1>8. PublishedWasDelivered'
  BY DEF PublishedWasDelivered, TypeOK
<1>9. FailedIsExhausted'
  BY DEF FailedIsExhausted, TypeOK
<1>. QED
  BY <1>1, <1>2, <1>3, <1>4, <1>5, <1>6, <1>7, <1>8, <1>9

\* The insert of the rows on its own.
LEMMA OutboxSaveInv ==
    ASSUME OutboxInv, NEW u \in UseCase, OutboxSave(u)
    PROVE  OutboxInv'
<1>. USE DEF OutboxInv, OutboxSave, InsertRows, pollVars, Statuses, UseCaseStates
<1>1. \A e \in RowsOf(u) : e \in Event /\ status[e] = "absent"
  BY RowsOfUseCase DEF RowsFollowUseCase
<1>2. \A j \in Instance : \A r \in batch[j] \cup failing[j] :
        r.id \in Event /\ r.id \notin RowsOf(u)
  BY <1>1, SnapshotHasRow
<1>3. \A e \in RowsOf(u) : delivered[e] = 0
  BY <1>1 DEF DeliveredHasRow
<1>4. TypeOK'
  BY DEF TypeOK
<1>5. SentEventsDelivered'
  BY RowsOfUseCase DEF SentEventsDelivered, TypeOK
<1>6. RelayedDelivered'
  BY DEF RelayedDelivered, TypeOK
<1>7. SnapshotsNotAhead'
  BY <1>2 DEF SnapshotsNotAhead, TypeOK
<1>8. RowsFollowUseCase'
  BY RowsOfUseCase DEF RowsFollowUseCase, TypeOK
<1>9. CommitFollowsUseCase'
  BY DEF CommitFollowsUseCase, TypeOK
<1>10. DeliveredHasRow'
  BY <1>3 DEF DeliveredHasRow, TypeOK
<1>11. PublishedWasDelivered'
  BY DEF PublishedWasDelivered, TypeOK
<1>12. FailedIsExhausted'
  BY DEF FailedIsExhausted, TypeOK
<1>. QED
  BY <1>4, <1>5, <1>6, <1>7, <1>8, <1>9, <1>10, <1>11, <1>12

\* The insert fails and the events are gone.
LEMMA OutboxSaveFailsInv ==
    ASSUME OutboxInv, NEW u \in UseCase, OutboxSaveFails(u)
    PROVE  OutboxInv'
<1>. USE DEF OutboxInv, OutboxSaveFails, Fault, rowVars, pollVars, UseCaseStates
<1>1. MaxFaults \in Nat
  BY ParametersAssumption
<1>2. TypeOK'
  BY <1>1 DEF TypeOK
<1>3. SentEventsDelivered'
  BY DEF SentEventsDelivered, TypeOK
<1>4. RelayedDelivered'
  BY DEF RelayedDelivered, TypeOK
<1>5. SnapshotsNotAhead'
  BY DEF SnapshotsNotAhead, TypeOK
<1>6. RowsFollowUseCase'
  BY RowsOfUseCase DEF RowsFollowUseCase, TypeOK
<1>7. CommitFollowsUseCase'
  BY DEF CommitFollowsUseCase, TypeOK
<1>8. DeliveredHasRow'
  BY DEF DeliveredHasRow, TypeOK
<1>9. PublishedWasDelivered'
  BY DEF PublishedWasDelivered, TypeOK
<1>10. FailedIsExhausted'
  BY DEF FailedIsExhausted, TypeOK
<1>. QED
  BY <1>2, <1>3, <1>4, <1>5, <1>6, <1>7, <1>8, <1>9, <1>10

\* One more event of the batch confirmed.
LEMMA ImmediatePublishInv ==
    ASSUME OutboxInv, NEW u \in UseCase, ImmediatePublish(u)
    PROVE  OutboxInv'
<1>. USE DEF OutboxInv, ImmediatePublish, rowVars, pollVars, UseCaseStates
<1>1. /\ sent[u] \in Nat /\ sent[u] + 1 \in 1..Len(EventsOf[u])
      /\ NextEvent(u) \in Event /\ status[NextEvent(u)] # "absent"
  BY NextEventHasRow
<1>2. /\ delivered' \in [Event -> Nat]
      /\ \A f \in Event : delivered[f] \in Nat /\ delivered'[f] >= delivered[f]
      /\ \A f \in Event : status[f] = "absent" => delivered'[f] = 0
      /\ delivered'[NextEvent(u)] >= 1
  BY <1>1, DeliveredGrows DEF DeliveredHasRow
<1>3. TypeOK'
  BY <1>1, <1>2 DEF TypeOK
<1>4. SentEventsDelivered'
  <2>1. \A k \in 1..Len(EventsOf[u]) : k <= sent'[u] => delivered'[EventsOf[u][k]] >= 1
    BY <1>1, <1>2, RowsOfUseCase DEF SentEventsDelivered, NextEvent, TypeOK
  <2>2. \A v \in UseCase \ {u} : \A k \in 1..Len(EventsOf[v]) :
            k <= sent'[v] => delivered'[EventsOf[v][k]] >= 1
    BY <1>2, RowsOfUseCase DEF SentEventsDelivered, TypeOK
  <2>3. /\ pc'[u] \notin {"idle", "saved", "gone"}
        /\ pc'[u] = "queued" => sent'[u] < Len(EventsOf[u])
        /\ pc'[u] = "sent" => sent'[u] = Len(EventsOf[u])
    BY <1>1, RowsOfUseCase DEF TypeOK
  <2>4. \A v \in UseCase \ {u} : pc'[v] = pc[v] /\ sent'[v] = sent[v]
    BY DEF TypeOK
  <2>. QED
    BY <2>1, <2>2, <2>3, <2>4 DEF SentEventsDelivered
<1>5. RelayedDelivered'
  BY <1>2 DEF RelayedDelivered, TypeOK
<1>6. SnapshotsNotAhead'
  BY DEF SnapshotsNotAhead, TypeOK
<1>7. RowsFollowUseCase'
  BY RowsOfUseCase DEF RowsFollowUseCase, TypeOK
<1>8. CommitFollowsUseCase'
  BY DEF CommitFollowsUseCase, TypeOK
<1>9. DeliveredHasRow'
  BY <1>2 DEF DeliveredHasRow, TypeOK
<1>10. PublishedWasDelivered'
  BY <1>2 DEF PublishedWasDelivered, TypeOK
<1>11. FailedIsExhausted'
  BY DEF FailedIsExhausted, TypeOK
<1>. QED
  BY <1>3, <1>4, <1>5, <1>6, <1>7, <1>8, <1>9, <1>10, <1>11

\* The batch is abandoned; the lost confirm may have been a delivery.
LEMMA ImmediatePublishFailsInv ==
    ASSUME OutboxInv, NEW u \in UseCase, ImmediatePublishFails(u)
    PROVE  OutboxInv'
<1>. USE DEF OutboxInv, ImmediatePublishFails, Fault, rowVars, pollVars, UseCaseStates
<1>1. NextEvent(u) \in Event /\ status[NextEvent(u)] # "absent"
  BY NextEventHasRow
<1>2. /\ delivered' \in [Event -> Nat]
      /\ \A f \in Event : delivered[f] \in Nat /\ delivered'[f] >= delivered[f]
      /\ \A f \in Event : status[f] = "absent" => delivered'[f] = 0
  BY <1>1, DeliveredGrows DEF DeliveredHasRow, TypeOK
<1>3. TypeOK'
  BY ParametersAssumption, <1>2 DEF TypeOK
<1>4. SentEventsDelivered'
  <2>1. \A v \in UseCase : \A k \in 1..Len(EventsOf[v]) :
            delivered[EventsOf[v][k]] >= 1 => delivered'[EventsOf[v][k]] >= 1
    BY <1>2, RowsOfUseCase
  <2>2. \A v \in UseCase : sent'[v] = sent[v] /\ (pc'[v] = pc[v] \/ pc'[v] = "done")
    BY DEF TypeOK
  <2>. QED
    BY <2>1, <2>2 DEF SentEventsDelivered
<1>5. RelayedDelivered'
  BY <1>2 DEF RelayedDelivered, TypeOK
<1>6. SnapshotsNotAhead'
  BY DEF SnapshotsNotAhead, TypeOK
<1>7. RowsFollowUseCase'
  BY RowsOfUseCase DEF RowsFollowUseCase, TypeOK
<1>8. CommitFollowsUseCase'
  BY DEF CommitFollowsUseCase, TypeOK
<1>9. DeliveredHasRow'
  BY <1>2 DEF DeliveredHasRow, TypeOK
<1>10. PublishedWasDelivered'
  BY <1>2 DEF PublishedWasDelivered, TypeOK
<1>11. FailedIsExhausted'
  BY DEF FailedIsExhausted, TypeOK
<1>. QED
  BY <1>3, <1>4, <1>5, <1>6, <1>7, <1>8, <1>9, <1>10, <1>11

\* The whole batch is marked after its last event.
LEMMA ImmediateMarkInv ==
    ASSUME OutboxInv, NEW u \in UseCase, ImmediateMark(u)
    PROVE  OutboxInv'
<1>. USE DEF OutboxInv, ImmediateMark, MarkAsPublished, Fault, rowVars, pollVars, Statuses, UseCaseStates
<1>1. \A e \in RowsOf(u) : e \in Event /\ delivered[e] >= 1 /\ status[e] # "absent"
  BY SentRowsDelivered
<1>2. TypeOK'
  BY ParametersAssumption DEF TypeOK
<1>3. SentEventsDelivered'
  BY DEF SentEventsDelivered, TypeOK
<1>4. RelayedDelivered'
  BY DEF RelayedDelivered, TypeOK
<1>5. SnapshotsNotAhead'
  BY SnapshotHasRow DEF SnapshotsNotAhead, TypeOK
<1>6. RowsFollowUseCase'
  BY RowsOfUseCase DEF RowsFollowUseCase, TypeOK
<1>7. CommitFollowsUseCase'
  BY DEF CommitFollowsUseCase, TypeOK
<1>8. DeliveredHasRow'
  BY DEF DeliveredHasRow, TypeOK
<1>9. PublishedWasDelivered'
  BY <1>1 DEF PublishedWasDelivered, TypeOK
<1>10. FailedIsExhausted'
  BY DEF FailedIsExhausted, TypeOK
<1>. QED
  BY <1>2, <1>3, <1>4, <1>5, <1>6, <1>7, <1>8, <1>9, <1>10

\* The poller takes its snapshot.
LEMMA RunTickInv ==
    ASSUME OutboxInv, NEW i \in Instance, RunTick(i)
    PROVE  OutboxInv'
<1>. USE DEF OutboxInv, RunTick, IsPending, rowVars, useCaseVars
<1>1. TypeOK'
  BY DEF TypeOK, Due, Snapshot
<1>2. SentEventsDelivered'
  BY DEF SentEventsDelivered, TypeOK
<1>3. RelayedDelivered'
  BY DEF RelayedDelivered, TypeOK
<1>4. SnapshotsNotAhead'
  BY DEF SnapshotsNotAhead, TypeOK, Due
<1>5. RowsFollowUseCase'
  BY DEF RowsFollowUseCase, TypeOK
<1>6. CommitFollowsUseCase'
  BY DEF CommitFollowsUseCase, TypeOK
<1>7. DeliveredHasRow'
  BY DEF DeliveredHasRow, TypeOK
<1>8. PublishedWasDelivered'
  BY DEF PublishedWasDelivered, TypeOK
<1>9. FailedIsExhausted'
  BY DEF FailedIsExhausted, TypeOK
<1>. QED
  BY <1>1, <1>2, <1>3, <1>4, <1>5, <1>6, <1>7, <1>8, <1>9

\* The poller publishes one row of its snapshot.
LEMMA PollPublishInv ==
    ASSUME OutboxInv, NEW i \in Instance, PollPublish(i)
    PROVE  OutboxInv'
<1>. USE DEF OutboxInv, PollPublish, rowVars, useCaseVars
<1>1. PICK r \in batch[i] :
        /\ delivered' = [delivered EXCEPT ![r.id] = @ + 1]
        /\ relayed' = [relayed EXCEPT ![i] = @ \cup {r.id}]
        /\ batch' = [batch EXCEPT ![i] = @ \ {r}]
  OBVIOUS
<1>2. r.id \in Event /\ status[r.id] # "absent"
  BY SnapshotHasRow
<1>3. /\ delivered' \in [Event -> Nat]
      /\ \A f \in Event : delivered[f] \in Nat /\ delivered'[f] >= delivered[f]
      /\ \A f \in Event : status[f] = "absent" => delivered'[f] = 0
      /\ delivered'[r.id] >= 1
  BY <1>1, <1>2, DeliveredGrows DEF DeliveredHasRow
<1>4. TypeOK'
  BY <1>1, <1>2, <1>3 DEF TypeOK
<1>5. SentEventsDelivered'
  <2>1. \A v \in UseCase : \A k \in 1..Len(EventsOf[v]) :
            delivered[EventsOf[v][k]] >= 1 => delivered'[EventsOf[v][k]] >= 1
    BY <1>3, RowsOfUseCase
  <2>2. \A v \in UseCase : sent'[v] = sent[v] /\ (pc'[v] = pc[v] \/ pc'[v] = "done")
    BY DEF TypeOK
  <2>. QED
    BY <2>1, <2>2 DEF SentEventsDelivered
<1>6. RelayedDelivered'
  BY <1>1, <1>2, <1>3 DEF RelayedDelivered, TypeOK
<1>7. SnapshotsNotAhead'
  BY <1>1 DEF SnapshotsNotAhead, TypeOK
<1>8. RowsFollowUseCase'
  BY DEF RowsFollowUseCase, TypeOK
<1>9. CommitFollowsUseCase'
  BY DEF CommitFollowsUseCase, TypeOK
<1>10. DeliveredHasRow'
  BY <1>3 DEF DeliveredHasRow, TypeOK
<1>11. PublishedWasDelivered'
  BY <1>3 DEF PublishedWasDelivered, TypeOK
<1>12. FailedIsExhausted'
  BY DEF FailedIsExhausted, TypeOK
<1>. QED
  BY <1>4, <1>5, <1>6, <1>7, <1>8, <1>9, <1>10, <1>11, <1>12

\* The poller's publish fails; the row waits for its attempt to be counted.
LEMMA PollPublishFailsInv ==
    ASSUME OutboxInv, NEW i \in Instance, PollPublishFails(i)
    PROVE  OutboxInv'
<1>. USE DEF OutboxInv, PollPublishFails, Fault, rowVars, useCaseVars
<1>1. PICK r \in batch[i] :
        /\ \/ delivered' = delivered
           \/ delivered' = [delivered EXCEPT ![r.id] = @ + 1]
        /\ failing' = [failing EXCEPT ![i] = {r}]
        /\ batch' = [batch EXCEPT ![i] = @ \ {r}]
  OBVIOUS
<1>2. r.id \in Event /\ status[r.id] # "absent"
  BY SnapshotHasRow
<1>3. /\ delivered' \in [Event -> Nat]
      /\ \A f \in Event : delivered[f] \in Nat /\ delivered'[f] >= delivered[f]
      /\ \A f \in Event : status[f] = "absent" => delivered'[f] = 0
  BY <1>1, <1>2, DeliveredGrows DEF DeliveredHasRow, TypeOK
<1>4. faults' \in 0..MaxFaults
  BY ParametersAssumption DEF TypeOK
<1>5. TypeOK'
  BY <1>1, <1>3, <1>4 DEF TypeOK
<1>6. SentEventsDelivered'
  <2>1. \A v \in UseCase : \A k \in 1..Len(EventsOf[v]) :
            delivered[EventsOf[v][k]] >= 1 => delivered'[EventsOf[v][k]] >= 1
    BY <1>3, RowsOfUseCase
  <2>2. \A v \in UseCase : sent'[v] = sent[v] /\ (pc'[v] = pc[v] \/ pc'[v] = "done")
    BY DEF TypeOK
  <2>. QED
    BY <2>1, <2>2 DEF SentEventsDelivered
<1>7. RelayedDelivered'
  BY <1>3 DEF RelayedDelivered, TypeOK
<1>8. SnapshotsNotAhead'
  BY <1>1 DEF SnapshotsNotAhead, TypeOK
<1>9. RowsFollowUseCase'
  BY DEF RowsFollowUseCase, TypeOK
<1>10. CommitFollowsUseCase'
  BY DEF CommitFollowsUseCase, TypeOK
<1>11. DeliveredHasRow'
  BY <1>3 DEF DeliveredHasRow, TypeOK
<1>12. PublishedWasDelivered'
  BY <1>3 DEF PublishedWasDelivered, TypeOK
<1>13. FailedIsExhausted'
  BY DEF FailedIsExhausted, TypeOK
<1>. QED
  BY <1>5, <1>6, <1>7, <1>8, <1>9, <1>10, <1>11, <1>12, <1>13

\* The failed attempt is counted, and the row given up after the last one.
LEMMA PollRecordFailureInv ==
    ASSUME OutboxInv, NEW i \in Instance, PollRecordFailure(i)
    PROVE  OutboxInv'
<1>. USE DEF OutboxInv, PollRecordFailure, GivesUp, MarkAsFailed, IncrementAttempts, rowVars, useCaseVars
<1>1. PICK r \in failing[i] :
        IF GivesUp(r) THEN MarkAsFailed(r.id) ELSE IncrementAttempts(r.id)
  OBVIOUS
<1>2. /\ r.id \in Event /\ status[r.id] # "absent"
      /\ r.attempts \in Nat /\ attempts[r.id] \in Nat /\ r.attempts <= attempts[r.id]
  BY SnapshotHasRow DEF TypeOK
<1>3. /\ attempts' = [attempts EXCEPT ![r.id] = @ + 1]
      /\ createdAt' = createdAt
      /\ \/ status' = status
         \/ status' = [status EXCEPT ![r.id] = "failed"] /\ r.attempts + 1 >= MaxRetries
  BY <1>1
<1>4. MaxRetries \in Nat
  BY ParametersAssumption
<1>5. TypeOK'
  BY <1>2, <1>3 DEF TypeOK, Statuses
<1>6. SentEventsDelivered'
  BY DEF SentEventsDelivered, TypeOK
<1>7. RelayedDelivered'
  BY DEF RelayedDelivered, TypeOK
<1>8. SnapshotsNotAhead'
  BY <1>2, <1>3, SnapshotHasRow DEF SnapshotsNotAhead, TypeOK
<1>9. RowsFollowUseCase'
  BY <1>2, <1>3, RowsOfUseCase DEF RowsFollowUseCase, TypeOK
<1>10. CommitFollowsUseCase'
  BY DEF CommitFollowsUseCase, TypeOK
<1>11. DeliveredHasRow'
  BY <1>2, <1>3 DEF DeliveredHasRow, TypeOK
<1>12. PublishedWasDelivered'
  BY <1>2, <1>3 DEF PublishedWasDelivered, TypeOK
<1>13. FailedIsExhausted'
  BY <1>2, <1>3, <1>4 DEF FailedIsExhausted, TypeOK
<1>. QED
  BY <1>5, <1>6, <1>7, <1>8, <1>9, <1>10, <1>11, <1>12, <1>13

\* The tick is abandoned.
LEMMA PollRecordFailureFailsInv ==
    ASSUME OutboxInv, NEW i \in Instance, PollRecordFailureFails(i)
    PROVE  OutboxInv'
<1>. USE DEF OutboxInv, PollRecordFailureFails, EndTick, Fault, rowVars, useCaseVars
<1>1. MaxFaults \in Nat
  BY ParametersAssumption
<1>2. TypeOK'
  BY <1>1 DEF TypeOK
<1>3. SentEventsDelivered'
  BY DEF SentEventsDelivered, TypeOK
<1>4. RelayedDelivered'
  BY DEF RelayedDelivered, TypeOK
<1>5. SnapshotsNotAhead'
  BY DEF SnapshotsNotAhead, TypeOK
<1>6. RowsFollowUseCase'
  BY DEF RowsFollowUseCase, TypeOK
<1>7. CommitFollowsUseCase'
  BY DEF CommitFollowsUseCase, TypeOK
<1>8. DeliveredHasRow'
  BY DEF DeliveredHasRow, TypeOK
<1>9. PublishedWasDelivered'
  BY DEF PublishedWasDelivered, TypeOK
<1>10. FailedIsExhausted'
  BY DEF FailedIsExhausted, TypeOK
<1>. QED
  BY <1>2, <1>3, <1>4, <1>5, <1>6, <1>7, <1>8, <1>9, <1>10

\* The tick marks what it has published.
LEMMA PollMarkInv ==
    ASSUME OutboxInv, NEW i \in Instance, PollMark(i)
    PROVE  OutboxInv'
<1>. USE DEF OutboxInv, PollMark, MarkAsPublished, EndTick, Fault, rowVars, useCaseVars
<1>1. \A e \in relayed[i] : e \in Event /\ delivered[e] >= 1 /\ status[e] # "absent"
  BY DEF RelayedDelivered, DeliveredHasRow, TypeOK
<1>2. TypeOK'
  BY ParametersAssumption DEF TypeOK, Statuses
<1>3. SentEventsDelivered'
  BY DEF SentEventsDelivered, TypeOK
<1>4. RelayedDelivered'
  BY DEF RelayedDelivered, TypeOK
<1>5. SnapshotsNotAhead'
  BY SnapshotHasRow DEF SnapshotsNotAhead, TypeOK
<1>6. RowsFollowUseCase'
  BY <1>1, RowsOfUseCase DEF RowsFollowUseCase, TypeOK
<1>7. CommitFollowsUseCase'
  BY DEF CommitFollowsUseCase, TypeOK
<1>8. DeliveredHasRow'
  BY DEF DeliveredHasRow, TypeOK
<1>9. PublishedWasDelivered'
  BY <1>1 DEF PublishedWasDelivered, TypeOK
<1>10. FailedIsExhausted'
  BY DEF FailedIsExhausted, TypeOK
<1>. QED
  BY <1>2, <1>3, <1>4, <1>5, <1>6, <1>7, <1>8, <1>9, <1>10

\* A crash forgets what was in memory, and only that.
LEMMA CrashInv ==
    ASSUME OutboxInv, NEW i \in Instance, Crash(i)
    PROVE  OutboxInv'
<1>. USE DEF OutboxInv, Crash, Fault, Die, EndTick, rowVars, UseCaseStates
<1>1. MaxFaults \in Nat
  BY ParametersAssumption
<1>2. TypeOK'
  BY <1>1 DEF TypeOK
<1>3. SentEventsDelivered'
  BY DEF SentEventsDelivered, TypeOK
<1>4. RelayedDelivered'
  BY DEF RelayedDelivered, TypeOK
<1>5. SnapshotsNotAhead'
  BY DEF SnapshotsNotAhead, TypeOK
<1>6. RowsFollowUseCase'
  BY RowsOfUseCase DEF RowsFollowUseCase, TypeOK
<1>7. CommitFollowsUseCase'
  BY DEF CommitFollowsUseCase, TypeOK
<1>8. DeliveredHasRow'
  BY DEF DeliveredHasRow, TypeOK
<1>9. PublishedWasDelivered'
  BY DEF PublishedWasDelivered, TypeOK
<1>10. FailedIsExhausted'
  BY DEF FailedIsExhausted, TypeOK
<1>. QED
  BY <1>2, <1>3, <1>4, <1>5, <1>6, <1>7, <1>8, <1>9, <1>10

\* A stop is announced.
LEMMA StopInv ==
    ASSUME OutboxInv, NEW i \in Instance, Stop(i)
    PROVE  OutboxInv'
<1>. USE DEF OutboxInv, Stop, Fault, rowVars, useCaseVars, pollVars
<1>1. MaxFaults \in Nat
  BY ParametersAssumption
<1>2. TypeOK'
  BY <1>1 DEF TypeOK
<1>3. SentEventsDelivered'
  BY DEF SentEventsDelivered, TypeOK
<1>4. RelayedDelivered'
  BY DEF RelayedDelivered, TypeOK
<1>5. SnapshotsNotAhead'
  BY DEF SnapshotsNotAhead, TypeOK
<1>6. RowsFollowUseCase'
  BY DEF RowsFollowUseCase, TypeOK
<1>7. CommitFollowsUseCase'
  BY DEF CommitFollowsUseCase, TypeOK
<1>8. DeliveredHasRow'
  BY DEF DeliveredHasRow, TypeOK
<1>9. PublishedWasDelivered'
  BY DEF PublishedWasDelivered, TypeOK
<1>10. FailedIsExhausted'
  BY DEF FailedIsExhausted, TypeOK
<1>. QED
  BY <1>2, <1>3, <1>4, <1>5, <1>6, <1>7, <1>8, <1>9, <1>10

\* The stopped process ends.
LEMMA ExitInv ==
    ASSUME OutboxInv, NEW i \in Instance, Exit(i)
    PROVE  OutboxInv'
<1>. USE DEF OutboxInv, Exit, Die, EndTick, rowVars, UseCaseStates
<1>1. TypeOK'
  BY DEF TypeOK
<1>2. SentEventsDelivered'
  BY DEF SentEventsDelivered, TypeOK
<1>3. RelayedDelivered'
  BY DEF RelayedDelivered, TypeOK
<1>4. SnapshotsNotAhead'
  BY DEF SnapshotsNotAhead, TypeOK
<1>5. RowsFollowUseCase'
  BY RowsOfUseCase DEF RowsFollowUseCase, TypeOK
<1>6. CommitFollowsUseCase'
  BY DEF CommitFollowsUseCase, TypeOK
<1>7. DeliveredHasRow'
  BY DEF DeliveredHasRow, TypeOK
<1>8. PublishedWasDelivered'
  BY DEF PublishedWasDelivered, TypeOK
<1>9. FailedIsExhausted'
  BY DEF FailedIsExhausted, TypeOK
<1>. QED
  BY <1>1, <1>2, <1>3, <1>4, <1>5, <1>6, <1>7, <1>8, <1>9

\* The instance comes back.
LEMMA RestartInv ==
    ASSUME OutboxInv, NEW i \in Instance, Restart(i)
    PROVE  OutboxInv'
<1>. USE DEF OutboxInv, Restart, rowVars, useCaseVars, pollVars
<1>1. TypeOK'
  BY DEF TypeOK
<1>2. SentEventsDelivered'
  BY DEF SentEventsDelivered, TypeOK
<1>3. RelayedDelivered'
  BY DEF RelayedDelivered, TypeOK
<1>4. SnapshotsNotAhead'
  BY DEF SnapshotsNotAhead, TypeOK
<1>5. RowsFollowUseCase'
  BY DEF RowsFollowUseCase, TypeOK
<1>6. CommitFollowsUseCase'
  BY DEF CommitFollowsUseCase, TypeOK
<1>7. DeliveredHasRow'
  BY DEF DeliveredHasRow, TypeOK
<1>8. PublishedWasDelivered'
  BY DEF PublishedWasDelivered, TypeOK
<1>9. FailedIsExhausted'
  BY DEF FailedIsExhausted, TypeOK
<1>. QED
  BY <1>1, <1>2, <1>3, <1>4, <1>5, <1>6, <1>7, <1>8, <1>9

\* Broker, time and stuttering leave the rows and the memory alone.
LEMMA EnvironmentInv ==
    ASSUME OutboxInv, BrokerChanges \/ TimePasses \/ UNCHANGED vars
    PROVE  OutboxInv'
<1>. USE DEF OutboxInv, BrokerChanges, TimePasses, vars, rowVars, useCaseVars, pollVars
<1>1. TypeOK'
  BY DEF TypeOK
<1>2. SentEventsDelivered' /\ RowsFollowUseCase'
  BY DEF SentEventsDelivered, RowsFollowUseCase
<1>3. RelayedDelivered' /\ SnapshotsNotAhead' /\ CommitFollowsUseCase'
  BY DEF RelayedDelivered, SnapshotsNotAhead, CommitFollowsUseCase
<1>4. DeliveredHasRow' /\ PublishedWasDelivered' /\ FailedIsExhausted'
  BY DEF DeliveredHasRow, PublishedWasDelivered, FailedIsExhausted
<1>. QED
  BY <1>1, <1>2, <1>3, <1>4

LEMMA NextInv == OutboxInv /\ [Next]_vars => OutboxInv'
<1>. SUFFICES ASSUME OutboxInv, [Next]_vars PROVE OutboxInv'
  OBVIOUS
<1>1. ASSUME NEW u \in UseCase, UseCaseStep(u) PROVE OutboxInv'
  BY <1>1, SaveWithEventsInv, SaveAggregateOnlyInv, OutboxSaveInv, OutboxSaveFailsInv,
     ImmediatePublishInv, ImmediatePublishFailsInv, ImmediateMarkInv DEF UseCaseStep
<1>2. ASSUME NEW i \in Instance, PollStep(i) PROVE OutboxInv'
  BY <1>2, RunTickInv, PollPublishInv, PollPublishFailsInv, PollRecordFailureInv,
     PollRecordFailureFailsInv, PollMarkInv DEF PollStep
<1>3. ASSUME NEW i \in Instance, ProcessStep(i) PROVE OutboxInv'
  BY <1>3, CrashInv, StopInv, ExitInv, RestartInv DEF ProcessStep
<1>. QED
  BY <1>1, <1>2, <1>3, EnvironmentInv DEF Next

-----------------------------------------------------------------------------

\* The invariant holds in every reachable state of every instance of the model.
THEOREM InvariantCorrect == Spec => []OutboxInv
BY InitInv, NextInv, PTL DEF Spec

\* For every number of use cases, instances and faults, a row marked published
\* is an event RabbitMQ has accepted.
THEOREM PublishedRowsWereDelivered == Spec => []PublishedWasDelivered
BY InvariantCorrect, PTL DEF OutboxInv

\* A row is given up only with maxRetries failed attempts on record, however
\* many pollers with however old snapshots work on it.
THEOREM FailedRowsAreExhausted == Spec => []FailedIsExhausted
BY InvariantCorrect, PTL DEF OutboxInv

\* A use case that leaves its events to the repository has its rows as soon as
\* its aggregate is committed.
THEOREM RowsCommit == Spec => []RowsCommitWithAggregate
<1>1. OutboxInv => RowsCommitWithAggregate
  BY RowsOfUseCase
     DEF OutboxInv, CommitFollowsUseCase, RowsFollowUseCase, RowsCommitWithAggregate, TypeOK, UseCaseStates
<1>. QED
  BY <1>1, InvariantCorrect, PTL

\* RabbitMQ sees events of committed aggregates only.
THEOREM NoPhantoms == Spec => []NoPhantomEvent
<1>1. OutboxInv => NoPhantomEvent
  BY RowsOfUseCase
     DEF OutboxInv, CommitFollowsUseCase, RowsFollowUseCase, DeliveredHasRow, NoPhantomEvent
<1>. QED
  BY <1>1, InvariantCorrect, PTL

-----------------------------------------------------------------------------
(* The outbox implements AtLeastOnceDelivery.                              *)

\* The phases by cases, for rows that are not lost.
LEMMA PhaseCases ==
    ASSUME NEW st \in Statuses \cup {"absent"}, NEW n \in Nat
    PROVE  /\ st = "absent" => PhaseOf(st, n) = "none"
           /\ st # "absent" /\ n > 0 => PhaseOf(st, n) = "delivered"
           /\ st = "failed" /\ n = 0 => PhaseOf(st, n) = "abandoned"
           /\ st = "pending" /\ n = 0 => PhaseOf(st, n) = "owed"
BY DEF PhaseOf, Statuses

LEMMA InitRefines == Init => Delivery!Init
BY DEF Init, Delivery!Init, DeliveryPhase, PhaseOf

\* One more acceptance by RabbitMQ delivers an owed event, or repeats one.
LEMMA DeliveryRefines ==
    ASSUME OutboxInv, NEW e \in Event, status[e] # "absent",
           delivered' = [delivered EXCEPT ![e] = @ + 1], UNCHANGED rowVars
    PROVE  Delivery!Deliver(e) \/ UNCHANGED <<DeliveryPhase, attempts>>
<1>1. /\ \A f \in Event : delivered[f] \in Nat /\ status[f] \in Statuses \cup {"absent"}
      /\ \A f \in Event : f # e => delivered'[f] = delivered[f]
      /\ delivered'[e] = delivered[e] + 1
      /\ status' = status /\ attempts' = attempts
  BY DEF OutboxInv, TypeOK, rowVars
<1>2. PhaseOf(status'[e], delivered'[e]) = "delivered"
  BY <1>1, PhaseCases
<1>3. PhaseOf(status[e], delivered[e]) \in {"owed", "abandoned", "delivered"}
  BY <1>1, PhaseCases DEF OutboxInv, PublishedWasDelivered, Statuses
<1>4. DeliveryPhase' = [DeliveryPhase EXCEPT ![e] = "delivered"]
  <2>1. \A f \in Event : f # e =>
            PhaseOf(status'[f], delivered'[f]) = PhaseOf(status[f], delivered[f])
    BY <1>1
  <2>. QED
    BY <1>2, <2>1 DEF DeliveryPhase
<1>5. CASE PhaseOf(status[e], delivered[e]) = "delivered"
  <2>1. DeliveryPhase' = DeliveryPhase
    BY <1>4, <1>5 DEF DeliveryPhase
  <2>. QED
    BY <2>1, <1>1
<1>6. CASE PhaseOf(status[e], delivered[e]) \in {"owed", "abandoned"}
  BY <1>1, <1>4, <1>6 DEF Delivery!Deliver, DeliveryPhase
<1>. QED
  BY <1>3, <1>5, <1>6

\* The insert of a batch accepts it.
LEMMA AcceptRefines ==
    ASSUME OutboxInv, NEW u \in UseCase, pc[u] \in {"idle", "saved"},
           InsertRows(RowsOf(u)), UNCHANGED delivered
    PROVE  Delivery!Accept(RowsOf(u))
<1>1. \A e \in RowsOf(u) : e \in Event /\ status[e] = "absent" /\ delivered[e] = 0 /\ attempts[e] = 0
  BY RowsOfUseCase DEF OutboxInv, RowsFollowUseCase, DeliveredHasRow
<1>2. attempts' = attempts
  BY <1>1 DEF InsertRows, OutboxInv, TypeOK
<1>3. \A e \in RowsOf(u) : DeliveryPhase[e] = "none"
  BY <1>1, PhaseCases DEF DeliveryPhase
<1>4. \A e \in Event : PhaseOf(status'[e], delivered'[e]) =
                          IF e \in RowsOf(u) THEN "owed" ELSE PhaseOf(status[e], delivered[e])
  BY <1>1, PhaseCases DEF InsertRows, Statuses
<1>5. DeliveryPhase' = [e \in Event |-> IF e \in RowsOf(u) THEN "owed" ELSE DeliveryPhase[e]]
  BY <1>4 DEF DeliveryPhase
<1>. QED
  BY <1>2, <1>3, <1>5 DEF Delivery!Accept

\* Marking rows whose events RabbitMQ has, or touching no row, is invisible.
LEMMA MarkRefines ==
    ASSUME OutboxInv, NEW rows \in SUBSET Event, MarkAsPublished(rows), UNCHANGED delivered,
           \A e \in rows : delivered[e] >= 1 /\ status[e] # "absent"
    PROVE  UNCHANGED <<DeliveryPhase, attempts>>
<1>1. \A e \in Event : delivered[e] \in Nat /\ status[e] \in Statuses \cup {"absent"}
  BY DEF OutboxInv, TypeOK
<1>2. \A e \in Event : PhaseOf(status'[e], delivered'[e]) = PhaseOf(status[e], delivered[e])
  BY <1>1, PhaseCases DEF MarkAsPublished, Statuses
<1>. QED
  BY <1>2 DEF DeliveryPhase, MarkAsPublished

LEMMA SilentRefines ==
    ASSUME UNCHANGED <<rowVars, delivered>>
    PROVE  UNCHANGED <<DeliveryPhase, attempts>>
BY DEF rowVars, DeliveryPhase

\* A recorded failure counts one attempt, and gives up only an owed event.
LEMMA FailureRefines ==
    ASSUME OutboxInv, NEW i \in Instance, PollRecordFailure(i)
    PROVE  \E e \in Event : Delivery!FailAttempt(e)
<1>1. PICK r \in failing[i] :
        IF GivesUp(r) THEN MarkAsFailed(r.id) ELSE IncrementAttempts(r.id)
  BY DEF PollRecordFailure
<1>2. /\ r.id \in Event /\ status[r.id] # "absent"
      /\ r.attempts \in Nat /\ r.attempts <= attempts[r.id]
      /\ \A e \in Event : /\ delivered[e] \in Nat /\ attempts[e] \in Nat
                           /\ status[e] \in Statuses \cup {"absent"}
      /\ MaxRetries \in Nat /\ delivered' = delivered
  BY SnapshotHasRow, ParametersAssumption DEF OutboxInv, TypeOK, PollRecordFailure
<1>3. /\ attempts' = [attempts EXCEPT ![r.id] = @ + 1]
      /\ \/ status' = status
         \/ status' = [status EXCEPT ![r.id] = "failed"] /\ r.attempts + 1 >= MaxRetries
  BY <1>1 DEF MarkAsFailed, IncrementAttempts, GivesUp
<1>4. DeliveryPhase[r.id] # "none"
  BY <1>2, PhaseCases DEF DeliveryPhase, OutboxInv, PublishedWasDelivered, Statuses
<1>5. CASE status' = status
  BY <1>2, <1>3, <1>4, <1>5 DEF Delivery!FailAttempt, DeliveryPhase
<1>6. CASE status' = [status EXCEPT ![r.id] = "failed"] /\ r.attempts + 1 >= MaxRetries
  <2>1. attempts'[r.id] >= MaxRetries
    BY <1>2, <1>3, <1>6 DEF OutboxInv, TypeOK
  <2>2. \A e \in Event : e # r.id => status'[e] = status[e]
    BY <1>6
  <2>3. status'[r.id] = "failed"
    BY <1>2, <1>6 DEF OutboxInv, TypeOK
  <2>4. CASE delivered[r.id] > 0 \/ status[r.id] = "failed"
    <3>1. PhaseOf(status'[r.id], delivered'[r.id]) = PhaseOf(status[r.id], delivered[r.id])
      BY <1>2, <2>3, <2>4, PhaseCases DEF Statuses
    <3>2. DeliveryPhase' = DeliveryPhase
      BY <1>2, <2>2, <3>1 DEF DeliveryPhase
    <3>. QED
      BY <1>2, <1>3, <1>4, <3>2 DEF Delivery!FailAttempt
  <2>5. CASE delivered[r.id] = 0 /\ status[r.id] = "pending"
    <3>1. /\ PhaseOf(status'[r.id], delivered'[r.id]) = "abandoned"
          /\ PhaseOf(status[r.id], delivered[r.id]) = "owed"
      BY <1>2, <2>3, <2>5, PhaseCases DEF Statuses
    <3>2. DeliveryPhase' = [DeliveryPhase EXCEPT ![r.id] = "abandoned"]
      BY <1>2, <2>2, <3>1 DEF DeliveryPhase
    <3>. QED
      BY <1>2, <1>3, <1>4, <2>1, <3>1, <3>2 DEF Delivery!FailAttempt, DeliveryPhase
  <2>. QED
    BY <1>2, <2>4, <2>5 DEF OutboxInv, PublishedWasDelivered, Statuses
<1>. QED
  BY <1>3, <1>5, <1>6

LEMMA UseCaseStepRefines ==
    ASSUME OutboxInv, NEW u \in UseCase, UseCaseStep(u)
    PROVE  [Delivery!Next]_<<DeliveryPhase, attempts>>
<1>1. CASE SaveWithEvents(u) \/ OutboxSave(u)
  BY <1>1, AcceptRefines DEF SaveWithEvents, OutboxSave, Delivery!Next
<1>2. CASE SaveAggregateOnly(u) \/ OutboxSaveFails(u)
  BY <1>2, SilentRefines DEF SaveAggregateOnly, OutboxSaveFails
<1>3. CASE ImmediatePublish(u) \/ ImmediatePublishFails(u)
  <2>1. NextEvent(u) \in Event /\ status[NextEvent(u)] # "absent"
    BY <1>3, NextEventHasRow DEF ImmediatePublish, ImmediatePublishFails
  <2>2. CASE delivered' = [delivered EXCEPT ![NextEvent(u)] = @ + 1]
    BY <1>3, <2>1, <2>2, DeliveryRefines
       DEF ImmediatePublish, ImmediatePublishFails, Delivery!Next
  <2>3. CASE UNCHANGED delivered
    BY <1>3, <2>3, SilentRefines DEF ImmediatePublish, ImmediatePublishFails
  <2>. QED
    BY <1>3, <2>2, <2>3 DEF ImmediatePublish, ImmediatePublishFails
<1>4. CASE ImmediateMark(u)
  <2>1. \A e \in RowsOf(u) : e \in Event /\ delivered[e] >= 1 /\ status[e] # "absent"
    BY <1>4, SentRowsDelivered DEF ImmediateMark
  <2>. QED
    BY <1>4, <2>1, MarkRefines, SilentRefines DEF ImmediateMark
<1>. QED
  BY <1>1, <1>2, <1>3, <1>4 DEF UseCaseStep

LEMMA PollStepRefines ==
    ASSUME OutboxInv, NEW i \in Instance, PollStep(i)
    PROVE  [Delivery!Next]_<<DeliveryPhase, attempts>>
<1>1. CASE RunTick(i) \/ PollRecordFailureFails(i)
  BY <1>1, SilentRefines DEF RunTick, PollRecordFailureFails
<1>2. CASE PollPublish(i) \/ PollPublishFails(i)
  <2>1. PICK r \in batch[i] : delivered' = [delivered EXCEPT ![r.id] = @ + 1]
                              \/ delivered' = delivered
    BY <1>2 DEF PollPublish, PollPublishFails
  <2>2. r.id \in Event /\ status[r.id] # "absent" /\ UNCHANGED rowVars
    BY <1>2, SnapshotHasRow DEF PollPublish, PollPublishFails
  <2>. QED
    BY <2>1, <2>2, DeliveryRefines, SilentRefines DEF Delivery!Next
<1>3. CASE PollRecordFailure(i)
  BY <1>3, FailureRefines DEF Delivery!Next
<1>4. CASE PollMark(i)
  <2>1. \A e \in relayed[i] : e \in Event /\ delivered[e] >= 1 /\ status[e] # "absent"
    BY DEF OutboxInv, RelayedDelivered, DeliveredHasRow, TypeOK
  <2>. QED
    BY <1>4, <2>1, MarkRefines, SilentRefines DEF PollMark
<1>. QED
  BY <1>1, <1>2, <1>3, <1>4 DEF PollStep

LEMMA StepRefines == OutboxInv /\ [Next]_vars => [Delivery!Next]_<<DeliveryPhase, attempts>>
<1>. SUFFICES ASSUME OutboxInv, [Next]_vars
              PROVE  [Delivery!Next]_<<DeliveryPhase, attempts>>
  OBVIOUS
<1>1. ASSUME NEW i \in Instance, ProcessStep(i)
      PROVE  [Delivery!Next]_<<DeliveryPhase, attempts>>
  BY <1>1, SilentRefines DEF ProcessStep, Crash, Stop, Exit, Restart, Die
<1>2. CASE BrokerChanges \/ TimePasses \/ UNCHANGED vars
  BY <1>2, SilentRefines DEF BrokerChanges, TimePasses, vars
<1>. QED
  BY <1>1, <1>2, UseCaseStepRefines, PollStepRefines DEF Next

\* Every behaviour of the outbox is a behaviour of AtLeastOnceDelivery: batches
\* are accepted whole, nothing unaccepted is delivered, nothing is given up
\* before maxRetries failed attempts.
THEOREM OutboxImplementsDelivery == Spec => DeliversAtLeastOnceOrGivesUp
BY InitRefines, StepRefines, InvariantCorrect, PTL
   DEF Spec, DeliversAtLeastOnceOrGivesUp, Delivery!Spec
-----------------------------------------------------------------------------
(* How often a row can be retried.                                         *)

\* The sets of instances that the budget counts are finite, and no larger
\* than the set of all.
LEMMA HoldersAreFew ==
    ASSUME NEW S \in SUBSET Instance
    PROVE  IsFiniteSet(S) /\ Cardinality(S) \in Nat /\ Cardinality(S) <= Cardinality(Instance)
BY ParametersAssumption, FS_Subset, FS_CardinalityType

LEMMA FewerHolders ==
    ASSUME NEW S \in SUBSET Instance, NEW T \in SUBSET S
    PROVE  Cardinality(T) <= Cardinality(S)
BY HoldersAreFew, FS_Subset

\* One holder less, and there is room for an attempt.
LEMMA OneHolderLess ==
    ASSUME NEW S \in SUBSET Instance, NEW i \in S, NEW T \in SUBSET (S \ {i})
    PROVE  Cardinality(T) + 1 <= Cardinality(S)
<1>1. IsFiniteSet(S \ {i}) /\ Cardinality(S \ {i}) = Cardinality(S) - 1
  BY HoldersAreFew, FS_RemoveElement
<1>2. Cardinality(T) <= Cardinality(S \ {i})
  BY <1>1, FS_Subset
<1>3. Cardinality(T) \in Nat /\ Cardinality(S) \in Nat /\ T \in SUBSET Instance
  BY HoldersAreFew
<1>. QED
  BY <1>1, <1>2, <1>3

\* The parameters of the budget, and that somebody runs.
LEMMA Parameters ==
    /\ MaxRetries \in Nat /\ MaxRetries >= 1
    /\ Cardinality(Instance) \in Nat /\ Cardinality(Instance) >= 1
<1>1. Cardinality(Instance) \in Nat /\ Cardinality(Instance) # 0
  BY ParametersAssumption, FS_CardinalityType, FS_EmptySet
<1>. QED
  BY <1>1, ParametersAssumption

\* A row on which nobody records anything keeps its budget while its holders
\* let go of it, also when it is marked published.
LEMMA LettingGo ==
    ASSUME OutboxInv, NEW e \in Event, BudgetOf(e),
           attempts'[e] = attempts[e],
           status'[e] = status[e] \/ (status[e] # "absent" /\ status'[e] = "published"),
           Holders(e)' \subseteq Holders(e), Behind(e)' \subseteq Behind(e)
    PROVE  BudgetOf(e)'
<1>. DEFINE H == Holders(e)   H1 == Holders(e)'
            B == Behind(e)    B1 == Behind(e)'
            N == Cardinality(Instance)
            CH == Cardinality(H)   CH1 == Cardinality(H1)
            CB == Cardinality(B)   CB1 == Cardinality(B1)
<1>1. attempts[e] \in Nat /\ status[e] \in Statuses \cup {"absent"}
  BY DEF OutboxInv, TypeOK
<1>2. H \in SUBSET Instance /\ B \in SUBSET Instance /\ H1 \in SUBSET H /\ B1 \in SUBSET B
  BY DEF Holders, Behind
<1>3. CH1 <= CH /\ CB1 <= CB
  BY <1>2, FewerHolders
<1>4. /\ CH \in Nat /\ CH1 \in Nat /\ CB \in Nat /\ CB1 \in Nat
      /\ CH1 <= N
  BY <1>2, HoldersAreFew
<1>5. /\ status[e] = "pending" => attempts[e] + CB <= MaxRetries + N - 2
      /\ status[e] \in {"published", "failed"} => attempts[e] + CH <= MaxRetries + 2 * (N - 1)
  BY DEF BudgetOf
<1>6. /\ status'[e] = "pending" => attempts'[e] + CB1 <= MaxRetries + N - 2
      /\ status'[e] \in {"published", "failed"} => attempts'[e] + CH1 <= MaxRetries + 2 * (N - 1)
  <2>. HIDE DEF H, H1, B, B1, CH, CH1, CB, CB1, N
  <2>0. N \in Nat
    BY Parameters DEF N
  <2>1. CASE status'[e] = status[e]
    BY <2>0, <2>1, <1>1, <1>3, <1>4, <1>5, Parameters
  <2>2. CASE status[e] = "pending" /\ status'[e] = "published"
    BY <2>0, <2>2, <1>1, <1>3, <1>4, <1>5, Parameters
  <2>3. CASE status[e] \in {"published", "failed"} /\ status'[e] = "published"
    BY <2>0, <2>3, <1>1, <1>3, <1>4, <1>5, Parameters
  <2>. QED
    BY <2>1, <2>2, <2>3, <1>1 DEF Statuses
<1>. QED
  BY <1>6 DEF BudgetOf

\* Nobody takes a row up: the ticks only get rid of what they hold.
LEMMA LessIsHeld ==
    ASSUME OutboxInv, BudgetInv,
           \A i \in Instance :
               /\ Held(i)' \subseteq Held(i)
               /\ batch[i]' \cap failing[i]' = {}
               /\ ~polling[i]' => ~polling[i] \/ Held(i)' = {},
           \A e \in Event : attempts'[e] = attempts[e],
           \A e \in Event : status'[e] = status[e] \/ (status[e] # "absent" /\ status'[e] = "published")
    PROVE  BudgetInv'
<1>1. HeldOnce'
  BY DEF BudgetInv, HeldOnce
<1>2. ASSUME NEW e \in Event PROVE BudgetOf(e)'
  <2>1. Holders(e)' \subseteq Holders(e) /\ Behind(e)' \subseteq Behind(e)
    BY DEF Holders, Behind, GivesUp
  <2>. QED
    BY <2>1, LettingGo DEF BudgetInv
<1>. QED
  BY <1>1, <1>2 DEF BudgetInv

\* New rows: nobody has them in a snapshot.
LEMMA InsertBudget ==
    ASSUME OutboxInv, BudgetInv, NEW u \in UseCase, pc[u] \in {"idle", "saved"},
           InsertRows(RowsOf(u)), UNCHANGED pollVars
    PROVE  BudgetInv'
<1>1. \A e \in Event : Holders(e)' = Holders(e) /\ Behind(e)' = Behind(e)
  BY DEF Holders, Behind, Held, GivesUp, pollVars
<1>2. HeldOnce'
  BY DEF BudgetInv, HeldOnce, Held, pollVars
<1>3. ASSUME NEW e \in Event, e \in RowsOf(u) PROVE BudgetOf(e)'
  <2>1. status[e] = "absent"
    BY <1>3 DEF OutboxInv, RowsFollowUseCase
  <2>2. Behind(e) = {}
    BY <2>1 DEF Behind, Held, OutboxInv, SnapshotsNotAhead
  <2>3. status'[e] = "pending" /\ attempts'[e] = 0
    BY <1>3 DEF InsertRows
  <2>4. Cardinality(Behind(e)') = 0
    BY <1>1, <2>2, FS_EmptySet
  <2>. QED
    BY <2>3, <2>4, Parameters DEF BudgetOf
<1>4. ASSUME NEW e \in Event, e \notin RowsOf(u) PROVE BudgetOf(e)'
  <2>1. status'[e] = status[e] /\ attempts'[e] = attempts[e]
    BY <1>4 DEF InsertRows
  <2>. QED
    BY <1>1, <2>1, LettingGo DEF BudgetInv
<1>. QED
  BY <1>2, <1>3, <1>4 DEF BudgetInv

LEMMA UseCaseStepBudget ==
    ASSUME OutboxInv, BudgetInv, NEW u \in UseCase, UseCaseStep(u)
    PROVE  BudgetInv'
<1>1. CASE SaveWithEvents(u) \/ OutboxSave(u)
  BY <1>1, InsertBudget DEF SaveWithEvents, OutboxSave
<1>2. UNCHANGED pollVars =>
         \A i \in Instance :
            /\ Held(i)' \subseteq Held(i)
            /\ batch[i]' \cap failing[i]' = {}
            /\ ~polling[i]' => ~polling[i] \/ Held(i)' = {}
  BY DEF pollVars, Held, BudgetInv, HeldOnce
<1>3. CASE ImmediateMark(u)
  <2>1. MarkAsPublished(RowsOf(u)) \/ UNCHANGED rowVars
    BY <1>3 DEF ImmediateMark
  <2>2. \A e \in RowsOf(u) : status[e] # "absent"
    BY <1>3, SentRowsDelivered DEF ImmediateMark
  <2>3. \A e \in Event : /\ attempts'[e] = attempts[e]
                         /\ status'[e] = status[e] \/ (status[e] # "absent" /\ status'[e] = "published")
    BY <2>1, <2>2 DEF MarkAsPublished, rowVars
  <2>. QED
    BY <1>2, <1>3, <2>3, LessIsHeld DEF ImmediateMark
<1>4. ASSUME UNCHANGED rowVars, UNCHANGED pollVars PROVE BudgetInv'
  BY <1>2, <1>4, LessIsHeld DEF rowVars
<1>5. CASE SaveAggregateOnly(u) \/ OutboxSaveFails(u) \/ ImmediatePublish(u) \/ ImmediatePublishFails(u)
  BY <1>4, <1>5 DEF SaveAggregateOnly, OutboxSaveFails, ImmediatePublish, ImmediatePublishFails
<1>. QED
  BY <1>1, <1>3, <1>5 DEF UseCaseStep

\* A new snapshot is of pending rows; it is behind only while a row has
\* attempts left, however many others are.
LEMMA RunTickBudget ==
    ASSUME OutboxInv, BudgetInv, NEW i \in Instance, RunTick(i)
    PROVE  BudgetInv'
<1>1. PICK rows \in SUBSET Due :
         batch' = [batch EXCEPT ![i] = {[id |-> e, attempts |-> attempts[e]] : e \in rows}]
  BY DEF RunTick
<1>2. /\ ~polling[i] /\ polling' = [polling EXCEPT ![i] = TRUE]
      /\ failing' = failing /\ status' = status /\ attempts' = attempts
  BY DEF RunTick, rowVars
<1>3. batch \in [Instance -> SUBSET Snapshot] /\ polling \in [Instance -> BOOLEAN]
  BY DEF OutboxInv, TypeOK
<1>4. /\ batch[i] = {} /\ failing[i] = {}
      /\ Held(i)' = {[id |-> e, attempts |-> attempts[e]] : e \in rows}
  BY <1>1, <1>2, <1>3 DEF Held, BudgetInv, HeldOnce
<1>5. \A j \in Instance \ {i} : Held(j)' = Held(j) /\ batch'[j] = batch[j] /\ polling'[j] = polling[j]
  BY <1>1, <1>2, <1>3 DEF Held
<1>6. HeldOnce'
  <2>1. ASSUME NEW r \in Held(i)', NEW s \in Held(i)', r.id = s.id PROVE r = s
    BY <1>4, <2>1
  <2>2. polling'[i] /\ batch'[i] \cap failing'[i] = {}
    BY <1>2, <1>3, <1>4
  <2>. QED
    BY <1>2, <1>5, <2>1, <2>2 DEF BudgetInv, HeldOnce
<1>7. ASSUME NEW e \in Event, status[e] # "pending" PROVE BudgetOf(e)'
  <2>1. e \notin rows
    BY <1>7 DEF Due
  <2>2. \A r \in Held(i)' : r.id # e
    BY <1>4, <2>1
  <2>3. Holders(e)' \subseteq Holders(e) /\ Behind(e)' \subseteq Behind(e)
    BY <1>5, <2>2 DEF Holders, Behind, GivesUp
  <2>. QED
    BY <1>2, <2>3, LettingGo DEF BudgetInv
<1>8. ASSUME NEW e \in Event, status[e] = "pending" PROVE BudgetOf(e)'
  <2>1. attempts[e] \in Nat
    BY DEF OutboxInv, TypeOK
  <2>2. Behind(e)' \in SUBSET Instance /\ Behind(e) \in SUBSET Instance
    BY DEF Behind
  <2>3. CASE attempts[e] + 1 >= MaxRetries
    <3>1. \A r \in Held(i)' : r.id = e => GivesUp(r)
      BY <1>4, <2>3 DEF GivesUp
    <3>2. Behind(e)' \in SUBSET Behind(e)
      BY <1>5, <3>1 DEF Behind, GivesUp
    <3>3. Cardinality(Behind(e)') <= Cardinality(Behind(e))
      BY <2>2, <3>2, FewerHolders
    <3>4. attempts[e] + Cardinality(Behind(e)) <= MaxRetries + Cardinality(Instance) - 2
      BY <1>8 DEF BudgetInv, BudgetOf
    <3>5. attempts'[e] + Cardinality(Behind(e)') <= MaxRetries + Cardinality(Instance) - 2
      BY <1>2, <2>1, <2>2, <3>3, <3>4, HoldersAreFew, Parameters
    <3>. QED
      BY <1>2, <1>8, <3>5 DEF BudgetOf
  <2>4. CASE ~(attempts[e] + 1 >= MaxRetries)
    <3>1. Cardinality(Behind(e)') \in Nat /\ Cardinality(Behind(e)') <= Cardinality(Instance)
      BY <2>2, HoldersAreFew
    <3>2. attempts'[e] + Cardinality(Behind(e)') <= MaxRetries + Cardinality(Instance) - 2
      BY <1>2, <2>1, <2>4, <3>1, Parameters
    <3>. QED
      BY <1>2, <1>8, <3>2 DEF BudgetOf
  <2>. QED
    BY <2>3, <2>4
<1>. QED
  BY <1>6, <1>7, <1>8 DEF BudgetInv

\* A failure is counted by a holder that lets go of the row: one of those
\* behind while it stays pending, the last one when it is given up.
LEMMA PollRecordFailureBudget ==
    ASSUME OutboxInv, BudgetInv, NEW i \in Instance, PollRecordFailure(i)
    PROVE  BudgetInv'
<1>1. PICK r \in failing[i] :
         IF GivesUp(r) THEN MarkAsFailed(r.id) ELSE IncrementAttempts(r.id)
  BY DEF PollRecordFailure
<1>2. /\ failing' = [failing EXCEPT ![i] = {}]
      /\ batch' = batch /\ polling' = polling
  BY DEF PollRecordFailure
<1>3. failing \in [Instance -> SUBSET Snapshot] /\ batch \in [Instance -> SUBSET Snapshot]
  BY DEF OutboxInv, TypeOK
<1>4. /\ r \in Held(i) /\ r.id \in Event /\ status[r.id] # "absent"
      /\ r.attempts \in Nat
  BY <1>1, SnapshotHasRow DEF Held
<1>5. \A s \in Held(i)' : s \in Held(i) /\ s # r
  BY <1>1, <1>2, <1>3 DEF Held, BudgetInv, HeldOnce
<1>6. \A s \in Held(i)' : s.id # r.id
  BY <1>4, <1>5 DEF BudgetInv, HeldOnce
<1>7. \A j \in Instance \ {i} : Held(j)' = Held(j) /\ batch'[j] = batch[j] /\ failing'[j] = failing[j]
  BY <1>2, <1>3 DEF Held
<1>8. HeldOnce'
  <2>1. batch'[i] \cap failing'[i] = {}
    BY <1>2, <1>3
  <2>2. ~polling'[i] => Held(i)' = {}
    BY <1>2, <1>5 DEF BudgetInv, HeldOnce
  <2>. QED
    BY <1>2, <1>5, <1>7, <2>1, <2>2 DEF BudgetInv, HeldOnce
<1>9. ASSUME NEW e \in Event
      PROVE  Holders(e)' \subseteq Holders(e) /\ Behind(e)' \subseteq Behind(e)
  BY <1>5, <1>7 DEF Holders, Behind, GivesUp
<1>10. ASSUME NEW e \in Event, e # r.id PROVE BudgetOf(e)'
  <2>1. status'[e] = status[e] /\ attempts'[e] = attempts[e]
    BY <1>1, <1>10, <1>3, <1>4 DEF MarkAsFailed, IncrementAttempts, OutboxInv, TypeOK
  <2>. QED
    BY <1>9, <2>1, LettingGo DEF BudgetInv
<1>11. BudgetOf(r.id)'
  <2>1. PICK e \in Event : e = r.id
    BY <1>4
  <2>2. /\ attempts[e] \in Nat /\ attempts'[e] = attempts[e] + 1
        /\ status[e] \in Statuses
        /\ IF GivesUp(r) THEN status'[e] = "failed" ELSE status'[e] = status[e]
    BY <1>1, <1>4, <2>1 DEF MarkAsFailed, IncrementAttempts, OutboxInv, TypeOK
  <2>3. /\ Holders(e) \in SUBSET Instance /\ Behind(e) \in SUBSET Instance
        /\ Holders(e)' \in SUBSET Instance /\ Behind(e)' \in SUBSET Instance
    BY DEF Holders, Behind
  <2>4. i \in Holders(e) /\ i \notin Holders(e)' /\ i \notin Behind(e)'
    BY <1>4, <1>6, <2>1 DEF Holders, Behind
  <2>5. Cardinality(Holders(e)') + 1 <= Cardinality(Holders(e))
    BY <1>9, <2>3, <2>4, OneHolderLess
  <2>6. /\ Cardinality(Holders(e)) \in Nat /\ Cardinality(Holders(e)') \in Nat
        /\ Cardinality(Behind(e)) \in Nat /\ Cardinality(Behind(e)') \in Nat
        /\ Cardinality(Holders(e)) <= Cardinality(Instance)
    BY <2>3, HoldersAreFew
  <2>7. CASE status[e] \in {"published", "failed"}
    <3>1. attempts[e] + Cardinality(Holders(e)) <= MaxRetries + 2 * (Cardinality(Instance) - 1)
      BY <2>7 DEF BudgetInv, BudgetOf
    <3>2. attempts'[e] + Cardinality(Holders(e)') <= MaxRetries + 2 * (Cardinality(Instance) - 1)
      BY <2>2, <2>5, <2>6, <3>1, Parameters
    <3>3. status'[e] # "pending"
      BY <2>2, <2>7
    <3>. QED
      BY <2>1, <3>2, <3>3 DEF BudgetOf
  <2>8. CASE status[e] = "pending" /\ ~GivesUp(r)
    <3>1. i \in Behind(e)
      BY <1>4, <2>1, <2>8 DEF Behind
    <3>2. Cardinality(Behind(e)') + 1 <= Cardinality(Behind(e))
      BY <1>9, <2>3, <2>4, <3>1, OneHolderLess
    <3>3. attempts[e] + Cardinality(Behind(e)) <= MaxRetries + Cardinality(Instance) - 2
      BY <2>8 DEF BudgetInv, BudgetOf
    <3>4. attempts'[e] + Cardinality(Behind(e)') <= MaxRetries + Cardinality(Instance) - 2
      BY <2>2, <2>6, <3>2, <3>3, Parameters
    <3>5. status'[e] = "pending"
      BY <2>2, <2>8
    <3>. QED
      BY <2>1, <3>4, <3>5 DEF BudgetOf
  <2>9. CASE status[e] = "pending" /\ GivesUp(r)
    <3>1. attempts[e] + Cardinality(Behind(e)) <= MaxRetries + Cardinality(Instance) - 2
      BY <2>9 DEF BudgetInv, BudgetOf
    <3>2. attempts'[e] + Cardinality(Holders(e)') <= MaxRetries + 2 * (Cardinality(Instance) - 1)
      BY <2>2, <2>5, <2>6, <3>1, Parameters
    <3>3. status'[e] = "failed"
      BY <2>2, <2>9
    <3>. QED
      BY <2>1, <3>2, <3>3 DEF BudgetOf
  <2>. QED
    BY <2>2, <2>7, <2>8, <2>9 DEF Statuses
<1>. QED
  BY <1>8, <1>10, <1>11 DEF BudgetInv

\* A tick goes on, or ends; or its process does.
LEMMA TickBudget ==
    ASSUME OutboxInv, BudgetInv, NEW i \in Instance,
           \/ PollPublish(i) \/ PollPublishFails(i) \/ PollRecordFailureFails(i) \/ PollMark(i)
           \/ ProcessStep(i)
    PROVE  BudgetInv'
<1>1. /\ batch \in [Instance -> SUBSET Snapshot] /\ failing \in [Instance -> SUBSET Snapshot]
      /\ polling \in [Instance -> BOOLEAN] /\ relayed \in [Instance -> SUBSET Event]
  BY DEF OutboxInv, TypeOK
<1>2. \A j \in Instance : batch[j] \cap failing[j] = {}
  BY DEF BudgetInv, HeldOnce
<1>3. EndTick(i) =>
         \A j \in Instance :
            /\ Held(j)' \subseteq Held(j)
            /\ batch[j]' \cap failing[j]' = {}
            /\ ~polling[j]' => ~polling[j] \/ Held(j)' = {}
  BY <1>1, <1>2 DEF EndTick, Held
<1>4. ASSUME EndTick(i), UNCHANGED rowVars PROVE BudgetInv'
  BY <1>3, <1>4, LessIsHeld DEF rowVars
<1>5. CASE PollRecordFailureFails(i)
  BY <1>4, <1>5 DEF PollRecordFailureFails
<1>6. CASE Crash(i) \/ Exit(i)
  BY <1>4, <1>6 DEF Crash, Exit, Die
<1>7. CASE Stop(i) \/ Restart(i)
  <2>1. UNCHANGED rowVars /\ UNCHANGED pollVars
    BY <1>7 DEF Stop, Restart
  <2>2. \A j \in Instance :
            /\ Held(j)' \subseteq Held(j)
            /\ batch[j]' \cap failing[j]' = {}
            /\ ~polling[j]' => ~polling[j] \/ Held(j)' = {}
    BY <1>2, <2>1 DEF Held, pollVars
  <2>. QED
    BY <2>1, <2>2, LessIsHeld DEF rowVars
<1>8. CASE PollMark(i)
  <2>1. MarkAsPublished(relayed[i]) \/ UNCHANGED rowVars
    BY <1>8 DEF PollMark
  <2>2. \A e \in relayed[i] : e \in Event /\ status[e] # "absent"
    BY <1>1 DEF OutboxInv, TypeOK, RelayedDelivered, DeliveredHasRow
  <2>3. \A e \in Event : /\ attempts'[e] = attempts[e]
                         /\ status'[e] = status[e] \/ (status[e] # "absent" /\ status'[e] = "published")
    BY <2>1, <2>2 DEF MarkAsPublished, rowVars
  <2>. QED
    BY <1>3, <1>8, <2>3, LessIsHeld DEF PollMark
<1>9. CASE PollPublish(i) \/ PollPublishFails(i)
  <2>1. PICK r \in batch[i] :
           /\ failing[i] = {}
           /\ batch' = [batch EXCEPT ![i] = @ \ {r}]
           /\ failing' = failing \/ failing' = [failing EXCEPT ![i] = {r}]
    BY <1>1, <1>9 DEF PollPublish, PollPublishFails, IsNext
  <2>2. UNCHANGED rowVars /\ polling' = polling
    BY <1>9 DEF PollPublish, PollPublishFails
  <2>3. batch'[i] = batch[i] \ {r} /\ failing'[i] \subseteq {r}
    BY <1>1, <2>1
  <2>4. \A j \in Instance \ {i} : batch'[j] = batch[j] /\ failing'[j] = failing[j]
    BY <1>1, <2>1
  <2>5. \A j \in Instance :
            /\ Held(j)' \subseteq Held(j)
            /\ batch[j]' \cap failing[j]' = {}
            /\ ~polling[j]' => ~polling[j] \/ Held(j)' = {}
    BY <1>2, <2>1, <2>2, <2>3, <2>4 DEF Held
  <2>. QED
    BY <2>2, <2>5, LessIsHeld DEF rowVars
<1>. QED
  BY <1>5, <1>6, <1>7, <1>8, <1>9 DEF ProcessStep

LEMMA EnvironmentBudget ==
    ASSUME OutboxInv, BudgetInv, BrokerChanges \/ TimePasses \/ UNCHANGED vars
    PROVE  BudgetInv'
<1>1. UNCHANGED rowVars /\ UNCHANGED pollVars
  BY DEF BrokerChanges, TimePasses, vars, rowVars, pollVars
<1>2. \A j \in Instance :
          /\ Held(j)' \subseteq Held(j)
          /\ batch[j]' \cap failing[j]' = {}
          /\ ~polling[j]' => ~polling[j] \/ Held(j)' = {}
  BY <1>1 DEF Held, pollVars, BudgetInv, HeldOnce
<1>. QED
  BY <1>1, <1>2, LessIsHeld DEF rowVars

LEMMA InitBudget == Init => BudgetInv
<1>. SUFFICES ASSUME Init PROVE BudgetInv
  OBVIOUS
<1>1. HeldOnce
  BY DEF Init, HeldOnce, Held
<1>2. \A e \in Event : status[e] = "absent"
  BY DEF Init
<1>. QED
  BY <1>1, <1>2 DEF BudgetInv, BudgetOf

LEMMA BudgetWithin == OutboxInv /\ BudgetInv => RetryBudget
<1>. SUFFICES ASSUME OutboxInv, BudgetInv, NEW e \in Event
              PROVE  attempts[e] <= MaxRetries + 2 * (Cardinality(Instance) - 1)
  BY DEF RetryBudget
<1>1. attempts[e] \in Nat /\ status[e] \in Statuses \cup {"absent"}
  BY DEF OutboxInv, TypeOK
<1>2. Cardinality(Holders(e)) \in Nat /\ Cardinality(Behind(e)) \in Nat
  BY HoldersAreFew DEF Holders, Behind
<1>3. CASE status[e] = "absent"
  BY <1>3, Parameters DEF OutboxInv, DeliveredHasRow
<1>4. CASE status[e] = "pending"
  BY <1>1, <1>2, <1>4, Parameters DEF BudgetInv, BudgetOf
<1>5. CASE status[e] \in {"published", "failed"}
  BY <1>1, <1>2, <1>5, Parameters DEF BudgetInv, BudgetOf
<1>. QED
  BY <1>1, <1>3, <1>4, <1>5 DEF Statuses

\* However many instances poll the same rows, and however old their snapshots
\* are, a row is tried at most twice more for each further instance.
THEOREM RetriesAreBounded == Spec => []RetryBudget
<1>1. ASSUME OutboxInv, BudgetInv, [Next]_vars PROVE BudgetInv'
  <2>1. ASSUME NEW u \in UseCase, UseCaseStep(u) PROVE BudgetInv'
    BY <1>1, <2>1, UseCaseStepBudget
  <2>2. ASSUME NEW i \in Instance, PollStep(i) \/ ProcessStep(i) PROVE BudgetInv'
    BY <1>1, <2>2, RunTickBudget, PollRecordFailureBudget, TickBudget DEF PollStep
  <2>. QED
    BY <1>1, <2>1, <2>2, EnvironmentBudget DEF Next
<1>. QED
  BY <1>1, InitBudget, BudgetWithin, InvariantCorrect, PTL DEF Spec
=============================================================================
