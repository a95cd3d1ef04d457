------------------------------- MODULE Outbox -------------------------------
(***************************************************************************)
(* The transactional outbox between the use cases and RabbitMQ: the rows   *)
(* of the Outbox table (OutboxPrismaRepository), the deferred publish that *)
(* follows every use case (OutboxEventBus), and the poller that retries    *)
(* what is still pending (OutboxPublisher), in one or several instances of *)
(* the application that can crash, stop and restart.                       *)
(*                                                                         *)
(* Every step between two awaits of the code is one action.  Two counters  *)
(* are artificial: "clock" advances only while a pending row is younger    *)
(* than the grace period, so it never exceeds Grace times the number of    *)
(* inserts, and "faults" caps crashes, stops, failing statements and lost  *)
(* confirms together at MaxFaults.                                         *)
(***************************************************************************)
EXTENDS Integers, Sequences, FiniteSets

CONSTANTS
    UseCase,      \* executions of use cases that record domain events
    Event,        \* domain events, each with one row of the Outbox table
    EventsOf,     \* UseCase -> the sequence of events it records
    DrainsFirst,  \* use cases that pull the events before repository.save
    Instance,     \* running copies of the application
    MaxRetries,   \* OutboxPublisher.maxRetries
    BatchSize,    \* OutboxPublisher.batchSize
    Grace,        \* OutboxPrismaRepository.pendingGraceMs, in clock ticks
    MaxFaults     \* bound on crashes, stops, database errors, lost confirms

RowsOf(u) == {EventsOf[u][k] : k \in 1..Len(EventsOf[u])}

ASSUME EventsOfAssumption ==
    /\ EventsOf \in [UseCase -> Seq(Event)]
    /\ \A u \in UseCase : EventsOf[u] # << >>
    /\ \A u, v \in UseCase : u # v => RowsOf(u) \cap RowsOf(v) = {}

ASSUME ParametersAssumption ==
    /\ DrainsFirst \subseteq UseCase
    /\ IsFiniteSet(Instance) /\ Instance # {}
    /\ MaxRetries \in Nat \ {0}
    /\ BatchSize \in Nat \ {0}
    /\ Grace \in Nat
    /\ MaxFaults \in Nat

VARIABLES
    status,     \* Outbox.status of each row, "absent" before the insert
    attempts,   \* Outbox.attempts
    createdAt,  \* Outbox.createdAt
    committed,  \* use cases whose aggregate is committed
    pc,         \* where each use case and its deferred publish stand
    host,       \* the instance that runs each use case
    sent,       \* events the deferred publish has handed over so far
    process,    \* the life of each instance
    polling,    \* OutboxPublisher.isProcessing
    batch,      \* rows of the poller's snapshot still to publish
    failing,    \* the row whose failed publish is about to be recorded
    relayed,    \* the poller's local array "published"
    broker,     \* whether RabbitMQ accepts messages
    delivered,  \* how often RabbitMQ has accepted each event
    clock,
    faults

rowVars == <<status, attempts, createdAt>>
useCaseVars == <<committed, pc, host, sent>>
pollVars == <<polling, batch, failing, relayed>>
vars == <<rowVars, useCaseVars, process, pollVars, broker, delivered, clock, faults>>

Statuses == {"pending", "published", "failed"}

\* idle:   not started        saved: aggregate committed, rows not written yet
\* queued: rows written, the setImmediate callback is publishing
\* sent:   everything published, markAsPublished is next
\* done:   nothing more will happen    gone: died with its rows unwritten
UseCaseStates == {"idle", "saved", "queued", "sent", "done", "gone"}

\* An OutboxEvent as the poller reads it: the row and its attempts so far.
Snapshot == [id : Event, attempts : Nat]

TypeOK ==
    /\ status \in [Event -> Statuses \cup {"absent"}]
    /\ attempts \in [Event -> Nat]
    /\ createdAt \in [Event -> Nat]
    /\ committed \in SUBSET UseCase
    /\ pc \in [UseCase -> UseCaseStates]
    /\ host \in [UseCase -> Instance]
    /\ sent \in [UseCase -> Nat]
    /\ process \in [Instance -> {"running", "stopping", "down"}]
    /\ polling \in [Instance -> BOOLEAN]
    /\ batch \in [Instance -> SUBSET Snapshot]
    /\ failing \in [Instance -> SUBSET Snapshot]
    /\ relayed \in [Instance -> SUBSET Event]
    /\ broker \in {"up", "down"}
    /\ delivered \in [Event -> Nat]
    /\ clock \in Nat
    /\ faults \in 0..MaxFaults

Init ==
    /\ status = [e \in Event |-> "absent"]
    /\ attempts = [e \in Event |-> 0]
    /\ createdAt = [e \in Event |-> 0]
    /\ committed = {}
    /\ pc = [u \in UseCase |-> "idle"]
    /\ host \in [UseCase -> Instance]
    /\ sent = [u \in UseCase |-> 0]
    /\ process = [i \in Instance |-> "running"]
    /\ polling = [i \in Instance |-> FALSE]
    /\ batch = [i \in Instance |-> {}]
    /\ failing = [i \in Instance |-> {}]
    /\ relayed = [i \in Instance |-> {}]
    /\ broker = "up"
    /\ delivered = [e \in Event |-> 0]
    /\ clock = 0
    /\ faults = 0

Fault == faults < MaxFaults /\ faults' = faults + 1

-----------------------------------------------------------------------------
(* The statements of OutboxPrismaRepository.  None of the updates looks at *)
(* the status it overwrites.                                               *)

InsertRows(rows) ==
    /\ status' = [e \in Event |-> IF e \in rows THEN "pending" ELSE status[e]]
    /\ attempts' = [e \in Event |-> IF e \in rows THEN 0 ELSE attempts[e]]
    /\ createdAt' = [e \in Event |-> IF e \in rows THEN clock ELSE createdAt[e]]

MarkAsPublished(rows) ==
    /\ status' = [e \in Event |-> IF e \in rows THEN "published" ELSE status[e]]
    /\ UNCHANGED <<attempts, createdAt>>

\* Mutant: only errorMessage is written.
IncrementAttemptsForgotten(e) == UNCHANGED rowVars

IncrementAttempts(e) ==
    /\ attempts' = [attempts EXCEPT ![e] = @ + 1]
    /\ UNCHANGED <<status, createdAt>>

MarkAsFailed(e) ==
    /\ status' = [status EXCEPT ![e] = "failed"]
    /\ attempts' = [attempts EXCEPT ![e] = @ + 1]
    /\ UNCHANGED createdAt

\* The rows "pending" may return, before the limit.
Due == {e \in Event : status[e] = "pending" /\ createdAt[e] + Grace <= clock}

\* What "pending(limit)" returns: the oldest due rows, ties in any order.
IsPending(rows, limit) ==
    /\ rows \subseteq Due
    /\ rows = Due \/ Cardinality(rows) = limit
    /\ Cardinality(rows) <= limit
    /\ \A e \in rows, f \in Due \ rows : createdAt[e] <= createdAt[f]

-----------------------------------------------------------------------------
(* A use case and OutboxEventBus.publish.                                  *)

Alive(i) == process[i] # "down"

\* Mutant: the rows are not written in the aggregate's transaction.
SaveWithoutTransaction(u) ==
    /\ pc[u] = "idle" /\ u \notin DrainsFirst /\ Alive(host[u])
    /\ committed' = committed \cup {u}
    /\ pc' = [pc EXCEPT ![u] = "saved"]
    /\ UNCHANGED <<rowVars, host, sent, process, pollVars, broker, delivered, clock, faults>>

\* Mutant: outbox.save ignores the session, so its rows survive a rollback.
SaveOutsideSession(u) ==
    /\ pc[u] = "idle" /\ u \notin DrainsFirst /\ Alive(host[u])
    /\ committed' \in {committed, committed \cup {u}}
    /\ InsertRows(RowsOf(u))
    /\ pc' = [pc EXCEPT ![u] = "queued"]
    /\ UNCHANGED <<host, sent, process, pollVars, broker, delivered, clock, faults>>

\* The repository peeks at the events and writes aggregate and rows in one
\* transaction; publish then finds the row ids in the events' meta.
SaveWithEvents(u) ==
    /\ pc[u] = "idle" /\ u \notin DrainsFirst /\ Alive(host[u])
    /\ committed' = committed \cup {u}
    /\ InsertRows(RowsOf(u))
    /\ pc' = [pc EXCEPT ![u] = "queued"]
    /\ UNCHANGED <<host, sent, process, pollVars, broker, delivered, clock, faults>>

\* The use case has emptied the aggregate, so the repository finds nothing to
\* put in the outbox and commits the aggregate alone.
SaveAggregateOnly(u) ==
    /\ pc[u] = "idle" /\ u \in DrainsFirst /\ Alive(host[u])
    /\ committed' = committed \cup {u}
    /\ pc' = [pc EXCEPT ![u] = "saved"]
    /\ UNCHANGED <<rowVars, host, sent, process, pollVars, broker, delivered, clock, faults>>

\* publish of events without row ids: a statement of its own inserts the rows.
OutboxSave(u) ==
    /\ pc[u] = "saved" /\ Alive(host[u])
    /\ InsertRows(RowsOf(u))
    /\ pc' = [pc EXCEPT ![u] = "queued"]
    /\ UNCHANGED <<committed, host, sent, process, pollVars, broker, delivered, clock, faults>>

OutboxSaveFails(u) ==
    /\ pc[u] = "saved" /\ Fault
    /\ pc' = [pc EXCEPT ![u] = "gone"]
    /\ UNCHANGED <<rowVars, committed, host, sent, process, pollVars, broker, delivered, clock>>

NextEvent(u) == EventsOf[u][sent[u] + 1]

\* Mutant: the batch counts as published after its first event.
ImmediatePublishMarksEarly(u) ==
    /\ pc[u] = "queued" /\ Alive(host[u]) /\ broker = "up"
    /\ delivered' = [delivered EXCEPT ![NextEvent(u)] = @ + 1]
    /\ sent' = [sent EXCEPT ![u] = @ + 1]
    /\ pc' = [pc EXCEPT ![u] = "sent"]
    /\ UNCHANGED <<rowVars, committed, host, process, pollVars, broker, clock, faults>>

\* One event of the batch handed to RabbitMQ and confirmed.
ImmediatePublish(u) ==
    /\ pc[u] = "queued" /\ Alive(host[u]) /\ broker = "up"
    /\ delivered' = [delivered EXCEPT ![NextEvent(u)] = @ + 1]
    /\ sent' = [sent EXCEPT ![u] = @ + 1]
    /\ pc' = [pc EXCEPT ![u] = IF sent[u] + 1 = Len(EventsOf[u]) THEN "sent" ELSE @]
    /\ UNCHANGED <<rowVars, committed, host, process, pollVars, broker, clock, faults>>

\* Mutant: the catch block does not return, so the rows are marked all the same.
ImmediatePublishFailsUnnoticed(u) ==
    /\ pc[u] = "queued" /\ Alive(host[u]) /\ broker = "down"
    /\ pc' = [pc EXCEPT ![u] = "sent"]
    /\ UNCHANGED <<rowVars, committed, host, sent, process, pollVars, broker, delivered, clock, faults>>

\* A publish is rejected: the rest of the batch is skipped, nothing is marked.
ImmediatePublishFails(u) ==
    /\ pc[u] = "queued" /\ Alive(host[u])
    /\ \/ broker = "down" /\ UNCHANGED <<delivered, faults>>
       \/ \* RabbitMQ took the message but the connection died with the confirm
          /\ Fault
          /\ delivered' = [delivered EXCEPT ![NextEvent(u)] = @ + 1]
    /\ pc' = [pc EXCEPT ![u] = "done"]
    /\ UNCHANGED <<rowVars, committed, host, sent, process, pollVars, broker, clock>>

ImmediateMark(u) ==
    /\ pc[u] = "sent" /\ Alive(host[u])
    /\ \/ MarkAsPublished(RowsOf(u)) /\ UNCHANGED faults
       \/ UNCHANGED rowVars /\ Fault
    /\ pc' = [pc EXCEPT ![u] = "done"]
    /\ UNCHANGED <<committed, host, sent, process, pollVars, broker, delivered, clock>>

-----------------------------------------------------------------------------
(* OutboxPublisher: one tick of the poller, from its snapshot to the final *)
(* markAsPublished.                                                        *)

\* The end of processOutbox, by return or by exception.
EndTick(i) ==
    /\ polling' = [polling EXCEPT ![i] = FALSE]
    /\ batch' = [batch EXCEPT ![i] = {}]
    /\ failing' = [failing EXCEPT ![i] = {}]
    /\ relayed' = [relayed EXCEPT ![i] = {}]

RunTick(i) ==
    /\ process[i] = "running" /\ ~polling[i]
    /\ \E rows \in SUBSET Due :
        /\ rows # {} /\ IsPending(rows, BatchSize)
        /\ batch' = [batch EXCEPT ![i] = {[id |-> e, attempts |-> attempts[e]] : e \in rows}]
    /\ polling' = [polling EXCEPT ![i] = TRUE]
    /\ UNCHANGED <<rowVars, useCaseVars, process, failing, relayed, broker, delivered, clock, faults>>

\* r is the row the loop of instance i publishes next.
IsNext(i, r) ==
    /\ polling[i] /\ failing[i] = {} /\ r \in batch[i]
    /\ \A s \in batch[i] : createdAt[r.id] <= createdAt[s.id]

PollPublish(i) ==
    /\ broker = "up"
    /\ \E r \in batch[i] :
        /\ IsNext(i, r)
        /\ delivered' = [delivered EXCEPT ![r.id] = @ + 1]
        /\ relayed' = [relayed EXCEPT ![i] = @ \cup {r.id}]
        /\ batch' = [batch EXCEPT ![i] = @ \ {r}]
    /\ UNCHANGED <<rowVars, useCaseVars, process, polling, failing, broker, clock, faults>>

PollPublishFails(i) ==
    /\ \E r \in batch[i] :
        /\ IsNext(i, r)
        /\ \/ broker = "down" /\ UNCHANGED <<delivered, faults>>
           \/ Fault /\ delivered' = [delivered EXCEPT ![r.id] = @ + 1]
        /\ failing' = [failing EXCEPT ![i] = {r}]
        /\ batch' = [batch EXCEPT ![i] = @ \ {r}]
    /\ UNCHANGED <<rowVars, useCaseVars, process, polling, relayed, broker, clock>>

\* Mutants: one retry too few, one too many.
GivesUpEarly(r) == r.attempts + 2 >= MaxRetries
GivesUpLate(r) == r.attempts >= MaxRetries

\* The last retry is the one whose snapshot had maxRetries - 1 attempts.
GivesUp(r) == r.attempts + 1 >= MaxRetries

PollRecordFailure(i) ==
    /\ \E r \in failing[i] :
        IF GivesUp(r) THEN MarkAsFailed(r.id) ELSE IncrementAttempts(r.id)
    /\ failing' = [failing EXCEPT ![i] = {}]
    /\ UNCHANGED <<useCaseVars, process, polling, batch, relayed, broker, delivered, clock, faults>>

\* The update itself throws: the tick is abandoned, and what it has already
\* published is never marked.
PollRecordFailureFails(i) ==
    /\ failing[i] # {} /\ Fault
    /\ EndTick(i)
    /\ UNCHANGED <<rowVars, useCaseVars, process, broker, delivered, clock>>

PollMark(i) ==
    /\ polling[i] /\ batch[i] = {} /\ failing[i] = {}
    /\ \/ MarkAsPublished(relayed[i]) /\ UNCHANGED faults
       \/ relayed[i] # {} /\ Fault /\ UNCHANGED rowVars
    /\ EndTick(i)
    /\ UNCHANGED <<useCaseVars, process, broker, delivered, clock>>

-----------------------------------------------------------------------------
(* Processes, broker and time.                                             *)

\* Everything an instance holds in memory disappears with it.
Die(i) ==
    /\ process' = [process EXCEPT ![i] = "down"]
    /\ pc' = [u \in UseCase |->
                IF host[u] # i THEN pc[u]
                ELSE CASE pc[u] = "saved" -> "gone"
                       [] pc[u] \in {"queued", "sent"} -> "done"
                       [] OTHER -> pc[u]]
    /\ EndTick(i)
    /\ UNCHANGED <<rowVars, committed, host, sent, broker, delivered, clock>>

Crash(i) == Alive(i) /\ Fault /\ Die(i)

\* stop() clears the interval at once ...
Stop(i) ==
    /\ process[i] = "running" /\ Fault
    /\ process' = [process EXCEPT ![i] = "stopping"]
    /\ UNCHANGED <<rowVars, useCaseVars, pollVars, broker, delivered, clock>>

\* ... and awaits the tick in flight; nobody awaits the setImmediate callbacks.
Exit(i) == process[i] = "stopping" /\ ~polling[i] /\ Die(i) /\ UNCHANGED faults

Restart(i) ==
    /\ process[i] = "down"
    /\ process' = [process EXCEPT ![i] = "running"]
    /\ UNCHANGED <<rowVars, useCaseVars, pollVars, broker, delivered, clock, faults>>

BrokerChanges ==
    /\ broker' = IF broker = "up" THEN "down" ELSE "up"
    /\ UNCHANGED <<rowVars, useCaseVars, process, pollVars, delivered, clock, faults>>

TimePasses ==
    /\ \E e \in Event : status[e] = "pending" /\ createdAt[e] + Grace > clock
    /\ clock' = clock + 1
    /\ UNCHANGED <<rowVars, useCaseVars, process, pollVars, broker, delivered, faults>>

UseCaseStep(u) ==
    \/ SaveWithEvents(u) \/ SaveAggregateOnly(u)
    \/ OutboxSave(u) \/ OutboxSaveFails(u)
    \/ ImmediatePublish(u) \/ ImmediatePublishFails(u) \/ ImmediateMark(u)

PollStep(i) ==
    \/ RunTick(i) \/ PollPublish(i) \/ PollPublishFails(i)
    \/ PollRecordFailure(i) \/ PollRecordFailureFails(i) \/ PollMark(i)

ProcessStep(i) == Crash(i) \/ Stop(i) \/ Exit(i) \/ Restart(i)

Next ==
    \/ \E u \in UseCase : UseCaseStep(u)
    \/ \E i \in Instance : PollStep(i) \/ ProcessStep(i)
    \/ BrokerChanges
    \/ TimePasses

Spec == Init /\ [][Next]_vars

\* The interval keeps firing and its callback keeps running in a live process;
\* the container is restarted; time passes.  Nothing is assumed of the broker,
\* of the deferred publish or of the requests.
Fairness ==
    /\ \A i \in Instance :
        /\ WF_vars(PollStep(i))
        /\ WF_vars(Exit(i)) /\ WF_vars(Restart(i))
    /\ WF_vars(TimePasses)

FairSpec == Spec /\ Fairness

-----------------------------------------------------------------------------
(* Properties.                                                             *)

\* A row says "published" only when RabbitMQ has confirmed that very event,
\* whoever marked it: the deferred publish, which marks a whole batch after
\* its last event, or a poller of any instance, which marks at the end of a
\* tick that other events of the snapshot may have failed.
PublishedWasDelivered ==
    \A e \in Event : status[e] = "published" => delivered[e] >= 1

\* No row is given up early: "failed" is written only after maxRetries failed
\* attempts are recorded on that row, although the poller decides from the
\* attempts of its snapshot and the counters of several pollers interleave.
FailedIsExhausted ==
    \A e \in Event : status[e] = "failed" => attempts[e] >= MaxRetries

\* When the use case leaves the events in the aggregate for the repository,
\* a committed aggregate always has its rows, whatever crashes.
RowsCommitWithAggregate ==
    \A u \in UseCase \ DrainsFirst : u \in committed <=> \A e \in RowsOf(u) : status[e] # "absent"

\* RabbitMQ never sees an event of an aggregate that was not committed.
NoPhantomEvent ==
    \A u \in UseCase : \A e \in RowsOf(u) : delivered[e] > 0 => u \in committed

\* Stale snapshots can push a row past maxRetries, but each further instance
\* adds at most two attempts: one recorded from an old snapshot while the row
\* is still pending, one by the tick that was in flight when it was given up.
RetryBudget ==
    \A e \in Event : attempts[e] <= MaxRetries + 2 * (Cardinality(Instance) - 1)

\* Every row is settled in the end: published, or given up.
RowsAreSettled ==
    \A e \in Event : status[e] = "pending" ~> status[e] \in {"published", "failed"}

-----------------------------------------------------------------------------
(* The inductive invariant behind the safety properties.                   *)

\* The deferred publish counts the events it has handed over, and marks its
\* batch only when it has handed over all of them.
SentEventsDelivered ==
    \A u \in UseCase :
        /\ \A k \in 1..Len(EventsOf[u]) : k <= sent[u] => delivered[EventsOf[u][k]] >= 1
        /\ pc[u] \in {"idle", "saved", "gone"} => sent[u] = 0
        /\ pc[u] = "queued" => sent[u] < Len(EventsOf[u])
        /\ pc[u] = "sent" => sent[u] = Len(EventsOf[u])

\* The poller's array holds only events RabbitMQ has confirmed.
RelayedDelivered ==
    \A i \in Instance : \A e \in relayed[i] : delivered[e] >= 1

\* A snapshot may be behind its row, never ahead of it.
SnapshotsNotAhead ==
    \A i \in Instance : \A r \in batch[i] \cup failing[i] :
        status[r.id] # "absent" /\ r.attempts <= attempts[r.id]

\* Rows appear exactly when the use case gets past its insert.
RowsFollowUseCase ==
    \A u \in UseCase : \A e \in RowsOf(u) :
        status[e] = "absent" <=> pc[u] \in {"idle", "saved", "gone"}

\* Only a use case that drains the aggregate can be caught without its rows.
CommitFollowsUseCase ==
    \A u \in UseCase :
        /\ u \in committed <=> pc[u] # "idle"
        /\ pc[u] \in {"saved", "gone"} => u \in DrainsFirst

\* Only events with a row are ever published or retried.
DeliveredHasRow ==
    \A e \in Event : status[e] = "absent" => delivered[e] = 0 /\ attempts[e] = 0

OutboxInv ==
    /\ TypeOK
    /\ SentEventsDelivered
    /\ RelayedDelivered
    /\ SnapshotsNotAhead
    /\ RowsFollowUseCase
    /\ CommitFollowsUseCase
    /\ DeliveredHasRow
    /\ PublishedWasDelivered
    /\ FailedIsExhausted

-----------------------------------------------------------------------------
(* The inductive invariant behind RetryBudget: who can still count a       *)
(* failed attempt on a row.                                                *)

\* What the tick of an instance has still to publish, or to record.
Held(i) == batch[i] \cup failing[i]

Holders(e) == {i \in Instance : \E r \in Held(i) : r.id = e}

\* Those whose snapshot is too old to give the row up.
Behind(e) == {i \in Instance : \E r \in Held(i) : r.id = e /\ ~GivesUp(r)}

\* A tick holds a row once, and nothing between two ticks.
HeldOnce ==
    \A i \in Instance :
        /\ ~polling[i] => Held(i) = {}
        /\ \A r, s \in Held(i) : r.id = s.id => r = s
        /\ batch[i] \cap failing[i] = {}

\* While a row is pending, whoever brings it to its last attempt is one of
\* those behind; once it is settled, nobody takes it up again.
BudgetOf(e) ==
    /\ status[e] = "pending" =>
          attempts[e] + Cardinality(Behind(e)) <= MaxRetries + Cardinality(Instance) - 2
    /\ status[e] \in {"published", "failed"} =>
          attempts[e] + Cardinality(Holders(e)) <= MaxRetries + 2 * (Cardinality(Instance) - 1)

BudgetInv == HeldOnce /\ \A e \in Event : BudgetOf(e)

-----------------------------------------------------------------------------
(* The outbox implements AtLeastOnceDelivery.                              *)

\* A row marked published that RabbitMQ never had would be "lost", a phase the
\* abstract specification does not know.
PhaseOf(rowStatus, deliveries) ==
    CASE rowStatus = "absent" -> "none"
      [] rowStatus # "absent" /\ deliveries > 0 -> "delivered"
      [] rowStatus = "failed" /\ deliveries = 0 -> "abandoned"
      [] rowStatus = "pending" /\ deliveries = 0 -> "owed"
      [] OTHER -> "lost"

DeliveryPhase == [e \in Event |-> PhaseOf(status[e], delivered[e])]

Delivery == INSTANCE AtLeastOnceDelivery WITH
    Batch <- {RowsOf(u) : u \in UseCase}, phase <- DeliveryPhase, tries <- attempts

\* Whatever crashes, stops, overlaps or fails, a step of the outbox accepts a
\* whole batch, delivers one owed event, counts one failed attempt, or changes
\* nothing that RabbitMQ and its consumers can tell.
DeliversAtLeastOnceOrGivesUp == Delivery!Spec
=============================================================================
