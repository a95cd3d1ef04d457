--------------------------- MODULE VideoclipProcess ---------------------------
(***************************************************************************)
(* The videoclip processes of some songs: the API calls that request and   *)
(* cancel one, the external worker that answers a request, and the two     *)
(* subscribers that write its answer into the process.  They share the     *)
(* VideoclipProcess rows, which go with their song when its band is        *)
(* removed.                                                                *)
(*                                                                         *)
(* Every use case reads one row, decides, and saves the whole row; between *)
(* the two is an await, and the row it is about to save is kept here in    *)
(* its record.  The id of a process comes from the client, so a request    *)
(* may repeat one.  An event is on its way as soon as the row that records *)
(* it commits (module Outbox), and a message that is not acknowledged is   *)
(* delivered again (module RabbitMQConsumers), or dead-lettered when its   *)
(* handler has thrown too often.                                           *)
(*                                                                         *)
(* Artificial: MaxCalls caps the API calls and serves as their clock;      *)
(* MaxFaults caps failing calls and handlers, lost acks, and answers given *)
(* twice, by the worker or by a message that is republished and stays.     *)
(***************************************************************************)
EXTENDS Integers, FiniteSets

CONSTANTS
    SongId,
    Id,        \* ids of processes, chosen by the clients
    Slot,      \* API calls that can be in flight at a time
    Handler,   \* handlers of one queue that can run at a time
    MaxRetries,  \* redeliveries of a message whose handler throws
    MaxCalls,
    MaxFaults

ASSUME VideoclipAssumption == MaxRetries \in Nat /\ MaxCalls \in Nat /\ MaxFaults \in Nat

VARIABLES
    songsLeft,  \* songs that are not removed
    processes,  \* the VideoclipProcess row of each id
    requested,  \* requests the worker has not answered
    answers,    \* answers waiting in the queues of the two subscribers
    stranded,   \* ids of processes left active by the dead letter of an answer
    call,       \* what each API call in flight is about to save
    handler,    \* what each handler is about to save
    calls,
    faults

processVars == <<songsLeft, processes, requested, answers, stranded, call, handler, calls, faults>>

Outcomes == {"SUCCESS", "FAILED", "TIMEOUT"}

\* The outcomes the messages of each subscriber's queue stand for.
Subscribers == {"completed", "failed"}
OutcomesOf(q) == IF q = "completed" THEN {"SUCCESS"} ELSE {"FAILED", "TIMEOUT"}

\* tries is the redelivery_count of a message: none the first time.
Messages == [outcome : Outcomes, id : Id, tries : 0..MaxRetries + 1]

\* Nothing writes MIXING yet.
Processes ==
    [song : SongId, status : {"PENDING", "CANCELLED"} \cup Outcomes, startedAt : Nat]

NoRow == [status |-> "absent"]
NoSave == [at |-> "idle"]
Saves == {NoSave} \cup [at : {"save"}, id : Id, row : Processes]
Works == {NoSave} \cup [at : {"save"}, message : Messages, row : Processes]

ProcessTypeOK ==
    /\ songsLeft \in SUBSET SongId
    /\ processes \in [Id -> Processes \cup {NoRow}]
    /\ requested \in [Id -> Nat]
    /\ answers \in [Messages -> Nat]
    /\ stranded \in SUBSET Id
    /\ call \in [Slot -> Saves]
    /\ handler \in [Subscribers -> [Handler -> Works]]
    /\ calls \in 0..MaxCalls
    /\ faults \in 0..MaxFaults

ProcessInit ==
    /\ songsLeft = SongId
    /\ processes = [p \in Id |-> NoRow]
    /\ requested = [p \in Id |-> 0]
    /\ answers = [m \in Messages |-> 0]
    /\ stranded = {}
    /\ call = [c \in Slot |-> NoSave]
    /\ handler = [q \in Subscribers |-> [h \in Handler |-> NoSave]]
    /\ calls = 0
    /\ faults = 0

Fault == faults < MaxFaults /\ faults' = faults + 1

-----------------------------------------------------------------------------
(* The API calls.                                                          *)

\* VideoclipProcessStatus.isActive
IsActive(r) == r.status \in {"PENDING", "MIXING"}

ActiveIn(s) == {p \in Id : IsActive(processes[p]) /\ processes[p].song = s}

Prepare(c, p, r) ==
    /\ call[c] = NoSave
    /\ calls < MaxCalls
    /\ calls' = calls + 1
    /\ call' = [call EXCEPT ![c] = [at |-> "save", id |-> p, row |-> r]]
    /\ UNCHANGED <<songsLeft, processes, requested, answers, stranded, handler, faults>>

\* Mutant: only the process of the given id is looked at.
RequestLooksAtId(c, p, s) ==
    /\ s \in songsLeft
    /\ ~IsActive(processes[p])
    /\ Prepare(c, p, [song |-> s, status |-> "PENDING", startedAt |-> calls])

\* VideoclipProcessRequester.run up to its save.
Request(c, p, s) ==
    /\ s \in songsLeft
    /\ ActiveIn(s) = {}
    /\ Prepare(c, p, [song |-> s, status |-> "PENDING", startedAt |-> calls])

\* VideoclipProcessCanceller.run up to its save: of several active processes
\* searchActiveBySongId returns the latest.
Cancel(c, s) ==
    \E p \in ActiveIn(s) :
        /\ \A q \in ActiveIn(s) : processes[q].startedAt <= processes[p].startedAt
        /\ processes[p].status = "PENDING"
        /\ Prepare(c, p, [processes[p] EXCEPT !.status = "CANCELLED"])

\* The upsert violates a foreign key when the song is gone.
Upsert(p, r) == r.song \in songsLeft /\ processes' = [processes EXCEPT ![p] = r]

\* Mutant: the event of a request is not written with the row.
SaveWithoutEvent(c) ==
    /\ call[c] # NoSave
    /\ \/ Upsert(call[c].id, call[c].row) /\ stranded' = stranded \ {call[c].id}
       \/ call[c].row.song \notin songsLeft /\ UNCHANGED <<processes, stranded>>
    /\ call' = [call EXCEPT ![c] = NoSave]
    /\ UNCHANGED <<songsLeft, requested, answers, handler, calls, faults>>

\* save, with the event that the worker waits for.
Save(c) ==
    /\ call[c] # NoSave
    /\ \/ /\ Upsert(call[c].id, call[c].row)
          /\ stranded' = stranded \ {call[c].id}
          /\ requested' = IF IsActive(call[c].row)
                            THEN [requested EXCEPT ![call[c].id] = @ + 1]
                            ELSE requested
       \/ call[c].row.song \notin songsLeft /\ UNCHANGED <<processes, requested, stranded>>
    /\ call' = [call EXCEPT ![c] = NoSave]
    /\ UNCHANGED <<songsLeft, answers, handler, calls, faults>>

CallFails(c) ==
    /\ Fault
    /\ call[c] # NoSave
    /\ call' = [call EXCEPT ![c] = NoSave]
    /\ UNCHANGED <<songsLeft, processes, requested, answers, stranded, handler, calls>>

\* BandPrismaRepository.remove: the band's songs and their processes go with it.
SongRemoved(s) ==
    /\ s \in songsLeft
    /\ songsLeft' = songsLeft \ {s}
    /\ processes' = [p \in Id |-> IF processes[p] # NoRow /\ processes[p].song = s THEN NoRow ELSE processes[p]]
    /\ UNCHANGED <<requested, answers, stranded, call, handler, calls, faults>>

-----------------------------------------------------------------------------
(* The worker and the subscribers.                                         *)

Fresh(o, p) == [outcome |-> o, id |-> p, tries |-> 0]
Again(m) == [m EXCEPT !.tries = @ + 1]

More(m) == [answers EXCEPT ![m] = @ + 1]
Fewer(m) == [answers EXCEPT ![m] = @ - 1]

\* Its watch over the deadline may answer beside the work itself.
WorkerAnswers(p, o) ==
    /\ requested[p] > 0
    /\ answers' = More(Fresh(o, p))
    /\ \/ requested' = [requested EXCEPT ![p] = @ - 1] /\ UNCHANGED faults
       \/ Fault /\ UNCHANGED requested
    /\ UNCHANGED <<songsLeft, processes, stranded, call, handler, calls>>

\* hasBeenRedeliveredTooMuch; the first delivery has no count.
TooMuch(m) == m.tries > 0 /\ m.tries >= MaxRetries

\* VideoclipProcessCompleter.run and VideoclipProcessFailer.run up to their
\* save.
Handle(q, h, m) ==
    /\ handler[q][h] = NoSave
    /\ m.outcome \in OutcomesOf(q) /\ answers[m] > 0
    /\ IsActive(processes[m.id])
    /\ answers' = Fewer(m)
    /\ handler' = [handler EXCEPT ![q][h] =
                     [at |-> "save", message |-> m, row |-> [processes[m.id] EXCEPT !.status = m.outcome]]]
    /\ UNCHANGED <<songsLeft, processes, requested, stranded, call, calls, faults>>

\* Mutant: what throws is dropped, whatever the next try would find.
RefuseAtOnce(m) ==
    /\ answers[m] > 0
    /\ answers' = Fewer(m)
    /\ UNCHANGED <<songsLeft, processes, requested, stranded, call, handler, calls, faults>>

\* No process, or one that has ended: the use case throws, and the message is
\* tried again or becomes a dead letter.
Refuse(m) ==
    /\ answers[m] > 0
    /\ ~IsActive(processes[m.id])
    /\ answers' = IF TooMuch(m) THEN Fewer(m) ELSE [Fewer(m) EXCEPT ![Again(m)] = @ + 1]
    /\ UNCHANGED <<songsLeft, processes, requested, stranded, call, handler, calls, faults>>

\* The handler of a message ends.
HandlerEnds(q, h) ==
    /\ handler' = [handler EXCEPT ![q][h] = NoSave]
    /\ UNCHANGED <<songsLeft, requested, call, calls>>

Acked == UNCHANGED <<answers, stranded>>

\* It has died or lost its ack: the same message is delivered again.
Redelivered(m) == answers' = More(m) /\ UNCHANGED stranded

\* handleError: another try, or the dead letter; a process that it leaves
\* active is ended by nobody but a later call.
Thrown(m) ==
    IF TooMuch(m)
      THEN /\ UNCHANGED answers
           /\ stranded' = IF IsActive(processes'[m.id]) THEN stranded \cup {m.id} ELSE stranded
      ELSE answers' = More(Again(m)) /\ UNCHANGED stranded

\* The upsert of a handler commits.
HandlerUpserts(w) == Upsert(w.message.id, w.row)

HandlerSave(q, h) ==
    /\ handler[q][h] # NoSave
    /\ \/ HandlerUpserts(handler[q][h]) /\ Acked
       \/ /\ handler[q][h].row.song \notin songsLeft
          /\ UNCHANGED processes
          /\ Thrown(handler[q][h].message)
    /\ HandlerEnds(q, h)
    /\ UNCHANGED faults

\* Mutant: the message is acknowledged before it is handled.
HandlerFailsAcked(q, h) ==
    /\ Fault
    /\ handler[q][h] # NoSave
    /\ UNCHANGED processes \/ HandlerUpserts(handler[q][h])
    /\ Acked
    /\ HandlerEnds(q, h)

\* It dies or throws before its save, or after it and before its ack.
HandlerFails(q, h) ==
    /\ Fault
    /\ handler[q][h] # NoSave
    /\ UNCHANGED processes \/ HandlerUpserts(handler[q][h])
    /\ Redelivered(handler[q][h].message) \/ Thrown(handler[q][h].message)
    /\ HandlerEnds(q, h)

-----------------------------------------------------------------------------
Environment ==
    \/ \E c \in Slot : Save(c) \/ CallFails(c)
    \/ \E c \in Slot, s \in SongId : Cancel(c, s)
    \/ \E s \in SongId : SongRemoved(s)
    \/ \E p \in Id, o \in Outcomes : WorkerAnswers(p, o)
    \/ \E m \in Messages : Refuse(m)
    \/ \E q \in Subscribers, h \in Handler :
          \/ \E m \in Messages : Handle(q, h, m)
          \/ HandlerSave(q, h) \/ HandlerFails(q, h)

ProcessNext ==
    \/ Environment
    \/ \E c \in Slot, p \in Id, s \in SongId : Request(c, p, s)

ProcessSpec == ProcessInit /\ [][ProcessNext]_processVars

\* The members of a band do not request a videoclip of the same song while
\* such a request is under way.
Requests(c, s) == call[c] # NoSave /\ IsActive(call[c].row) /\ call[c].row.song = s

SerialRequest(c, p, s) == (\A d \in Slot : ~Requests(d, s)) /\ Request(c, p, s)

SerialNext ==
    \/ Environment
    \/ \E c \in Slot, p \in Id, s \in SongId : SerialRequest(c, p, s)

SerialSpec == ProcessInit /\ [][SerialNext]_processVars

\* The queues deliver and the handlers go on; nothing is assumed of the
\* clients or of the worker.
AnswersFor(p, o) == {m \in Messages : m.id = p /\ m.outcome = o}

Fairness ==
    /\ \A o \in Outcomes, p \in Id :
        WF_processVars(\E m \in AnswersFor(p, o) :
                          Refuse(m) \/ \E q \in Subscribers, h \in Handler : Handle(q, h, m))
    /\ \A q \in Subscribers, h \in Handler : WF_processVars(HandlerSave(q, h))

FairSerialSpec == SerialSpec /\ Fairness

-----------------------------------------------------------------------------
(* Properties.                                                             *)

\* A song has one active process at most (docs/architecture.md: a request
\* finds an active process and is answered 409), whatever the cancellations,
\* the answers, the removals and repeated ids save from earlier reads.
OneActive == \A s \in SongId : \A p, q \in ActiveIn(s) : p = q

\* Nothing but its requests could make a second one active.
OneRequest ==
    \A s \in SongId, c \in Slot : Requests(c, s) =>
        ActiveIn(s) = {} /\ \A d \in Slot : Requests(d, s) => c = d

\* An active process is always somebody's business: its request is with the
\* worker, or an answer waits or is being saved.  Otherwise it refuses every
\* further request of its song until somebody cancels it; only the dead letter
\* of its answer leaves it so.
Awaited(p) ==
    \/ requested[p] > 0
    \/ \E m \in Messages : m.id = p /\ answers[m] > 0
    \/ \E q \in Subscribers, h \in Handler : handler[q][h] # NoSave /\ handler[q][h].message.id = p

ActiveIsAwaited == \A p \in Id : IsActive(processes[p]) => Awaited(p) \/ p \in stranded

\* What the handlers save has ended, with the outcome of their message.
HandlersEnd ==
    \A q \in Subscribers, h \in Handler :
        handler[q][h] # NoSave => handler[q][h].row.status = handler[q][h].message.outcome

AwaitedInv == ProcessTypeOK /\ HandlersEnd /\ ActiveIsAwaited
SerialInv == AwaitedInv /\ OneRequest /\ OneActive

\* An answer ends the process it is for, whatever saves cross it, which
\* handlers die or throw, and whether its song still exists, unless it becomes
\* a dead letter.
AnsweredEnds ==
    \A p \in Id :
        (\E m \in Messages : m.id = p /\ answers[m] > 0) ~> ~IsActive(processes[p]) \/ p \in stranded

=============================================================================
