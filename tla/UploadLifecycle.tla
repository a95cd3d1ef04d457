--------------------------- MODULE UploadLifecycle ---------------------------
(***************************************************************************)
(* The upload attempts of one song instrument: the calls of the API        *)
(* (request an upload URL, confirm, cancel, edit, assign), the subscriber  *)
(* that validates a confirmed file, and the two subscribers that write its *)
(* answer back.  They share the SongInstrument row, the                    *)
(* SongInstrumentUpload rows, the SongInstrumentProcess rows and the       *)
(* durable object the client puts in the bucket.                           *)
(*                                                                         *)
(* Every step between two awaits on this shared state is one action, and   *)
(* what a handler read before an await is kept in its record, as the code  *)
(* keeps it in a local variable. Saves write whole rows. The awaits of the *)
(* validation that touch only its temporary file and the destination       *)
(* object are one step with its answer. An event is in its queue as soon   *)
(* as the row that records it commits (module Outbox), and a message that  *)
(* is not acknowledged is delivered again.                                 *)
(*                                                                         *)
(* Artificial: MaxCalls caps the calls of the API, and MaxFaults the calls *)
(* and handlers that die or throw. The tries of a message are not counted  *)
(* one by one: it may become a dead letter once as many handlers failed as *)
(* RabbitMQ delivers it again, MaxRetries.                                 *)
(***************************************************************************)
EXTENDS Integers, FiniteSets

CONSTANTS
    Upload,     \* upload attempts that can be created
    Musician,
    Slot,       \* API calls that can be in flight at a time
    Handler,    \* handlers of one queue that can run at a time
    MaxCalls,   \* bound on the API calls
    MaxFaults,  \* bound on the calls and handlers that fail
    MaxRetries, \* deliveries of a message that is thrown, after the first
    Fragile,    \* attempts for which statements of a running validation may fail
    NoUpload

ASSUME NoUploadAssumption == NoUpload \notin Upload

ASSUME BoundsAssumption ==
    MaxCalls \in Nat /\ MaxFaults \in Nat /\ MaxRetries \in Nat /\ Fragile \subseteq Upload

VARIABLES
    row,      \* the SongInstrument row: its musician and its active attempt
    status,   \* SongInstrumentUpload.status, "absent" before the insert
    stored,   \* attempts whose durable object is in the bucket
    process,  \* SongInstrumentProcess.status, "none" before the first save
    queue,    \* messages of each subscriber's queue
    worker,   \* the message each handler of a queue is at
    call,     \* the API calls in flight
    calls,
    faults,
    repeated, \* history: attempts a message of which may be answered twice
    stranded  \* history: attempts a message of which became a dead letter

rowVars == <<row, status, stored, process>>
failures == <<faults, repeated, stranded>>
vars == <<rowVars, queue, worker, call, calls, failures>>

Statuses == {"absent", "PENDING", "PROCESSING", "COMPLETED", "FAILED", "CANCELLED"}
Rows == [musician : Musician, active : Upload \cup {NoUpload}]

\* One queue per subscriber: the validation of a requested upload, and the
\* two answers of the validation.
Queues == {"requested", "completed", "failed"}

Idle == [at |-> "idle"]

\* What a call keeps across its awaits.
Calls ==
    [at : {"idle", "create"}]
    \cup [at : {"confirm"}, upload : Upload]
    \cup [at : {"exists", "process"}, upload : Upload, status : Statuses]
    \cup [at : {"cancel", "look", "delete", "cancelled"}, upload : Upload, row : Rows]
    \cup [at : {"row"}, row : Rows]

Works ==
    {Idle}
    \cup [at : {"read", "download", "validate", "missing", "reject", "undo", "cleanup"}, upload : Upload]
    \cup [at : {"row", "save"}, upload : Upload, status : Statuses]

TypeOK ==
    /\ row \in Rows
    /\ status \in [Upload -> Statuses]
    /\ stored \in SUBSET Upload
    /\ process \in [Upload -> {"none", "COMPLETED", "FAILED"}]
    /\ queue \in [Queues -> [Upload -> Nat]]
    /\ worker \in [Queues -> [Handler -> Works]]
    /\ call \in [Slot -> Calls]
    /\ calls \in 0..MaxCalls
    /\ faults \in 0..MaxFaults
    /\ repeated \in SUBSET Upload
    /\ stranded \in SUBSET Upload

Send(q, u) == queue' = [queue EXCEPT ![q][u] = @ + 1]
Goto(q, h, w) == worker' = [worker EXCEPT ![q][h] = w]
Await(c, k) == call' = [call EXCEPT ![c] = k]
Return(c) == Await(c, Idle)

Init ==
    /\ row \in [musician : Musician, active : {NoUpload}]
    /\ status = [u \in Upload |-> "absent"]
    /\ stored = {}
    /\ process = [u \in Upload |-> "none"]
    /\ queue = [q \in Queues |-> [u \in Upload |-> 0]]
    /\ worker = [q \in Queues |-> [h \in Handler |-> Idle]]
    /\ call = [c \in Slot |-> Idle]
    /\ calls = 0
    /\ faults = 0
    /\ repeated = {}
    /\ stranded = {}

-----------------------------------------------------------------------------
(* The API calls.  Each starts by reading the row; the calls on an attempt *)
(* go on only for the musician assigned in it.                             *)

Begin(c, k) ==
    /\ call[c] = Idle
    /\ calls < MaxCalls
    /\ calls' = calls + 1
    /\ Await(c, k)
    /\ UNCHANGED <<rowVars, queue, worker, failures>>

\* What a call leaves alone once it is under way.
Silent == UNCHANGED <<worker, calls, failures>>

\* SongInstrumentUploadUrlRequester.run
Request(c, m) ==
    /\ row.musician = m
    /\ Begin(c, [at |-> "create"])

\* saveWithSongInstrument inserts the attempt and writes only the column
\* activeUploadAttemptId of the row.
RequestSave(c) ==
    /\ call[c].at = "create"
    /\ \E u \in Upload :
          /\ status[u] = "absent"
          /\ status' = [status EXCEPT ![u] = "PENDING"]
          /\ row' = [row EXCEPT !.active = u]
    /\ Return(c)
    /\ UNCHANGED <<stored, process, queue>>
    /\ Silent

\* The client sends the file to the signed URL.
PutFile(u) ==
    /\ status[u] # "absent"
    /\ u \notin stored
    /\ stored' = stored \cup {u}
    /\ UNCHANGED <<row, status, process, queue, worker, call, calls, failures>>

\* SongInstrumentUploadConfirmer.run
Confirm(c, m, u) ==
    /\ row.musician = m
    /\ status[u] # "absent"
    /\ Begin(c, [at |-> "confirm", upload |-> u])

ConfirmRead(c) ==
    /\ call[c].at = "confirm"
    /\ LET u == call[c].upload
       IN  Await(c, [at |-> "exists", upload |-> u, status |-> status[u]])
    /\ UNCHANGED <<rowVars, queue>>
    /\ Silent

\* fileExists, then processUpload on the attempt read before.
Processable == {"PENDING", "FAILED"}
ConfirmExists(c) ==
    /\ call[c].at = "exists"
    /\ IF call[c].upload \in stored /\ call[c].status \in Processable \cup {"PROCESSING"}
         THEN Await(c, [call[c] EXCEPT !.at = "process"])
         ELSE Return(c)
    /\ UNCHANGED <<rowVars, queue>>
    /\ Silent

\* Mutant: the event is recorded and the status is not set.
ConfirmSaveForgetsStatus(c) ==
    /\ call[c].at = "process"
    /\ IF call[c].status \in Processable THEN Send("requested", call[c].upload) ELSE UNCHANGED queue
    /\ Return(c)
    /\ UNCHANGED rowVars
    /\ Silent

ConfirmSave(c) ==
    /\ call[c].at = "process"
    /\ LET u == call[c].upload
       IN  /\ status' = [status EXCEPT ![u] = "PROCESSING"]
           /\ IF call[c].status \in Processable THEN Send("requested", u) ELSE UNCHANGED queue
    /\ Return(c)
    /\ UNCHANGED <<row, stored, process>>
    /\ Silent

\* SongInstrumentUploadCanceller.run
Cancel(c, m, u) ==
    /\ row.musician = m
    /\ status[u] # "absent"
    /\ Begin(c, [at |-> "cancel", upload |-> u, row |-> row])

\* Mutant: the status is not looked at.
CancelReadUnguarded(c) ==
    /\ call[c].at = "cancel"
    /\ Await(c, [call[c] EXCEPT !.at = "look"])
    /\ UNCHANGED <<rowVars, queue>>
    /\ Silent

CancelRead(c) ==
    /\ call[c].at = "cancel"
    /\ IF status[call[c].upload] = "PENDING"
         THEN Await(c, [call[c] EXCEPT !.at = "look"])
         ELSE Return(c)
    /\ UNCHANGED <<rowVars, queue>>
    /\ Silent

CancelExists(c) ==
    /\ call[c].at = "look"
    /\ Await(c, [call[c] EXCEPT !.at = IF call[c].upload \in stored THEN "delete" ELSE "cancelled"])
    /\ UNCHANGED <<rowVars, queue>>
    /\ Silent

CancelDelete(c) ==
    /\ call[c].at = "delete"
    /\ stored' = stored \ {call[c].upload}
    /\ Await(c, [call[c] EXCEPT !.at = "cancelled"])
    /\ UNCHANGED <<row, status, process, queue>>
    /\ Silent

\* SongInstrument.clearUploadAttempt.  Mutant: hasActiveUploadAttempt is not
\* asked.
ClearedAnyway(r, u) == NoUpload

Cleared(r, u) == IF r.active = u THEN NoUpload ELSE r.active

CancelSaveUpload(c) ==
    /\ call[c].at = "cancelled"
    /\ status' = [status EXCEPT ![call[c].upload] = "CANCELLED"]
    /\ LET k == call[c]
       IN  Await(c, [at |-> "row", row |-> [k.row EXCEPT !.active = Cleared(k.row, k.upload)]])
    /\ UNCHANGED <<row, stored, process, queue>>
    /\ Silent

\* SongInstrumentEditor.run: another name for the row just read.
Edit(c) == Begin(c, [at |-> "row", row |-> row])

\* SongInstrumentAssignmentCore.run; the same musician again is a no-op.
Assign(c, m) ==
    /\ row.musician # m
    /\ Begin(c, [at |-> "row", row |-> [row EXCEPT !.musician = m]])

\* SongInstrumentPrismaRepository.save: the whole row, as it was read.
SaveRow(c) ==
    /\ call[c].at = "row"
    /\ row' = call[c].row
    /\ Return(c)
    /\ UNCHANGED <<status, stored, process, queue>>
    /\ Silent

-----------------------------------------------------------------------------
(* The subscribers.  A handler takes a message off its queue; it is idle   *)
(* again when it acknowledges it.                                          *)

At(q, h, step) == worker[q][h].at = step
Work(q, h) == worker[q][h].upload

\* A handler goes on to another step and changes nothing else.
Step(q, h, step) ==
    /\ Goto(q, h, [worker[q][h] EXCEPT !.at = step])
    /\ UNCHANGED <<rowVars, queue, call, calls, failures>>

Ack(q, h) ==
    /\ Goto(q, h, Idle)
    /\ UNCHANGED <<rowVars, queue, call, calls, failures>>

Take(q, h, u) ==
    /\ worker[q][h] = Idle
    /\ queue[q][u] > 0
    /\ queue' = [queue EXCEPT ![q][u] = @ - 1]
    /\ Goto(q, h, [at |-> "read", upload |-> u])
    /\ UNCHANGED <<rowVars, call, calls, failures>>

\* SongInstrumentProcessValidator.run.  The first read looks for a process
\* that is already completed.
\* Mutant: every delivery is validated.
NeverReplay(u) == FALSE

IsReplay(u) == process[u] = "COMPLETED"

ValidateRead(h) ==
    /\ At("requested", h, "read")
    /\ IF IsReplay(Work("requested", h))
         THEN Ack("requested", h)
         ELSE Step("requested", h, "download")

ValidateDownload(h) ==
    /\ At("requested", h, "download")
    /\ Step("requested", h, IF Work("requested", h) \in stored THEN "validate" ELSE "missing")

\* "No such object": a handler of the same message may have completed.
\* Mutant: a missing object always counts as a replay.
ValidateMissingIsReplay(h) ==
    /\ At("requested", h, "missing")
    /\ Ack("requested", h)

ValidateMissing(h) ==
    /\ At("requested", h, "missing")
    /\ IF IsReplay(Work("requested", h))
         THEN Ack("requested", h)
         ELSE Step("requested", h, "reject")

Answer(u, outcome) ==
    /\ process' = [process EXCEPT ![u] = outcome]
    /\ Send(IF outcome = "COMPLETED" THEN "completed" ELSE "failed", u)
    /\ UNCHANGED <<row, status, stored, call, calls>>

\* handleValidationError; only a file that was downloaded is cleaned up.
ValidateReject(h) ==
    /\ At("requested", h, "reject") \/ At("requested", h, "undo")
    /\ Answer(Work("requested", h), "FAILED")
    /\ Goto("requested", h,
            IF At("requested", h, "undo")
              THEN [worker["requested"][h] EXCEPT !.at = "cleanup"]
              ELSE Idle)
    /\ UNCHANGED failures

\* The file is valid or not, or could not be looked at; the durable object
\* is deleted after the answer.
ValidateAnswer(h) ==
    /\ At("requested", h, "validate")
    /\ \E outcome \in {"COMPLETED", "FAILED"} : Answer(Work("requested", h), outcome)
    /\ Goto("requested", h, [worker["requested"][h] EXCEPT !.at = "cleanup"])
    /\ UNCHANGED failures

\* cleanupDurableSourceFile; a failure is only logged.
ValidateCleanup(h) ==
    /\ At("requested", h, "cleanup")
    /\ \E objects \in {stored, stored \ {Work("requested", h)}} : stored' = objects
    /\ Goto("requested", h, Idle)
    /\ UNCHANGED <<row, status, process, queue, call, calls, failures>>

\* SongInstrumentUploadStatusUpdater.run, for either answer.
UpdateRead(q, h) ==
    /\ q \in {"completed", "failed"}
    /\ At(q, h, "read")
    /\ Goto(q, h, [at |-> "row", upload |-> Work(q, h), status |-> status[Work(q, h)]])
    /\ UNCHANGED <<rowVars, queue, call, calls, failures>>

\* Reads the row; goes on to the save if the attempt is the active one and
\* had no answer yet.
Answered == {"COMPLETED", "FAILED"}
UpdateDecide(q, h) ==
    /\ At(q, h, "row")
    /\ IF row.active = Work(q, h) /\ worker[q][h].status \notin Answered
         THEN Step(q, h, "save")
         ELSE Ack(q, h)

UpdateSave(q, h) ==
    /\ At(q, h, "save")
    /\ status' = [status EXCEPT ![Work(q, h)] = IF q = "completed" THEN "COMPLETED" ELSE "FAILED"]
    /\ Goto(q, h, Idle)
    /\ UNCHANGED <<row, stored, process, queue, call, calls, failures>>

Fault == faults < MaxFaults /\ faults' = faults + 1

\* The same answer, or another, may now be given once more.
Repeats(u) == repeated' = repeated \cup {u} /\ UNCHANGED stranded
Retries == UNCHANGED <<repeated, stranded>>

\* The handler dies or throws; the message is delivered again. A validation
\* that only cleans up has answered already.
HandlerFails(q, h) ==
    /\ Fault
    /\ worker[q][h] # Idle
    /\ IF At(q, h, "cleanup") THEN Repeats(Work(q, h)) ELSE Retries
    /\ Send(q, Work(q, h))
    /\ Goto(q, h, Idle)
    /\ UNCHANGED <<rowVars, call, calls>>

\* handleError: it throws for the last time.
DeadLetters(q, h) ==
    /\ faults > 0 /\ faults >= MaxRetries
    /\ Fault
    /\ worker[q][h] # Idle /\ ~At(q, h, "cleanup")
    /\ stranded' = stranded \cup {Work(q, h)}
    /\ Goto(q, h, Idle)
    /\ UNCHANGED <<rowVars, queue, call, calls, repeated>>

\* Saving the FAILED state fails too: the durable object is deleted, the
\* error leaves run and the message is retried.
ValidateFails(h) ==
    /\ Fault
    /\ At("requested", h, "validate") \/ At("requested", h, "undo")
    /\ Send("requested", Work("requested", h))
    /\ Goto("requested", h, Idle)
    /\ stored' = stored \ {Work("requested", h)}
    /\ Retries
    /\ UNCHANGED <<row, status, process, call, calls>>

\* The replay check itself throws, and run goes on to save FAILED.
ReplayCheckFails(h) ==
    /\ At("requested", h, "read") \/ At("requested", h, "missing")
    /\ Work("requested", h) \in Fragile
    /\ Fault
    /\ Goto("requested", h, [worker["requested"][h] EXCEPT !.at = "reject"])
    /\ Retries
    /\ UNCHANGED <<rowVars, queue, call, calls>>

\* The save of the COMPLETED process commits and throws, and run goes on to
\* save FAILED.
CompletionUnacknowledged(h) ==
    /\ At("requested", h, "validate")
    /\ Work("requested", h) \in Fragile
    /\ Fault
    /\ Answer(Work("requested", h), "COMPLETED")
    /\ Goto("requested", h, [worker["requested"][h] EXCEPT !.at = "undo"])
    /\ Repeats(Work("requested", h))

\* The instance that serves a call dies between two of its awaits, or the
\* next one throws.
CallFails(c) ==
    /\ Fault
    /\ call[c] # Idle
    /\ Return(c)
    /\ Retries
    /\ UNCHANGED <<rowVars, queue, worker, calls>>

\* The connection is lost before the ack: the message is delivered again
\* while the handler goes on.
Redeliver(q, h) ==
    /\ Fault
    /\ worker[q][h] # Idle
    /\ Send(q, Work(q, h))
    /\ Repeats(Work(q, h))
    /\ UNCHANGED <<rowVars, worker, call, calls>>

-----------------------------------------------------------------------------
CallSteps(c) ==
    \/ RequestSave(c)
    \/ ConfirmRead(c) \/ ConfirmExists(c) \/ ConfirmSave(c)
    \/ CancelRead(c) \/ CancelExists(c) \/ CancelDelete(c) \/ CancelSaveUpload(c)
    \/ SaveRow(c)

HandlerSteps(q, h) ==
    \/ \E u \in Upload : Take(q, h, u)
    \/ UpdateRead(q, h) \/ UpdateDecide(q, h) \/ UpdateSave(q, h)

ValidatorSteps(h) ==
    \/ ValidateRead(h) \/ ValidateDownload(h) \/ ValidateMissing(h)
    \/ ValidateReject(h) \/ ValidateAnswer(h) \/ ValidateCleanup(h)

Faults(q, h) == HandlerFails(q, h) \/ DeadLetters(q, h) \/ Redeliver(q, h)

ValidatorFaults(h) ==
    ValidateFails(h) \/ ReplayCheckFails(h) \/ CompletionUnacknowledged(h)

Environment ==
    \/ \E c \in Slot : CallSteps(c) \/ CallFails(c)
    \/ \E u \in Upload : PutFile(u)
    \/ \E q \in Queues, h \in Handler : HandlerSteps(q, h) \/ Faults(q, h)
    \/ \E h \in Handler : ValidatorSteps(h) \/ ValidatorFaults(h)

NewCall(c) ==
    \/ \E m \in Musician : Request(c, m) \/ Assign(c, m)
    \/ \E m \in Musician, u \in Upload : Confirm(c, m, u) \/ Cancel(c, m, u)
    \/ Edit(c)

Next == Environment \/ \E c \in Slot : NewCall(c)

Spec == Init /\ [][Next]_vars

\* A client that waits for the answer of each call before the next one, and
\* confirms an attempt only when its status says there is something to do.
Patient(c) ==
    /\ \A d \in Slot : call[d] = Idle
    /\ \/ \E m \in Musician : Request(c, m) \/ Assign(c, m)
       \/ \E m \in Musician, u \in Upload :
             \/ status[u] \in Processable /\ Confirm(c, m, u)
             \/ Cancel(c, m, u)
       \/ Edit(c)

PatientNext == Environment \/ \E c \in Slot : Patient(c)
PatientSpec == Init /\ [][PatientNext]_vars

Fairness ==
    /\ \A c \in Slot : WF_vars(CallSteps(c))
    /\ \A q \in Queues, h \in Handler : WF_vars(HandlerSteps(q, h))
    /\ \A h \in Handler : WF_vars(ValidatorSteps(h))

FairPatientSpec == PatientSpec /\ Fairness

-----------------------------------------------------------------------------
(* Invariants.                                                             *)

Outstanding(q, u) ==
    \/ queue[q][u] > 0
    \/ \E h \in Handler : worker[q][h] # Idle /\ worker[q][h].upload = u

Confirmed(u) == status[u] \notin {"absent", "PENDING"}

\* However the calls and the deliveries overlap, a file is validated only
\* after its attempt was confirmed: SongInstrumentProcess has no row for an
\* attempt that is still PENDING.
ProcessedWasConfirmed == \A u \in Upload : process[u] # "none" => Confirmed(u)

\* The inductive invariant behind it, for any number of handlers.
RequestedWasConfirmed == \A u \in Upload : Outstanding("requested", u) => Confirmed(u)

UploadInv == TypeOK /\ RequestedWasConfirmed /\ ProcessedWasConfirmed

\* As long as the handlers of a queue never overlap and no statement of its
\* validations fails, an attempt that reads COMPLETED has a completed process
\* behind it: no redelivery turns the process back to FAILED after the
\* attempt took its answer.
CompletedWasProcessed ==
    \A u \in Upload \ Fragile : status[u] = "COMPLETED" => process[u] = "COMPLETED"

\* Its strengthening: the messages on the way agree with the process, and
\* a handler past the replay check works on a process not completed.
PastReplayCheck == {"download", "validate", "missing", "reject", "undo"}
CompletionInv ==
    /\ CompletedWasProcessed
    /\ \A u \in Upload \ Fragile : Outstanding("completed", u) => process[u] = "COMPLETED"
    /\ \A h \in Handler :
          worker["requested"][h].at \in PastReplayCheck
              /\ worker["requested"][h].upload \notin Fragile
              => process[worker["requested"][h].upload] # "COMPLETED"

\* "should skip a replay when the process is already completed": under the
\* same conditions no delivery takes COMPLETED from a process.
CompletedProcessStays ==
    [][\A u \in Upload \ Fragile : process[u] = "COMPLETED" => process'[u] = "COMPLETED"]_vars

-----------------------------------------------------------------------------
(* What a patient client is promised.                                      *)

\* Whatever fails and is tried again, the reads and whole-row saves of the
\* use cases and the subscribers keep every attempt on the path the domain
\* guards draw. Only an attempt that may be answered twice leaves it, and
\* never for PENDING again, nor from CANCELLED.
Attempt == INSTANCE UploadAttempt
FollowsLifecycle == Attempt!Spec

\* The inductive invariant behind it, which adds to PatientInv below: an
\* attempt that is being processed has one message or handler at most that
\* is still to answer it, and any other has none, unless its answer may be
\* repeated.
Holds(q, h, u) == worker[q][h] # Idle /\ worker[q][h].at # "cleanup" /\ worker[q][h].upload = u

OneAnswerFor(u) ==
    \A p \in Queues :
        /\ queue[p][u] <= 1
        /\ queue[p][u] > 0 =>
              /\ status[u] = "PROCESSING"
              /\ \A q \in Queues : queue[q][u] > 0 => q = p
              /\ \A q \in Queues, h \in Handler : ~Holds(q, h, u)
        /\ \A g \in Handler : Holds(p, g, u) =>
              /\ status[u] = "PROCESSING"
              /\ \A q \in Queues, h \in Handler : Holds(q, h, u) => q = p /\ h = g

OneAnswer == \A u \in Upload \ repeated : OneAnswerFor(u)

\* What a confirmation has read is still the status of its attempt.
ReadIsCurrent(k) ==
    /\ k.at = "confirm" => status[k.upload] \in Processable
    /\ k.at \in {"exists", "process"} =>
          status[k.upload] \in Processable /\ k.status = status[k.upload]

ConfirmsWhatItRead ==
    \A c \in Slot :
        call[c].at \in {"confirm", "exists", "process"} /\ call[c].upload \notin repeated
            => ReadIsCurrent(call[c])

LifecycleInv == OneAnswer /\ ConfirmsWhatItRead

\* The active attempt gives way only to a newly requested one or to its own
\* cancellation, although every save of the SongInstrument writes the column
\* from an earlier read.
ActiveAttemptChanges ==
    [][row'.active # row.active =>
          \/ row'.active # NoUpload /\ status[row'.active] = "absent"
          \/ row'.active = NoUpload /\ status[row.active] = "CANCELLED"]_vars

\* The inductive invariant behind it, for any number of slots, handlers and
\* failures.
Live(u) == status[u] \notin {"absent", "PENDING", "CANCELLED"}

OneCall == \A c, d \in Slot : call[c] # Idle /\ call[d] # Idle => c = d

OutstandingIsLive == \A q \in Queues, u \in Upload : Outstanding(q, u) => Live(u)

\* What the call in slot c has read still holds when it acts on it.
StillHolds(c) ==
    /\ call[c].at \in {"confirm", "exists", "process"} =>
          status[call[c].upload] \notin {"absent", "CANCELLED"}
    /\ call[c].at \in {"cancel", "look", "delete", "cancelled"} => call[c].row = row
    /\ call[c].at \in {"look", "delete", "cancelled"} => status[call[c].upload] = "PENDING"
    /\ call[c].at = "row" =>
          \/ call[c].row.active = row.active
          \/ /\ call[c].row.active = NoUpload
             /\ row.active # NoUpload
             /\ status[row.active] = "CANCELLED"

PatientInv == TypeOK /\ OneCall /\ OutstandingIsLive /\ \A c \in Slot : StillHolds(c)

\* However its handlers die and throw, an active attempt that is being
\* processed gets its answer unless another attempt takes its place, a
\* message of it was given up, or its answer was repeated: a second answer
\* can be taken for that of a newer confirmation, which is then no more than
\* a replay.
ActiveSettles ==
    \A u \in Upload :
        (status[u] = "PROCESSING" /\ row.active = u)
            ~> \/ status[u] # "PROCESSING" \/ row.active # u
               \/ u \in stranded \cup repeated

=============================================================================
