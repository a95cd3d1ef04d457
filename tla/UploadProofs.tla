---------------------------- MODULE UploadProofs ----------------------------
(***************************************************************************)
(* What holds of the upload attempts for every number of attempts, calls   *)
(* in flight, handlers and failures.                                       *)
(***************************************************************************)
EXTENDS UploadLifecycle, TLAPS

\* Most steps leave these alone.
USE DEF failures

-----------------------------------------------------------------------------
(* The records of the calls and of the handlers.                           *)

LEMMA CallShape ==
    ASSUME NEW k \in Calls
    PROVE  /\ k.at = "confirm" => k \in [at : {"confirm"}, upload : Upload]
           /\ k.at \in {"exists", "process"} =>
                k \in [at : {"exists", "process"}, upload : Upload, status : Statuses]
           /\ k.at \in {"cancel", "look", "delete", "cancelled"} =>
                k \in [at : {"cancel", "look", "delete", "cancelled"}, upload : Upload, row : Rows]
           /\ k.at = "row" => k \in [at : {"row"}, row : Rows]
BY DEF Calls

LEMMA WorkShape ==
    ASSUME NEW w \in Works
    PROVE  /\ w # Idle => w.upload \in Upload
           /\ w.at \in {"read", "download", "validate", "missing", "reject", "undo", "cleanup"} =>
                w \in [at : {"read", "download", "validate", "missing", "reject", "undo", "cleanup"},
                       upload : Upload]
           /\ w.at \in {"row", "save"} =>
                w \in [at : {"row", "save"}, upload : Upload, status : Statuses]
           /\ w.at # "idle" => w # Idle
BY DEF Works, Idle

LEMMA IdleTypes == Idle \in Calls /\ Idle \in Works
BY DEF Calls, Works, Idle

LEMMA AwaitType ==
    ASSUME TypeOK, NEW c \in Slot, NEW k \in Calls, Await(c, k)
    PROVE  /\ call' \in [Slot -> Calls]
           /\ call'[c] = k
           /\ \A d \in Slot : d # c => call'[d] = call[d]
BY DEF TypeOK, Await

LEMMA GotoType ==
    ASSUME TypeOK, NEW q \in Queues, NEW h \in Handler, NEW w \in Works, Goto(q, h, w)
    PROVE  /\ worker' \in [Queues -> [Handler -> Works]]
           /\ worker'[q][h] = w
           /\ \A p \in Queues, g \in Handler : p # q \/ g # h => worker'[p][g] = worker[p][g]
BY DEF TypeOK, Goto

LEMMA SendType ==
    ASSUME TypeOK, NEW q \in Queues, NEW u \in Upload, Send(q, u)
    PROVE  /\ queue' \in [Queues -> [Upload -> Nat]]
           /\ \A p \in Queues, v \in Upload :
                 queue'[p][v] > 0 => queue[p][v] > 0 \/ (p = q /\ v = u)
BY DEF TypeOK, Send

LEMMA TakeType ==
    ASSUME TypeOK, NEW q \in Queues, NEW u \in Upload, queue[q][u] > 0,
           queue' = [queue EXCEPT ![q][u] = @ - 1]
    PROVE  /\ queue' \in [Queues -> [Upload -> Nat]]
           /\ \A p \in Queues, v \in Upload : queue'[p][v] > 0 => queue[p][v] > 0
BY DEF TypeOK

\* A failure of an attempt's handler, or of a call.
LEMMA FaultType ==
    ASSUME TypeOK, Fault,
           \/ Retries
           \/ \E u \in Upload : Repeats(u)
           \/ \E u \in Upload : stranded' = stranded \cup {u} /\ UNCHANGED repeated
    PROVE  /\ faults' \in 0..MaxFaults
           /\ repeated' \in SUBSET Upload
           /\ stranded' \in SUBSET Upload
           /\ repeated \subseteq repeated'
<1>1. faults' \in 0..MaxFaults
  BY BoundsAssumption DEF Fault, TypeOK
<1>2. CASE Retries
  BY <1>1, <1>2 DEF Retries, TypeOK
<1>3. ASSUME NEW u \in Upload, Repeats(u)
      PROVE  repeated' \in SUBSET Upload /\ stranded' \in SUBSET Upload /\ repeated \subseteq repeated'
  BY <1>3 DEF Repeats, TypeOK
<1>4. ASSUME NEW u \in Upload, stranded' = stranded \cup {u}, UNCHANGED repeated
      PROVE  repeated' \in SUBSET Upload /\ stranded' \in SUBSET Upload /\ repeated \subseteq repeated'
  BY <1>4 DEF TypeOK
<1>. QED
  BY <1>1, <1>2, <1>3, <1>4

\* A call takes effect in the slot it was made in.
LEMMA BeginType ==
    ASSUME TypeOK, NEW c \in Slot, NEW k \in Calls, Begin(c, k)
    PROVE  TypeOK'
<1>1. call' \in [Slot -> Calls]
  BY AwaitType DEF Begin
<1>2. calls' \in 0..MaxCalls
  BY BoundsAssumption DEF Begin, TypeOK
<1>. QED
  BY <1>1, <1>2 DEF Begin, TypeOK, rowVars

LEMMA NewCallType ==
    ASSUME TypeOK, NEW c \in Slot, NewCall(c)
    PROVE  TypeOK'
<1>1. ASSUME NEW m \in Musician, Request(c, m) PROVE TypeOK'
  <2>1. [at |-> "create"] \in Calls
    BY DEF Calls
  <2>. QED
    BY <1>1, <2>1, BeginType DEF Request
<1>2. ASSUME NEW m \in Musician, Assign(c, m) PROVE TypeOK'
  <2>1. [row EXCEPT !.musician = m] \in Rows
    BY DEF TypeOK, Rows
  <2>2. [at |-> "row", row |-> [row EXCEPT !.musician = m]] \in Calls
    BY <2>1 DEF Calls
  <2>. QED
    BY <1>2, <2>2, BeginType DEF Assign
<1>3. ASSUME NEW m \in Musician, NEW u \in Upload, Confirm(c, m, u) PROVE TypeOK'
  <2>1. [at |-> "confirm", upload |-> u] \in Calls
    BY DEF Calls
  <2>. QED
    BY <1>3, <2>1, BeginType DEF Confirm
<1>4. ASSUME NEW m \in Musician, NEW u \in Upload, Cancel(c, m, u) PROVE TypeOK'
  <2>1. [at |-> "cancel", upload |-> u, row |-> row] \in Calls
    BY DEF Calls, TypeOK
  <2>. QED
    BY <1>4, <2>1, BeginType DEF Cancel
<1>5. ASSUME Edit(c) PROVE TypeOK'
  <2>1. [at |-> "row", row |-> row] \in Calls
    BY DEF Calls, TypeOK
  <2>. QED
    BY <1>5, <2>1, BeginType DEF Edit
<1>. QED
  BY <1>1, <1>2, <1>3, <1>4, <1>5 DEF NewCall

LEMMA CallStepType ==
    ASSUME TypeOK, NEW c \in Slot, CallSteps(c)
    PROVE  TypeOK'
<1>. USE DEF Silent, rowVars
<1>0. call[c] \in Calls
  BY DEF TypeOK
<1>1. CASE RequestSave(c)
  <2>1. call' \in [Slot -> Calls]
    BY <1>1, AwaitType, IdleTypes DEF RequestSave, Return
  <2>. QED
    BY <1>1, <2>1 DEF RequestSave, TypeOK, Statuses, Rows
<1>2. CASE ConfirmRead(c)
  <2>1. call[c].upload \in Upload
    BY <1>0, <1>2, CallShape DEF ConfirmRead
  <2>2. [at |-> "exists", upload |-> call[c].upload, status |-> status[call[c].upload]] \in Calls
    BY <2>1 DEF Calls, TypeOK
  <2>3. call' \in [Slot -> Calls]
    BY <1>2, <2>2, AwaitType DEF ConfirmRead
  <2>. QED
    BY <1>2, <2>3 DEF ConfirmRead, TypeOK
<1>3. CASE ConfirmExists(c)
  <2>1. [call[c] EXCEPT !.at = "process"] \in Calls
    BY <1>0, <1>3, CallShape DEF ConfirmExists, Calls
  <2>2. call' \in [Slot -> Calls]
    BY <1>3, <2>1, AwaitType, IdleTypes DEF ConfirmExists, Return
  <2>. QED
    BY <1>3, <2>2 DEF ConfirmExists, TypeOK
<1>4. CASE ConfirmSave(c)
  <2>1. call[c].upload \in Upload
    BY <1>0, <1>4, CallShape DEF ConfirmSave
  <2>2. call' \in [Slot -> Calls]
    BY <1>4, AwaitType, IdleTypes DEF ConfirmSave, Return
  <2>3. queue' \in [Queues -> [Upload -> Nat]]
    BY <1>4, <2>1, SendType DEF ConfirmSave, Queues, TypeOK
  <2>. QED
    BY <1>4, <2>1, <2>2, <2>3 DEF ConfirmSave, TypeOK, Statuses
<1>5. CASE CancelRead(c)
  <2>1. [call[c] EXCEPT !.at = "look"] \in Calls
    BY <1>0, <1>5, CallShape DEF CancelRead, Calls
  <2>2. call' \in [Slot -> Calls]
    BY <1>5, <2>1, AwaitType, IdleTypes DEF CancelRead, Return
  <2>. QED
    BY <1>5, <2>2 DEF CancelRead, TypeOK
<1>6. CASE CancelExists(c)
  <2>1. /\ [call[c] EXCEPT !.at = "delete"] \in Calls
        /\ [call[c] EXCEPT !.at = "cancelled"] \in Calls
    BY <1>0, <1>6, CallShape DEF CancelExists, Calls
  <2>2. call' \in [Slot -> Calls]
    BY <1>6, <2>1, AwaitType DEF CancelExists
  <2>. QED
    BY <1>6, <2>2 DEF CancelExists, TypeOK
<1>7. CASE CancelDelete(c)
  <2>1. [call[c] EXCEPT !.at = "cancelled"] \in Calls
    BY <1>0, <1>7, CallShape DEF CancelDelete, Calls
  <2>2. call' \in [Slot -> Calls]
    BY <1>7, <2>1, AwaitType DEF CancelDelete
  <2>. QED
    BY <1>7, <2>2 DEF CancelDelete, TypeOK
<1>8. CASE CancelSaveUpload(c)
  <2>1. call[c].upload \in Upload /\ call[c].row \in Rows
    BY <1>0, <1>8, CallShape DEF CancelSaveUpload
  <2>2. [call[c].row EXCEPT !.active = Cleared(call[c].row, call[c].upload)] \in Rows
    BY <2>1 DEF Rows, Cleared
  <2>3. [at |-> "row", row |-> [call[c].row EXCEPT !.active = Cleared(call[c].row, call[c].upload)]]
          \in Calls
    BY <2>2 DEF Calls
  <2>4. call' \in [Slot -> Calls]
    BY <1>8, <2>3, AwaitType DEF CancelSaveUpload
  <2>. QED
    BY <1>8, <2>1, <2>4 DEF CancelSaveUpload, TypeOK, Statuses
<1>9. CASE SaveRow(c)
  <2>1. call[c].row \in Rows
    BY <1>0, <1>9, CallShape DEF SaveRow
  <2>2. call' \in [Slot -> Calls]
    BY <1>9, AwaitType, IdleTypes DEF SaveRow, Return
  <2>. QED
    BY <1>9, <2>1, <2>2 DEF SaveRow, TypeOK
<1>. QED
  BY <1>1, <1>2, <1>3, <1>4, <1>5, <1>6, <1>7, <1>8, <1>9 DEF CallSteps

-----------------------------------------------------------------------------
(* The handlers, with the messages outstanding before and after each step. *)

\* The steps that only read, or delete the durable object.
Reading(q, h) ==
    \/ UpdateRead(q, h) \/ UpdateDecide(q, h)
    \/ ValidateRead(h) \/ ValidateDownload(h) \/ ValidateMissing(h) \/ ValidateCleanup(h)
    \/ ReplayCheckFails(h)

\* The steps that save the process.
Answering(h) == ValidateReject(h) \/ ValidateAnswer(h) \/ CompletionUnacknowledged(h)

\* The failures that put a message back or give it up.
Failing(q, h) ==
    \/ HandlerFails(q, h) \/ DeadLetters(q, h) \/ Redeliver(q, h)
    \/ q = "requested" /\ ValidateFails(h)

NothingNew == \A p \in Queues, v \in Upload : Outstanding(p, v)' => Outstanding(p, v)

OnlyNew(q, u) ==
    \A p \in Queues, v \in Upload :
        Outstanding(p, v)' => Outstanding(p, v) \/ (p = q /\ v = u)

\* The upload of a busy handler is outstanding.
LEMMA WorkIsOutstanding ==
    ASSUME TypeOK, NEW q \in Queues, NEW h \in Handler, worker[q][h].at # "idle"
    PROVE  /\ Work(q, h) \in Upload
           /\ worker[q][h] \in Works /\ worker[q][h] # Idle
           /\ Outstanding(q, Work(q, h))
<1>1. worker[q][h] \in Works
  BY DEF TypeOK
<1>. QED
  BY <1>1, WorkShape DEF Work, Outstanding

\* A handler that ends or stays with its upload brings nothing new.
LEMMA GotoOutstanding ==
    ASSUME TypeOK, NEW q \in Queues, NEW h \in Handler, NEW w \in Works, Goto(q, h, w),
           UNCHANGED queue,
           w = Idle \/ (worker[q][h] # Idle /\ w.upload = Work(q, h))
    PROVE  worker' \in [Queues -> [Handler -> Works]] /\ NothingNew
<1>1. /\ worker' \in [Queues -> [Handler -> Works]]
      /\ worker'[q][h] = w
      /\ \A p \in Queues, g \in Handler : p # q \/ g # h => worker'[p][g] = worker[p][g]
  BY GotoType
<1>2. ASSUME NEW p \in Queues, NEW v \in Upload, NEW g \in Handler,
             worker'[p][g] # Idle /\ worker'[p][g].upload = v
      PROVE  Outstanding(p, v)
  BY <1>1, <1>2 DEF Outstanding, Work
<1>. QED
  BY <1>1, <1>2 DEF NothingNew, Outstanding

\* The same when the handler sends a message to a queue.
LEMMA GotoSendOutstanding ==
    ASSUME TypeOK, NEW q \in Queues, NEW h \in Handler, NEW w \in Works, Goto(q, h, w),
           NEW p \in Queues, NEW u \in Upload, Send(p, u),
           w = Idle \/ (worker[q][h] # Idle /\ w.upload = Work(q, h))
    PROVE  /\ worker' \in [Queues -> [Handler -> Works]]
           /\ queue' \in [Queues -> [Upload -> Nat]]
           /\ OnlyNew(p, u)
<1>1. /\ worker' \in [Queues -> [Handler -> Works]]
      /\ worker'[q][h] = w
      /\ \A r \in Queues, g \in Handler : r # q \/ g # h => worker'[r][g] = worker[r][g]
  BY GotoType
<1>2. /\ queue' \in [Queues -> [Upload -> Nat]]
      /\ \A r \in Queues, v \in Upload :
            queue'[r][v] > 0 => queue[r][v] > 0 \/ (r = p /\ v = u)
  BY SendType
<1>3. ASSUME NEW r \in Queues, NEW v \in Upload, NEW g \in Handler,
             worker'[r][g] # Idle /\ worker'[r][g].upload = v
      PROVE  Outstanding(r, v)
  BY <1>1, <1>3 DEF Outstanding, Work
<1>. QED
  BY <1>1, <1>2, <1>3 DEF OnlyNew, Outstanding

LEMMA StepEffect ==
    ASSUME TypeOK, NEW q \in Queues, NEW h \in Handler, worker[q][h].at # "idle",
           NEW step, [worker[q][h] EXCEPT !.at = step] \in Works,
           Step(q, h, step) \/ Ack(q, h)
    PROVE  TypeOK' /\ NothingNew
<1>1. worker[q][h] \in Works /\ worker[q][h] # Idle
  BY WorkIsOutstanding
<1>2. [worker[q][h] EXCEPT !.at = step].upload = Work(q, h)
  BY <1>1 DEF Works, Idle, Work
<1>3. worker' \in [Queues -> [Handler -> Works]] /\ NothingNew
  BY <1>1, <1>2, GotoOutstanding, IdleTypes DEF Step, Ack
<1>. QED
  BY <1>3 DEF Step, Ack, TypeOK, rowVars

LEMMA TakeEffect ==
    ASSUME TypeOK, NEW q \in Queues, NEW h \in Handler, NEW u \in Upload, Take(q, h, u)
    PROVE  TypeOK' /\ NothingNew
<1>1. [at |-> "read", upload |-> u] \in Works
  BY DEF Works
<1>2. /\ worker' \in [Queues -> [Handler -> Works]]
      /\ worker'[q][h] = [at |-> "read", upload |-> u]
      /\ \A p \in Queues, g \in Handler : p # q \/ g # h => worker'[p][g] = worker[p][g]
  BY <1>1, GotoType DEF Take
<1>3. /\ queue' \in [Queues -> [Upload -> Nat]]
      /\ \A p \in Queues, v \in Upload : queue'[p][v] > 0 => queue[p][v] > 0
  BY TakeType DEF Take
<1>4. ASSUME NEW p \in Queues, NEW v \in Upload, NEW g \in Handler,
             worker'[p][g] # Idle /\ worker'[p][g].upload = v
      PROVE  Outstanding(p, v)
  BY <1>2, <1>4 DEF Outstanding, Take
<1>5. NothingNew
  BY <1>3, <1>4 DEF NothingNew, Outstanding
<1>. QED
  BY <1>2, <1>3, <1>5 DEF Take, TypeOK, rowVars

LEMMA ReadingEffect ==
    ASSUME TypeOK, NEW q \in Queues, NEW h \in Handler, Reading(q, h)
    PROVE  TypeOK' /\ NothingNew /\ UNCHANGED <<row, status, process, call>>
<1>0. "requested" \in Queues
  BY DEF Queues
<1>1. CASE UpdateRead(q, h)
  <2>1. worker[q][h].at = "read"
    BY <1>1 DEF UpdateRead, At
  <2>2. Work(q, h) \in Upload /\ worker[q][h] # Idle
    BY <2>1, WorkIsOutstanding
  <2>3. [at |-> "row", upload |-> Work(q, h), status |-> status[Work(q, h)]] \in Works
    BY <2>2 DEF Works, TypeOK
  <2>4. worker' \in [Queues -> [Handler -> Works]] /\ NothingNew
    BY <1>1, <2>2, <2>3, GotoOutstanding DEF UpdateRead
  <2>. QED
    BY <1>1, <2>4 DEF UpdateRead, TypeOK, rowVars
<1>2. CASE UpdateDecide(q, h)
  <2>1. worker[q][h].at = "row" /\ worker[q][h] \in Works
    BY <1>2 DEF UpdateDecide, At, TypeOK
  <2>2. [worker[q][h] EXCEPT !.at = "save"] \in Works
    BY <2>1, WorkShape DEF Works
  <2>3. Step(q, h, "save") \/ Ack(q, h)
    BY <1>2 DEF UpdateDecide
  <2>4. TypeOK' /\ NothingNew
    BY <2>1, <2>2, <2>3, StepEffect
  <2>. QED
    BY <2>3, <2>4 DEF Step, Ack, rowVars
<1>3. ASSUME NEW step \in {"download", "validate", "missing", "reject"},
             worker["requested"][h].at \in {"read", "download", "missing"},
             Step("requested", h, step) \/ Ack("requested", h)
      PROVE  TypeOK' /\ NothingNew /\ UNCHANGED <<row, status, process, call>>
  <2>1. worker["requested"][h] \in Works
    BY <1>0 DEF TypeOK
  <2>2. [worker["requested"][h] EXCEPT !.at = step] \in Works
    BY <1>3, <2>1, WorkShape DEF Works
  <2>3. TypeOK' /\ NothingNew
    BY <1>0, <1>3, <2>2, StepEffect
  <2>. QED
    BY <1>3, <2>3 DEF Step, Ack, rowVars
<1>4. CASE ValidateRead(h)
  BY <1>3, <1>4 DEF ValidateRead, At
<1>5. CASE ValidateDownload(h)
  BY <1>3, <1>5 DEF ValidateDownload, At
<1>6. CASE ValidateMissing(h)
  BY <1>3, <1>6 DEF ValidateMissing, At
<1>7. CASE ValidateCleanup(h)
  <2>1. worker' \in [Queues -> [Handler -> Works]] /\ NothingNew
    BY <1>0, <1>7, GotoOutstanding, IdleTypes DEF ValidateCleanup
  <2>. QED
    BY <1>7, <2>1 DEF ValidateCleanup, TypeOK
<1>8. CASE ReplayCheckFails(h)
  <2>1. worker["requested"][h].at \in {"read", "missing"} /\ worker["requested"][h] \in Works
    BY <1>0, <1>8 DEF ReplayCheckFails, At, TypeOK
  <2>2. /\ [worker["requested"][h] EXCEPT !.at = "reject"] \in Works
        /\ [worker["requested"][h] EXCEPT !.at = "reject"].upload = Work("requested", h)
        /\ worker["requested"][h] # Idle
    BY <2>1, WorkShape DEF Works, Work
  <2>3. worker' \in [Queues -> [Handler -> Works]] /\ NothingNew
    BY <1>0, <1>8, <2>2, GotoOutstanding DEF ReplayCheckFails
  <2>4. faults' \in 0..MaxFaults /\ repeated' \in SUBSET Upload /\ stranded' \in SUBSET Upload
    BY <1>8, FaultType DEF ReplayCheckFails
  <2>. QED
    BY <1>8, <2>3, <2>4 DEF ReplayCheckFails, TypeOK, rowVars
<1>. QED
  BY <1>1, <1>2, <1>4, <1>5, <1>6, <1>7, <1>8 DEF Reading

\* An answer: the process row and a message to one of the two updaters.
LEMMA AnswerEffect ==
    ASSUME TypeOK, NEW h \in Handler, Answering(h)
    PROVE  /\ TypeOK'
           /\ Work("requested", h) \in Upload
           /\ Outstanding("requested", Work("requested", h))
           /\ \E outcome \in {"COMPLETED", "FAILED"} :
                 /\ process' = [process EXCEPT ![Work("requested", h)] = outcome]
                 /\ OnlyNew(IF outcome = "COMPLETED" THEN "completed" ELSE "failed",
                            Work("requested", h))
           /\ UNCHANGED <<row, status, call>>
<1>0. "requested" \in Queues /\ "completed" \in Queues /\ "failed" \in Queues
  BY DEF Queues
<1>1. worker["requested"][h].at \in {"reject", "undo", "validate"}
  BY DEF Answering, ValidateReject, ValidateAnswer, CompletionUnacknowledged, At
<1>2. /\ Work("requested", h) \in Upload
      /\ worker["requested"][h] \in Works /\ worker["requested"][h] # Idle
      /\ Outstanding("requested", Work("requested", h))
  BY <1>0, <1>1, WorkIsOutstanding
<1>3. PICK outcome \in {"COMPLETED", "FAILED"} : Answer(Work("requested", h), outcome)
  BY DEF Answering, ValidateReject, ValidateAnswer, CompletionUnacknowledged
<1>4. PICK w \in Works :
        /\ Goto("requested", h, w)
        /\ w = Idle \/ w.upload = Work("requested", h)
  <2>1. ASSUME NEW step \in {"undo", "cleanup"}
        PROVE  /\ [worker["requested"][h] EXCEPT !.at = step] \in Works
               /\ [worker["requested"][h] EXCEPT !.at = step].upload = Work("requested", h)
    BY <1>1, <1>2, WorkShape DEF Works, Work
  <2>2. \/ Goto("requested", h, Idle)
        \/ Goto("requested", h, [worker["requested"][h] EXCEPT !.at = "cleanup"])
        \/ Goto("requested", h, [worker["requested"][h] EXCEPT !.at = "undo"])
    BY DEF Answering, ValidateReject, ValidateAnswer, CompletionUnacknowledged
  <2>. QED
    BY <2>1, <2>2, IdleTypes
<1>5. /\ worker' \in [Queues -> [Handler -> Works]]
      /\ queue' \in [Queues -> [Upload -> Nat]]
      /\ OnlyNew(IF outcome = "COMPLETED" THEN "completed" ELSE "failed", Work("requested", h))
  <2>1. PICK p \in Queues : p = IF outcome = "COMPLETED" THEN "completed" ELSE "failed"
    BY <1>0
  <2>2. PICK u \in Upload : u = Work("requested", h)
    BY <1>2
  <2>3. Send(p, u)
    BY <1>3, <2>1, <2>2 DEF Answer
  <2>4. /\ worker' \in [Queues -> [Handler -> Works]]
        /\ queue' \in [Queues -> [Upload -> Nat]]
        /\ OnlyNew(p, u)
    BY <1>0, <1>2, <1>4, <2>3, GotoSendOutstanding
  <2>. QED
    BY <2>1, <2>2, <2>4 DEF OnlyNew
<1>6. faults' \in 0..MaxFaults /\ repeated' \in SUBSET Upload /\ stranded' \in SUBSET Upload
  <2>1. CASE CompletionUnacknowledged(h)
    BY <1>2, <2>1, FaultType DEF CompletionUnacknowledged
  <2>2. CASE UNCHANGED failures
    BY <2>2 DEF TypeOK
  <2>. QED
    BY <2>1, <2>2 DEF Answering, ValidateReject, ValidateAnswer
<1>7. TypeOK'
  BY <1>2, <1>3, <1>5, <1>6 DEF Answer, TypeOK
<1>. QED
  BY <1>2, <1>3, <1>5, <1>7 DEF Answer

LEMMA UpdateSaveEffect ==
    ASSUME TypeOK, NEW q \in Queues, NEW h \in Handler, UpdateSave(q, h)
    PROVE  /\ TypeOK' /\ NothingNew
           /\ Work(q, h) \in Upload /\ Outstanding(q, Work(q, h))
<1>1. Work(q, h) \in Upload /\ Outstanding(q, Work(q, h))
  BY WorkIsOutstanding DEF UpdateSave, At
<1>2. worker' \in [Queues -> [Handler -> Works]] /\ NothingNew
  BY GotoOutstanding, IdleTypes DEF UpdateSave
<1>. QED
  BY <1>1, <1>2 DEF UpdateSave, TypeOK, Statuses

\* A failure only puts back what was outstanding, or drops it.
LEMMA FailureEffect ==
    ASSUME TypeOK, NEW q \in Queues, NEW h \in Handler, Failing(q, h)
    PROVE  /\ TypeOK' /\ NothingNew /\ UNCHANGED <<row, status, process, call>>
           /\ repeated \subseteq repeated'
<1>1. worker[q][h] \in Works /\ worker[q][h] # Idle
  BY WorkIsOutstanding DEF Failing, HandlerFails, DeadLetters, Redeliver, ValidateFails, At, TypeOK
<1>2. Work(q, h) \in Upload /\ Outstanding(q, Work(q, h))
  BY <1>1, WorkShape DEF Outstanding, Work
<1>3. /\ UNCHANGED <<row, status, process, call, calls>> /\ stored' \subseteq Upload
      /\ Fault
      /\ \/ Retries
         \/ Repeats(Work(q, h))
         \/ stranded' = stranded \cup {Work(q, h)} /\ UNCHANGED repeated
  BY DEF Failing, HandlerFails, DeadLetters, Redeliver, ValidateFails, rowVars, TypeOK
<1>4. /\ faults' \in 0..MaxFaults /\ repeated' \in SUBSET Upload /\ stranded' \in SUBSET Upload
      /\ repeated \subseteq repeated'
  BY <1>2, <1>3, FaultType
<1>5. CASE Send(q, Work(q, h)) /\ UNCHANGED worker
  <2>1. /\ queue' \in [Queues -> [Upload -> Nat]]
        /\ \A p \in Queues, v \in Upload :
              queue'[p][v] > 0 => queue[p][v] > 0 \/ (p = q /\ v = Work(q, h))
    BY <1>2, <1>5, SendType
  <2>2. NothingNew
    BY <1>2, <1>5, <2>1 DEF NothingNew, Outstanding
  <2>. QED
    BY <1>3, <1>4, <1>5, <2>1, <2>2 DEF TypeOK
<1>6. CASE Send(q, Work(q, h)) /\ Goto(q, h, Idle)
  <2>1. /\ worker' \in [Queues -> [Handler -> Works]]
        /\ queue' \in [Queues -> [Upload -> Nat]]
        /\ OnlyNew(q, Work(q, h))
    BY <1>2, <1>6, GotoSendOutstanding, IdleTypes
  <2>2. NothingNew
    BY <1>2, <2>1 DEF NothingNew, OnlyNew
  <2>. QED
    BY <1>3, <1>4, <2>1, <2>2 DEF TypeOK
<1>7. CASE UNCHANGED queue /\ Goto(q, h, Idle)
  <2>1. worker' \in [Queues -> [Handler -> Works]] /\ NothingNew
    BY <1>7, GotoOutstanding, IdleTypes
  <2>. QED
    BY <1>3, <1>4, <1>7, <2>1 DEF TypeOK
<1>. QED
  BY <1>5, <1>6, <1>7 DEF Failing, HandlerFails, DeadLetters, Redeliver, ValidateFails

-----------------------------------------------------------------------------
(* The calls, with what each leaves alone.                                 *)

LEMMA NewCallEffect ==
    ASSUME TypeOK, NEW c \in Slot, NewCall(c)
    PROVE  TypeOK' /\ NothingNew /\ UNCHANGED <<row, status, process, queue, worker>>
<1>1. UNCHANGED <<row, status, process, queue, worker>>
  BY DEF NewCall, Request, Assign, Confirm, Cancel, Edit, Begin, rowVars
<1>2. NothingNew
  BY <1>1 DEF NothingNew, Outstanding
<1>. QED
  BY <1>1, <1>2, NewCallType

LEMMA CallFailsEffect ==
    ASSUME TypeOK, NEW c \in Slot, CallFails(c)
    PROVE  /\ TypeOK' /\ NothingNew
           /\ UNCHANGED <<row, status, process, queue, worker>>
<1>1. call' \in [Slot -> Calls]
  BY AwaitType, IdleTypes DEF CallFails, Return
<1>2. faults' \in 0..MaxFaults /\ repeated' \in SUBSET Upload /\ stranded' \in SUBSET Upload
  BY FaultType DEF CallFails
<1>3. UNCHANGED <<row, status, process, queue, worker>>
  BY DEF CallFails, rowVars
<1>4. NothingNew
  BY <1>3 DEF NothingNew, Outstanding
<1>. QED
  BY <1>1, <1>2, <1>3, <1>4 DEF CallFails, TypeOK, rowVars

LEMMA CallEffect ==
    ASSUME TypeOK, NEW c \in Slot, CallSteps(c)
    PROVE  /\ TypeOK'
           /\ UNCHANGED <<process, worker>>
           /\ ConfirmSave(c) => call[c].upload \in Upload /\ OnlyNew("requested", call[c].upload)
           /\ ~ConfirmSave(c) => NothingNew
<1>. USE DEF Silent, rowVars
<1>1. UNCHANGED <<process, worker>>
  BY DEF CallSteps, RequestSave, ConfirmRead, ConfirmExists, ConfirmSave, CancelRead,
         CancelExists, CancelDelete, CancelSaveUpload, SaveRow
<1>2. CASE ConfirmSave(c)
  <2>1. call[c].upload \in Upload
    BY <1>2, CallShape DEF ConfirmSave, TypeOK
  <2>0. UNCHANGED worker
    BY <1>1
  <2>2. ASSUME UNCHANGED queue PROVE OnlyNew("requested", call[c].upload)
    <3>1. \A p \in Queues, v \in Upload : Outstanding(p, v)' => Outstanding(p, v)
      BY <2>0, <2>2 DEF Outstanding
    <3>. QED
      BY <2>1, <3>1 DEF OnlyNew
  <2>3. ASSUME Send("requested", call[c].upload) PROVE OnlyNew("requested", call[c].upload)
    <3>1. \A p \in Queues, v \in Upload :
              queue'[p][v] > 0 => queue[p][v] > 0 \/ (p = "requested" /\ v = call[c].upload)
      BY <2>1, <2>3, SendType DEF Queues
    <3>2. \A p \in Queues, v \in Upload :
              Outstanding(p, v)' => Outstanding(p, v) \/ (p = "requested" /\ v = call[c].upload)
      BY <2>0, <3>1 DEF Outstanding
    <3>. QED
      BY <2>1, <3>2 DEF OnlyNew
  <2>4. OnlyNew("requested", call[c].upload)
    BY <1>2, <2>2, <2>3 DEF ConfirmSave
  <2>. QED
    BY <1>1, <1>2, <2>1, <2>4, CallStepType
<1>3. CASE ~ConfirmSave(c)
  <2>1. UNCHANGED queue
    BY <1>3 DEF CallSteps, RequestSave, ConfirmRead, ConfirmExists, CancelRead,
                CancelExists, CancelDelete, CancelSaveUpload, SaveRow
  <2>2. NothingNew
    BY <1>1, <2>1 DEF NothingNew, Outstanding
  <2>. QED
    BY <1>1, <1>3, <2>2, CallStepType
<1>. QED
  BY <1>2, <1>3

-----------------------------------------------------------------------------
(* An attempt is processed only after it was confirmed.                    *)

LEMMA InitUploadInv == Init => UploadInv
<1>. SUFFICES ASSUME Init PROVE UploadInv
  OBVIOUS
<1>1. TypeOK
  BY IdleTypes, BoundsAssumption DEF Init, TypeOK, Rows, Statuses
<1>2. \A q \in Queues, u \in Upload : ~Outstanding(q, u)
  BY DEF Init, Outstanding
<1>. QED
  BY <1>1, <1>2 DEF UploadInv, RequestedWasConfirmed, ProcessedWasConfirmed, Init, Queues

\* What a step may do to an attempt that was not confirmed yet: nothing but
\* make it PENDING, or confirm or cancel it.
LEMMA ConfirmationStep ==
    ASSUME UploadInv, TypeOK',
           \A u \in Upload : Confirmed(u) => Confirmed(u)',
           \A u \in Upload :
              Outstanding("requested", u)' => Outstanding("requested", u) \/ Confirmed(u)',
           \A u \in Upload :
              process'[u] # "none" => process[u] # "none" \/ Outstanding("requested", u)
    PROVE  UploadInv'
BY DEF UploadInv, RequestedWasConfirmed, ProcessedWasConfirmed

LEMMA CallUploadInv ==
    ASSUME UploadInv, NEW c \in Slot, CallSteps(c)
    PROVE  UploadInv'
<1>. USE DEF UploadInv, Silent, rowVars
<1>0. TypeOK' /\ "requested" \in Queues /\ UNCHANGED process
  BY CallEffect DEF Queues
<1>1. CASE RequestSave(c)
  <2>1. NothingNew
    BY <1>1, CallEffect DEF RequestSave, ConfirmSave
  <2>2. \A u \in Upload : Confirmed(u) => Confirmed(u)'
    BY <1>1 DEF RequestSave, Confirmed, TypeOK
  <2>. QED
    BY <1>0, <2>1, <2>2, ConfirmationStep DEF NothingNew
<1>2. CASE ConfirmSave(c)
  <2>1. call[c].upload \in Upload /\ OnlyNew("requested", call[c].upload)
    BY <1>2, CallEffect
  <2>2. \A u \in Upload : Confirmed(u) \/ u = call[c].upload => Confirmed(u)'
    BY <1>2, <2>1 DEF ConfirmSave, Confirmed, TypeOK
  <2>. QED
    BY <1>0, <2>1, <2>2, ConfirmationStep DEF OnlyNew
<1>3. CASE CancelSaveUpload(c)
  <2>1. NothingNew
    BY <1>3, CallEffect DEF CancelSaveUpload, ConfirmSave
  <2>2. \A u \in Upload : Confirmed(u) => Confirmed(u)'
    BY <1>3 DEF CancelSaveUpload, Confirmed, TypeOK
  <2>. QED
    BY <1>0, <2>1, <2>2, ConfirmationStep DEF NothingNew
<1>4. CASE \/ ConfirmRead(c) \/ ConfirmExists(c) \/ CancelRead(c) \/ CancelExists(c)
           \/ CancelDelete(c) \/ SaveRow(c)
  <2>1. NothingNew
    BY <1>4, CallEffect DEF ConfirmRead, ConfirmExists, CancelRead, CancelExists, CancelDelete,
                            SaveRow, ConfirmSave
  <2>2. UNCHANGED status
    BY <1>4 DEF ConfirmRead, ConfirmExists, CancelRead, CancelExists, CancelDelete, SaveRow
  <2>. QED
    BY <1>0, <2>1, <2>2, ConfirmationStep DEF NothingNew, Confirmed
<1>. QED
  BY <1>1, <1>2, <1>3, <1>4 DEF CallSteps

LEMMA NextUploadInv == UploadInv /\ [Next]_vars => UploadInv'
<1>. SUFFICES ASSUME UploadInv, [Next]_vars PROVE UploadInv'
  OBVIOUS
<1>. USE DEF UploadInv
<1>0. "requested" \in Queues
  BY DEF Queues
<1>1. ASSUME TypeOK', NothingNew, UNCHANGED <<status, process>> PROVE UploadInv'
  BY <1>0, <1>1, ConfirmationStep DEF NothingNew, Confirmed
<1>2. ASSUME NEW c \in Slot, NewCall(c) PROVE UploadInv'
  BY <1>1, <1>2, NewCallEffect
<1>3. ASSUME NEW c \in Slot, CallSteps(c) PROVE UploadInv'
  BY <1>3, CallUploadInv
<1>4. ASSUME NEW u \in Upload, PutFile(u) PROVE UploadInv'
  <2>1. TypeOK' /\ NothingNew
    BY <1>4 DEF PutFile, TypeOK, NothingNew, Outstanding
  <2>. QED
    BY <1>1, <1>4, <2>1 DEF PutFile
<1>5. ASSUME NEW q \in Queues, NEW h \in Handler, NEW u \in Upload, Take(q, h, u) PROVE UploadInv'
  BY <1>1, <1>5, TakeEffect DEF Take, rowVars
<1>6. ASSUME NEW q \in Queues, NEW h \in Handler, Reading(q, h) PROVE UploadInv'
  BY <1>1, <1>6, ReadingEffect
<1>7. ASSUME NEW q \in Queues, NEW h \in Handler, UpdateSave(q, h) PROVE UploadInv'
  <2>1. TypeOK' /\ NothingNew
    BY <1>7, UpdateSaveEffect
  <2>2. \A u \in Upload : Confirmed(u) => Confirmed(u)'
    BY <1>7 DEF UpdateSave, Confirmed, TypeOK
  <2>. QED
    BY <1>0, <1>7, <2>1, <2>2, ConfirmationStep DEF UpdateSave, NothingNew
<1>8. ASSUME NEW h \in Handler, Answering(h) PROVE UploadInv'
  <2>1. PICK outcome \in {"COMPLETED", "FAILED"} :
          /\ process' = [process EXCEPT ![Work("requested", h)] = outcome]
          /\ OnlyNew(IF outcome = "COMPLETED" THEN "completed" ELSE "failed", Work("requested", h))
    BY <1>8, AnswerEffect
  <2>2. TypeOK' /\ UNCHANGED status /\ Outstanding("requested", Work("requested", h))
    BY <1>8, AnswerEffect
  <2>3. \A u \in Upload : Outstanding("requested", u)' => Outstanding("requested", u)
    BY <1>0, <2>1 DEF OnlyNew
  <2>4. \A u \in Upload : process'[u] # "none" => process[u] # "none" \/ Outstanding("requested", u)
    BY <2>1, <2>2 DEF TypeOK
  <2>. QED
    BY <2>2, <2>3, <2>4, ConfirmationStep DEF Confirmed
<1>9. ASSUME NEW q \in Queues, NEW h \in Handler, Failing(q, h) PROVE UploadInv'
  BY <1>1, <1>9, FailureEffect
<1>10. CASE UNCHANGED vars
  <2>1. TypeOK' /\ NothingNew /\ UNCHANGED <<status, process>>
    BY <1>10 DEF vars, rowVars, TypeOK, NothingNew, Outstanding
  <2>. QED
    BY <1>1, <2>1
<1>11. ASSUME NEW c \in Slot, CallFails(c) PROVE UploadInv'
  BY <1>1, <1>11, CallFailsEffect
<1>. QED
  BY <1>0, <1>2, <1>3, <1>4, <1>5, <1>6, <1>7, <1>8, <1>9, <1>10, <1>11
    DEF Next, Environment, HandlerSteps, ValidatorSteps, Faults, ValidatorFaults,
        Reading, Answering, Failing

\* The types and the order of confirmation and processing, however the calls
\* overlap and the messages are delivered again.
THEOREM InvariantCorrect == Spec => []UploadInv
BY InitUploadInv, NextUploadInv, PTL DEF Spec

\* SongInstrumentProcess has no row for an attempt still PENDING.
THEOREM ProcessingFollowsConfirmation == Spec => []ProcessedWasConfirmed
<1>1. UploadInv => ProcessedWasConfirmed
  BY DEF UploadInv
<1>. QED
  BY <1>1, InvariantCorrect, PTL

-----------------------------------------------------------------------------
(* With one handler per queue, COMPLETED attempts have COMPLETED processes. *)

LEMMA CompletionKept ==
    ASSUME CompletionInv,
           UNCHANGED process,
           \A u \in Upload \ Fragile : Outstanding("completed", u)' => Outstanding("completed", u),
           \A u \in Upload \ Fragile :
              status'[u] = "COMPLETED" => status[u] = "COMPLETED" \/ Outstanding("completed", u),
           \A h \in Handler :
              worker'["requested"][h].at \in PastReplayCheck =>
                 \/ worker'["requested"][h] = worker["requested"][h]
                 \/ worker'["requested"][h].upload \in Fragile
                 \/ process[worker'["requested"][h].upload] # "COMPLETED"
    PROVE  CompletionInv'
BY DEF CompletionInv, CompletedWasProcessed

\* A step of a handler that keeps the other handlers where they are.
LEMMA RequestedHandlers ==
    ASSUME TypeOK, NEW q \in Queues, NEW h \in Handler, NEW w \in Works, Goto(q, h, w),
           q = "requested" /\ w.at \in PastReplayCheck /\ w.upload \notin Fragile =>
              process[w.upload] # "COMPLETED"
    PROVE  \A g \in Handler :
              worker'["requested"][g].at \in PastReplayCheck =>
                 \/ worker'["requested"][g] = worker["requested"][g]
                 \/ worker'["requested"][g].upload \in Fragile
                 \/ process[worker'["requested"][g].upload] # "COMPLETED"
<1>1. "requested" \in Queues
  BY DEF Queues
<1>. QED
  BY <1>1, GotoType

LEMMA ReadingCompletion ==
    ASSUME UploadInv, CompletionInv, NEW q \in Queues, NEW h \in Handler, Reading(q, h)
    PROVE  CompletionInv'
<1>. USE DEF UploadInv, PastReplayCheck
<1>0. "requested" \in Queues /\ "completed" \in Queues
  BY DEF Queues
<1>1. NothingNew /\ UNCHANGED <<status, process>>
  BY ReadingEffect
<1>2. ASSUME NEW p \in Queues, NEW w \in Works, Goto(p, h, w),
             p = "requested" /\ w.at \in PastReplayCheck /\ w.upload \notin Fragile =>
                process[w.upload] # "COMPLETED"
      PROVE  CompletionInv'
  BY <1>0, <1>1, <1>2, RequestedHandlers, CompletionKept DEF NothingNew
<1>3. ASSUME NEW p \in Queues, Goto(p, h, Idle) PROVE CompletionInv'
  BY <1>2, <1>3, IdleTypes DEF Idle
<1>4. CASE UpdateRead(q, h)
  <2>1. Work(q, h) \in Upload
    BY <1>4, WorkIsOutstanding DEF UpdateRead, At
  <2>2. [at |-> "row", upload |-> Work(q, h), status |-> status[Work(q, h)]] \in Works
    BY <2>1 DEF Works, TypeOK
  <2>. QED
    BY <1>2, <1>4, <2>2 DEF UpdateRead
<1>5. CASE UpdateDecide(q, h)
  <2>1. worker[q][h].at = "row" /\ worker[q][h] \in Works
    BY <1>5 DEF UpdateDecide, At, TypeOK
  <2>2. /\ [worker[q][h] EXCEPT !.at = "save"] \in Works
        /\ [worker[q][h] EXCEPT !.at = "save"].at = "save"
    BY <2>1, WorkShape DEF Works
  <2>. QED
    BY <1>2, <1>3, <1>5, <2>2 DEF UpdateDecide, Step, Ack
<1>6. ASSUME NEW step \in PastReplayCheck, Step("requested", h, step),
             worker["requested"][h].at \in {"read", "download", "missing"},
             Work("requested", h) \notin Fragile => process[Work("requested", h)] # "COMPLETED"
      PROVE  CompletionInv'
  <2>1. worker["requested"][h] \in Works
    BY <1>0 DEF TypeOK
  <2>2. /\ [worker["requested"][h] EXCEPT !.at = step] \in Works
        /\ [worker["requested"][h] EXCEPT !.at = step].upload = Work("requested", h)
    BY <1>6, <2>1, WorkShape DEF Works, Work
  <2>. QED
    BY <1>0, <1>2, <1>6, <2>2 DEF Step
<1>7. CASE ValidateRead(h)
  BY <1>0, <1>3, <1>6, <1>7 DEF ValidateRead, At, IsReplay, Ack
<1>8. CASE ValidateDownload(h)
  <2>1. Work("requested", h) \notin Fragile => process[Work("requested", h)] # "COMPLETED"
    BY <1>8 DEF ValidateDownload, At, CompletionInv, Work
  <2>. QED
    BY <1>6, <1>8, <2>1 DEF ValidateDownload, At
<1>9. CASE ValidateMissing(h)
  BY <1>0, <1>3, <1>6, <1>9 DEF ValidateMissing, At, IsReplay, Ack
<1>10. CASE ValidateCleanup(h)
  BY <1>0, <1>3, <1>10 DEF ValidateCleanup
<1>11. CASE ReplayCheckFails(h)
  <2>1. /\ worker["requested"][h] \in Works
        /\ worker["requested"][h].at \in {"read", "missing"}
    BY <1>0, <1>11 DEF ReplayCheckFails, At, TypeOK
  <2>2. /\ [worker["requested"][h] EXCEPT !.at = "reject"] \in Works
        /\ [worker["requested"][h] EXCEPT !.at = "reject"].upload = Work("requested", h)
    BY <2>1, WorkShape DEF Works, Work
  <2>. QED
    BY <1>0, <1>2, <1>11, <2>2 DEF ReplayCheckFails
<1>. QED
  BY <1>4, <1>5, <1>7, <1>8, <1>9, <1>10, <1>11 DEF Reading

LEMMA NextCompletionInv ==
    ASSUME \A g, h \in Handler : g = h,
           UploadInv, CompletionInv, [Next]_vars
    PROVE  CompletionInv'
<1>. USE DEF UploadInv
<1>0. "requested" \in Queues /\ "completed" \in Queues
  BY DEF Queues
<1>1. ASSUME NothingNew, UNCHANGED <<status, process, worker>> PROVE CompletionInv'
  BY <1>0, <1>1, CompletionKept DEF NothingNew
<1>2. ASSUME NEW c \in Slot, NewCall(c) PROVE CompletionInv'
  BY <1>1, <1>2, NewCallEffect
<1>3. ASSUME NEW c \in Slot, CallSteps(c) PROVE CompletionInv'
  <2>1. UNCHANGED <<process, worker>>
    BY <1>3, CallEffect
  <2>2. \A u \in Upload : Outstanding("completed", u)' => Outstanding("completed", u)
    BY <1>0, <1>3, CallEffect DEF NothingNew, OnlyNew
  <2>3. \A u \in Upload : status'[u] = "COMPLETED" => status[u] = "COMPLETED"
    BY <1>3 DEF CallSteps, RequestSave, ConfirmRead, ConfirmExists, ConfirmSave, CancelRead,
                CancelExists, CancelDelete, CancelSaveUpload, SaveRow, TypeOK, rowVars
  <2>. QED
    BY <2>1, <2>2, <2>3, CompletionKept
<1>4. ASSUME NEW u \in Upload, PutFile(u) PROVE CompletionInv'
  BY <1>1, <1>4 DEF PutFile, NothingNew, Outstanding
<1>5. ASSUME NEW q \in Queues, NEW h \in Handler, NEW u \in Upload, Take(q, h, u)
      PROVE  CompletionInv'
  <2>1. NothingNew /\ UNCHANGED <<status, process>>
    BY <1>5, TakeEffect DEF Take, rowVars
  <2>2. [at |-> "read", upload |-> u] \in Works
    BY DEF Works
  <2>. QED
    BY <1>0, <1>5, <2>1, <2>2, RequestedHandlers, CompletionKept DEF Take, NothingNew, PastReplayCheck
<1>6. ASSUME NEW q \in Queues, NEW h \in Handler, Reading(q, h) PROVE CompletionInv'
  BY <1>6, ReadingCompletion
<1>7. ASSUME NEW q \in Queues, NEW h \in Handler, UpdateSave(q, h) PROVE CompletionInv'
  <2>1. NothingNew /\ Work(q, h) \in Upload /\ Outstanding(q, Work(q, h)) /\ UNCHANGED process
    BY <1>7, UpdateSaveEffect DEF UpdateSave
  <2>2. \A u \in Upload :
          status'[u] = "COMPLETED" => status[u] = "COMPLETED" \/ Outstanding("completed", u)
    BY <1>7, <2>1 DEF UpdateSave, TypeOK
  <2>. QED
    BY <1>0, <1>7, <2>1, <2>2, RequestedHandlers, IdleTypes, CompletionKept
      DEF UpdateSave, NothingNew, PastReplayCheck, Idle
<1>8. ASSUME NEW h \in Handler, Answering(h) PROVE CompletionInv'
  <2>1. PICK outcome \in {"COMPLETED", "FAILED"} :
          /\ process' = [process EXCEPT ![Work("requested", h)] = outcome]
          /\ OnlyNew(IF outcome = "COMPLETED" THEN "completed" ELSE "failed", Work("requested", h))
    BY <1>8, AnswerEffect
  <2>2. Work("requested", h) \in Upload /\ UNCHANGED status
    BY <1>8, AnswerEffect
  <2>3. Work("requested", h) \notin Fragile => process[Work("requested", h)] # "COMPLETED"
    BY <1>8 DEF Answering, ValidateReject, ValidateAnswer, CompletionUnacknowledged,
                At, CompletionInv, PastReplayCheck, Work
  <2>4. CompletedWasProcessed'
    BY <2>1, <2>2, <2>3 DEF CompletionInv, CompletedWasProcessed, TypeOK
  <2>5. \A u \in Upload \ Fragile : Outstanding("completed", u)' => process'[u] = "COMPLETED"
    BY <1>0, <2>1, <2>2, <2>3 DEF CompletionInv, OnlyNew, TypeOK
  <2>6. \/ worker'["requested"][h].at \notin PastReplayCheck
        \/ worker'["requested"][h].upload \in Fragile
    <3>1. CASE ValidateReject(h)
      <4>1. /\ worker["requested"][h] \in Works
            /\ worker["requested"][h].at \in {"reject", "undo"}
        BY <1>0, <3>1 DEF ValidateReject, At, TypeOK
      <4>2. [worker["requested"][h] EXCEPT !.at = "cleanup"].at = "cleanup"
        BY <4>1, WorkShape
      <4>. QED
        BY <1>0, <3>1, <4>2 DEF ValidateReject, Goto, Idle, TypeOK, PastReplayCheck
    <3>2. CASE ValidateAnswer(h)
      <4>1. worker["requested"][h] \in Works /\ worker["requested"][h].at = "validate"
        BY <1>0, <3>2 DEF ValidateAnswer, At, TypeOK
      <4>2. [worker["requested"][h] EXCEPT !.at = "cleanup"].at = "cleanup"
        BY <4>1, WorkShape
      <4>. QED
        BY <1>0, <3>2, <4>2 DEF ValidateAnswer, Goto, TypeOK, PastReplayCheck
    <3>3. CASE CompletionUnacknowledged(h)
      <4>1. worker["requested"][h] \in Works /\ worker["requested"][h].at = "validate"
        BY <1>0, <3>3 DEF CompletionUnacknowledged, At, TypeOK
      <4>2. [worker["requested"][h] EXCEPT !.at = "undo"].upload = Work("requested", h)
        BY <4>1, WorkShape DEF Work
      <4>. QED
        BY <1>0, <3>3, <4>2 DEF CompletionUnacknowledged, Goto, TypeOK
    <3>. QED
      BY <1>8, <3>1, <3>2, <3>3 DEF Answering
  <2>. QED
    BY <2>4, <2>5, <2>6 DEF CompletionInv
<1>9. ASSUME NEW q \in Queues, NEW h \in Handler, Failing(q, h) PROVE CompletionInv'
  <2>1. NothingNew /\ UNCHANGED <<status, process>>
    BY <1>9, FailureEffect
  <2>2. CASE UNCHANGED worker
    BY <1>1, <2>1, <2>2
  <2>3. CASE Goto(q, h, Idle)
    BY <1>0, <2>1, <2>3, RequestedHandlers, IdleTypes, CompletionKept
      DEF NothingNew, PastReplayCheck, Idle
  <2>. QED
    BY <1>9, <2>2, <2>3 DEF Failing, HandlerFails, DeadLetters, Redeliver, ValidateFails
<1>10. CASE UNCHANGED vars
  BY <1>1, <1>10 DEF vars, rowVars, NothingNew, Outstanding
<1>11. ASSUME NEW c \in Slot, CallFails(c) PROVE CompletionInv'
  BY <1>1, <1>11, CallFailsEffect
<1>. QED
  BY <1>0, <1>2, <1>3, <1>4, <1>5, <1>6, <1>7, <1>8, <1>9, <1>10, <1>11
    DEF Next, Environment, HandlerSteps, ValidatorSteps, Faults, ValidatorFaults,
        Reading, Answering, Failing

\* If the handlers of a queue never overlap and no statement of its
\* validations fails, a COMPLETED attempt has a COMPLETED process behind it,
\* whatever is delivered again.
THEOREM CompletedIsBacked ==
    ASSUME \A g, h \in Handler : g = h
    PROVE  Spec => []CompletedWasProcessed
<1>1. Init => CompletionInv
  BY DEF Init, CompletionInv, CompletedWasProcessed, Outstanding, Queues, Idle, PastReplayCheck
<1>2. UploadInv /\ CompletionInv /\ [Next]_vars => CompletionInv'
  BY NextCompletionInv
<1>3. CompletionInv => CompletedWasProcessed
  BY DEF CompletionInv
<1>. QED
  BY <1>1, <1>2, <1>3, InvariantCorrect, PTL DEF Spec

\* Under the same conditions a COMPLETED process stays COMPLETED: the replay
\* check stands in the way of every later validation.
THEOREM CompletedStays ==
    ASSUME \A g, h \in Handler : g = h
    PROVE  Spec => CompletedProcessStays
<1>. DEFINE Stays == \A u \in Upload \ Fragile : process[u] = "COMPLETED" => process'[u] = "COMPLETED"
<1>1. Init => CompletionInv
  BY DEF Init, CompletionInv, CompletedWasProcessed, Outstanding, Queues, Idle, PastReplayCheck
<1>2. UploadInv /\ CompletionInv /\ [Next]_vars => CompletionInv'
  BY NextCompletionInv
<1>3. UploadInv /\ CompletionInv /\ [Next]_vars => Stays
  <2>. SUFFICES ASSUME UploadInv, CompletionInv, [Next]_vars PROVE Stays
    OBVIOUS
  <2>1. ASSUME NEW h \in Handler, ValidateReject(h) \/ ValidateAnswer(h) PROVE Stays
    <3>1. Work("requested", h) \notin Fragile => process[Work("requested", h)] # "COMPLETED"
      BY <2>1 DEF ValidateReject, ValidateAnswer, At, CompletionInv, PastReplayCheck, Work
    <3>. QED
      BY <2>1, <3>1 DEF ValidateReject, ValidateAnswer, Answer, UploadInv, TypeOK
  <2>2. ASSUME NEW h \in Handler, CompletionUnacknowledged(h) PROVE Stays
    BY <2>2 DEF CompletionUnacknowledged, Answer, UploadInv, TypeOK
  <2>3. \/ \E h \in Handler : ValidateReject(h) \/ ValidateAnswer(h) \/ CompletionUnacknowledged(h)
        \/ UNCHANGED process
    BY DEF Next, Environment, NewCall, CallSteps, HandlerSteps, ValidatorSteps, Faults, ValidatorFaults,
           vars, rowVars, Silent, Request, Assign, Confirm, Cancel, Edit, Begin, PutFile, Take,
           RequestSave, ConfirmRead, ConfirmExists, ConfirmSave, CancelRead, CancelExists,
           CancelDelete, CancelSaveUpload, SaveRow, CallFails,
           UpdateRead, UpdateDecide, UpdateSave, ValidateRead, ValidateDownload, ValidateMissing,
           ValidateCleanup, Step, Ack, HandlerFails, DeadLetters, Redeliver, ValidateFails,
           ReplayCheckFails
  <2>. QED
    BY <2>1, <2>2, <2>3
<1>. QED
  BY <1>1, <1>2, <1>3, InvariantCorrect, PTL DEF Spec, CompletedProcessStays

-----------------------------------------------------------------------------
(* Patient clients: the active attempt.                                    *)

LEMMA InitPatientInv == Init => PatientInv
<1>. SUFFICES ASSUME Init PROVE PatientInv
  OBVIOUS
<1>1. TypeOK
  BY InitUploadInv DEF UploadInv
<1>2. \A q \in Queues, u \in Upload : ~Outstanding(q, u)
  BY DEF Init, Outstanding
<1>. QED
  BY <1>1, <1>2 DEF PatientInv, OneCall, OutstandingIsLive, StillHolds, Init, Idle

\* The upload or the row a call refers to.
LEMMA CallRefersTo ==
    ASSUME TypeOK, NEW c \in Slot
    PROVE  /\ call[c].at \in {"confirm", "exists", "process", "cancel", "look", "delete", "cancelled"}
                => call[c].upload \in Upload
           /\ row.active # NoUpload => row.active \in Upload
BY CallShape DEF TypeOK, Rows

\* Steps of the environment leave what a call has read as it was: they only
\* answer attempts that are confirmed and not cancelled.
LEMMA EnvironmentKeeps ==
    ASSUME PatientInv, TypeOK', UNCHANGED <<row, call>>,
           \A q \in Queues, u \in Upload : Outstanding(q, u)' => Outstanding(q, u) \/ Live(u),
           \A u \in Upload : status'[u] # status[u] => Live(u) /\ Live(u)'
    PROVE  PatientInv'
<1>1. OneCall'
  BY DEF PatientInv, OneCall
<1>2. OutstandingIsLive'
  BY DEF PatientInv, OutstandingIsLive, Live
<1>3. ASSUME NEW c \in Slot PROVE StillHolds(c)'
  BY CallRefersTo DEF PatientInv, StillHolds, Live
<1>. QED
  BY <1>1, <1>2, <1>3 DEF PatientInv

\* While one slot is busy the others are idle.
LEMMA CallKeeps ==
    ASSUME PatientInv, TypeOK', NEW c \in Slot, NEW k \in Calls, Await(c, k),
           call[c] # Idle \/ (\A d \in Slot : call[d] = Idle),
           OutstandingIsLive', StillHolds(c)'
    PROVE  PatientInv'
<1>1. /\ call'[c] = k
      /\ \A d \in Slot : d # c => call'[d] = call[d]
  BY AwaitType DEF PatientInv
<1>2. \A d \in Slot : d # c => call[d] = Idle /\ call'[d] = Idle
  BY <1>1 DEF PatientInv, OneCall
<1>3. OneCall'
  BY <1>2 DEF OneCall
<1>4. ASSUME NEW d \in Slot PROVE StillHolds(d)'
  BY <1>2 DEF StillHolds, Idle
<1>. QED
  BY <1>3, <1>4 DEF PatientInv

LEMMA PatientCallInv ==
    ASSUME PatientInv, NEW c \in Slot, Patient(c)
    PROVE  PatientInv'
<1>0. NewCall(c) /\ \A d \in Slot : call[d] = Idle
  BY DEF Patient, NewCall
<1>1. TypeOK' /\ NothingNew /\ UNCHANGED <<row, status, process, queue, worker>>
  BY <1>0, NewCallEffect DEF PatientInv
<1>2. OutstandingIsLive'
  BY <1>1 DEF PatientInv, OutstandingIsLive, NothingNew, Live
<1>3. ASSUME NEW k \in Calls, Begin(c, k), StillHolds(c)' PROVE PatientInv'
  BY <1>0, <1>1, <1>2, <1>3, CallKeeps DEF Begin
<1>4. ASSUME NEW k \in Calls, Begin(c, k) PROVE call'[c] = k
  BY <1>4, AwaitType DEF Begin, PatientInv
<1>5. ASSUME NEW m \in Musician, Request(c, m) PROVE PatientInv'
  <2>1. [at |-> "create"] \in Calls
    BY DEF Calls
  <2>2. call'[c] = [at |-> "create"]
    BY <1>4, <1>5, <2>1 DEF Request
  <2>3. StillHolds(c)'
    BY <2>2 DEF StillHolds
  <2>. QED
    BY <1>3, <1>5, <2>1, <2>3 DEF Request
<1>6. ASSUME NEW m \in Musician, Assign(c, m) PROVE PatientInv'
  <2>1. row \in Rows /\ [row EXCEPT !.musician = m].active = row.active
    BY DEF PatientInv, TypeOK, Rows
  <2>2. [at |-> "row", row |-> [row EXCEPT !.musician = m]] \in Calls
    BY <2>1 DEF Calls, Rows
  <2>3. call'[c] = [at |-> "row", row |-> [row EXCEPT !.musician = m]]
    BY <1>4, <1>6, <2>2 DEF Assign
  <2>4. StillHolds(c)'
    <3>1. call'[c].at = "row" /\ call'[c].row = [row EXCEPT !.musician = m]
      BY <2>3
    <3>2. row' = row
      BY <1>1
    <3>3. call'[c].row.active = row'.active
      BY <2>1, <3>1, <3>2
    <3>. QED
      BY <3>1, <3>3 DEF StillHolds
  <2>. QED
    BY <1>3, <1>6, <2>2, <2>4 DEF Assign
<1>7. ASSUME NEW m \in Musician, NEW u \in Upload, status[u] \in Processable, Confirm(c, m, u)
      PROVE  PatientInv'
  <2>1. [at |-> "confirm", upload |-> u] \in Calls
    BY DEF Calls
  <2>2. call'[c] = [at |-> "confirm", upload |-> u]
    BY <1>4, <1>7, <2>1 DEF Confirm
  <2>3. StillHolds(c)'
    BY <1>1, <1>7, <2>2 DEF StillHolds, Processable
  <2>. QED
    BY <1>3, <1>7, <2>1, <2>3 DEF Confirm
<1>8. ASSUME NEW m \in Musician, NEW u \in Upload, Cancel(c, m, u) PROVE PatientInv'
  <2>1. [at |-> "cancel", upload |-> u, row |-> row] \in Calls
    BY DEF Calls, PatientInv, TypeOK
  <2>2. call'[c] = [at |-> "cancel", upload |-> u, row |-> row]
    BY <1>4, <1>8, <2>1 DEF Cancel
  <2>3. StillHolds(c)'
    BY <1>1, <2>2 DEF StillHolds
  <2>. QED
    BY <1>3, <1>8, <2>1, <2>3 DEF Cancel
<1>9. ASSUME Edit(c) PROVE PatientInv'
  <2>1. [at |-> "row", row |-> row] \in Calls
    BY DEF Calls, PatientInv, TypeOK
  <2>2. call'[c] = [at |-> "row", row |-> row]
    BY <1>4, <1>9, <2>1 DEF Edit
  <2>3. StillHolds(c)'
    BY <1>1, <2>2 DEF StillHolds
  <2>. QED
    BY <1>3, <1>9, <2>1, <2>3 DEF Edit
<1>. QED
  BY <1>5, <1>6, <1>7, <1>8, <1>9 DEF Patient

LEMMA PatientCallStepInv ==
    ASSUME PatientInv, NEW c \in Slot, CallSteps(c)
    PROVE  PatientInv'
<1>. USE DEF Silent, rowVars
<1>0. /\ TypeOK' /\ UNCHANGED <<process, worker>>
      /\ TypeOK /\ call[c] \in Calls
      /\ StillHolds(c)
      /\ ~ConfirmSave(c) => NothingNew
  BY CallEffect DEF PatientInv, TypeOK
<1>1. call[c] # Idle
  BY DEF CallSteps, RequestSave, ConfirmRead, ConfirmExists, ConfirmSave, CancelRead,
         CancelExists, CancelDelete, CancelSaveUpload, SaveRow, Idle
<1>2. ASSUME NEW k \in Calls, Await(c, k), OutstandingIsLive', StillHolds(c)' PROVE PatientInv'
  BY <1>0, <1>1, <1>2, CallKeeps
<1>3. ASSUME NothingNew, UNCHANGED status PROVE OutstandingIsLive'
  BY <1>3 DEF PatientInv, OutstandingIsLive, NothingNew, Live
<1>4. ASSUME NEW k \in Calls, Await(c, k) PROVE call'[c] = k
  BY <1>0, <1>4, AwaitType
<1>5. ASSUME Return(c), OutstandingIsLive' PROVE PatientInv'
  <2>1. call'[c] = Idle
    BY <1>4, <1>5, IdleTypes DEF Return
  <2>2. StillHolds(c)'
    BY <2>1 DEF StillHolds, Idle
  <2>. QED
    BY <1>2, <1>5, <2>2, IdleTypes DEF Return
<1>6. ASSUME NEW step, Await(c, [call[c] EXCEPT !.at = step]), [call[c] EXCEPT !.at = step] \in Calls,
             call[c].at \in {"exists", "cancel", "look", "delete"},
             \/ call[c].at = "exists" /\ step = "process"
             \/ call[c].at = "cancel" /\ step = "look" /\ status[call[c].upload] = "PENDING"
             \/ call[c].at = "look" /\ step \in {"delete", "cancelled"}
             \/ call[c].at = "delete" /\ step = "cancelled",
             UNCHANGED <<row, status>>, NothingNew
      PROVE  PatientInv'
  <2>1. /\ call'[c].at = step
        /\ call'[c].upload = call[c].upload
        /\ call[c].at # "exists" => call'[c].row = call[c].row
    BY <1>0, <1>4, <1>6, CallShape
  <2>2. StillHolds(c)'
    BY <1>0, <1>6, <2>1 DEF StillHolds
  <2>. QED
    BY <1>2, <1>3, <1>6, <2>2
<1>7. CASE RequestSave(c)
  <2>1. PICK u \in Upload : status[u] = "absent" /\ status' = [status EXCEPT ![u] = "PENDING"]
    BY <1>7 DEF RequestSave
  <2>2. OutstandingIsLive'
    BY <1>0, <1>7, <2>1 DEF RequestSave, ConfirmSave, PatientInv, OutstandingIsLive, NothingNew, Live, TypeOK
  <2>. QED
    BY <1>5, <1>7, <2>2 DEF RequestSave
<1>8. CASE ConfirmRead(c)
  <2>1. call[c].upload \in Upload
    BY <1>0, <1>8, CallShape DEF ConfirmRead
  <2>2. [at |-> "exists", upload |-> call[c].upload, status |-> status[call[c].upload]] \in Calls
    BY <1>0, <2>1 DEF Calls, TypeOK
  <2>3. call'[c] = [at |-> "exists", upload |-> call[c].upload, status |-> status[call[c].upload]]
    BY <1>4, <1>8, <2>2 DEF ConfirmRead
  <2>4. UNCHANGED <<row, status>> /\ NothingNew
    BY <1>0, <1>8 DEF ConfirmRead, ConfirmSave
  <2>5. StillHolds(c)'
    BY <1>0, <1>8, <2>3, <2>4 DEF StillHolds, ConfirmRead
  <2>. QED
    BY <1>2, <1>3, <1>8, <2>2, <2>4, <2>5 DEF ConfirmRead
<1>9. CASE ConfirmExists(c)
  <2>1. [call[c] EXCEPT !.at = "process"] \in Calls
    BY <1>0, <1>9, CallShape DEF ConfirmExists, Calls
  <2>2. UNCHANGED <<row, status>> /\ NothingNew
    BY <1>0, <1>9 DEF ConfirmExists, ConfirmSave
  <2>. QED
    BY <1>3, <1>5, <1>6, <1>9, <2>1, <2>2 DEF ConfirmExists
<1>10. CASE ConfirmSave(c)
  <2>1. PICK u \in Upload : u = call[c].upload
    BY <1>10, CallEffect DEF PatientInv
  <2>2. OnlyNew("requested", u)
    BY <1>0, <1>10, <2>1, CallEffect DEF OnlyNew
  <2>3. status' = [status EXCEPT ![u] = "PROCESSING"]
    BY <1>10, <2>1 DEF ConfirmSave
  <2>4. OutstandingIsLive'
    BY <1>0, <2>2, <2>3 DEF PatientInv, OutstandingIsLive, OnlyNew, Live, TypeOK
  <2>. QED
    BY <1>5, <1>10, <2>4 DEF ConfirmSave
<1>11. CASE CancelRead(c)
  <2>1. [call[c] EXCEPT !.at = "look"] \in Calls
    BY <1>0, <1>11, CallShape DEF CancelRead, Calls
  <2>2. UNCHANGED <<row, status>> /\ NothingNew
    BY <1>0, <1>11 DEF CancelRead, ConfirmSave
  <2>. QED
    BY <1>3, <1>5, <1>6, <1>11, <2>1, <2>2 DEF CancelRead
<1>12. CASE CancelExists(c)
  <2>1. /\ [call[c] EXCEPT !.at = "delete"] \in Calls
        /\ [call[c] EXCEPT !.at = "cancelled"] \in Calls
    BY <1>0, <1>12, CallShape DEF CancelExists, Calls
  <2>2. UNCHANGED <<row, status>> /\ NothingNew
    BY <1>0, <1>12 DEF CancelExists, ConfirmSave
  <2>. QED
    BY <1>6, <1>12, <2>1, <2>2 DEF CancelExists
<1>13. CASE CancelDelete(c)
  <2>1. [call[c] EXCEPT !.at = "cancelled"] \in Calls
    BY <1>0, <1>13, CallShape DEF CancelDelete, Calls
  <2>2. UNCHANGED <<row, status>> /\ NothingNew
    BY <1>0, <1>13 DEF CancelDelete, ConfirmSave
  <2>. QED
    BY <1>6, <1>13, <2>1, <2>2 DEF CancelDelete
<1>14. CASE CancelSaveUpload(c)
  <2>1. PICK u \in Upload : u = call[c].upload
    BY <1>0, <1>14, CallShape DEF CancelSaveUpload
  <2>2. call[c].row = row /\ row \in Rows /\ status[u] = "PENDING"
    BY <1>0, <1>14, <2>1 DEF CancelSaveUpload, StillHolds, TypeOK
  <2>3. [row EXCEPT !.active = Cleared(row, u)] \in Rows
    BY <2>2 DEF Rows, Cleared
  <2>4. [at |-> "row", row |-> [row EXCEPT !.active = Cleared(row, u)]] \in Calls
    BY <2>3 DEF Calls
  <2>5. Await(c, [at |-> "row", row |-> [row EXCEPT !.active = Cleared(row, u)]])
    BY <1>14, <2>1, <2>2 DEF CancelSaveUpload
  <2>6. call'[c].at = "row" /\ call'[c].row.active = Cleared(row, u)
    BY <1>4, <2>2, <2>4, <2>5 DEF Rows
  <2>7. status' = [status EXCEPT ![u] = "CANCELLED"] /\ UNCHANGED row /\ NothingNew
    BY <1>0, <1>14, <2>1 DEF CancelSaveUpload, ConfirmSave
  <2>8. StillHolds(c)'
    BY <1>0, <2>1, <2>6, <2>7, NoUploadAssumption DEF StillHolds, Cleared, TypeOK
  <2>9. OutstandingIsLive'
    BY <1>0, <2>2, <2>7 DEF PatientInv, OutstandingIsLive, NothingNew, Live, TypeOK
  <2>. QED
    BY <1>2, <2>4, <2>5, <2>8, <2>9
<1>15. CASE SaveRow(c)
  <2>1. UNCHANGED status /\ NothingNew
    BY <1>0, <1>15 DEF SaveRow, ConfirmSave
  <2>. QED
    BY <1>3, <1>5, <1>15, <2>1 DEF SaveRow
<1>. QED
  BY <1>7, <1>8, <1>9, <1>10, <1>11, <1>12, <1>13, <1>14, <1>15 DEF CallSteps

LEMMA PatientNextInv == PatientInv /\ [PatientNext]_vars => PatientInv'
<1>. SUFFICES ASSUME PatientInv, [PatientNext]_vars PROVE PatientInv'
  OBVIOUS
<1>0. TypeOK /\ "requested" \in Queues /\ OutstandingIsLive
  BY DEF Queues, PatientInv
<1>1. ASSUME TypeOK', NothingNew, UNCHANGED <<row, status, call>> PROVE PatientInv'
  BY <1>1, EnvironmentKeeps DEF NothingNew
<1>2. ASSUME NEW c \in Slot, Patient(c) PROVE PatientInv'
  BY <1>2, PatientCallInv
<1>3. ASSUME NEW c \in Slot, CallSteps(c) PROVE PatientInv'
  BY <1>3, PatientCallStepInv
<1>4. ASSUME NEW u \in Upload, PutFile(u) PROVE PatientInv'
  <2>1. TypeOK' /\ NothingNew
    BY <1>0, <1>4 DEF PutFile, TypeOK, NothingNew, Outstanding
  <2>. QED
    BY <1>1, <1>4, <2>1 DEF PutFile
<1>5. ASSUME NEW q \in Queues, NEW h \in Handler, NEW u \in Upload, Take(q, h, u) PROVE PatientInv'
  BY <1>0, <1>1, <1>5, TakeEffect DEF Take, rowVars
<1>6. ASSUME NEW q \in Queues, NEW h \in Handler, Reading(q, h) PROVE PatientInv'
  BY <1>0, <1>1, <1>6, ReadingEffect
<1>7. ASSUME NEW q \in Queues, NEW h \in Handler, UpdateSave(q, h) PROVE PatientInv'
  <2>1. TypeOK' /\ NothingNew /\ Live(Work(q, h)) /\ Work(q, h) \in Upload
    BY <1>0, <1>7, UpdateSaveEffect DEF OutstandingIsLive
  <2>2. \A u \in Upload : status'[u] # status[u] => Live(u) /\ Live(u)'
    BY <1>0, <1>7, <2>1 DEF UpdateSave, Live, TypeOK
  <2>. QED
    BY <1>7, <2>1, <2>2, EnvironmentKeeps DEF UpdateSave, NothingNew
<1>8. ASSUME NEW h \in Handler, Answering(h) PROVE PatientInv'
  <2>1. PICK outcome \in {"COMPLETED", "FAILED"} :
          OnlyNew(IF outcome = "COMPLETED" THEN "completed" ELSE "failed", Work("requested", h))
    BY <1>0, <1>8, AnswerEffect
  <2>2. TypeOK' /\ UNCHANGED <<row, status, call>> /\ Work("requested", h) \in Upload
        /\ Outstanding("requested", Work("requested", h))
    BY <1>0, <1>8, AnswerEffect
  <2>3. Live(Work("requested", h))
    BY <1>0, <2>2 DEF OutstandingIsLive
  <2>4. \A q \in Queues, u \in Upload : Outstanding(q, u)' => Outstanding(q, u) \/ Live(u)
    BY <2>1, <2>3 DEF OnlyNew
  <2>. QED
    BY <2>2, <2>4, EnvironmentKeeps
<1>9. ASSUME NEW q \in Queues, NEW h \in Handler, Failing(q, h) PROVE PatientInv'
  BY <1>0, <1>1, <1>9, FailureEffect
<1>10. CASE UNCHANGED vars
  <2>1. TypeOK' /\ NothingNew /\ UNCHANGED <<row, status, call>>
    BY <1>0, <1>10 DEF vars, rowVars, TypeOK, NothingNew, Outstanding
  <2>. QED
    BY <1>1, <2>1
<1>11. ASSUME NEW c \in Slot, CallFails(c) PROVE PatientInv'
  <2>1. TypeOK' /\ NothingNew /\ UNCHANGED <<row, status>> /\ call[c] # Idle /\ Return(c)
    BY <1>0, <1>11, CallFailsEffect DEF CallFails
  <2>2. call'[c] = Idle
    BY <1>0, <2>1, AwaitType, IdleTypes DEF Return
  <2>3. OutstandingIsLive'
    BY <1>0, <2>1 DEF OutstandingIsLive, NothingNew, Live
  <2>4. StillHolds(c)'
    BY <2>2 DEF StillHolds, Idle
  <2>. QED
    BY <2>1, <2>3, <2>4, CallKeeps, IdleTypes DEF Return
<1>. QED
  BY <1>0, <1>2, <1>3, <1>4, <1>5, <1>6, <1>7, <1>8, <1>9, <1>10, <1>11
    DEF PatientNext, Environment, HandlerSteps, ValidatorSteps, Faults, ValidatorFaults,
        Reading, Answering, Failing

\* For a client that makes one call at a time the active attempt gives way
\* only to a new one or to its own cancellation, whatever the handlers do
\* meanwhile and however often they fail.
THEOREM ActiveAttemptIsKept == PatientSpec => ActiveAttemptChanges
<1>. DEFINE Kept ==
       row'.active # row.active =>
          \/ row'.active # NoUpload /\ status[row'.active] = "absent"
          \/ row'.active = NoUpload /\ status[row.active] = "CANCELLED"
<1>1. PatientInv /\ [PatientNext]_vars => Kept
  <2>. SUFFICES ASSUME PatientInv, [PatientNext]_vars PROVE Kept
    OBVIOUS
  <2>1. ASSUME NEW c \in Slot, RequestSave(c) PROVE Kept
    BY <2>1, NoUploadAssumption DEF RequestSave, PatientInv, TypeOK, Rows
  <2>2. ASSUME NEW c \in Slot, SaveRow(c) PROVE Kept
    BY <2>2 DEF SaveRow, PatientInv, StillHolds
  <2>3. ASSUME UNCHANGED row PROVE Kept
    BY <2>3
  <2>4. \/ \E c \in Slot : RequestSave(c) \/ SaveRow(c)
        \/ UNCHANGED row
    BY DEF PatientNext, Environment, Patient, CallSteps, HandlerSteps, ValidatorSteps, Faults, vars, rowVars,
           Request, Assign, Confirm, Cancel, Edit, Begin, PutFile, Take,
           ConfirmRead, ConfirmExists, ConfirmSave, CancelRead, CancelExists, CancelDelete, CancelSaveUpload,
           UpdateRead, UpdateDecide, UpdateSave, ValidateRead, ValidateDownload, ValidateMissing,
           ValidateReject, ValidateAnswer, ValidateCleanup, Answer, Step, Ack,
           HandlerFails, DeadLetters, Redeliver, ValidateFails, ValidatorFaults, ReplayCheckFails,
           CompletionUnacknowledged, CallFails
  <2>. QED
    BY <2>1, <2>2, <2>3, <2>4
<1>. QED
  BY <1>1, InitPatientInv, PatientNextInv, PTL DEF PatientSpec, ActiveAttemptChanges
-----------------------------------------------------------------------------
(* Patient clients: every attempt follows the lifecycle, whatever fails.   *)

\* A handler that ends, cleans up or stays with its upload holds no more.
LEMMA NoMoreIsHeld ==
    ASSUME TypeOK, NEW q \in Queues, NEW h \in Handler, NEW w \in Works, Goto(q, h, w),
           \/ w = Idle
           \/ w.at = "cleanup"
           \/ worker[q][h] # Idle /\ worker[q][h].at # "cleanup" /\ w.upload = worker[q][h].upload
    PROVE  /\ \A p \in Queues, g \in Handler, u \in Upload : Holds(p, g, u)' => Holds(p, g, u)
           /\ w = Idle \/ w.at = "cleanup" => \A u \in Upload : ~Holds(q, h, u)'
<1>1. /\ worker'[q][h] = w
      /\ \A p \in Queues, g \in Handler : p # q \/ g # h => worker'[p][g] = worker[p][g]
  BY GotoType
<1>2. ASSUME NEW p \in Queues, NEW g \in Handler, NEW u \in Upload, Holds(p, g, u)'
      PROVE  Holds(p, g, u)
  <2>1. CASE p = q /\ g = h
    BY <1>1, <1>2, <2>1 DEF Holds
  <2>2. CASE p # q \/ g # h
    BY <1>1, <1>2, <2>2 DEF Holds
  <2>. QED
    BY <2>1, <2>2
<1>3. w = Idle \/ w.at = "cleanup" => \A u \in Upload : ~Holds(q, h, u)'
  BY <1>1 DEF Holds
<1>. QED
  BY <1>2, <1>3

\* The attempts a step does not touch.
LEMMA AnswerStays ==
    ASSUME NEW u \in Upload, OneAnswerFor(u), status'[u] = status[u],
           \A q \in Queues : queue'[q][u] = queue[q][u],
           \A q \in Queues, h \in Handler : Holds(q, h, u)' => Holds(q, h, u)
    PROVE  OneAnswerFor(u)'
BY DEF OneAnswerFor

\* Nothing is sent and nothing taken up.
LEMMA AnswersStay ==
    ASSUME OneAnswer, repeated \subseteq repeated', UNCHANGED <<queue, status>>,
           \A q \in Queues, h \in Handler, u \in Upload : Holds(q, h, u)' => Holds(q, h, u)
    PROVE  OneAnswer'
<1>1. ASSUME NEW u \in Upload, u \notin repeated' PROVE OneAnswerFor(u)'
  <2>1. OneAnswerFor(u)
    BY <1>1 DEF OneAnswer
  <2>. QED
    BY <2>1, AnswerStays
<1>. QED
  BY <1>1 DEF OneAnswer

\* A handler takes the only message.
LEMMA AnswerIsTaken ==
    ASSUME TypeOK, OneAnswer, NEW q \in Queues, NEW h \in Handler, NEW u \in Upload, Take(q, h, u)
    PROVE  OneAnswer'
<1>0. [at |-> "read", upload |-> u] \in Works
  BY DEF Works
<1>1. /\ worker'[q][h] = [at |-> "read", upload |-> u]
      /\ \A p \in Queues, g \in Handler : p # q \/ g # h => worker'[p][g] = worker[p][g]
  BY <1>0, GotoType DEF Take
<1>2. \A p \in Queues, v \in Upload : v # u => queue'[p][v] = queue[p][v]
  BY DEF TypeOK, Take
<1>3. \A v \in Upload, p \in Queues, g \in Handler :
         Holds(p, g, v)' => Holds(p, g, v) \/ (p = q /\ g = h /\ v = u)
  <2>. SUFFICES ASSUME NEW v \in Upload, NEW p \in Queues, NEW g \in Handler, Holds(p, g, v)'
                PROVE  Holds(p, g, v) \/ (p = q /\ g = h /\ v = u)
    OBVIOUS
  <2>1. CASE p = q /\ g = h
    BY <1>1, <2>1 DEF Holds
  <2>2. CASE p # q \/ g # h
    BY <1>1, <2>2 DEF Holds
  <2>. QED
    BY <2>1, <2>2
<1>4. UNCHANGED <<status, repeated>>
  BY DEF Take, rowVars
<1>5. ASSUME u \notin repeated PROVE OneAnswerFor(u)'
  <2>1. OneAnswerFor(u)
    BY <1>5 DEF OneAnswer
  <2>2. queue \in [Queues -> [Upload -> Nat]] /\ queue[q][u] > 0
    BY DEF TypeOK, Take
  <2>3. queue' = [queue EXCEPT ![q][u] = @ - 1]
    BY DEF Take
  <2>4. queue[q][u] = 1 /\ \A p \in Queues : p # q => queue[p][u] = 0
    BY <2>1, <2>2 DEF OneAnswerFor
  <2>5. \A p \in Queues : queue'[p][u] = 0
    BY <2>2, <2>3, <2>4
  <2>6. status[u] = "PROCESSING" /\ \A p \in Queues, g \in Handler : ~Holds(p, g, u)
    BY <2>1, <2>2 DEF OneAnswerFor
  <2>. QED
    BY <1>3, <1>4, <2>5, <2>6 DEF OneAnswerFor
<1>6. ASSUME NEW v \in Upload, v # u, v \notin repeated PROVE OneAnswerFor(v)'
  <2>1. OneAnswerFor(v)
    BY <1>6 DEF OneAnswer
  <2>. QED
    BY <1>2, <1>3, <1>4, <1>6, <2>1, AnswerStays
<1>. QED
  BY <1>4, <1>5, <1>6 DEF OneAnswer

\* The holder of the only message hands it on or puts it back, or a
\* confirmation sends it.
LEMMA AnswerIsSent ==
    ASSUME TypeOK, OneAnswer, repeated \subseteq repeated', NEW p \in Queues, NEW u \in Upload, Send(p, u),
           \A q \in Queues, h \in Handler, v \in Upload : Holds(q, h, v)' => Holds(q, h, v),
           \/ u \in repeated'
           \/ /\ \A q \in Queues : queue[q][u] = 0 /\ \A h \in Handler : ~Holds(q, h, u)'
              /\ status'[u] = "PROCESSING",
           \A v \in Upload : v # u => status'[v] = status[v]
    PROVE  OneAnswer'
<1>1. queue \in [Queues -> [Upload -> Nat]] /\ queue' = [queue EXCEPT ![p][u] = @ + 1]
  BY DEF TypeOK, Send
<1>2. \A q \in Queues, v \in Upload : v # u => queue'[q][v] = queue[q][v]
  BY <1>1
<1>3. ASSUME u \notin repeated' PROVE OneAnswerFor(u)'
  <2>1. /\ queue'[p][u] = 1
        /\ \A q \in Queues : q # p => queue'[q][u] = 0
    BY <1>1, <1>3
  <2>. QED
    BY <1>3, <2>1 DEF OneAnswerFor
<1>4. ASSUME NEW v \in Upload, v # u, v \notin repeated' PROVE OneAnswerFor(v)'
  <2>1. OneAnswerFor(v)
    BY <1>4 DEF OneAnswer
  <2>. QED
    BY <1>2, <1>4, <2>1, AnswerStays
<1>. QED
  BY <1>3, <1>4 DEF OneAnswer

\* The holder of an attempt has its only message.
LEMMA HolderIsOnly ==
    ASSUME TypeOK, NEW u \in Upload, OneAnswerFor(u), NEW q \in Queues, NEW h \in Handler, Holds(q, h, u)
    PROVE  /\ status[u] = "PROCESSING"
           /\ \A p \in Queues : queue[p][u] = 0
           /\ \A p \in Queues, g \in Handler : Holds(p, g, u) => p = q /\ g = h
<1>1. queue \in [Queues -> [Upload -> Nat]]
  BY DEF TypeOK
<1>2. \A p \in Queues : ~(queue[p][u] > 0)
  BY DEF OneAnswerFor
<1>3. \A p \in Queues : queue[p][u] = 0
  BY <1>1, <1>2
<1>. QED
  BY <1>3 DEF OneAnswerFor

\* The holder writes its answer.
LEMMA AnswerIsWritten ==
    ASSUME TypeOK, OneAnswer, NEW q \in Queues, NEW h \in Handler, UpdateSave(q, h)
    PROVE  /\ OneAnswer'
           /\ Work(q, h) \in Upload
           /\ Work(q, h) \notin repeated => status[Work(q, h)] = "PROCESSING"
           /\ status' = [status EXCEPT ![Work(q, h)] = IF q = "completed" THEN "COMPLETED" ELSE "FAILED"]
<1>1. PICK u \in Upload : u = Work(q, h)
  BY UpdateSaveEffect
<1>2. Holds(q, h, u)
  BY <1>1, WorkIsOutstanding DEF UpdateSave, At, Holds, Work
<1>3. /\ \A p \in Queues, g \in Handler, v \in Upload : Holds(p, g, v)' => Holds(p, g, v)
      /\ \A v \in Upload : ~Holds(q, h, v)'
  BY NoMoreIsHeld, IdleTypes DEF UpdateSave
<1>4. /\ status' = [status EXCEPT ![u] = IF q = "completed" THEN "COMPLETED" ELSE "FAILED"]
      /\ queue' = queue /\ repeated' = repeated
  BY <1>1 DEF UpdateSave
<1>5. \A v \in Upload : v # u => status'[v] = status[v]
  BY <1>4 DEF TypeOK
<1>6. ASSUME u \notin repeated PROVE OneAnswerFor(u)' /\ status[u] = "PROCESSING"
  <2>1. /\ status[u] = "PROCESSING"
        /\ \A p \in Queues : queue[p][u] = 0
        /\ \A p \in Queues, g \in Handler : Holds(p, g, u) => p = q /\ g = h
    BY <1>2, <1>6, HolderIsOnly DEF OneAnswer
  <2>2. \A p \in Queues, g \in Handler : ~Holds(p, g, u)'
    BY <1>3, <2>1
  <2>. QED
    BY <1>4, <2>1, <2>2 DEF OneAnswerFor
<1>7. ASSUME NEW v \in Upload, v # u, v \notin repeated PROVE OneAnswerFor(v)'
  <2>1. OneAnswerFor(v)
    BY <1>7 DEF OneAnswer
  <2>. QED
    BY <1>3, <1>4, <1>5, <1>7, <2>1, AnswerStays
<1>8. OneAnswer'
  BY <1>4, <1>6, <1>7 DEF OneAnswer
<1>. QED
  BY <1>1, <1>4, <1>6, <1>8

\* A handler that only reads sends nothing and takes nothing up.
LEMMA ReadingAnswers ==
    ASSUME TypeOK, OneAnswer, NEW q \in Queues, NEW h \in Handler, Reading(q, h)
    PROVE  OneAnswer'
<1>0. "requested" \in Queues
  BY DEF Queues
<1>1. ASSUME NEW p \in Queues, NEW w \in Works, Goto(p, h, w), UNCHANGED <<queue, status, repeated>>,
             \/ w = Idle
             \/ /\ worker[p][h] # Idle /\ worker[p][h].at # "cleanup"
                /\ w.upload = worker[p][h].upload
      PROVE  OneAnswer'
  <2>1. \A r \in Queues, g \in Handler, u \in Upload : Holds(r, g, u)' => Holds(r, g, u)
    BY <1>1, NoMoreIsHeld
  <2>2. UNCHANGED <<queue, status>> /\ repeated \subseteq repeated'
    BY <1>1
  <2>. QED
    BY <2>1, <2>2, AnswersStay
<1>2. ASSUME NEW p \in Queues, NEW step,
             worker[p][h].at \in {"read", "download", "missing", "row"},
             [worker[p][h] EXCEPT !.at = step] \in Works,
             Goto(p, h, [worker[p][h] EXCEPT !.at = step]) \/ Goto(p, h, Idle),
             UNCHANGED <<queue, status, repeated>>
      PROVE  OneAnswer'
  <2>1. worker[p][h] \in Works /\ worker[p][h] # Idle /\ worker[p][h].at # "cleanup"
    BY <1>2, WorkIsOutstanding
  <2>2. [worker[p][h] EXCEPT !.at = step].upload = worker[p][h].upload
    BY <1>2, <2>1, WorkShape DEF Works, Idle
  <2>. QED
    BY <1>1, <1>2, <2>1, <2>2, IdleTypes
<1>3. CASE UpdateRead(q, h)
  <2>1. worker[q][h].at = "read"
    BY <1>3 DEF UpdateRead, At
  <2>2. Work(q, h) \in Upload /\ worker[q][h] # Idle
    BY <2>1, WorkIsOutstanding
  <2>3. [at |-> "row", upload |-> Work(q, h), status |-> status[Work(q, h)]] \in Works
    BY <2>2 DEF Works, TypeOK
  <2>. QED
    BY <1>1, <1>3, <2>1, <2>2, <2>3 DEF UpdateRead, Work, rowVars
<1>4. CASE UpdateDecide(q, h)
  <2>1. worker[q][h].at = "row" /\ worker[q][h] \in Works
    BY <1>4 DEF UpdateDecide, At, TypeOK
  <2>2. [worker[q][h] EXCEPT !.at = "save"] \in Works
    BY <2>1, WorkShape DEF Works
  <2>. QED
    BY <1>2, <1>4, <2>1, <2>2 DEF UpdateDecide, Step, Ack, rowVars
<1>5. ASSUME NEW step \in {"download", "validate", "missing", "reject"},
             worker["requested"][h].at \in {"read", "download", "missing"},
             \/ Goto("requested", h, [worker["requested"][h] EXCEPT !.at = step])
             \/ Goto("requested", h, Idle),
             UNCHANGED <<queue, status, repeated>>
      PROVE  OneAnswer'
  <2>1. worker["requested"][h] \in Works
    BY <1>0 DEF TypeOK
  <2>2. [worker["requested"][h] EXCEPT !.at = step] \in Works
    BY <1>5, <2>1, WorkShape DEF Works
  <2>. QED
    BY <1>0, <1>2, <1>5, <2>2
<1>6. CASE ValidateRead(h)
  BY <1>5, <1>6 DEF ValidateRead, At, Step, Ack, rowVars
<1>7. CASE ValidateDownload(h)
  BY <1>5, <1>7 DEF ValidateDownload, At, Step, Ack, rowVars
<1>8. CASE ValidateMissing(h)
  BY <1>5, <1>8 DEF ValidateMissing, At, Step, Ack, rowVars
<1>9. CASE ValidateCleanup(h)
  BY <1>0, <1>1, <1>9, IdleTypes DEF ValidateCleanup
<1>10. CASE ReplayCheckFails(h)
  BY <1>5, <1>10 DEF ReplayCheckFails, Retries, At, rowVars
<1>. QED
  BY <1>3, <1>4, <1>6, <1>7, <1>8, <1>9, <1>10 DEF Reading

\* The validation hands the upload on to the updater of its answer; what it
\* may answer once more is repeated.
LEMMA ValidatorAnswers ==
    ASSUME TypeOK, OneAnswer, NEW h \in Handler, Answering(h)
    PROVE  /\ OneAnswer'
           /\ UNCHANGED <<status, call>>
           /\ UNCHANGED repeated \/ \E u \in Upload : repeated' = repeated \cup {u}
<1>0. "requested" \in Queues /\ "completed" \in Queues /\ "failed" \in Queues
  BY DEF Queues
<1>1. worker["requested"][h].at \in {"reject", "undo", "validate"}
  BY DEF Answering, ValidateReject, ValidateAnswer, CompletionUnacknowledged, At
<1>2. PICK u \in Upload : u = Work("requested", h)
  BY <1>0, <1>1, WorkIsOutstanding
<1>3. worker["requested"][h] \in Works /\ worker["requested"][h] # Idle
  BY <1>0, <1>1, WorkIsOutstanding
<1>4. Holds("requested", h, u)
  BY <1>1, <1>2, <1>3 DEF Holds, Work
<1>5. ASSUME NEW step \in {"undo", "cleanup"}
      PROVE  /\ [worker["requested"][h] EXCEPT !.at = step] \in Works
             /\ [worker["requested"][h] EXCEPT !.at = step].at = step
             /\ [worker["requested"][h] EXCEPT !.at = step].upload = worker["requested"][h].upload
  BY <1>1, <1>3, WorkShape DEF Works
<1>6. PICK p \in Queues : Send(p, u) /\ UNCHANGED <<status, call>>
  BY <1>0, <1>2 DEF Answering, ValidateReject, ValidateAnswer, CompletionUnacknowledged, Answer
<1>7. CASE CompletionUnacknowledged(h)
  <2>1. \A q \in Queues, g \in Handler, v \in Upload : Holds(q, g, v)' => Holds(q, g, v)
    BY <1>0, <1>1, <1>3, <1>5, <1>7, NoMoreIsHeld DEF CompletionUnacknowledged
  <2>2. repeated' = repeated \cup {u}
    BY <1>2, <1>7 DEF CompletionUnacknowledged, Repeats
  <2>3. OneAnswer'
    BY <1>6, <2>1, <2>2, AnswerIsSent
  <2>. QED
    BY <1>6, <2>2, <2>3
<1>8. CASE ValidateReject(h) \/ ValidateAnswer(h)
  <2>1. PICK w \in Works : Goto("requested", h, w) /\ (w = Idle \/ w.at = "cleanup")
    <3>1. \/ Goto("requested", h, Idle)
          \/ Goto("requested", h, [worker["requested"][h] EXCEPT !.at = "cleanup"])
      BY <1>8 DEF ValidateReject, ValidateAnswer
    <3>. QED
      BY <1>5, <3>1, IdleTypes
  <2>2. /\ \A q \in Queues, g \in Handler, v \in Upload : Holds(q, g, v)' => Holds(q, g, v)
        /\ \A v \in Upload : ~Holds("requested", h, v)'
    BY <1>0, <2>1, NoMoreIsHeld
  <2>3. UNCHANGED repeated
    BY <1>8 DEF ValidateReject, ValidateAnswer
  <2>4. ASSUME u \notin repeated
        PROVE  /\ status[u] = "PROCESSING"
               /\ \A q \in Queues : queue[q][u] = 0 /\ \A g \in Handler : ~Holds(q, g, u)'
    <3>1. /\ status[u] = "PROCESSING"
          /\ \A q \in Queues : queue[q][u] = 0
          /\ \A q \in Queues, g \in Handler : Holds(q, g, u) => q = "requested" /\ g = h
      BY <1>0, <1>4, <2>4, HolderIsOnly DEF OneAnswer
    <3>. QED
      BY <2>2, <3>1
  <2>5. OneAnswer'
    BY <1>6, <2>2, <2>3, <2>4, AnswerIsSent
  <2>. QED
    BY <1>6, <2>3, <2>5
<1>. QED
  BY <1>7, <1>8 DEF Answering

\* A message that is put back was the only one, or its answer was given or
\* can be given twice.
LEMMA FailureAnswers ==
    ASSUME TypeOK, OneAnswer, NEW q \in Queues, NEW h \in Handler, Failing(q, h)
    PROVE  /\ OneAnswer'
           /\ UNCHANGED <<status, call>>
           /\ UNCHANGED repeated \/ \E u \in Upload : repeated' = repeated \cup {u}
<1>1. worker[q][h] \in Works /\ worker[q][h] # Idle
  BY WorkIsOutstanding DEF Failing, HandlerFails, DeadLetters, Redeliver, ValidateFails, At, TypeOK
<1>2. PICK u \in Upload : u = Work(q, h)
  BY <1>1, WorkShape DEF Work
<1>3. UNCHANGED <<status, call>>
  BY FailureEffect
<1>4. UNCHANGED repeated \/ repeated' = repeated \cup {u}
  BY <1>2 DEF Failing, HandlerFails, DeadLetters, Redeliver, ValidateFails, Repeats, Retries
<1>5. CASE Redeliver(q, h)
  <2>1. Send(q, u) /\ UNCHANGED worker /\ repeated' = repeated \cup {u}
    BY <1>2, <1>5 DEF Redeliver, Repeats
  <2>2. \A p \in Queues, g \in Handler, v \in Upload : Holds(p, g, v)' => Holds(p, g, v)
    BY <2>1 DEF Holds
  <2>3. OneAnswer'
    BY <1>3, <2>1, <2>2, AnswerIsSent
  <2>. QED
    BY <1>3, <1>4, <2>3
<1>6. ASSUME Goto(q, h, Idle)
      PROVE  /\ \A p \in Queues, g \in Handler, v \in Upload : Holds(p, g, v)' => Holds(p, g, v)
             /\ \A v \in Upload : ~Holds(q, h, v)'
  BY <1>6, NoMoreIsHeld, IdleTypes
<1>7. CASE HandlerFails(q, h) \/ (q = "requested" /\ ValidateFails(h))
  <2>1. Send(q, u) /\ Goto(q, h, Idle)
    BY <1>2, <1>7 DEF HandlerFails, ValidateFails
  <2>2. ASSUME u \notin repeated'
        PROVE  /\ status'[u] = "PROCESSING"
               /\ \A p \in Queues : queue[p][u] = 0 /\ \A g \in Handler : ~Holds(p, g, u)'
    <3>1. worker[q][h].at # "cleanup"
      BY <1>2, <1>7, <2>2 DEF HandlerFails, ValidateFails, At, Repeats
    <3>2. Holds(q, h, u)
      BY <1>1, <1>2, <3>1 DEF Holds, Work
    <3>3. OneAnswerFor(u)
      BY <1>4, <2>2 DEF OneAnswer
    <3>4. /\ status[u] = "PROCESSING"
          /\ \A p \in Queues : queue[p][u] = 0
          /\ \A p \in Queues, g \in Handler : Holds(p, g, u) => p = q /\ g = h
      BY <3>2, <3>3, HolderIsOnly
    <3>. QED
      BY <1>3, <1>6, <2>1, <3>4
  <2>3. OneAnswer'
    BY <1>3, <1>4, <1>6, <2>1, <2>2, AnswerIsSent
  <2>. QED
    BY <1>3, <1>4, <2>3
<1>8. CASE DeadLetters(q, h)
  <2>1. Goto(q, h, Idle) /\ UNCHANGED queue
    BY <1>8 DEF DeadLetters
  <2>2. OneAnswer'
    BY <1>3, <1>4, <1>6, <2>1, AnswersStay
  <2>. QED
    BY <1>3, <1>4, <2>2
<1>. QED
  BY <1>5, <1>7, <1>8 DEF Failing

\* A call sends a message only for an attempt that waits for no answer.
LEMMA CallAnswers ==
    ASSUME PatientInv, LifecycleInv, NEW c \in Slot, CallSteps(c)
    PROVE  OneAnswer'
<1>. USE DEF Silent, rowVars
<1>0. /\ TypeOK /\ StillHolds(c) /\ OneAnswer /\ ConfirmsWhatItRead
      /\ queue \in [Queues -> [Upload -> Nat]]
      /\ "requested" \in Queues
  BY DEF PatientInv, LifecycleInv, TypeOK, Queues
<1>1. UNCHANGED <<worker, repeated>>
  BY DEF CallSteps, RequestSave, ConfirmRead, ConfirmExists, ConfirmSave, CancelRead, CancelExists,
         CancelDelete, CancelSaveUpload, SaveRow
<1>2. \A q \in Queues, h \in Handler, v \in Upload : Holds(q, h, v)' <=> Holds(q, h, v)
  BY <1>1 DEF Holds
<1>3. ASSUME NEW u \in Upload, u \notin repeated, status[u] # "PROCESSING"
      PROVE  \A q \in Queues : queue[q][u] = 0 /\ \A h \in Handler : ~Holds(q, h, u)
  <2>1. OneAnswerFor(u)
    BY <1>0, <1>3 DEF OneAnswer
  <2>. QED
    BY <1>0, <1>3, <2>1 DEF OneAnswerFor
<1>4. ASSUME NEW u \in Upload, NEW t, status[u] # "PROCESSING", status' = [status EXCEPT ![u] = t],
             UNCHANGED queue
      PROVE  OneAnswer'
  <2>1. ASSUME NEW v \in Upload, v # u, v \notin repeated PROVE OneAnswerFor(v)'
    <3>1. OneAnswerFor(v) /\ status'[v] = status[v]
      BY <1>0, <1>4, <2>1 DEF TypeOK, OneAnswer
    <3>. QED
      BY <1>2, <1>4, <3>1, AnswerStays
  <2>2. ASSUME u \notin repeated PROVE OneAnswerFor(u)'
    BY <1>2, <1>3, <1>4, <2>2 DEF OneAnswerFor
  <2>. QED
    BY <1>1, <2>1, <2>2 DEF OneAnswer
<1>5. ASSUME UNCHANGED <<queue, status>> PROVE OneAnswer'
  BY <1>0, <1>1, <1>2, <1>5, AnswersStay
<1>6. CASE RequestSave(c)
  <2>1. PICK u \in Upload : status[u] = "absent" /\ status' = [status EXCEPT ![u] = "PENDING"]
    BY <1>6 DEF RequestSave
  <2>2. UNCHANGED queue
    BY <1>6 DEF RequestSave
  <2>. QED
    BY <1>4, <2>1, <2>2
<1>7. CASE ConfirmSave(c)
  <2>1. PICK u \in Upload : u = call[c].upload
    BY <1>0, <1>7, CallRefersTo DEF ConfirmSave
  <2>2. ASSUME u \notin repeated
        PROVE  status[u] \in Processable /\ call[c].status = status[u]
    BY <1>0, <1>7, <2>1, <2>2 DEF ConfirmSave, ConfirmsWhatItRead, ReadIsCurrent
  <2>3. status' = [status EXCEPT ![u] = "PROCESSING"]
    BY <1>7, <2>1 DEF ConfirmSave
  <2>4. status'[u] = "PROCESSING" /\ \A v \in Upload : v # u => status'[v] = status[v]
    BY <1>0, <2>3 DEF TypeOK
  <2>5. ASSUME u \notin repeated
        PROVE  \A q \in Queues : queue[q][u] = 0 /\ \A h \in Handler : ~Holds(q, h, u)'
    BY <1>2, <1>3, <2>2, <2>5 DEF Processable
  <2>6. CASE Send("requested", u)
    BY <1>0, <1>1, <1>2, <2>4, <2>5, <2>6, AnswerIsSent
  <2>7. CASE UNCHANGED queue /\ u \in repeated
    <3>1. ASSUME NEW v \in Upload, v \notin repeated PROVE OneAnswerFor(v)'
      <4>1. OneAnswerFor(v) /\ status'[v] = status[v]
        BY <1>0, <2>4, <2>7, <3>1 DEF OneAnswer
      <4>. QED
        BY <1>2, <2>7, <4>1, AnswerStays
    <3>. QED
      BY <1>1, <3>1 DEF OneAnswer
  <2>. QED
    BY <1>7, <2>1, <2>2, <2>6, <2>7 DEF ConfirmSave
<1>8. CASE CancelSaveUpload(c)
  <2>1. PICK u \in Upload : u = call[c].upload
    BY <1>0, <1>8, CallRefersTo DEF CancelSaveUpload
  <2>2. status[u] = "PENDING" /\ status' = [status EXCEPT ![u] = "CANCELLED"] /\ UNCHANGED queue
    BY <1>0, <1>8, <2>1 DEF CancelSaveUpload, StillHolds
  <2>. QED
    BY <1>4, <2>2
<1>9. CASE UNCHANGED <<queue, status>>
  BY <1>5, <1>9
<1>. QED
  BY <1>6, <1>7, <1>8, <1>9
    DEF CallSteps, ConfirmRead, ConfirmExists, CancelRead, CancelExists, CancelDelete, SaveRow

\* Only attempts that are being processed change while a confirmation waits.
LEMMA ConfirmationKept ==
    ASSUME TypeOK, ConfirmsWhatItRead, repeated \subseteq repeated', UNCHANGED call,
           \A u \in Upload \ repeated' : status[u] # "PROCESSING" => status'[u] = status[u]
    PROVE  ConfirmsWhatItRead'
<1>. SUFFICES ASSUME NEW c \in Slot, call[c].at \in {"confirm", "exists", "process"},
                     call[c].upload \notin repeated'
              PROVE  ReadIsCurrent(call[c])'
  BY DEF ConfirmsWhatItRead
<1>1. call[c].upload \in Upload /\ ReadIsCurrent(call[c])
  BY CallRefersTo DEF ConfirmsWhatItRead
<1>. QED
  BY <1>1 DEF ReadIsCurrent, Processable

\* The only call in flight goes on.
LEMMA ConfirmationGoesOn ==
    ASSUME PatientInv, ConfirmsWhatItRead, NEW c \in Slot, NEW k \in Calls, Await(c, k),
           call[c] # Idle \/ (\A d \in Slot : call[d] = Idle), UNCHANGED <<status, repeated>>,
           k.at \in {"confirm", "exists", "process"} /\ k.upload \notin repeated => ReadIsCurrent(k)
    PROVE  ConfirmsWhatItRead'
<1>1. /\ call'[c] = k
      /\ \A d \in Slot : d # c => call'[d] = call[d]
  BY AwaitType DEF PatientInv
<1>2. \A d \in Slot : d # c => call'[d] = Idle
  BY <1>1 DEF PatientInv, OneCall
<1>. SUFFICES ASSUME NEW d \in Slot, call'[d].at \in {"confirm", "exists", "process"},
                     call'[d].upload \notin repeated
              PROVE  ReadIsCurrent(call[d])'
  BY DEF ConfirmsWhatItRead
<1>3. d = c
  BY <1>2 DEF Idle
<1>. QED
  BY <1>1, <1>3 DEF ReadIsCurrent

\* The only call in flight ends, or goes on with no confirmation.
LEMMA NothingToConfirm ==
    ASSUME PatientInv, NEW c \in Slot, NEW k \in Calls, Await(c, k),
           call[c] # Idle \/ (\A d \in Slot : call[d] = Idle),
           k.at \notin {"confirm", "exists", "process"}
    PROVE  ConfirmsWhatItRead'
<1>1. /\ call'[c] = k
      /\ \A d \in Slot : d # c => call'[d] = call[d]
  BY AwaitType DEF PatientInv
<1>2. \A d \in Slot : d # c => call'[d] = Idle
  BY <1>1 DEF PatientInv, OneCall
<1>. QED
  BY <1>1, <1>2 DEF ConfirmsWhatItRead, Idle

LEMMA PatientCallConfirms ==
    ASSUME PatientInv, ConfirmsWhatItRead, NEW c \in Slot, Patient(c)
    PROVE  ConfirmsWhatItRead'
<1>0. (\A d \in Slot : call[d] = Idle) /\ UNCHANGED <<status, repeated>>
  BY DEF Patient, Request, Assign, Confirm, Cancel, Edit, Begin, rowVars
<1>1. ASSUME NEW k \in Calls, Begin(c, k), k.at \notin {"confirm", "exists", "process"}
      PROVE  ConfirmsWhatItRead'
  BY <1>0, <1>1, NothingToConfirm DEF Begin
<1>2. ASSUME NEW m \in Musician, NEW u \in Upload, status[u] \in Processable, Confirm(c, m, u)
      PROVE  ConfirmsWhatItRead'
  <2>1. [at |-> "confirm", upload |-> u] \in Calls
    BY DEF Calls
  <2>2. ReadIsCurrent([at |-> "confirm", upload |-> u])
    BY <1>2 DEF ReadIsCurrent
  <2>. QED
    BY <1>0, <1>2, <2>1, <2>2, ConfirmationGoesOn DEF Confirm, Begin
<1>3. ASSUME NEW m \in Musician, Request(c, m) PROVE ConfirmsWhatItRead'
  <2>1. [at |-> "create"] \in Calls
    BY DEF Calls
  <2>. QED
    BY <1>1, <1>3, <2>1 DEF Request
<1>4. ASSUME NEW m \in Musician, Assign(c, m) PROVE ConfirmsWhatItRead'
  <2>1. [at |-> "row", row |-> [row EXCEPT !.musician = m]] \in Calls
    BY DEF Calls, PatientInv, TypeOK, Rows
  <2>. QED
    BY <1>1, <1>4, <2>1 DEF Assign
<1>5. ASSUME NEW m \in Musician, NEW u \in Upload, Cancel(c, m, u) PROVE ConfirmsWhatItRead'
  <2>1. [at |-> "cancel", upload |-> u, row |-> row] \in Calls
    BY DEF Calls, PatientInv, TypeOK
  <2>. QED
    BY <1>1, <1>5, <2>1 DEF Cancel
<1>6. ASSUME Edit(c) PROVE ConfirmsWhatItRead'
  <2>1. [at |-> "row", row |-> row] \in Calls
    BY DEF Calls, PatientInv, TypeOK
  <2>. QED
    BY <1>1, <1>6, <2>1 DEF Edit
<1>. QED
  BY <1>2, <1>3, <1>4, <1>5, <1>6 DEF Patient

LEMMA CallConfirms ==
    ASSUME PatientInv, ConfirmsWhatItRead, NEW c \in Slot, CallSteps(c)
    PROVE  ConfirmsWhatItRead'
<1>. USE DEF Silent, rowVars
<1>0. TypeOK /\ call[c] \in Calls
  BY DEF PatientInv, TypeOK
<1>1. call[c] # Idle
  BY DEF CallSteps, RequestSave, ConfirmRead, ConfirmExists, ConfirmSave, CancelRead,
         CancelExists, CancelDelete, CancelSaveUpload, SaveRow, Idle
<1>2. ASSUME NEW k \in Calls, Await(c, k), k.at \notin {"confirm", "exists", "process"}
      PROVE  ConfirmsWhatItRead'
  BY <1>1, <1>2, NothingToConfirm
<1>3. ASSUME Return(c) PROVE ConfirmsWhatItRead'
  BY <1>2, <1>3, IdleTypes DEF Return, Idle
<1>4. CASE ConfirmRead(c)
  <2>1. PICK k : k = [at |-> "exists", upload |-> call[c].upload, status |-> status[call[c].upload]]
    OBVIOUS
  <2>2. call[c].upload \in Upload
    BY <1>0, <1>4, CallShape DEF ConfirmRead
  <2>3. k \in Calls
    BY <1>0, <2>1, <2>2 DEF Calls, TypeOK
  <2>4. ASSUME k.upload \notin repeated PROVE ReadIsCurrent(k)
    BY <1>4, <2>1, <2>4 DEF ConfirmRead, ConfirmsWhatItRead, ReadIsCurrent
  <2>5. Await(c, k) /\ UNCHANGED <<status, repeated>>
    BY <1>4, <2>1 DEF ConfirmRead
  <2>. QED
    BY <1>1, <2>3, <2>4, <2>5, ConfirmationGoesOn
<1>5. CASE ConfirmExists(c)
  <2>1. PICK k : k = [call[c] EXCEPT !.at = "process"]
    OBVIOUS
  <2>2. k \in Calls /\ k.at = "process" /\ k.upload = call[c].upload /\ k.status = call[c].status
    BY <1>0, <1>5, <2>1, CallShape DEF ConfirmExists, Calls
  <2>3. ASSUME k.upload \notin repeated PROVE ReadIsCurrent(k)
    BY <1>5, <2>2, <2>3 DEF ConfirmExists, ConfirmsWhatItRead, ReadIsCurrent
  <2>4. (Await(c, k) \/ Return(c)) /\ UNCHANGED <<status, repeated>>
    BY <1>5, <2>1 DEF ConfirmExists
  <2>. QED
    BY <1>1, <1>3, <2>2, <2>3, <2>4, ConfirmationGoesOn
<1>6. ASSUME NEW step \in {"look", "delete", "cancelled"}, call[c].at \in {"cancel", "look", "delete"},
             Await(c, [call[c] EXCEPT !.at = step])
      PROVE  ConfirmsWhatItRead'
  <2>1. /\ [call[c] EXCEPT !.at = step] \in Calls
        /\ [call[c] EXCEPT !.at = step].at = step
    BY <1>0, <1>6, CallShape DEF Calls
  <2>. QED
    BY <1>2, <1>6, <2>1
<1>7. CASE CancelRead(c)
  BY <1>3, <1>6, <1>7 DEF CancelRead
<1>8. CASE CancelExists(c)
  BY <1>6, <1>8 DEF CancelExists
<1>9. CASE CancelDelete(c)
  BY <1>6, <1>9 DEF CancelDelete
<1>10. CASE CancelSaveUpload(c)
  <2>1. PICK k : k = [at |-> "row",
                      row |-> [call[c].row EXCEPT !.active = Cleared(call[c].row, call[c].upload)]]
    OBVIOUS
  <2>2. call[c].row \in Rows
    BY <1>0, <1>10, CallShape DEF CancelSaveUpload
  <2>3. [call[c].row EXCEPT !.active = Cleared(call[c].row, call[c].upload)] \in Rows
    BY <2>2 DEF Rows, Cleared
  <2>4. k \in Calls /\ k.at = "row"
    BY <2>1, <2>3 DEF Calls
  <2>. QED
    BY <1>2, <1>10, <2>1, <2>4 DEF CancelSaveUpload
<1>. QED
  BY <1>3, <1>4, <1>5, <1>7, <1>8, <1>9, <1>10 DEF CallSteps, RequestSave, ConfirmSave, SaveRow

LEMMA InitLifecycleInv == Init => LifecycleInv
<1>. SUFFICES ASSUME Init PROVE LifecycleInv
  OBVIOUS
<1>1. /\ \A q \in Queues, u \in Upload : queue[q][u] = 0
      /\ \A q \in Queues, h \in Handler : worker[q][h] = Idle
  BY DEF Init
<1>2. \A q \in Queues, h \in Handler, u \in Upload : ~Holds(q, h, u)
  BY <1>1 DEF Holds
<1>3. \A q \in Queues, u \in Upload : queue[q][u] <= 1 /\ ~(queue[q][u] > 0)
  BY <1>1
<1>4. OneAnswer
  BY <1>2, <1>3 DEF OneAnswer, OneAnswerFor
<1>. QED
  BY <1>4 DEF LifecycleInv, ConfirmsWhatItRead, Init, Idle

\* What a step of the patient clients or of the subscribers does to the
\* status of an attempt is a step of the attempt's life.
LEMMA LifecycleStep ==
    ASSUME PatientInv, LifecycleInv, [PatientNext]_vars
    PROVE  LifecycleInv' /\ [Attempt!Next]_<<status, repeated>>
<1>. DEFINE Lives == LifecycleInv' /\ [Attempt!Next]_<<status, repeated>>
<1>0. /\ TypeOK /\ OneAnswer /\ ConfirmsWhatItRead
      /\ "requested" \in Queues
      /\ status \in [Upload -> Statuses]
  BY DEF PatientInv, LifecycleInv, TypeOK, Queues
<1>1. ASSUME NEW u \in Upload, NEW s, status' = [status EXCEPT ![u] = s], UNCHANGED repeated,
             \/ s = status[u]
             \/ <<status[u], s>> \in Attempt!Moves
             \/ u \in repeated /\ <<status[u], s>> \in Attempt!LateMoves
      PROVE  [Attempt!Next]_<<status, repeated>>
  <2>1. CASE s = status[u]
    BY <1>0, <1>1, <2>1
  <2>2. CASE <<status[u], s>> \in Attempt!MovesOf(u)
    <3>1. PICK move \in Attempt!MovesOf(u) : move = <<status[u], s>>
      BY <2>2
    <3>2. status[u] = move[1] /\ status' = [status EXCEPT ![u] = move[2]]
      BY <1>1, <3>1
    <3>3. Attempt!Move(u)
      BY <1>1, <3>2 DEF Attempt!Move
    <3>. QED
      BY <3>3 DEF Attempt!Next
  <2>. QED
    BY <1>1, <2>1, <2>2 DEF Attempt!MovesOf
<1>2. ASSUME UNCHANGED <<status, call>>, OneAnswer',
             UNCHANGED repeated \/ \E u \in Upload : repeated' = repeated \cup {u}
      PROVE  Lives
  <2>1. ConfirmsWhatItRead'
    BY <1>0, <1>2, ConfirmationKept
  <2>2. ASSUME NEW u \in Upload, repeated' = repeated \cup {u} PROVE Attempt!Next
    <3>1. Attempt!Repeat(u)
      BY <1>2, <2>2 DEF Attempt!Repeat
    <3>. QED
      BY <3>1 DEF Attempt!Next
  <2>. QED
    BY <1>2, <2>1, <2>2 DEF LifecycleInv
<1>3. ASSUME UNCHANGED <<status, call, queue, worker, repeated>> PROVE Lives
  <2>1. \A q \in Queues, h \in Handler, u \in Upload : Holds(q, h, u)' => Holds(q, h, u)
    BY <1>3 DEF Holds
  <2>2. UNCHANGED <<queue, status>> /\ repeated \subseteq repeated'
    BY <1>3
  <2>3. OneAnswer'
    BY <1>0, <2>1, <2>2, AnswersStay
  <2>. QED
    BY <1>2, <1>3, <2>3
<1>4. ASSUME NEW c \in Slot, Patient(c) \/ CallFails(c) PROVE Lives
  <2>1. UNCHANGED <<status, queue, worker, repeated>>
    BY <1>4 DEF Patient, Request, Assign, Confirm, Cancel, Edit, Begin, CallFails, Retries, rowVars
  <2>2. \A q \in Queues, h \in Handler, u \in Upload : Holds(q, h, u)' => Holds(q, h, u)
    BY <2>1 DEF Holds
  <2>3. UNCHANGED <<queue, status>> /\ repeated \subseteq repeated'
    BY <2>1
  <2>4. OneAnswer'
    BY <1>0, <2>2, <2>3, AnswersStay
  <2>5. ASSUME CallFails(c) PROVE ConfirmsWhatItRead'
    BY <2>5, NothingToConfirm, IdleTypes DEF CallFails, Return, Idle
  <2>6. ConfirmsWhatItRead'
    BY <1>0, <1>4, <2>5, PatientCallConfirms
  <2>. QED
    BY <2>1, <2>4, <2>6 DEF LifecycleInv
<1>5. ASSUME NEW c \in Slot, CallSteps(c) PROVE Lives
  <2>1. LifecycleInv'
    BY <1>0, <1>5, CallAnswers, CallConfirms DEF LifecycleInv
  <2>2. UNCHANGED repeated
    BY <1>5 DEF CallSteps, RequestSave, ConfirmRead, ConfirmExists, ConfirmSave, CancelRead,
                CancelExists, CancelDelete, CancelSaveUpload, SaveRow, Silent
  <2>3. CASE RequestSave(c)
    <3>1. PICK u \in Upload : status[u] = "absent" /\ status' = [status EXCEPT ![u] = "PENDING"]
      BY <2>3 DEF RequestSave
    <3>2. <<status[u], "PENDING">> \in Attempt!Moves
      BY <3>1 DEF Attempt!Moves
    <3>. QED
      BY <1>1, <2>1, <2>2, <3>1, <3>2
  <2>4. CASE ConfirmSave(c)
    <3>1. PICK u \in Upload : u = call[c].upload
      BY <1>0, <2>4, CallRefersTo DEF ConfirmSave
    <3>2. status' = [status EXCEPT ![u] = "PROCESSING"]
      BY <2>4, <3>1 DEF ConfirmSave
    <3>3. u \notin repeated => status[u] \in Processable
      BY <1>0, <2>4, <3>1 DEF ConfirmSave, ConfirmsWhatItRead, ReadIsCurrent
    <3>4. status[u] \in {"PENDING", "PROCESSING", "COMPLETED", "FAILED"}
      BY <1>0, <2>4, <3>1 DEF ConfirmSave, PatientInv, StillHolds, Statuses
    <3>5. \/ "PROCESSING" = status[u]
          \/ <<status[u], "PROCESSING">> \in Attempt!Moves
          \/ u \in repeated /\ <<status[u], "PROCESSING">> \in Attempt!LateMoves
      BY <3>3, <3>4 DEF Attempt!Moves, Attempt!LateMoves, Processable
    <3>. QED
      BY <1>1, <2>1, <2>2, <3>2, <3>5
  <2>5. CASE CancelSaveUpload(c)
    <3>1. PICK u \in Upload : u = call[c].upload
      BY <1>0, <2>5, CallRefersTo DEF CancelSaveUpload
    <3>2. status[u] = "PENDING" /\ status' = [status EXCEPT ![u] = "CANCELLED"]
      BY <2>5, <3>1 DEF CancelSaveUpload, PatientInv, StillHolds
    <3>3. <<status[u], "CANCELLED">> \in Attempt!Moves
      BY <3>2 DEF Attempt!Moves
    <3>. QED
      BY <1>1, <2>1, <2>2, <3>2, <3>3
  <2>6. CASE UNCHANGED status
    BY <2>1, <2>2, <2>6
  <2>. QED
    BY <1>5, <2>3, <2>4, <2>5, <2>6
      DEF CallSteps, ConfirmRead, ConfirmExists, CancelRead, CancelExists, CancelDelete, SaveRow, rowVars
<1>6. ASSUME NEW u \in Upload, PutFile(u) PROVE Lives
  BY <1>3, <1>6 DEF PutFile
<1>7. ASSUME NEW q \in Queues, NEW h \in Handler, NEW u \in Upload, Take(q, h, u) PROVE Lives
  <2>1. OneAnswer'
    BY <1>0, <1>7, AnswerIsTaken
  <2>2. UNCHANGED <<status, call, repeated>>
    BY <1>7 DEF Take, rowVars
  <2>. QED
    BY <1>2, <2>1, <2>2
<1>8. ASSUME NEW q \in Queues, NEW h \in Handler, Reading(q, h) PROVE Lives
  <2>1. OneAnswer'
    BY <1>0, <1>8, ReadingAnswers
  <2>2. UNCHANGED <<status, call>>
    BY <1>0, <1>8, ReadingEffect
  <2>3. UNCHANGED repeated
    BY <1>8 DEF Reading, UpdateRead, UpdateDecide, ValidateRead, ValidateDownload, ValidateMissing,
                ValidateCleanup, ReplayCheckFails, Retries, Step, Ack
  <2>. QED
    BY <1>2, <2>1, <2>2, <2>3
<1>9. ASSUME NEW h \in Handler, Answering(h) PROVE Lives
  BY <1>0, <1>2, <1>9, ValidatorAnswers
<1>10. ASSUME NEW q \in Queues, NEW h \in Handler, Failing(q, h) PROVE Lives
  BY <1>0, <1>2, <1>10, FailureAnswers
<1>11. ASSUME NEW q \in Queues, NEW h \in Handler, UpdateSave(q, h) PROVE Lives
  <2>1. PICK u \in Upload : u = Work(q, h)
    BY <1>0, <1>11, AnswerIsWritten
  <2>2. PICK s \in {"COMPLETED", "FAILED"} : s = IF q = "completed" THEN "COMPLETED" ELSE "FAILED"
    OBVIOUS
  <2>3. /\ OneAnswer' /\ status' = [status EXCEPT ![u] = s]
        /\ u \notin repeated => status[u] = "PROCESSING"
    BY <1>0, <1>11, <2>1, <2>2, AnswerIsWritten
  <2>4. UNCHANGED <<call, repeated>>
    BY <1>11 DEF UpdateSave
  <2>5. \A v \in Upload \ repeated' : status[v] # "PROCESSING" => status'[v] = status[v]
    BY <1>0, <2>3, <2>4
  <2>6. ConfirmsWhatItRead'
    BY <1>0, <2>4, <2>5, ConfirmationKept
  <2>7. status[u] \in {"PROCESSING", "COMPLETED", "FAILED"}
    <3>1. Outstanding(q, u)
      BY <1>0, <1>11, <2>1, UpdateSaveEffect
    <3>. QED
      BY <1>0, <3>1 DEF PatientInv, OutstandingIsLive, Live, Statuses
  <2>8. \/ s = status[u]
        \/ <<status[u], s>> \in Attempt!Moves
        \/ u \in repeated /\ <<status[u], s>> \in Attempt!LateMoves
    BY <2>3, <2>7 DEF Attempt!Moves, Attempt!LateMoves
  <2>. QED
    BY <1>1, <2>3, <2>4, <2>6, <2>8 DEF LifecycleInv
<1>12. CASE UNCHANGED vars
  BY <1>3, <1>12 DEF vars, rowVars
<1>. QED
  BY <1>0, <1>4, <1>5, <1>6, <1>7, <1>8, <1>9, <1>10, <1>11, <1>12
    DEF PatientNext, Environment, HandlerSteps, ValidatorSteps, Faults, ValidatorFaults,
        Reading, Answering, Failing

\* For a client that makes one call at a time and confirms only what is
\* confirmable, the reads and whole-row saves of the use cases and of the
\* subscribers implement the lifecycle that the guards of
\* SongInstrumentUpload draw, for every number of attempts, of handlers, and
\* of calls and handlers that die, throw, are retried or are given up; an
\* attempt whose answer may be given twice takes no other moves than the
\* late ones.
THEOREM AttemptsFollowLifecycle == PatientSpec => FollowsLifecycle
<1>1. Init => Attempt!Init
  BY DEF Init, Attempt!Init
<1>2. PatientInv /\ LifecycleInv /\ [PatientNext]_vars
         => LifecycleInv' /\ [Attempt!Next]_<<status, repeated>>
  BY LifecycleStep
<1>. QED
  BY <1>1, <1>2, InitPatientInv, PatientNextInv, InitLifecycleInv, PTL
    DEF PatientSpec, FollowsLifecycle, Attempt!Spec

=============================================================================
