----------------------------- MODULE VideoProofs -----------------------------
(***************************************************************************)
(* What is shown is in the bucket, for any number of attempts, of handlers *)
(* and of calls that move the video, but for the attempts that a save has  *)
(* touched whose read was out of date.                                     *)
(***************************************************************************)
EXTENDS InstrumentVideo, TLAPS

-----------------------------------------------------------------------------
(* The records of the row and of the handlers.                             *)

LEMMA UploadShape ==
    ASSUME NEW r \in Videos, NEW u \in Attempt
    PROVE  WithUpload(r, u) \in Videos /\ WithUpload(r, u).url = u
BY StartTimeAssumption DEF Videos, WithUpload

LEMMA StartTimeShape ==
    ASSUME NEW r \in Videos, NEW t \in StartTime
    PROVE  WithStartTime(r, t) \in Videos /\ WithStartTime(r, t).url = r.url
BY DEF Videos, WithStartTime

LEMMA NewShape ==
    ASSUME NEW u \in Attempt
    PROVE  NewVideo(u) \in Videos /\ NewVideo(u).url = u /\ NewVideo(u).id = u
BY StartTimeAssumption DEF Videos, NewVideo

LEMMA NoVideoShape == NoVideo.id = NoAttempt /\ NoVideo \notin Videos
BY NoAttemptAssumption DEF NoVideo, Videos

LEMMA CreationShape ==
    ASSUME NEW w \in Creations, w # Idle
    PROVE  /\ w.at # "idle"
           /\ w.upload \in Attempt
           /\ w.at = "replace" => w.row \in Videos /\ w.old \in Attempt
BY DEF Creations, Idle

LEMMA StepShape ==
    ASSUME NEW u \in Attempt,
           NEW step \in {"instrument", "search", "current", "create", "duplicate", "other"}
    PROVE  /\ [at |-> step, upload |-> u] \in Creations
           /\ [at |-> step, upload |-> u].at # "replace"
           /\ [at |-> step, upload |-> u].upload = u
BY DEF Creations

LEMMA WorkIsAttempt ==
    ASSUME TypeOK, NEW h \in Handler, creator[h] # Idle
    PROVE  Work(h) \in Attempt /\ creator[h] \in Creations
<1>1. creator[h] \in Creations
  BY DEF TypeOK
<1> QED
  BY <1>1, CreationShape DEF Work

LEMMA CallShape ==
    ASSUME TypeOK, NEW c \in Slot, call[c] # Idle
    PROVE  call[c].row \in Videos /\ call[c].row.url \in Attempt
<1>1. call[c] \in [at : {"save"}, row : Videos]
  BY DEF TypeOK
<1> QED
  BY <1>1 DEF Videos

-----------------------------------------------------------------------------
(* What a step of a handler has to leave: work on what was announced, and  *)
(* a row that is the work's own.                                           *)

Sound(w) ==
    /\ w \in Creations
    /\ w # Idle => Announced(w.upload)
    /\ w.at = "replace" => w.row.url = w.upload /\ phase[w.old] # "new"

LEMMA IdleIsSound == Sound(Idle)
BY DEF Sound, Idle, Creations

LEMMA CreatorIsSound ==
    ASSUME VideoInv, NEW h \in Handler
    PROVE  Sound(creator[h])
<1>1. creator[h] \in Creations
  BY DEF VideoInv, TypeOK
<1> QED
  BY <1>1 DEF VideoInv, OnlyCompleted, SavesItsWork, Sound, Work, At

\* A step that changes nothing but what one handler is at, and perhaps puts
\* a message of announced work back.
LEMMA HandlerKeeps ==
    ASSUME VideoInv, NEW h \in Handler, NEW w, Sound(w),
           creator' = [creator EXCEPT ![h] = w],
           NEW u \in Attempt, Announced(u),
           completed' \in [Attempt -> Nat],
           \A v \in Attempt : completed'[v] > 0 => completed[v] > 0 \/ v = u,
           faults' \in 0..MaxFaults,
           UNCHANGED <<exists, active, phase, objects, video, replaced, call, outrun, calls>>
    PROVE  VideoInv'
<1>1. creator \in [Handler -> Creations] /\ w \in Creations
  BY DEF VideoInv, TypeOK, Sound
<1>2. /\ creator' \in [Handler -> Creations]
      /\ creator'[h] = w
      /\ \A g \in Handler : g # h => creator'[g] = creator[g]
  BY <1>1
<1>3. TypeOK'
  BY <1>2 DEF VideoInv, TypeOK
<1>4. (VideoHasItsObject /\ ActiveHasItsObject /\ FirstHasItsObject)'
  BY DEF VideoInv, VideoHasItsObject, ActiveHasItsObject, FirstHasItsObject, Shown
<1>5. OnlyCompleted'
  <2>1. \A v \in Attempt : completed'[v] > 0 \/ Shown(v)' => Announced(v)'
    BY DEF VideoInv, OnlyCompleted, Shown, Announced
  <2>2. ASSUME NEW g \in Handler, creator'[g] # Idle PROVE Announced(Work(g))'
    <3>1. CASE g = h
      BY <1>2, <2>2, <3>1 DEF Sound, Work, Announced
    <3>2. CASE g # h
      BY <1>2, <2>2, <3>2 DEF VideoInv, OnlyCompleted, Work, Announced
    <3> QED
      BY <3>1, <3>2
  <2>3. /\ (active # NoAttempt => phase[active] # "new")'
        /\ \A c \in Slot : call'[c] # Idle => Announced(call[c].row.url)'
    BY DEF VideoInv, OnlyCompleted, Announced
  <2> QED
    BY <2>1, <2>2, <2>3 DEF OnlyCompleted
<1>6. ReplacedIsOutdated'
  BY DEF VideoInv, ReplacedIsOutdated, Shown
<1>7. SavesItsWork'
  <2> SUFFICES ASSUME NEW g \in Handler, At(g, "replace")'
               PROVE  /\ creator'[g].row.url = Work(g)'
                      /\ phase'[creator'[g].old] # "new"
    BY DEF SavesItsWork
  <2>1. CASE g = h
    BY <1>2, <2>1 DEF Sound, Work, At
  <2>2. CASE g # h
    BY <1>2, <2>2 DEF VideoInv, SavesItsWork, Work, At
  <2> QED
    BY <2>1, <2>2
<1>8. GoneHasNoRow'
  BY DEF VideoInv, GoneHasNoRow
<1> QED
  BY <1>3, <1>4, <1>5, <1>6, <1>7, <1>8 DEF VideoInv

LEMMA GotoKeeps ==
    ASSUME VideoInv, NEW h \in Handler, creator[h] # Idle, NEW w, Sound(w), Goto(h, w)
    PROVE  VideoInv'
<1>1. /\ creator' = [creator EXCEPT ![h] = w]
      /\ UNCHANGED <<exists, active, phase, objects, video, completed, replaced, call, outrun, calls, faults>>
  BY DEF Goto
<1>2. completed \in [Attempt -> Nat] /\ faults \in 0..MaxFaults
  BY DEF VideoInv, TypeOK
<1>3. PICK u \in Attempt : u = Work(h)
  BY WorkIsAttempt DEF VideoInv
<1>4. Announced(u)
  BY <1>3 DEF VideoInv, OnlyCompleted
<1>5. UNCHANGED <<exists, active, phase, objects, video, replaced, call, outrun, calls>>
  BY <1>1
<1> QED
  BY <1>1, <1>2, <1>4, <1>5, HandlerKeeps

LEMMA StepKeeps ==
    ASSUME VideoInv, NEW h \in Handler, creator[h] # Idle,
           NEW step \in {"instrument", "search", "current", "create", "duplicate", "other"},
           Step(h, step)
    PROVE  VideoInv'
<1>1. PICK u \in Attempt : u = Work(h)
  BY WorkIsAttempt DEF VideoInv
<1>2. Announced(u)
  BY <1>1 DEF VideoInv, OnlyCompleted
<1> DEFINE w == [at |-> step, upload |-> u]
<1>3. Sound(w)
  BY <1>2, StepShape DEF Sound
<1>4. Goto(h, w)
  BY <1>1 DEF Step
<1> HIDE DEF w
<1> QED
  BY <1>3, <1>4, GotoKeeps

LEMMA AckKeeps ==
    ASSUME VideoInv, NEW h \in Handler, creator[h] # Idle, Ack(h)
    PROVE  VideoInv'
BY IdleIsSound, GotoKeeps DEF Ack

\* The message of a handler that throws or dies is there again.
LEMMA RequeueKeeps ==
    ASSUME VideoInv, NEW h \in Handler, creator[h] # Idle,
           creator' = [creator EXCEPT ![h] = Idle],
           completed' = [completed EXCEPT ![Work(h)] = @ + 1],
           faults' \in 0..MaxFaults,
           UNCHANGED <<exists, active, phase, objects, video, replaced, call, outrun, calls>>
    PROVE  VideoInv'
<1>1. completed \in [Attempt -> Nat]
  BY DEF VideoInv, TypeOK
<1>2. PICK u \in Attempt : u = Work(h)
  BY WorkIsAttempt DEF VideoInv
<1>3. Announced(u)
  BY <1>2 DEF VideoInv, OnlyCompleted
<1>4. /\ completed' \in [Attempt -> Nat]
      /\ \A v \in Attempt : completed'[v] > 0 => completed[v] > 0 \/ v = u
  BY <1>1, <1>2
<1> QED
  BY <1>3, <1>4, IdleIsSound, HandlerKeeps

LEMMA ThrowKeeps ==
    ASSUME VideoInv, NEW h \in Handler, creator[h] # Idle, Throw(h)
    PROVE  VideoInv'
<1>1. faults' \in 0..MaxFaults
  BY DEF Throw, VideoInv, TypeOK
<1>2. UNCHANGED <<exists, active, phase, objects, video, replaced, call, outrun, calls>>
  BY DEF Throw
<1> QED
  BY <1>1, <1>2, RequeueKeeps DEF Throw

LEMMA FaultIsCounted ==
    ASSUME TypeOK, Fault
    PROVE  faults' \in 0..MaxFaults
BY BoundsAssumption DEF TypeOK, Fault

LEMMA CreatorFailsKeeps ==
    ASSUME VideoInv, NEW h \in Handler, CreatorFails(h)
    PROVE  VideoInv'
<1>1. faults' \in 0..MaxFaults
  BY FaultIsCounted DEF CreatorFails, VideoInv
<1>2. UNCHANGED <<exists, active, phase, objects, video, replaced, call, outrun, calls>>
  BY DEF CreatorFails
<1> QED
  BY <1>1, <1>2, RequeueKeeps DEF CreatorFails

LEMMA TakeKeeps ==
    ASSUME VideoInv, NEW h \in Handler, NEW u \in Attempt, Take(h, u)
    PROVE  VideoInv'
<1>1. Announced(u) /\ completed \in [Attempt -> Nat] /\ faults' \in 0..MaxFaults
  BY DEF Take, VideoInv, OnlyCompleted, TypeOK
<1>2. /\ completed' \in [Attempt -> Nat]
      /\ \A v \in Attempt : completed'[v] > 0 => completed[v] > 0 \/ v = u
  BY <1>1 DEF Take
<1> DEFINE w == [at |-> "instrument", upload |-> u]
<1>3. Sound(w)
  BY <1>1, StepShape DEF Sound
<1>4. /\ creator' = [creator EXCEPT ![h] = w]
      /\ UNCHANGED <<exists, active, phase, objects, video, replaced, call, outrun, calls>>
  BY DEF Take
<1> HIDE DEF w
<1> QED
  BY <1>1, <1>2, <1>3, <1>4, HandlerKeeps

-----------------------------------------------------------------------------
(* The reads.                                                              *)

LEMMA CreateCurrentKeeps ==
    ASSUME VideoInv, NEW h \in Handler, CreateCurrent(h)
    PROVE  VideoInv'
<1>1. creator[h] # Idle /\ TypeOK
  BY DEF CreateCurrent, VideoInv, At, Idle
<1>2. CASE video = NoVideo
  BY <1>1, <1>2, StepKeeps DEF CreateCurrent
<1>3. CASE video # NoVideo
  <2>1. video \in Videos /\ video.url \in Attempt
    BY <1>1, <1>3 DEF TypeOK, Videos
  <2>2. PICK u \in Attempt : u = Work(h)
    BY <1>1, WorkIsAttempt
  <2> DEFINE w == [at |-> "replace", upload |-> u, row |-> WithUpload(video, u), old |-> video.url]
  <2>3. WithUpload(video, u) \in Videos /\ WithUpload(video, u).url = u
    BY <2>1, UploadShape
  <2>6. w \in Creations
    BY <2>1, <2>3 DEF Creations
  <2>4. Announced(u)
    BY <1>1, <2>2 DEF VideoInv, OnlyCompleted
  <2>5. phase[video.url] # "new"
    BY <1>3, <2>1 DEF VideoInv, OnlyCompleted, Shown, Announced
  <2>7. Sound(w)
    BY <2>3, <2>4, <2>5, <2>6 DEF Sound
  <2>8. Goto(h, w)
    BY <1>3, <2>2 DEF CreateCurrent
  <2> HIDE DEF w
  <2> QED
    BY <1>1, <2>7, <2>8, GotoKeeps
<1> QED
  BY <1>2, <1>3

LEMMA ReadsKeep ==
    ASSUME VideoInv, NEW h \in Handler, Reads(h)
    PROVE  VideoInv'
<1>1. CASE CreateRead(h)
  <2>1. creator[h] # Idle
    BY <1>1 DEF CreateRead, At, Idle
  <2> QED
    BY <1>1, <2>1, StepKeeps, AckKeeps DEF CreateRead
<1>2. CASE CreateSearch(h)
  <2>1. creator[h] # Idle
    BY <1>2 DEF CreateSearch, At, Idle
  <2> QED
    BY <1>2, <2>1, StepKeeps, AckKeeps, ThrowKeeps DEF CreateSearch
<1>3. CASE CreateCurrent(h)
  BY <1>3, CreateCurrentKeeps
<1>4. CASE DuplicateById(h)
  <2>1. creator[h] # Idle
    BY <1>4 DEF DuplicateById, At, Idle
  <2> QED
    BY <1>4, <2>1, StepKeeps, AckKeeps, ThrowKeeps DEF DuplicateById
<1>5. CASE DuplicateByInstrument(h)
  <2>1. creator[h] # Idle
    BY <1>5 DEF DuplicateByInstrument, At, Idle
  <2> QED
    BY <1>5, <2>1, AckKeeps, ThrowKeeps DEF DuplicateByInstrument
<1> QED
  BY <1>1, <1>2, <1>3, <1>4, <1>5 DEF Reads

-----------------------------------------------------------------------------
(* The attempts.  The handlers and their messages stay, and an attempt     *)
(* that was announced stays announced.                                     *)

LEMMA HandlersStay ==
    ASSUME VideoInv, UNCHANGED creator,
           \A u \in Attempt : Announced(u) => Announced(u)',
           \A u \in Attempt : phase[u] # "new" => phase'[u] # "new"
    PROVE  /\ \A h \in Handler : creator'[h] # Idle => Announced(Work(h))'
           /\ SavesItsWork'
<1>1. ASSUME NEW h \in Handler, creator[h] # Idle PROVE Announced(Work(h))'
  <2>1. PICK u \in Attempt : u = Work(h)
    BY <1>1, WorkIsAttempt DEF VideoInv
  <2>2. Announced(u)'
    BY <1>1, <2>1 DEF VideoInv, OnlyCompleted
  <2>3. Work(h)' = u
    BY <2>1 DEF Work
  <2> QED
    BY <2>2, <2>3 DEF Announced
<1>2. ASSUME NEW h \in Handler, At(h, "replace")
      PROVE  creator[h].row.url = Work(h) /\ phase'[creator[h].old] # "new"
  <2>1. creator[h] # Idle
    BY <1>2 DEF At, Idle
  <2>2. creator[h].old \in Attempt
    BY <1>2, <2>1, WorkIsAttempt, CreationShape DEF VideoInv, At
  <2> QED
    BY <1>2, <2>2 DEF VideoInv, SavesItsWork
<1> QED
  BY <1>1, <1>2 DEF SavesItsWork, At, Work

LEMMA WorkersStay ==
    ASSUME VideoInv, UNCHANGED <<creator, call>>,
           \A u \in Attempt : Announced(u) => Announced(u)',
           \A u \in Attempt : phase[u] # "new" => phase'[u] # "new"
    PROVE  /\ \A h \in Handler : creator'[h] # Idle => Announced(Work(h))'
           /\ \A c \in Slot : call'[c] # Idle => Announced(call[c].row.url)'
           /\ SavesItsWork'
<1>1. ASSUME NEW c \in Slot, call[c] # Idle PROVE Announced(call[c].row.url)'
  <2>1. PICK u \in Attempt : u = call[c].row.url
    BY <1>1, CallShape DEF VideoInv
  <2>2. Announced(u)'
    BY <1>1, <2>1 DEF VideoInv, OnlyCompleted
  <2> QED
    BY <2>1, <2>2 DEF Announced
<1>2. \A c \in Slot : call'[c] # Idle => Announced(call[c].row.url)'
  BY <1>1 DEF Announced
<1> QED
  BY <1>2, HandlersStay

LEMMA RequestKeeps ==
    ASSUME VideoInv, NEW u \in Attempt, Request(u)
    PROVE  VideoInv'
<1>1. /\ exists /\ phase[u] = "new"
      /\ phase' = [phase EXCEPT ![u] = "requested"]
      /\ active' = u
      /\ UNCHANGED <<exists, objects, video, completed, replaced, creator, call, outrun, calls, faults>>
  BY DEF Request
<1>2. phase \in [Attempt -> Phases] /\ u # NoAttempt
  BY NoAttemptAssumption DEF VideoInv, TypeOK
<1>3. \A v \in Attempt : phase'[v] = IF v = u THEN "requested" ELSE phase[v]
  BY <1>1, <1>2
<1>4. TypeOK'
  BY <1>1 DEF VideoInv, TypeOK, Phases
<1>5. /\ \A v \in Attempt : Announced(v) => Announced(v)'
      /\ \A v \in Attempt : phase[v] # "new" => phase'[v] # "new"
  BY <1>1, <1>3 DEF Announced
<1>6. /\ \A h \in Handler : creator'[h] # Idle => Announced(Work(h))'
      /\ \A c \in Slot : call'[c] # Idle => Announced(call[c].row.url)'
      /\ SavesItsWork'
  BY <1>1, <1>5, WorkersStay
<1>7. OnlyCompleted'
  BY <1>1, <1>3, <1>5, <1>6 DEF VideoInv, OnlyCompleted, Shown
<1>8. (VideoHasItsObject /\ ActiveHasItsObject /\ FirstHasItsObject)'
  BY <1>1, <1>3 DEF VideoInv, VideoHasItsObject, ActiveHasItsObject, FirstHasItsObject, Shown, Stored
<1>9. ReplacedIsOutdated' /\ GoneHasNoRow'
  BY <1>1, <1>3, <1>5 DEF VideoInv, ReplacedIsOutdated, GoneHasNoRow, Shown
<1> QED
  BY <1>4, <1>6, <1>7, <1>8, <1>9 DEF VideoInv

LEMMA CancelActiveKeeps ==
    ASSUME VideoInv, CancelActive
    PROVE  VideoInv'
<1>1. /\ active' = NoAttempt
      /\ UNCHANGED <<exists, phase, objects, video, completed, replaced, creator, call, outrun, calls, faults>>
  BY DEF CancelActive
<1>2. TypeOK'
  BY <1>1 DEF VideoInv, TypeOK
<1>3. /\ \A h \in Handler : creator'[h] # Idle => Announced(Work(h))'
      /\ \A c \in Slot : call'[c] # Idle => Announced(call[c].row.url)'
      /\ SavesItsWork'
  BY <1>1, WorkersStay DEF Announced
<1>4. OnlyCompleted'
  BY <1>1, <1>3 DEF VideoInv, OnlyCompleted, Shown, Announced
<1>5. (VideoHasItsObject /\ ActiveHasItsObject /\ FirstHasItsObject)'
  BY <1>1, NoAttemptAssumption DEF VideoInv, VideoHasItsObject, ActiveHasItsObject, FirstHasItsObject, Shown
<1>6. ReplacedIsOutdated' /\ GoneHasNoRow'
  BY <1>1, NoAttemptAssumption DEF VideoInv, ReplacedIsOutdated, GoneHasNoRow, Shown
<1> QED
  BY <1>2, <1>3, <1>4, <1>5, <1>6 DEF VideoInv

LEMMA UploadsKeep ==
    ASSUME VideoInv, NEW u \in Attempt, Uploads(u)
    PROVE  VideoInv'
<1>1. /\ phase[u] \in {"requested", "FAILED"}
      /\ phase' = [phase EXCEPT ![u] = "uploaded"]
      /\ objects' = objects \cup {u}
      /\ UNCHANGED <<exists, active, video, completed, replaced, creator, call, outrun, calls, faults>>
  BY DEF Uploads
<1>2. phase \in [Attempt -> Phases] /\ objects \subseteq Attempt
  BY DEF VideoInv, TypeOK
<1>3. \A v \in Attempt : phase'[v] = IF v = u THEN "uploaded" ELSE phase[v]
  BY <1>1, <1>2
<1>4. TypeOK'
  BY <1>1, <1>2 DEF VideoInv, TypeOK, Phases
<1>5. /\ \A v \in Attempt : Announced(v) => Announced(v)'
      /\ \A v \in Attempt : phase[v] # "new" => phase'[v] # "new"
  BY <1>1, <1>3 DEF Announced
<1>6. /\ \A h \in Handler : creator'[h] # Idle => Announced(Work(h))'
      /\ \A c \in Slot : call'[c] # Idle => Announced(call[c].row.url)'
      /\ SavesItsWork'
  BY <1>1, <1>5, WorkersStay
<1>7. OnlyCompleted'
  BY <1>1, <1>3, <1>5, <1>6, NoAttemptAssumption DEF VideoInv, TypeOK, OnlyCompleted, Shown
<1>8. (VideoHasItsObject /\ ActiveHasItsObject /\ FirstHasItsObject)'
  BY <1>1, <1>3 DEF VideoInv, TypeOK, VideoHasItsObject, ActiveHasItsObject, FirstHasItsObject, Shown
<1>9. ReplacedIsOutdated' /\ GoneHasNoRow'
  BY <1>1, <1>3, <1>5 DEF VideoInv, ReplacedIsOutdated, GoneHasNoRow, Shown
<1> QED
  BY <1>4, <1>6, <1>7, <1>8, <1>9 DEF VideoInv

LEMMA CompletesKeeps ==
    ASSUME VideoInv, NEW u \in Attempt, Completes(u)
    PROVE  VideoInv'
<1>1. /\ phase[u] = "uploaded"
      /\ phase' = [phase EXCEPT ![u] = "COMPLETED"]
      /\ completed' = [completed EXCEPT ![u] = @ + 1]
      /\ UNCHANGED <<exists, active, objects, video, replaced, creator, call, outrun, calls, faults>>
  BY DEF Completes
<1>2. phase \in [Attempt -> Phases] /\ completed \in [Attempt -> Nat]
  BY DEF VideoInv, TypeOK
<1>3. /\ \A v \in Attempt : phase'[v] = IF v = u THEN "COMPLETED" ELSE phase[v]
      /\ \A v \in Attempt : completed'[v] > 0 => completed[v] > 0 \/ v = u
  BY <1>1, <1>2
<1>4. TypeOK'
  <2>1. phase' \in [Attempt -> Phases] /\ completed' \in [Attempt -> Nat]
    BY <1>1, <1>2 DEF Phases
  <2> QED
    BY <1>1, <2>1 DEF VideoInv, TypeOK
<1>5. /\ \A v \in Attempt : Announced(v) => Announced(v)'
      /\ \A v \in Attempt : phase[v] # "new" => phase'[v] # "new"
      /\ Announced(u)'
  BY <1>1, <1>3 DEF Announced
<1>6. /\ \A h \in Handler : creator'[h] # Idle => Announced(Work(h))'
      /\ \A c \in Slot : call'[c] # Idle => Announced(call[c].row.url)'
      /\ SavesItsWork'
  BY <1>1, <1>5, WorkersStay
<1>7. OnlyCompleted'
  <2>1. \A v \in Attempt : completed'[v] > 0 \/ Shown(v)' => Announced(v)'
    BY <1>1, <1>3, <1>5 DEF VideoInv, OnlyCompleted, Shown
  <2>2. active' # NoAttempt => phase'[active'] # "new"
    BY <1>1, <1>5 DEF VideoInv, TypeOK, OnlyCompleted
  <2> QED
    BY <1>6, <2>1, <2>2 DEF OnlyCompleted
<1>8. (VideoHasItsObject /\ ActiveHasItsObject /\ FirstHasItsObject)'
  BY <1>1, <1>3 DEF VideoInv, TypeOK, VideoHasItsObject, ActiveHasItsObject, FirstHasItsObject, Shown, Stored
<1>9. ReplacedIsOutdated' /\ GoneHasNoRow'
  BY <1>1, <1>3, <1>5 DEF VideoInv, ReplacedIsOutdated, GoneHasNoRow, Shown
<1> QED
  BY <1>4, <1>6, <1>7, <1>8, <1>9 DEF VideoInv

\* What is shown has completed, and is not rolled back.
LEMMA RollsBackKeeps ==
    ASSUME VideoInv, NEW u \in Attempt, RollsBack(u)
    PROVE  VideoInv'
<1>1. /\ phase[u] = "uploaded" /\ Fault
      /\ phase' = [phase EXCEPT ![u] = "FAILED"]
      /\ objects' = objects \ {u}
      /\ \/ UNCHANGED completed
         \/ u \in Fragile /\ completed' = [completed EXCEPT ![u] = @ + 1]
      /\ UNCHANGED <<exists, active, video, replaced, creator, call, outrun, calls>>
  BY DEF RollsBack
<1>2. /\ phase \in [Attempt -> Phases] /\ completed \in [Attempt -> Nat]
      /\ faults' \in 0..MaxFaults
  BY <1>1, FaultIsCounted DEF VideoInv, TypeOK
<1>3. /\ \A v \in Attempt : phase'[v] = IF v = u THEN "FAILED" ELSE phase[v]
      /\ \A v \in Attempt : completed'[v] > 0 => completed[v] > 0 \/ (v = u /\ u \in Fragile)
      /\ completed' \in [Attempt -> Nat]
  <2>1. CASE UNCHANGED completed
    BY <1>1, <1>2, <2>1
  <2>2. CASE u \in Fragile /\ completed' = [completed EXCEPT ![u] = @ + 1]
    BY <1>1, <1>2, <2>2
  <2> QED
    BY <1>1, <2>1, <2>2
<1>4. TypeOK'
  <2>1. phase' \in [Attempt -> Phases] /\ objects' \subseteq Attempt
    BY <1>1, <1>2 DEF VideoInv, TypeOK, Phases
  <2> QED
    BY <1>1, <1>2, <1>3, <2>1 DEF VideoInv, TypeOK
<1>5. /\ \A v \in Attempt : Announced(v) => Announced(v)'
      /\ \A v \in Attempt : phase[v] # "new" => phase'[v] # "new"
      /\ u \in Fragile => Announced(u)'
  BY <1>1, <1>3 DEF Announced
<1>6. /\ \A h \in Handler : creator'[h] # Idle => Announced(Work(h))'
      /\ \A c \in Slot : call'[c] # Idle => Announced(call[c].row.url)'
      /\ SavesItsWork'
  BY <1>1, <1>5, WorkersStay
<1>7. OnlyCompleted'
  <2>1. \A v \in Attempt : completed'[v] > 0 \/ Shown(v)' => Announced(v)'
    BY <1>1, <1>3, <1>5 DEF VideoInv, OnlyCompleted, Shown
  <2>2. active' # NoAttempt => phase'[active'] # "new"
    BY <1>1, <1>5 DEF VideoInv, TypeOK, OnlyCompleted
  <2> QED
    BY <1>6, <2>1, <2>2 DEF OnlyCompleted
<1>8. VideoHasItsObject'
  <2>1. Shown(u) => u \in Fragile
    BY <1>1 DEF VideoInv, OnlyCompleted, Announced
  <2> QED
    BY <1>1, <2>1 DEF VideoInv, VideoHasItsObject, Shown
<1>9. (ActiveHasItsObject /\ FirstHasItsObject)'
  BY <1>1, <1>3 DEF VideoInv, TypeOK, ActiveHasItsObject, FirstHasItsObject, Stored
<1>10. ReplacedIsOutdated' /\ GoneHasNoRow'
  BY <1>1, <1>3, <1>5 DEF VideoInv, ReplacedIsOutdated, GoneHasNoRow, Shown
<1> QED
  BY <1>4, <1>6, <1>7, <1>8, <1>9, <1>10 DEF VideoInv

LEMMA InstrumentRemovedKeeps ==
    ASSUME VideoInv, InstrumentRemoved
    PROVE  VideoInv'
<1>1. /\ exists' = FALSE /\ active' = NoAttempt /\ video' = NoVideo
      /\ UNCHANGED <<phase, objects, completed, replaced, creator, call, outrun, calls, faults>>
  BY DEF InstrumentRemoved
<1>2. TypeOK'
  BY <1>1 DEF VideoInv, TypeOK
<1>3. /\ \A h \in Handler : creator'[h] # Idle => Announced(Work(h))'
      /\ \A c \in Slot : call'[c] # Idle => Announced(call[c].row.url)'
      /\ SavesItsWork'
  BY <1>1, WorkersStay DEF Announced
<1>4. OnlyCompleted'
  BY <1>1, <1>3 DEF VideoInv, OnlyCompleted, Shown, Announced
<1>5. (VideoHasItsObject /\ ActiveHasItsObject /\ FirstHasItsObject)'
  BY <1>1, NoAttemptAssumption DEF VideoHasItsObject, ActiveHasItsObject, FirstHasItsObject, Shown
<1>6. ReplacedIsOutdated' /\ GoneHasNoRow'
  BY <1>1, NoAttemptAssumption DEF VideoInv, ReplacedIsOutdated, GoneHasNoRow, Shown
<1> QED
  BY <1>2, <1>3, <1>4, <1>5, <1>6 DEF VideoInv

-----------------------------------------------------------------------------
(* The saves.                                                              *)

\* A handler makes its work the video: it puts down what it holds, and may
\* have announced the old object, requeued its message and outrun others.
LEMMA ShowsKeeps ==
    ASSUME VideoInv, NEW h \in Handler, creator[h] # Idle,
           NEW u \in Attempt, Announced(u),
           exists,
           outrun \subseteq outrun', outrun' \subseteq Attempt,
           u \notin Fragile \cup outrun' => u \in objects,
           video' \in Videos, video'.url = u,
           creator' = [creator EXCEPT ![h] = Idle],
           completed' \in [Attempt -> Nat],
           \A v \in Attempt : completed'[v] > 0 => completed[v] > 0 \/ v = u,
           replaced' \in [Attempt -> [Attempt -> Nat]],
           \A a, b \in Attempt : replaced'[a][b] > 0 =>
               /\ phase[a] # "new"
               /\ a # b /\ a \notin outrun' => a # u /\ active # a,
           faults' \in 0..MaxFaults,
           UNCHANGED <<exists, active, phase, objects, call, calls>>
    PROVE  VideoInv'
<1>1. video' # NoVideo
  BY NoVideoShape
<1>2. \A v \in Attempt : Shown(v)' <=> v = u
  BY <1>1 DEF Shown
<1>3. Idle \in Creations /\ creator \in [Handler -> Creations]
  BY DEF Creations, VideoInv, TypeOK
<1>4. /\ creator' \in [Handler -> Creations]
      /\ \A g \in Handler : creator'[g] = IF g = h THEN Idle ELSE creator[g]
  BY <1>3
<1>5. TypeOK'
  BY <1>4 DEF VideoInv, TypeOK
<1>6. VideoHasItsObject' /\ ActiveHasItsObject' /\ FirstHasItsObject'
  BY <1>1, <1>2 DEF VideoInv, VideoHasItsObject, ActiveHasItsObject, FirstHasItsObject
<1>7. OnlyCompleted'
  <2>1. \A v \in Attempt : completed'[v] > 0 \/ Shown(v)' => Announced(v)'
    BY <1>2 DEF VideoInv, OnlyCompleted, Announced
  <2>2. /\ \A g \in Handler : creator'[g] # Idle => Announced(Work(g))'
        /\ \A c \in Slot : call'[c] # Idle => Announced(call[c].row.url)'
    BY <1>4 DEF VideoInv, OnlyCompleted, Announced, Work
  <2> QED
    BY <2>1, <2>2 DEF VideoInv, OnlyCompleted
<1>8. ReplacedIsOutdated'
  BY <1>1, <1>2 DEF ReplacedIsOutdated
<1>9. SavesItsWork'
  BY <1>4 DEF VideoInv, SavesItsWork, At, Work, Idle
<1>10. GoneHasNoRow'
  BY DEF GoneHasNoRow
<1> QED
  BY <1>5, <1>6, <1>7, <1>8, <1>9, <1>10 DEF VideoInv

\* The object of what is worked on, if it is active.
LEMMA ActiveWorkIsStored ==
    ASSUME VideoInv, NEW u \in Attempt, Announced(u), active = u, u \notin Fragile \cup outrun
    PROVE  u \in objects
BY NoAttemptAssumption DEF VideoInv, ActiveHasItsObject, Announced, Stored

LEMMA ReplaceKeeps ==
    ASSUME VideoInv, NEW h \in Handler, At(h, "replace"),
           Upsertable(creator[h].row),
           video' = creator[h].row,
           replaced' = [replaced EXCEPT ![creator[h].old][Work(h)] = @ + 1],
           creator' = [creator EXCEPT ![h] = Idle],
           completed' \in {completed, [completed EXCEPT ![Work(h)] = @ + 1]},
           outrun' = outrun \cup OutrunByReplace(h),
           faults' \in 0..MaxFaults,
           UNCHANGED <<exists, active, phase, objects, call, calls>>
    PROVE  VideoInv'
<1>1. creator[h] # Idle
  BY DEF At, Idle
<1>2. PICK u \in Attempt : u = Work(h)
  BY <1>1, WorkIsAttempt DEF VideoInv
<1>3. Announced(u)
  BY <1>1, <1>2 DEF VideoInv, OnlyCompleted
<1>4. PICK old \in Attempt : old = creator[h].old
  BY <1>1, WorkIsAttempt, CreationShape DEF VideoInv, At
<1>5. /\ exists
      /\ outrun \subseteq outrun' /\ outrun' \subseteq Attempt
      /\ (active = u /\ Shown(old)) \/ {u, old} \subseteq outrun'
  BY <1>2, <1>4 DEF Upsertable, MissesInstrument, OutrunByReplace, StaleReplace, Current, VideoInv, TypeOK
<1>6. u \notin Fragile \cup outrun' => u \in objects
  BY <1>3, <1>5, ActiveWorkIsStored
<1>7. video' \in Videos /\ video'.url = u
  BY <1>1, <1>2, WorkIsAttempt, CreationShape DEF VideoInv, SavesItsWork, At
<1>8. /\ completed' \in [Attempt -> Nat]
      /\ \A v \in Attempt : completed'[v] > 0 => completed[v] > 0 \/ v = u
  <2>1. completed \in [Attempt -> Nat]
    BY DEF VideoInv, TypeOK
  <2>2. CASE completed' = completed
    BY <2>1, <2>2
  <2>3. CASE completed' = [completed EXCEPT ![u] = @ + 1]
    BY <2>1, <2>3
  <2> QED
    BY <1>2, <2>2, <2>3
<1>9. /\ replaced' \in [Attempt -> [Attempt -> Nat]]
      /\ \A a, b \in Attempt : replaced'[a][b] > 0 => replaced[a][b] > 0 \/ (a = old /\ b = u)
  <2>1. replaced \in [Attempt -> [Attempt -> Nat]]
    BY DEF VideoInv, TypeOK
  <2>2. replaced' = [replaced EXCEPT ![old][u] = @ + 1]
    BY <1>2, <1>4
  <2> QED
    BY <2>1, <2>2
<1>10. phase[old] # "new"
  BY <1>4 DEF VideoInv, SavesItsWork
<1>11. \A a, b \in Attempt : replaced'[a][b] > 0 =>
          /\ phase[a] # "new"
          /\ a # b /\ a \notin outrun' => a # u /\ active # a
  BY <1>5, <1>9, <1>10 DEF VideoInv, ReplacedIsOutdated
<1>12. replaced' \in [Attempt -> [Attempt -> Nat]]
  BY <1>9
<1> QED
  BY ZenonT(60), <1>1, <1>3, <1>5, <1>6, <1>7, <1>8, <1>11, <1>12, ShowsKeeps

\* Nothing has been replaced before the first video, and the repeated
\* creation of a video shows what is shown.
LEMMA CreateKeeps ==
    ASSUME VideoInv, NEW h \in Handler, At(h, "create"),
           Upsertable(NewVideo(Work(h))),
           video' = NewVideo(Work(h)),
           creator' = [creator EXCEPT ![h] = Idle],
           completed' \in {completed, [completed EXCEPT ![Work(h)] = @ + 1]},
           outrun' = outrun \cup OutrunByCreate(h),
           faults' \in 0..MaxFaults,
           UNCHANGED <<exists, active, phase, objects, replaced, call, calls>>
    PROVE  VideoInv'
<1>1. creator[h] # Idle
  BY DEF At, Idle
<1>2. PICK u \in Attempt : u = Work(h)
  BY <1>1, WorkIsAttempt DEF VideoInv
<1>3. Announced(u)
  BY <1>1, <1>2 DEF VideoInv, OnlyCompleted
<1>4. video' \in Videos /\ video'.url = u
  BY <1>2, NewShape
<1>5. /\ exists
      /\ outrun \subseteq outrun' /\ outrun' \subseteq Attempt
      /\ video = NoVideo \/ Shown(u) \/ u \in outrun'
  BY <1>2, NewShape DEF Upsertable, MissesInstrument, HasOther, OutrunByCreate, StaleCreate, Current, VideoInv, TypeOK
<1>6. u \notin Fragile \cup outrun' => u \in objects
  <2>1. CASE video = NoVideo
    BY <1>3, <1>5, <2>1 DEF VideoInv, FirstHasItsObject, Announced, Stored
  <2>2. CASE Shown(u)
    BY <2>2 DEF VideoInv, VideoHasItsObject
  <2> QED
    BY <1>5, <2>1, <2>2
<1>7. /\ completed' \in [Attempt -> Nat]
      /\ \A v \in Attempt : completed'[v] > 0 => completed[v] > 0 \/ v = u
  <2>1. completed \in [Attempt -> Nat]
    BY DEF VideoInv, TypeOK
  <2>2. CASE completed' = completed
    BY <2>1, <2>2
  <2>3. CASE completed' = [completed EXCEPT ![u] = @ + 1]
    BY <2>1, <2>3
  <2> QED
    BY <1>2, <2>2, <2>3
<1>8. replaced' \in [Attempt -> [Attempt -> Nat]]
  BY DEF VideoInv, TypeOK
<1>9. \A a, b \in Attempt : replaced'[a][b] > 0 =>
         /\ phase[a] # "new"
         /\ a # b /\ a \notin outrun' => a # u /\ active # a
  BY <1>5 DEF VideoInv, ReplacedIsOutdated
<1> QED
  BY <1>1, <1>3, <1>4, <1>5, <1>6, <1>7, <1>8, <1>9, ShowsKeeps

LEMMA SavesKeep ==
    ASSUME VideoInv, NEW h \in Handler, Saves(h)
    PROVE  VideoInv'
<1>1. faults \in 0..MaxFaults
  BY DEF VideoInv, TypeOK
<1>2. CASE Create(h)
  <2>1. At(h, "create") /\ creator[h] # Idle
    BY <1>2 DEF Create, At, Idle
  <2>2. CASE MissesInstrument /\ Throw(h)
    BY <2>1, <2>2, ThrowKeeps
  <2>3. CASE exists /\ HasOther(NewVideo(Work(h))) /\ Step(h, "duplicate")
    BY <2>1, <2>3, StepKeeps
  <2>4. CASE /\ Upsertable(NewVideo(Work(h)))
             /\ video' = NewVideo(Work(h))
             /\ creator' = [creator EXCEPT ![h] = Idle]
             /\ outrun' = outrun \cup OutrunByCreate(h)
             /\ UNCHANGED <<exists, active, phase, objects, completed, replaced, call, calls, faults>>
    <3>1. UNCHANGED <<exists, active, phase, objects, replaced, call, calls>>
      BY <2>4
    <3> QED
      BY <1>1, <2>1, <2>4, <3>1, CreateKeeps
  <2> QED
    BY <1>2, <2>2, <2>3, <2>4 DEF Create
<1>3. CASE Replace(h)
  <2>1. At(h, "replace") /\ creator[h] # Idle
    BY <1>3 DEF Replace, At, Idle
  <2>2. CASE ~Upsertable(creator[h].row) /\ Throw(h)
    BY <2>1, <2>2, ThrowKeeps
  <2>3. CASE /\ Upsertable(creator[h].row)
             /\ video' = creator[h].row
             /\ replaced' = [replaced EXCEPT ![creator[h].old][Work(h)] = @ + 1]
             /\ creator' = [creator EXCEPT ![h] = Idle]
             /\ outrun' = outrun \cup OutrunByReplace(h)
             /\ UNCHANGED <<exists, active, phase, objects, completed, call, calls, faults>>
    <3>1. UNCHANGED <<exists, active, phase, objects, call, calls>>
      BY <2>3
    <3> QED
      BY <1>1, <2>1, <2>3, <3>1, ReplaceKeeps
  <2> QED
    BY <1>3, <2>2, <2>3 DEF Replace
<1>4. CASE CommittedUnacked(h)
  <2>1. faults' \in 0..MaxFaults
    BY <1>4, FaultIsCounted DEF CommittedUnacked, VideoInv
  <2>2. UNCHANGED <<exists, active, phase, objects, call, calls>>
    BY <1>4 DEF CommittedUnacked
  <2>3. CASE At(h, "create")
    <3>1. /\ Upsertable(NewVideo(Work(h))) /\ video' = NewVideo(Work(h))
          /\ outrun' = outrun \cup OutrunByCreate(h)
          /\ UNCHANGED <<exists, active, phase, objects, replaced, call, calls>>
      BY <1>4, <2>2, <2>3 DEF CommittedUnacked
    <3> QED
      BY <1>4, <2>1, <2>3, <3>1, CreateKeeps DEF CommittedUnacked
  <2>4. CASE At(h, "replace")
    <3>1. /\ Upsertable(creator[h].row) /\ video' = creator[h].row
          /\ replaced' = [replaced EXCEPT ![creator[h].old][Work(h)] = @ + 1]
          /\ outrun' = outrun \cup OutrunByReplace(h)
      BY <1>4, <2>4 DEF CommittedUnacked, At
    <3> QED
      BY <1>4, <2>1, <2>2, <2>4, <3>1, ReplaceKeeps DEF CommittedUnacked
  <2> QED
    BY <1>4, <2>3, <2>4 DEF CommittedUnacked
<1> QED
  BY <1>2, <1>3, <1>4 DEF Saves

-----------------------------------------------------------------------------
(* The cleaning, and the calls that move the video.                        *)

\* What is deleted has lost its turn.
LEMMA CleaningKeeps ==
    ASSUME VideoInv, NEW a \in Attempt, NEW b \in Attempt, replaced[a][b] > 0,
           objects' \in {objects, objects \ ToDelete(a, b)},
           replaced' \in [Attempt -> [Attempt -> Nat]],
           \A x, y \in Attempt : replaced'[x][y] > 0 => replaced[x][y] > 0,
           faults' \in 0..MaxFaults,
           UNCHANGED <<exists, active, phase, video, completed, creator, call, outrun, calls>>
    PROVE  VideoInv'
<1>1. TypeOK'
  BY DEF VideoInv, TypeOK
<1>2. /\ a # b /\ a \notin outrun => active # a /\ ~Shown(a)
      /\ exists => video # NoVideo
  BY DEF VideoInv, ReplacedIsOutdated
<1>3. \A u \in Attempt : u \in objects /\ (u # a \/ a = b) => u \in objects'
  BY DEF ToDelete
<1>4. VideoHasItsObject'
  BY <1>2, <1>3 DEF VideoInv, VideoHasItsObject, Shown
<1>5. ActiveHasItsObject' /\ FirstHasItsObject'
  BY <1>2, <1>3 DEF VideoInv, TypeOK, ActiveHasItsObject, FirstHasItsObject
<1>6. /\ \A h \in Handler : creator'[h] # Idle => Announced(Work(h))'
      /\ \A c \in Slot : call'[c] # Idle => Announced(call[c].row.url)'
      /\ SavesItsWork'
  BY WorkersStay DEF Announced
<1>7. OnlyCompleted'
  BY <1>6 DEF VideoInv, OnlyCompleted, Shown, Announced
<1>8. ReplacedIsOutdated' /\ GoneHasNoRow'
  BY DEF VideoInv, ReplacedIsOutdated, GoneHasNoRow, Shown
<1> QED
  BY <1>1, <1>4, <1>5, <1>6, <1>7, <1>8 DEF VideoInv

LEMMA CleanKeeps ==
    ASSUME VideoInv, NEW a \in Attempt, NEW b \in Attempt, Clean(a, b)
    PROVE  VideoInv'
<1>1. replaced \in [Attempt -> [Attempt -> Nat]] /\ faults' \in 0..MaxFaults
  BY DEF Clean, VideoInv, TypeOK
<1>2. /\ replaced' \in [Attempt -> [Attempt -> Nat]]
      /\ \A x, y \in Attempt : replaced'[x][y] > 0 => replaced[x][y] > 0
  BY <1>1 DEF Clean
<1>3. UNCHANGED <<exists, active, phase, video, completed, creator, call, outrun, calls>>
  BY DEF Clean
<1> QED
  BY <1>1, <1>2, <1>3, CleaningKeeps DEF Clean

LEMMA CleanFailsKeeps ==
    ASSUME VideoInv, NEW a \in Attempt, NEW b \in Attempt, CleanFails(a, b)
    PROVE  VideoInv'
<1>1. replaced' = replaced /\ replaced \in [Attempt -> [Attempt -> Nat]] /\ faults' \in 0..MaxFaults
  BY FaultIsCounted DEF CleanFails, VideoInv, TypeOK
<1>2. UNCHANGED <<exists, active, phase, video, completed, creator, call, outrun, calls>>
  BY DEF CleanFails
<1> QED
  BY <1>1, <1>2, CleaningKeeps DEF CleanFails

\* Steps that change the calls at most, or the start time of what is shown.
LEMMA CallsKeep ==
    ASSUME VideoInv,
           call' \in [Slot -> {Idle} \cup [at : {"save"}, row : Videos]],
           \A c \in Slot : call'[c] # Idle => Announced(call'[c].row.url),
           calls' \in 0..MaxCalls,
           video' \in Videos \cup {NoVideo},
           video' = NoVideo <=> video = NoVideo,
           video # NoVideo => video'.url = video.url,
           UNCHANGED <<exists, active, phase, objects, completed, replaced, creator, outrun, faults>>
    PROVE  VideoInv'
<1>1. TypeOK'
  BY DEF VideoInv, TypeOK
<1>2. \A u \in Attempt : Shown(u)' <=> Shown(u)
  BY DEF Shown
<1>3. (VideoHasItsObject /\ ActiveHasItsObject /\ FirstHasItsObject)'
  BY <1>2 DEF VideoInv, VideoHasItsObject, ActiveHasItsObject, FirstHasItsObject
<1>4. /\ \A h \in Handler : creator'[h] # Idle => Announced(Work(h))'
      /\ SavesItsWork'
  BY HandlersStay DEF Announced
<1>5. \A c \in Slot : call'[c] # Idle => Announced(call[c].row.url)'
  BY DEF Announced
<1>6. OnlyCompleted'
  BY <1>2, <1>4, <1>5 DEF VideoInv, OnlyCompleted, Announced
<1>7. ReplacedIsOutdated' /\ GoneHasNoRow'
  BY <1>2 DEF VideoInv, ReplacedIsOutdated, GoneHasNoRow
<1> QED
  BY <1>1, <1>3, <1>4, <1>6, <1>7 DEF VideoInv

LEMMA UpdateStartTimeKeeps ==
    ASSUME VideoInv, NEW c \in Slot, NEW t \in StartTime, UpdateStartTime(c, t)
    PROVE  VideoInv'
<1>1. /\ video \in Videos /\ calls \in 0..MaxCalls
      /\ call \in [Slot -> {Idle} \cup [at : {"save"}, row : Videos]]
  BY DEF UpdateStartTime, VideoInv, TypeOK
<1>2. PICK r \in Videos : r = WithStartTime(video, t) /\ r.url = video.url
  BY <1>1, StartTimeShape
<1>3. call' = [call EXCEPT ![c] = [at |-> "save", row |-> r]]
  BY <1>2 DEF UpdateStartTime
<1>4. call' \in [Slot -> {Idle} \cup [at : {"save"}, row : Videos]]
  BY <1>1, <1>3
<1>5. calls' \in 0..MaxCalls
  BY <1>1, BoundsAssumption DEF UpdateStartTime
<1>6. /\ video' = video
      /\ UNCHANGED <<exists, active, phase, objects, completed, replaced, creator, outrun, faults>>
  BY DEF UpdateStartTime
<1>7. Announced(r.url)
  <2>1. PICK u \in Attempt : u = video.url
    BY <1>1 DEF Videos
  <2>2. Shown(u)
    BY <2>1 DEF Shown, UpdateStartTime
  <2> QED
    BY <1>2, <2>1, <2>2 DEF VideoInv, OnlyCompleted
<1>8. \A d \in Slot : call'[d] # Idle => Announced(call'[d].row.url)
  BY <1>1, <1>3, <1>7 DEF VideoInv, OnlyCompleted
<1> QED
  BY <1>1, <1>4, <1>5, <1>6, <1>8, CallsKeep

\* A save whose video is no longer shown may bring back an object on its way
\* to be deleted, and outruns what it touches.
LEMMA SaveStartTimeKeeps ==
    ASSUME VideoInv, NEW c \in Slot, SaveStartTime(c)
    PROVE  VideoInv'
<1>1. /\ call[c] # Idle
      /\ exists
      /\ video' = call[c].row
      /\ call' = [call EXCEPT ![c] = Idle]
      /\ outrun' = outrun \cup (IF StaleCall(c) THEN {call[c].row.url} \cup Current ELSE {})
      /\ UNCHANGED <<exists, active, phase, objects, completed, replaced, creator, calls, faults>>
  BY DEF SaveStartTime, Upsertable, MissesInstrument
<1>2. /\ call \in [Slot -> {Idle} \cup [at : {"save"}, row : Videos]]
      /\ calls \in 0..MaxCalls
  BY DEF VideoInv, TypeOK
<1>3. PICK r \in Videos : r = call[c].row
  BY <1>1, CallShape DEF VideoInv
<1>4. call' \in [Slot -> {Idle} \cup [at : {"save"}, row : Videos]]
  BY <1>1, <1>2
<1>5. \A d \in Slot : call'[d] # Idle => Announced(call'[d].row.url)
  BY <1>1, <1>2 DEF VideoInv, OnlyCompleted
<1>6. video' = r /\ r # NoVideo
  BY <1>1, <1>3, NoVideoShape
<1>7. CASE Shown(call[c].row.url)
  <2>1. video # NoVideo /\ r.url = video.url
    BY <1>3, <1>7 DEF Shown
  <2>2. /\ calls' \in 0..MaxCalls
        /\ UNCHANGED <<exists, active, phase, objects, completed, replaced, creator, outrun, faults>>
    BY <1>1, <1>2, <1>7 DEF StaleCall
  <2> QED
    BY <1>4, <1>5, <1>6, <2>1, <2>2, CallsKeep
<1>8. CASE ~Shown(call[c].row.url)
  <2>1. PICK u \in Attempt : u = r.url
    BY DEF Videos
  <2>2. /\ u \in outrun' /\ outrun \subseteq outrun' /\ outrun' \subseteq Attempt
    BY <1>1, <1>3, <1>8, <2>1 DEF StaleCall, Current, VideoInv, TypeOK
  <2>3. \A v \in Attempt : Shown(v)' <=> v = u
    BY <1>6, <2>1 DEF Shown
  <2>4. Announced(u)
    BY <1>1, <1>3, <2>1 DEF VideoInv, OnlyCompleted
  <2>5. TypeOK'
    BY <1>1, <1>2, <1>4, <1>6, <2>2 DEF VideoInv, TypeOK
  <2>6. VideoHasItsObject' /\ ActiveHasItsObject' /\ FirstHasItsObject'
    BY <1>1, <1>6, <2>2, <2>3 DEF VideoInv, VideoHasItsObject, ActiveHasItsObject, FirstHasItsObject
  <2>7. /\ \A h \in Handler : creator'[h] # Idle => Announced(Work(h))'
        /\ SavesItsWork'
    BY <1>1, HandlersStay DEF Announced
  <2>8. \A d \in Slot : call'[d] # Idle => Announced(call[d].row.url)'
    BY <1>1, <1>5 DEF Announced
  <2>9. OnlyCompleted'
    BY <1>1, <2>3, <2>4, <2>7, <2>8 DEF VideoInv, OnlyCompleted, Announced
  <2>10. ReplacedIsOutdated' /\ GoneHasNoRow'
    BY <1>1, <1>6, <2>2, <2>3 DEF VideoInv, ReplacedIsOutdated, GoneHasNoRow
  <2> QED
    BY <2>5, <2>6, <2>7, <2>9, <2>10 DEF VideoInv
<1> QED
  BY <1>7, <1>8

LEMMA CallFailsKeeps ==
    ASSUME VideoInv, NEW c \in Slot, CallFails(c)
    PROVE  VideoInv'
<1>1. /\ call \in [Slot -> {Idle} \cup [at : {"save"}, row : Videos]]
      /\ calls \in 0..MaxCalls
      /\ video \in Videos \cup {NoVideo}
  BY DEF VideoInv, TypeOK
<1>2. /\ call' \in [Slot -> {Idle} \cup [at : {"save"}, row : Videos]]
      /\ video' = video /\ calls' = calls
      /\ UNCHANGED <<exists, active, phase, objects, completed, replaced, creator, outrun, faults>>
  BY <1>1 DEF CallFails
<1>3. \A d \in Slot : call'[d] # Idle => Announced(call'[d].row.url)
  BY <1>1 DEF CallFails, VideoInv, OnlyCompleted
<1> QED
  BY <1>1, <1>2, <1>3, CallsKeep

-----------------------------------------------------------------------------
(* The steps together.                                                     *)

LEMMA InitIsSound == Init => VideoInv
<1> SUFFICES ASSUME Init PROVE VideoInv
  OBVIOUS
<1>1. /\ \A u \in Attempt : phase[u] = "new" /\ completed[u] = 0
      /\ \A a, b \in Attempt : replaced[a][b] = 0
      /\ \A h \in Handler : creator[h] = Idle
      /\ \A c \in Slot : call[c] = Idle
      /\ video = NoVideo /\ active = NoAttempt /\ exists = TRUE /\ objects = {} /\ outrun = {}
  BY DEF Init
<1>2. TypeOK
  <2>1. exists \in BOOLEAN
    BY Zenon DEF Init
  <2>2. /\ phase \in [Attempt -> Phases]
        /\ completed \in [Attempt -> Nat]
        /\ replaced \in [Attempt -> [Attempt -> Nat]]
    BY DEF Init, Phases
  <2>3. /\ creator \in [Handler -> Creations]
        /\ call \in [Slot -> {Idle} \cup [at : {"save"}, row : Videos]]
    BY DEF Init, Creations
  <2>4. calls \in 0..MaxCalls /\ faults \in 0..MaxFaults
    BY BoundsAssumption DEF Init
  <2> QED
    BY <1>1, <2>1, <2>2, <2>3, <2>4 DEF TypeOK
<1>3. VideoHasItsObject /\ ActiveHasItsObject /\ FirstHasItsObject
  BY <1>1 DEF VideoHasItsObject, ActiveHasItsObject, FirstHasItsObject, Shown, Stored
<1>4. OnlyCompleted /\ ReplacedIsOutdated /\ GoneHasNoRow
  BY <1>1 DEF OnlyCompleted, ReplacedIsOutdated, GoneHasNoRow, Shown
<1>5. SavesItsWork
  BY <1>1 DEF SavesItsWork, At, Idle
<1> QED
  BY <1>2, <1>3, <1>4, <1>5 DEF VideoInv

LEMMA NextKeeps == VideoInv /\ [Next]_vars => VideoInv'
<1> SUFFICES ASSUME VideoInv, [Next]_vars PROVE VideoInv'
  OBVIOUS
<1>1. CASE UNCHANGED vars
  <2>1. /\ call' = call /\ calls' = calls /\ video' = video
        /\ UNCHANGED <<exists, active, phase, objects, completed, replaced, creator, outrun, faults>>
    BY <1>1 DEF vars
  <2>2. /\ call \in [Slot -> {Idle} \cup [at : {"save"}, row : Videos]]
        /\ calls \in 0..MaxCalls
        /\ video \in Videos \cup {NoVideo}
        /\ \A c \in Slot : call[c] # Idle => Announced(call[c].row.url)
    BY DEF VideoInv, TypeOK, OnlyCompleted
  <2> QED
    BY <2>1, <2>2, CallsKeep
<1>2. ASSUME NEW u \in Attempt, Request(u) \/ Uploads(u) \/ Completes(u) \/ RollsBack(u)
      PROVE  VideoInv'
  BY <1>2, RequestKeeps, UploadsKeep, CompletesKeeps, RollsBackKeeps
<1>3. CASE CancelActive \/ InstrumentRemoved
  BY <1>3, CancelActiveKeeps, InstrumentRemovedKeeps
<1>4. ASSUME NEW h \in Handler, Reads(h) \/ CreatorFails(h) \/ Saves(h)
      PROVE  VideoInv'
  BY <1>4, ReadsKeep, CreatorFailsKeeps, SavesKeep
<1>5. ASSUME NEW h \in Handler, NEW u \in Attempt, Take(h, u) PROVE VideoInv'
  BY <1>5, TakeKeeps
<1>6. ASSUME NEW a \in Attempt, NEW b \in Attempt, Clean(a, b) \/ CleanFails(a, b) PROVE VideoInv'
  BY <1>6, CleanKeeps, CleanFailsKeeps
<1>7. ASSUME NEW c \in Slot, NEW t \in StartTime, UpdateStartTime(c, t) PROVE VideoInv'
  BY <1>7, UpdateStartTimeKeeps
<1>8. ASSUME NEW c \in Slot, CallFails(c) \/ SaveStartTime(c) PROVE VideoInv'
  BY <1>8, CallFailsKeeps, SaveStartTimeKeeps
<1> QED
  BY <1>1, <1>2, <1>3, <1>4, <1>5, <1>6, <1>7, <1>8 DEF Next, Attempts

\* What a song instrument shows is in the bucket, although its objects are
\* replaced, rolled back and deleted by messages that come late and again
\* (SongInstrumentVideoCreator, DeletePreviousSongInstrumentVideo and
\* cleanupDestinationFile).
THEOREM ShownIsStored == Spec => []VideoInv
<1>1. Init => VideoInv
  BY InitIsSound
<1>2. VideoInv /\ [Next]_vars => VideoInv'
  BY NextKeeps
<1> QED
  BY <1>1, <1>2, PTL DEF Spec

=============================================================================
