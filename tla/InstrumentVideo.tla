---------------------------- MODULE InstrumentVideo ----------------------------
(***************************************************************************)
(* The video of one song instrument: the validation that puts a file at    *)
(* its final path, the subscriber that makes the file of a completed       *)
(* upload the instrument's video, the subscriber that deletes the file of  *)
(* a video that was replaced, and the API call that moves the video on the *)
(* timeline.  They share the SongInstrumentVideo row, the active attempt   *)
(* of the SongInstrument row and the final objects in the bucket.          *)
(*                                                                         *)
(* The path of a final object contains the id of its attempt, so an        *)
(* attempt stands for its id, its url and its file.  Each step between two *)
(* awaits is one action; what was read before is kept in the record of the *)
(* handler or call.  The active attempt changes as module UploadLifecycle  *)
(* lets it: to a new attempt, or away by the cancellation of a pending one.*)
(*                                                                         *)
(* Artificial: MaxCalls caps the calls that move the video, and MaxFaults  *)
(* the handlers that die or throw and the ambiguous commits.               *)
(***************************************************************************)
EXTENDS Integers

CONSTANTS
    Attempt,
    NoAttempt,
    StartTime,   \* start times a call may ask for
    Handler,     \* handlers of the creation queue that can run at a time
    Slot,        \* API calls that can be in flight at a time
    Fragile,     \* attempts whose validation may commit without being told so
    MaxCalls,
    MaxFaults

ASSUME NoAttemptAssumption == NoAttempt \notin Attempt
ASSUME StartTimeAssumption == 0 \in StartTime /\ StartTime \subseteq Int
ASSUME BoundsAssumption == MaxCalls \in Nat /\ MaxFaults \in Nat /\ Fragile \subseteq Attempt

VARIABLES
    exists,     \* whether the instrument has not been removed
    active,     \* its activeUploadAttemptId
    phase,      \* how far the validation of each attempt is
    objects,    \* attempts whose final object is in the bucket
    video,      \* the SongInstrumentVideo row of the instrument
    completed,  \* messages of the creation queue
    replaced,   \* messages of the cleaning queue, by old and new object
    creator,    \* what each handler of the creation queue is at
    call,       \* what each API call in flight is about to save
    outrun,     \* history: attempts a save has touched that was decided on an old read
    calls,
    faults

vars == <<exists, active, phase, objects, video, completed, replaced, creator, call, outrun, calls, faults>>

Phases == {"new", "requested", "uploaded", "COMPLETED", "FAILED"}

NoVideo == [id |-> NoAttempt]
Videos == [id : Attempt, url : Attempt, start : StartTime]

Idle == [at |-> "idle"]
Creations ==
    {Idle}
    \cup [at : {"instrument", "search", "current", "create", "duplicate", "other"}, upload : Attempt]
    \cup [at : {"replace"}, upload : Attempt, row : Videos, old : Attempt]

TypeOK ==
    /\ exists \in BOOLEAN
    /\ active \in Attempt \cup {NoAttempt}
    /\ phase \in [Attempt -> Phases]
    /\ objects \in SUBSET Attempt
    /\ video \in Videos \cup {NoVideo}
    /\ completed \in [Attempt -> Nat]
    /\ replaced \in [Attempt -> [Attempt -> Nat]]
    /\ creator \in [Handler -> Creations]
    /\ call \in [Slot -> {Idle} \cup [at : {"save"}, row : Videos]]
    /\ outrun \in SUBSET Attempt
    /\ calls \in 0..MaxCalls
    /\ faults \in 0..MaxFaults

Init ==
    /\ exists = TRUE
    /\ active = NoAttempt
    /\ phase = [u \in Attempt |-> "new"]
    /\ objects = {}
    /\ video = NoVideo
    /\ completed = [u \in Attempt |-> 0]
    /\ replaced = [u \in Attempt |-> [v \in Attempt |-> 0]]
    /\ creator = [h \in Handler |-> Idle]
    /\ call = [c \in Slot |-> Idle]
    /\ outrun = {}
    /\ calls = 0
    /\ faults = 0

Fault == faults < MaxFaults /\ faults' = faults + 1

-----------------------------------------------------------------------------
(* The attempts and their validation.                                      *)

\* saveWithSongInstrument of the requester.
Request(u) ==
    /\ exists
    /\ phase[u] = "new"
    /\ phase' = [phase EXCEPT ![u] = "requested"]
    /\ active' = u
    /\ UNCHANGED <<exists, objects, video, completed, replaced, creator, call, outrun, calls, faults>>

\* The row save of the canceller.
CancelActive ==
    /\ exists
    /\ active # NoAttempt
    /\ phase[active] = "requested"
    /\ active' = NoAttempt
    /\ UNCHANGED <<exists, phase, objects, video, completed, replaced, creator, call, outrun, calls, faults>>

\* A valid file is copied to its final path; also by the retry of a
\* validation that FAILED.
Uploads(u) ==
    /\ phase[u] \in {"requested", "FAILED"}
    /\ phase' = [phase EXCEPT ![u] = "uploaded"]
    /\ objects' = objects \cup {u}
    /\ UNCHANGED <<exists, active, video, completed, replaced, creator, call, outrun, calls, faults>>

\* completeProcess, with its event.
Completes(u) ==
    /\ phase[u] = "uploaded"
    /\ phase' = [phase EXCEPT ![u] = "COMPLETED"]
    /\ completed' = [completed EXCEPT ![u] = @ + 1]
    /\ UNCHANGED <<exists, active, objects, video, replaced, creator, call, outrun, calls, faults>>

\* Mutant: shouldDeleteDestinationFile is not reset by a completed process.
RollsBackAnyway(u) ==
    /\ phase[u] \in {"uploaded", "COMPLETED"}
    /\ Fault
    /\ phase' = [phase EXCEPT ![u] = "FAILED"]
    /\ objects' = objects \ {u}
    /\ UNCHANGED <<exists, active, video, completed, replaced, creator, call, outrun, calls>>

\* handleValidationError after completeProcess threw: cleanupDestinationFile
\* deletes the final object.  The save may have been committed all the same.
RollsBack(u) ==
    /\ phase[u] = "uploaded"
    /\ Fault
    /\ phase' = [phase EXCEPT ![u] = "FAILED"]
    /\ objects' = objects \ {u}
    /\ \/ UNCHANGED completed
       \/ u \in Fragile /\ completed' = [completed EXCEPT ![u] = @ + 1]
    /\ UNCHANGED <<exists, active, video, replaced, creator, call, outrun, calls>>

\* BandPrismaRepository.remove: the rows of the instrument go, the objects
\* stay.
InstrumentRemoved ==
    /\ exists
    /\ exists' = FALSE
    /\ active' = NoAttempt
    /\ video' = NoVideo
    /\ UNCHANGED <<phase, objects, completed, replaced, creator, call, outrun, calls, faults>>

-----------------------------------------------------------------------------
(* The creation of the video.                                              *)

\* SongInstrumentVideo.create, updateStartTimeMs and replaceUpload.
NewVideo(u) == [id |-> u, url |-> u, start |-> 0]

WithUpload(r, u) == [r EXCEPT !.url = u, !.start = 0]
WithStartTime(r, t) == [r EXCEPT !.start = t]

\* hasConflicts, without the id: an attempt has one size, duration and url.
Shown(u) == video # NoVideo /\ video.url = u

At(h, step) == creator[h].at = step
Work(h) == creator[h].upload

Goto(h, w) ==
    /\ creator' = [creator EXCEPT ![h] = w]
    /\ UNCHANGED <<exists, active, phase, objects, video, completed, replaced, call, outrun, calls, faults>>

Step(h, step) == Goto(h, [at |-> step, upload |-> Work(h)])
Ack(h) == Goto(h, Idle)

\* Mutant: it is acknowledged when the use case throws.
ThrowDrops(h) ==
    /\ creator' = [creator EXCEPT ![h] = Idle]
    /\ UNCHANGED <<exists, active, phase, objects, video, completed, replaced, call, outrun, calls, faults>>

\* What throws is delivered again, until the retries are used up.
Throw(h) ==
    /\ creator' = [creator EXCEPT ![h] = Idle]
    /\ completed' = [completed EXCEPT ![Work(h)] = @ + 1]
    /\ UNCHANGED <<exists, active, phase, objects, video, replaced, call, outrun, calls, faults>>

Take(h, u) ==
    /\ creator[h] = Idle
    /\ completed[u] > 0
    /\ completed' = [completed EXCEPT ![u] = @ - 1]
    /\ creator' = [creator EXCEPT ![h] = [at |-> "instrument", upload |-> u]]
    /\ UNCHANGED <<exists, active, phase, objects, video, replaced, call, outrun, calls, faults>>

\* SongInstrumentVideoCreator.run.  When the instrument is gone its video is
\* gone too: the two searches find nothing and the use case throws at every
\* try, until the message is dead-lettered.
CreateRead(h) ==
    /\ At(h, "instrument")
    /\ IF exists /\ active = Work(h) THEN Step(h, "search") ELSE Ack(h)

CreateSearch(h) ==
    /\ At(h, "search")
    /\ IF video.id # Work(h) THEN Step(h, "current")
       ELSE IF Shown(Work(h)) THEN Ack(h) ELSE Throw(h)

CreateCurrent(h) ==
    /\ At(h, "current")
    /\ IF video = NoVideo
         THEN Step(h, "create")
         ELSE Goto(h, [at |-> "replace", upload |-> Work(h),
                       row |-> WithUpload(video, Work(h)), old |-> video.url])

\* SongInstrumentVideoPrismaRepository.save is an upsert by id.  It throws if
\* the instrument is gone, or if the instrument has a row of another id.
MissesInstrument == ~exists
HasOther(r) == video # NoVideo /\ video.id # r.id
Upsertable(r) == ~MissesInstrument /\ ~HasOther(r)

\* Nothing in a save compares what was read with what is there.  The saves
\* decided on something that no longer holds: the work is no longer active or
\* another url is shown than the one announced as replaced; a created video
\* has been replaced already; the url of a moved video is no longer shown.
StaleReplace(h) == active # Work(h) \/ ~Shown(creator[h].old)
StaleCreate(h) == video.id = Work(h) /\ ~Shown(Work(h))
StaleCall(c) == ~Shown(call[c].row.url)

Current == {u \in Attempt : Shown(u)}
OutrunByReplace(h) == IF StaleReplace(h) THEN {Work(h), creator[h].old} \cup Current ELSE {}
OutrunByCreate(h) == IF StaleCreate(h) THEN {Work(h)} \cup Current ELSE {}

\* The event records the url that was read, not the one that is overwritten.
Replace(h) ==
    /\ At(h, "replace")
    /\ \/ ~Upsertable(creator[h].row) /\ Throw(h)
       \/ /\ Upsertable(creator[h].row)
          /\ video' = creator[h].row
          /\ replaced' = [replaced EXCEPT ![creator[h].old][Work(h)] = @ + 1]
          /\ creator' = [creator EXCEPT ![h] = Idle]
          /\ outrun' = outrun \cup OutrunByReplace(h)
          /\ UNCHANGED <<exists, active, phase, objects, completed, call, calls, faults>>

Create(h) ==
    /\ At(h, "create")
    /\ \/ /\ Upsertable(NewVideo(Work(h)))
          /\ video' = NewVideo(Work(h))
          /\ creator' = [creator EXCEPT ![h] = Idle]
          /\ outrun' = outrun \cup OutrunByCreate(h)
          /\ UNCHANGED <<exists, active, phase, objects, completed, replaced, call, calls, faults>>
       \/ MissesInstrument /\ Throw(h)
       \/ exists /\ HasOther(NewVideo(Work(h))) /\ Step(h, "duplicate")

\* ensureDuplicateSaveIsIdempotent, a read by id and one by instrument.
DuplicateById(h) ==
    /\ At(h, "duplicate")
    /\ IF video.id # Work(h) THEN Step(h, "other")
       ELSE IF Shown(Work(h)) THEN Ack(h) ELSE Throw(h)

DuplicateByInstrument(h) ==
    /\ At(h, "other")
    /\ IF Shown(Work(h)) THEN Ack(h) ELSE Throw(h)

\* The handler dies, or a statement fails, or its ack is lost: the message is
\* delivered again.
CreatorFails(h) ==
    /\ Fault
    /\ creator[h] # Idle
    /\ completed' = [completed EXCEPT ![Work(h)] = @ + 1]
    /\ creator' = [creator EXCEPT ![h] = Idle]
    /\ UNCHANGED <<exists, active, phase, objects, video, replaced, call, outrun, calls>>

\* The save commits and the handler dies before its ack.
CommittedUnacked(h) ==
    /\ Fault
    /\ At(h, "replace") \/ At(h, "create")
    /\ LET r == IF At(h, "create") THEN NewVideo(Work(h)) ELSE creator[h].row
       IN  Upsertable(r) /\ video' = r
    /\ replaced' = IF At(h, "create") THEN replaced
                     ELSE [replaced EXCEPT ![creator[h].old][Work(h)] = @ + 1]
    /\ completed' = [completed EXCEPT ![Work(h)] = @ + 1]
    /\ creator' = [creator EXCEPT ![h] = Idle]
    /\ outrun' = outrun \cup (IF At(h, "create") THEN OutrunByCreate(h) ELSE OutrunByReplace(h))
    /\ UNCHANGED <<exists, active, phase, objects, call, calls>>

-----------------------------------------------------------------------------
(* The cleaning of replaced objects, and the start time.                   *)

\* Mutant: the two paths are not compared.
Removable(old, new) == {old}

\* DeletePreviousSongInstrumentVideo.run keeps an object that replaced itself.
ToDelete(old, new) == IF old = new THEN {} ELSE {old}

\* A missing object is not an error.
Clean(old, new) ==
    /\ replaced[old][new] > 0
    /\ objects' = objects \ ToDelete(old, new)
    /\ replaced' = [replaced EXCEPT ![old][new] = @ - 1]
    /\ UNCHANGED <<exists, active, phase, video, completed, creator, call, outrun, calls, faults>>

\* Mutant: any error of the bucket is taken for a missing object.
CleanGivesUp(old, new) ==
    /\ Fault
    /\ replaced[old][new] > 0
    /\ replaced' = [replaced EXCEPT ![old][new] = @ - 1]
    /\ UNCHANGED <<exists, active, phase, objects, video, completed, creator, call, outrun, calls>>

\* It throws before the deletion, or dies after it and before its ack.
CleanFails(old, new) ==
    /\ Fault
    /\ replaced[old][new] > 0
    /\ objects' \in {objects, objects \ ToDelete(old, new)}
    /\ UNCHANGED <<exists, active, phase, video, completed, replaced, creator, call, outrun, calls>>

\* SongInstrumentVideoUpdateStartTime.run up to its save.
UpdateStartTime(c, t) ==
    /\ call[c] = Idle
    /\ calls < MaxCalls
    /\ video # NoVideo
    /\ video.start # t
    /\ calls' = calls + 1
    /\ call' = [call EXCEPT ![c] = [at |-> "save", row |-> WithStartTime(video, t)]]
    /\ UNCHANGED <<exists, active, phase, objects, video, completed, replaced, creator, outrun, faults>>

SaveStartTime(c) ==
    /\ call[c] # Idle
    /\ Upsertable(call[c].row)
    /\ video' = call[c].row
    /\ call' = [call EXCEPT ![c] = Idle]
    /\ outrun' = outrun \cup (IF StaleCall(c) THEN {call[c].row.url} \cup Current ELSE {})
    /\ UNCHANGED <<exists, active, phase, objects, completed, replaced, creator, calls, faults>>

\* The save throws, or the instance dies before it.
CallFails(c) ==
    /\ call[c] # Idle
    /\ call' = [call EXCEPT ![c] = Idle]
    /\ UNCHANGED <<exists, active, phase, objects, video, completed, replaced, creator, outrun, calls, faults>>

-----------------------------------------------------------------------------
Attempts ==
    \/ \E u \in Attempt : Request(u) \/ Uploads(u) \/ Completes(u) \/ RollsBack(u)
    \/ CancelActive
    \/ InstrumentRemoved

Reads(h) ==
    \/ CreateRead(h) \/ CreateSearch(h) \/ CreateCurrent(h)
    \/ DuplicateById(h) \/ DuplicateByInstrument(h)

Saves(h) == Create(h) \/ Replace(h) \/ CommittedUnacked(h)

Next ==
    \/ Attempts
    \/ \E h \in Handler : Reads(h) \/ Saves(h) \/ CreatorFails(h) \/ \E u \in Attempt : Take(h, u)
    \/ \E a, b \in Attempt : Clean(a, b) \/ CleanFails(a, b)
    \/ \E c \in Slot, t \in StartTime : UpdateStartTime(c, t)
    \/ \E c \in Slot : SaveStartTime(c) \/ CallFails(c)

Spec == Init /\ [][Next]_vars

\* The queues deliver and their handlers go on; nothing is assumed of the
\* clients, the validation or the calls.
Fairness ==
    /\ \A h \in Handler : WF_vars(Reads(h) \/ Saves(h))
    /\ \A u \in Attempt : WF_vars(\E h \in Handler : Take(h, u))
    /\ \A a, b \in Attempt : WF_vars(Clean(a, b))

FairSpec == Spec /\ Fairness

-----------------------------------------------------------------------------
(* Properties.                                                             *)

\* The file of the video is in the bucket: although replacements are cleaned
\* up by their own messages, delivered late or again, and the creation of a
\* video may be repeated, what is deleted is never what the row points at.
\* Fragile attempts are those whose ambiguous commit is rolled back; what a
\* stale save has touched may be on its way to be deleted.
VideoHasItsObject == \A u \in Attempt \ (Fragile \cup outrun) : Shown(u) => u \in objects

\* Its strengthening.  What the active attempt has stored is there, and
\* before the first video whatever an attempt has stored.
Stored == {"uploaded", "COMPLETED"}

ActiveHasItsObject ==
    \A u \in Attempt \ outrun : active = u /\ phase[u] \in Stored => u \in objects

FirstHasItsObject ==
    exists /\ video = NoVideo => \A u \in Attempt : phase[u] \in Stored => u \in objects

\* Only completed attempts are announced, worked on, shown and moved.
Announced(u) == phase[u] # "new" /\ (u \in Fragile \/ phase[u] = "COMPLETED")

OnlyCompleted ==
    /\ active # NoAttempt => phase[active] # "new"
    /\ \A u \in Attempt : completed[u] > 0 \/ Shown(u) => Announced(u)
    /\ \A h \in Handler : creator[h] # Idle => Announced(Work(h))
    /\ \A c \in Slot : call[c] # Idle => Announced(call[c].row.url)

\* An object on its way to be deleted has lost its turn: it is not shown, and
\* no longer active, so that only a stale save will show it again.
ReplacedIsOutdated ==
    \A a, b \in Attempt : replaced[a][b] > 0 =>
        /\ exists => video # NoVideo
        /\ phase[a] # "new"
        /\ a # b /\ a \notin outrun => active # a /\ ~Shown(a)

\* The row a handler is about to save is the one it will announce.
SavesItsWork ==
    \A h \in Handler : At(h, "replace") =>
        creator[h].row.url = Work(h) /\ phase[creator[h].old] # "new"

GoneHasNoRow == ~exists => video = NoVideo /\ active = NoAttempt

\* What is shown is in the bucket, whoever creates, replaces, cleans up and
\* removes at the same time: the invariant that the steps preserve.
VideoInv ==
    /\ TypeOK
    /\ VideoHasItsObject /\ ActiveHasItsObject /\ FirstHasItsObject
    /\ OnlyCompleted /\ ReplacedIsOutdated /\ SavesItsWork /\ GoneHasNoRow

\* A completed upload becomes the video, whatever dies on the way, unless its
\* attempt stops being the active one, the instrument is removed, or a stale
\* save has taken its place.
CompletedIsShown ==
    \A u \in Attempt : completed[u] > 0 /\ active = u ~> Shown(u) \/ active # u \/ u \in outrun

\* A replaced object does not stay in the bucket.
ReplacedGoes ==
    \A a, b \in Attempt : a # b /\ replaced[a][b] > 0 ~> a \notin objects

=============================================================================
