---------------------------- MODULE BandMembership ----------------------------
(***************************************************************************)
(* One band, a song of it and the instruments of that song: who belongs to *)
(* the band, and who is assigned to play.  Membership lives in the Band    *)
(* aggregate, assignment in the SongInstrument rows, and each API call     *)
(* reads what it needs, decides, and saves a whole row some awaits later.  *)
(*                                                                         *)
(* An API call is a record of what it is about to do and what it has read; *)
(* every step of it, from one await to the next, is an action.  Profiles   *)
(* of musicians are never removed.  The events of these use cases have no  *)
(* subscriber.                                                             *)
(*                                                                         *)
(* Artificial: MaxCalls caps the API calls, MaxFaults those that die.      *)
(***************************************************************************)
EXTENDS Integers, FiniteSets

CONSTANTS
    Musician,
    Instrument,   \* ids of instruments, chosen by the clients
    Slot,         \* API calls that can be in flight at a time
    MaxCalls,
    MaxFaults,
    Nobody

ASSUME NobodyAssumption == Nobody \notin Musician
ASSUME BandBoundsAssumption == MaxCalls \in Nat /\ MaxFaults \in Nat

VARIABLES
    band,      \* the Band row and its BandMember rows
    song,      \* whether the Song row exists
    assigned,  \* the musician of each SongInstrument row
    guests,    \* history: who was given an instrument at its creation, from outside the band
    stranded,  \* history: who left the band by a call that did not follow their instruments up
    call,      \* what each call in flight does next
    calls,
    faults

vars == <<band, song, assigned, guests, stranded, call, calls, faults>>

NoBand == [members |-> {}]
Bands == [owner : Musician, members : SUBSET Musician]
Exists == band # NoBand

Idle == [do |-> "nothing"]

\* What follows an addition to the band and a save of the band.
Continuations ==
    {Idle}
    \cup [do : {"save instrument"}, instrument : Instrument, was : Musician \cup {Nobody},
          musician : Musician, why : {"created", "assigned", "edited"}]
    \cup [do : {"reassign"}, target : Musician, owner : Musician]

Calls ==
    Continuations
    \cup [do : {"create band", "update band", "remove band", "create song", "save song"},
          actor : Musician]
    \cup [do : {"delete band"}]
    \cup [do : {"add member"}, actor : Musician, target : Musician, then : Continuations]
    \cup [do : {"remove member"}, actor : Musician, target : Musician]
    \cup [do : {"save band"}, was : Bands \cup {NoBand}, row : Bands, then : Continuations]
    \cup [do : {"create instrument", "search instrument", "assign", "edit"},
          actor : Musician, instrument : Instrument, target : Musician]
    \cup [do : {"check owner"}, actor : Musician, save : Continuations]

TypeOK ==
    /\ band \in Bands \cup {NoBand}
    /\ song \in BOOLEAN
    /\ assigned \in [Instrument -> Musician \cup {Nobody}]
    /\ guests \in SUBSET Musician
    /\ stranded \in SUBSET Musician
    /\ call \in [Slot -> Calls]
    /\ calls \in 0..MaxCalls
    /\ faults \in 0..MaxFaults

Init ==
    /\ band = NoBand
    /\ song = FALSE
    /\ assigned = [i \in Instrument |-> Nobody]
    /\ guests = {}
    /\ stranded = {}
    /\ call = [c \in Slot |-> Idle]
    /\ calls = 0
    /\ faults = 0

-----------------------------------------------------------------------------
(* What the queries answer.                                                *)

\* BandPrismaRepository.matching: the scope keeps the bands with a member of
\* the caller's user.
InScope(m) == m \in band.members

\* SongPrismaRepository.isBandMember
IsMember(m) == Exists /\ (band.owner = m \/ m \in band.members)

\* SongInstrumentPrismaRepository.isSongOwnedBy
OwnsSong(m) == song /\ band.owner = m

-----------------------------------------------------------------------------
(* The controllers: each finds the musician of the caller, looks up what   *)
(* the request names, and dispatches a command.                            *)

Begin(c, k) ==
    /\ call[c] = Idle
    /\ calls < MaxCalls
    /\ calls' = calls + 1
    /\ call' = [call EXCEPT ![c] = k]
    /\ UNCHANGED <<band, song, assigned, guests, stranded, faults>>

PostBand(c, m) == Begin(c, [do |-> "create band", actor |-> m])
PutBand(c, m) == Begin(c, [do |-> "update band", actor |-> m])
DeleteBand(c, m) == Begin(c, [do |-> "remove band", actor |-> m])

PostMember(c, m, t) ==
    Begin(c, [do |-> "add member", actor |-> m, target |-> t, then |-> Idle])

DeleteMember(c, m, t) == Begin(c, [do |-> "remove member", actor |-> m, target |-> t])

PostSong(c, m) == Begin(c, [do |-> "create song", actor |-> m])

PostInstrument(c, m, i, t) ==
    Begin(c, [do |-> "create instrument", actor |-> m, instrument |-> i, target |-> t])

PatchAssign(c, m, i, t) ==
    /\ song
    /\ Begin(c, [do |-> "assign", actor |-> m, instrument |-> i, target |-> t])

\* SongInstrumentInviter shares the core of SongInstrumentAssigner, and the
\* musician is the one of an e-mail.
PostInvite(c, m, i, t) == PatchAssign(c, m, i, t)

PatchEdit(c, m, i) ==
    /\ OwnsSong(m)
    /\ Begin(c, [do |-> "edit", actor |-> m, instrument |-> i, target |-> m])

-----------------------------------------------------------------------------
(* The steps of the use cases.                                             *)

Does(c, step) == call[c].do = step

Playing == {m \in Musician : \E i \in Instrument : assigned[i] = m}

\* Whether a call is about to save m in a row of an instrument: it has passed
\* the addition of m to the band, or it edits the row that had m.
Plays(k, m) ==
    \/ k.do = "save instrument" /\ k.why # "created" /\ k.musician = m
    \/ k.do = "check owner" /\ k.save.why = "edited" /\ k.save.musician = m

AboutToPlay == {m \in Musician : \E c \in Slot : Plays(call[c], m)}

Then(c, k) ==
    /\ call' = [call EXCEPT ![c] = k]
    /\ UNCHANGED <<band, song, assigned, guests, stranded, calls, faults>>

\* It answers, with success or not.
Return(c) == Then(c, Idle)

NewBand(m) == [owner |-> m, members |-> {m}]

CreateBand(c) ==
    /\ Does(c, "create band")
    /\ IF Exists
         THEN Return(c)
         ELSE Then(c, [do |-> "save band", was |-> NoBand, row |-> NewBand(call[c].actor), then |-> Idle])

\* Another name.
UpdateBand(c) ==
    /\ Does(c, "update band")
    /\ \/ Return(c)
       \/ /\ InScope(call[c].actor)
          /\ Then(c, [do |-> "save band", was |-> band, row |-> band, then |-> Idle])

RemoveBand(c) ==
    /\ Does(c, "remove band")
    /\ IF InScope(call[c].actor) THEN Then(c, [do |-> "delete band"]) ELSE Return(c)

\* The rows of the band's songs and of their instruments go with it.
DeleteBandRow(c) ==
    /\ Does(c, "delete band")
    /\ band' = NoBand
    /\ song' = FALSE
    /\ assigned' = [i \in Instrument |-> Nobody]
    /\ guests' = guests \cap AboutToPlay
    /\ stranded' = (stranded \cup band.members) \cap AboutToPlay
    /\ call' = [call EXCEPT ![c] = Idle]
    /\ UNCHANGED <<calls, faults>>

With(t) == [band EXCEPT !.members = @ \cup {t}]

\* BandMemberAdder.run; of an assignment it is the first half.
AddMember(c) ==
    /\ Does(c, "add member")
    /\ LET k == call[c]
       IN  IF ~Exists \/ ~(Exists /\ band.owner = k.actor) THEN Return(c)
           ELSE IF IsMember(k.target) THEN Then(c, k.then)
           ELSE Then(c, [do |-> "save band", was |-> band, row |-> With(k.target), then |-> k.then])

Without(t) == [band EXCEPT !.members = @ \ {t}]

\* BandMemberRemover.run
RemoveMember(c) ==
    /\ Does(c, "remove member")
    /\ LET k == call[c]
       IN  IF Exists /\ band.owner = k.actor /\ band.owner # k.target /\ k.target \in band.members
             THEN Then(c, [do |-> "save band", was |-> band, row |-> Without(k.target),
                           then |-> [do |-> "reassign", target |-> k.target, owner |-> band.owner]])
             ELSE Return(c)

\* Mutant: the members are written back without those of the row, as if
\* deleteMany came after createMany.
SaveBandLast(c) ==
    /\ Does(c, "save band")
    /\ band' = [call[c].row EXCEPT !.members = @ \ band.members]
    /\ call' = [call EXCEPT ![c] = call[c].then]
    /\ UNCHANGED <<song, assigned, guests, stranded, calls, faults>>

\* Who joined the band after the call had read it, and is not in its row.
Overwritten(c) == (band.members \ call[c].was.members) \ call[c].row.members

\* BandPrismaRepository.save: an upsert of the row, and all its members anew.
SaveBand(c) ==
    /\ Does(c, "save band")
    /\ band' = call[c].row
    /\ stranded' = stranded \cup (Overwritten(c) \cap (Playing \cup AboutToPlay))
    /\ call' = [call EXCEPT ![c] = call[c].then]
    /\ UNCHANGED <<song, assigned, guests, calls, faults>>

\* Mutant: the previous and the new musician are exchanged.
ReassignBack(c) ==
    /\ Does(c, "reassign")
    /\ LET k == call[c]
       IN  assigned' = [i \in Instrument |-> IF assigned[i] = k.owner THEN k.target ELSE assigned[i]]
    /\ call' = [call EXCEPT ![c] = Idle]
    /\ UNCHANGED <<band, song, guests, stranded, calls, faults>>

\* SongInstrumentBandMemberReassigner.run.  The target plays nothing after it,
\* unless a call has read otherwise; the owner is the one read with the band.
Reassign(c) ==
    /\ Does(c, "reassign")
    /\ LET k == call[c]
           Moved == {i \in Instrument : assigned[i] = k.target}
           Through == {k.target} \ AboutToPlay
           Heirs == IF Moved = {} THEN {} ELSE {k.owner}
       IN  /\ assigned' = [i \in Instrument |-> IF i \in Moved THEN k.owner ELSE assigned[i]]
           /\ guests' = guests \ Through
           /\ stranded' = (stranded \ Through) \cup ((({k.target} \ Through) \cup Heirs) \ band.members)
    /\ call' = [call EXCEPT ![c] = Idle]
    /\ UNCHANGED <<band, song, calls, faults>>

CreateSong(c) ==
    /\ Does(c, "create song")
    /\ IF IsMember(call[c].actor)
         THEN Then(c, [do |-> "save song", actor |-> call[c].actor])
         ELSE Return(c)

\* An insert: a song of that id, or no band, makes it throw.
SaveSong(c) ==
    /\ Does(c, "save song")
    /\ song' = (song \/ Exists)
    /\ call' = [call EXCEPT ![c] = Idle]
    /\ UNCHANGED <<band, assigned, guests, stranded, calls, faults>>

CreateInstrument(c) ==
    /\ Does(c, "create instrument")
    /\ IF OwnsSong(call[c].actor)
         THEN Then(c, [call[c] EXCEPT !.do = "search instrument"])
         ELSE Return(c)

\* SongInstrumentCreator.run.  The musician need not belong to the band.
SearchInstrument(c) ==
    /\ Does(c, "search instrument")
    /\ IF assigned[call[c].instrument] # Nobody
         THEN Return(c)
         ELSE Then(c, [do |-> "save instrument", instrument |-> call[c].instrument, was |-> Nobody,
                       musician |-> call[c].target, why |-> "created"])

\* SongInstrumentAssignmentCore.run and SongInstrumentEditor.run: the row is
\* read first, the owner is checked after it.
ReadInstrument(c) ==
    /\ Does(c, "assign") \/ Does(c, "edit")
    /\ LET k == call[c]
           row == assigned[k.instrument]
           save == [do |-> "save instrument", instrument |-> k.instrument, was |-> row,
                    musician |-> IF Does(c, "assign") THEN k.target ELSE row,
                    why |-> IF Does(c, "assign") THEN "assigned" ELSE "edited"]
       IN  IF row = Nobody
             THEN Return(c)
             ELSE Then(c, [do |-> "check owner", actor |-> k.actor, save |-> save])

\* An assignment goes on by adding the musician to the band; it has nothing
\* to save when the musician stays the same, nor has an edition that changes
\* nothing.
CheckOwner(c) ==
    /\ Does(c, "check owner")
    /\ LET save == call[c].save
       IN  IF ~OwnsSong(call[c].actor) THEN Return(c)
           ELSE IF save.why = "edited" THEN Then(c, save) \/ Return(c)
           ELSE Then(c, [do |-> "add member", actor |-> call[c].actor, target |-> save.musician,
                         then |-> IF save.musician = save.was THEN Idle ELSE save])

\* The foreign keys of the row.
MissesRelation == ~song

\* SongInstrumentPrismaRepository.save, an upsert; it throws without a song.
SaveInstrument(c) ==
    /\ Does(c, "save instrument")
    /\ LET k == call[c]
       IN  IF ~MissesRelation
             THEN /\ assigned' = [assigned EXCEPT ![k.instrument] = k.musician]
                  /\ guests' = IF k.why = "created" THEN guests \cup ({k.musician} \ band.members) ELSE guests
             ELSE UNCHANGED <<assigned, guests>>
    /\ call' = [call EXCEPT ![c] = Idle]
    /\ UNCHANGED <<band, song, stranded, calls, faults>>

\* The instance dies, or the next statement fails.  Nobody takes a removal up
\* again whose member is gone: the next one finds no such member.
CallFails(c) ==
    /\ call[c] # Idle
    /\ faults < MaxFaults
    /\ faults' = faults + 1
    /\ stranded' = IF Does(c, "reassign")
                     THEN stranded \cup (({call[c].target} \ band.members) \cap (Playing \cup AboutToPlay))
                     ELSE stranded
    /\ call' = [call EXCEPT ![c] = Idle]
    /\ UNCHANGED <<band, song, assigned, guests, calls>>

-----------------------------------------------------------------------------
Requests ==
    \E c \in Slot, m \in Musician :
        \/ PostBand(c, m) \/ PutBand(c, m) \/ DeleteBand(c, m) \/ PostSong(c, m)
        \/ \E t \in Musician : PostMember(c, m, t) \/ DeleteMember(c, m, t)
        \/ \E i \in Instrument : PatchEdit(c, m, i)
        \/ \E i \in Instrument, t \in Musician : 
             PostInstrument(c, m, i, t) \/ PatchAssign(c, m, i, t) \/ PostInvite(c, m, i, t)

Reads(c) ==
    \/ CreateBand(c) \/ UpdateBand(c) \/ RemoveBand(c)
    \/ AddMember(c) \/ RemoveMember(c)
    \/ CreateSong(c)
    \/ CreateInstrument(c) \/ SearchInstrument(c) \/ ReadInstrument(c) \/ CheckOwner(c)

Saves(c) == SaveBand(c) \/ SaveInstrument(c) \/ Reassign(c)

Next ==
    \/ Requests
    \/ \E c \in Slot : Reads(c) \/ DeleteBandRow(c) \/ SaveSong(c) \/ Saves(c) \/ CallFails(c)

Spec == Init /\ [][Next]_vars

-----------------------------------------------------------------------------
(* Properties.                                                             *)

BeingReassigned(m) == \E c \in Slot : Does(c, "reassign") /\ call[c].target = m

Excused(m) == m \in band.members \cup guests \cup stranded \/ BeingReassigned(m)

\* Whoever is assigned an instrument belongs to the band, or was given it at
\* its creation, or is being removed and about to lose it, or is one of those
\* whom a removal that died, a row of the band read before they joined or a
\* row of the instrument read before they left has stranded.  Membership and
\* assignment are written by different calls in different transactions.
AssignedBelong == \A i \in Instrument : assigned[i] # Nobody => Excused(assigned[i])

\* The same of whoever is about to be assigned one.
SavesBelong == \A m \in AboutToPlay : Excused(m)

\* A band is never without its owner: the owner could not update or remove
\* it, since those look for a membership.
OwnerIsMember == Exists => band.owner \in band.members

\* No song outlives its band, and no instrument its song.
NothingOutlivesItsBand ==
    /\ song => Exists
    /\ \A i \in Instrument : assigned[i] # Nobody => song

\* What the calls are about to write keeps that.
SavesKeepOwner ==
    \A c \in Slot : Does(c, "save band") =>
        /\ call[c].row.owner \in call[c].row.members
        /\ call[c].was # NoBand => call[c].row.owner = call[c].was.owner
        /\ call[c].then.do = "reassign" =>
              /\ call[c].then.owner = call[c].row.owner
              /\ call[c].row.members = call[c].was.members \ {call[c].then.target}
        /\ call[c].then.do # "reassign" => call[c].was.members \subseteq call[c].row.members
        /\ call[c].then.do = "save instrument" => call[c].then.musician \in call[c].row.members

\* Whatever calls overlap, the band keeps its owner and nothing outlives it:
\* the invariant that the steps preserve.
BandInv ==
    /\ TypeOK
    /\ OwnerIsMember
    /\ NothingOutlivesItsBand
    /\ SavesKeepOwner
    /\ AssignedBelong
    /\ SavesBelong

=============================================================================
