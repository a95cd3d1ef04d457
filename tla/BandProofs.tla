----------------------------- MODULE BandProofs -----------------------------
(***************************************************************************)
(* Who belongs to the band and who is assigned to play, for any number of  *)
(* musicians, instruments and calls, whatever calls overlap, die, or save  *)
(* what others have changed since they read it.                            *)
(***************************************************************************)
EXTENDS BandMembership, TLAPS

-----------------------------------------------------------------------------
(* What the record of a call promises by itself.                           *)

\* A save of the band keeps the owner that was read, takes away nobody of
\* those read but the member that is reassigned after it, and holds whoever
\* is saved in an instrument after it.
SavesItsMembers(k) ==
    /\ k.row.owner \in k.row.members
    /\ k.was # NoBand => k.row.owner = k.was.owner
    /\ k.then.do = "reassign" =>
          /\ k.then.owner = k.row.owner
          /\ k.row.members = k.was.members \ {k.then.target}
    /\ k.then.do # "reassign" => k.was.members \subseteq k.row.members
    /\ k.then.do = "save instrument" => k.then.musician \in k.row.members

Good(k) ==
    /\ k \in Calls
    /\ k.do = "check owner" => k.save.do = "save instrument"
    /\ k.do = "add member" =>
          k.then.do # "reassign" /\ (k.then.do = "save instrument" => k.then.musician = k.target)
    /\ k.do = "save band" => SavesItsMembers(k)

Strong ==
    /\ TypeOK
    /\ OwnerIsMember
    /\ NothingOutlivesItsBand
    /\ \A c \in Slot : Good(call[c])
    /\ AssignedBelong
    /\ SavesBelong

LEMMA StrongImplies == Strong => BandInv
BY DEF Strong, BandInv, SavesKeepOwner, Good, SavesItsMembers, Does

-----------------------------------------------------------------------------
(* The records.                                                            *)

LEMMA BandShape ==
    /\ NoBand \notin Bands
    /\ NoBand.members = {}
    /\ \A b \in Bands : b.owner \in Musician /\ b.members \subseteq Musician
    /\ \A m \in Musician : /\ NewBand(m) \in Bands
                           /\ NewBand(m).owner = m
                           /\ NewBand(m).members = {m}
BY DEF NoBand, Bands, NewBand

LEMMA MembersShape ==
    ASSUME NEW b \in Bands, NEW ms \in SUBSET Musician
    PROVE  /\ [b EXCEPT !.members = ms] \in Bands
           /\ [b EXCEPT !.members = ms].owner = b.owner
           /\ [b EXCEPT !.members = ms].members = ms
BY DEF Bands

LEMMA ContinuationsAreCalls == Continuations \subseteq Calls
BY DEF Calls

LEMMA IdleShape == Idle \in Continuations /\ Idle.do = "nothing"
BY DEF Continuations, Idle

LEMMA ContinuationShape ==
    ASSUME NEW k \in Continuations
    PROVE  /\ k.do \in {"nothing", "save instrument", "reassign"}
           /\ k.do = "nothing" => k = Idle
           /\ k.do = "save instrument" =>
                 /\ k.instrument \in Instrument
                 /\ k.was \in Musician \cup {Nobody}
                 /\ k.musician \in Musician
                 /\ k.why \in {"created", "assigned", "edited"}
           /\ k.do = "reassign" => k.target \in Musician /\ k.owner \in Musician
<1>1. CASE k = Idle
  BY <1>1 DEF Idle
<1>2. CASE k \in [do : {"save instrument"}, instrument : Instrument, was : Musician \cup {Nobody},
                  musician : Musician, why : {"created", "assigned", "edited"}]
  BY <1>2
<1>3. CASE k \in [do : {"reassign"}, target : Musician, owner : Musician]
  BY <1>3
<1> QED
  BY <1>1, <1>2, <1>3 DEF Continuations

LEMMA CallShape ==
    ASSUME NEW k \in Calls
    PROVE  /\ k.do \in {"create band", "update band", "remove band", "create song", "save song"}
                 => k.actor \in Musician
           /\ k.do \in {"add member", "remove member"} => k.actor \in Musician /\ k.target \in Musician
           /\ k.do \in {"add member", "save band"} => k.then \in Continuations
           /\ k.do = "save band" => k.was \in Bands \cup {NoBand} /\ k.row \in Bands
           /\ k.do \in {"create instrument", "search instrument", "assign", "edit"}
                 => k.actor \in Musician /\ k.instrument \in Instrument /\ k.target \in Musician
           /\ k.do = "check owner" => k.actor \in Musician /\ k.save \in Continuations
           /\ k.do \in {"save instrument", "reassign"} => k \in Continuations
BY ContinuationShape DEF Calls

LEMMA IdleIsGood == Good(Idle)
BY ContinuationsAreCalls, IdleShape DEF Good

\* A continuation is a call.
LEMMA ContinuationIsGood ==
    ASSUME NEW k \in Continuations
    PROVE  Good(k)
BY ContinuationsAreCalls, ContinuationShape DEF Good

-----------------------------------------------------------------------------
(* Steps that change one call and no row.                                  *)

LEMMA CallsStayGood ==
    ASSUME Strong, NEW c \in Slot, NEW k, Good(k), call' = [call EXCEPT ![c] = k]
    PROVE  /\ call' \in [Slot -> Calls]
           /\ \A d \in Slot : call'[d] = IF d = c THEN k ELSE call[d]
           /\ \A d \in Slot : Good(call'[d])
<1>1. call \in [Slot -> Calls] /\ k \in Calls
  BY DEF Strong, TypeOK, Good
<1> QED
  BY <1>1 DEF Strong

\* Whoever is about to play after the step was before it, or is in the new
\* record.
LEMMA WhoIsAboutToPlay ==
    ASSUME Strong, NEW c \in Slot, NEW k, Good(k), call' = [call EXCEPT ![c] = k]
    PROVE  /\ \A m \in AboutToPlay' : m \in Musician /\ (m \in AboutToPlay \/ Plays(k, m))
           /\ \A m \in AboutToPlay : m \in AboutToPlay' \/ Plays(call[c], m)
<1>1. \A d \in Slot : call'[d] = IF d = c THEN k ELSE call[d]
  BY CallsStayGood
<1> QED
  BY <1>1 DEF AboutToPlay

\* A reassignment goes on unless it was this call's.
LEMMA WhoIsBeingReassigned ==
    ASSUME Strong, NEW c \in Slot, NEW k, Good(k), call' = [call EXCEPT ![c] = k],
           NEW m, BeingReassigned(m)
    PROVE  BeingReassigned(m)' \/ (Does(c, "reassign") /\ call[c].target = m)
<1>1. \A d \in Slot : call'[d] = IF d = c THEN k ELSE call[d]
  BY CallsStayGood
<1>2. PICK d \in Slot : Does(d, "reassign") /\ call[d].target = m
  BY DEF BeingReassigned
<1>3. CASE d # c
  BY <1>1, <1>2, <1>3 DEF BeingReassigned, Does
<1> QED
  BY <1>2, <1>3

LEMMA Quiet ==
    ASSUME NEW k, NEW m, k.do \notin {"save instrument", "check owner"}
    PROVE  ~Plays(k, m)
BY DEF Plays

LEMMA CallMoves ==
    ASSUME Strong, NEW c \in Slot, NEW k, Good(k),
           call' = [call EXCEPT ![c] = k],
           ~Does(c, "reassign"),
           \A m \in Musician : Plays(k, m) => Excused(m),
           calls' \in 0..MaxCalls, faults' \in 0..MaxFaults,
           UNCHANGED <<band, song, assigned, guests, stranded>>
    PROVE  Strong'
<1>1. call' \in [Slot -> Calls] /\ \A d \in Slot : Good(call'[d])
  BY CallsStayGood
<1>2. TypeOK'
  BY <1>1 DEF Strong, TypeOK
<1>3. OwnerIsMember' /\ NothingOutlivesItsBand'
  BY DEF Strong, OwnerIsMember, NothingOutlivesItsBand, Exists
<1>4. \A m : Excused(m) => Excused(m)'
  BY WhoIsBeingReassigned DEF Excused
<1>5. AssignedBelong'
  BY <1>4 DEF Strong, AssignedBelong
<1>6. SavesBelong'
  <2> SUFFICES ASSUME NEW m \in AboutToPlay' PROVE Excused(m)'
    BY DEF SavesBelong
  <2>1. m \in Musician /\ (m \in AboutToPlay \/ Plays(k, m))
    BY WhoIsAboutToPlay
  <2> QED
    BY <1>4, <2>1 DEF Strong, SavesBelong
<1> QED
  BY <1>1, <1>2, <1>3, <1>5, <1>6 DEF Strong

LEMMA ThenKeeps ==
    ASSUME Strong, NEW c \in Slot, NEW k, Good(k), Then(c, k), ~Does(c, "reassign"),
           \A m \in Musician : Plays(k, m) => Excused(m)
    PROVE  Strong'
<1>1. /\ call' = [call EXCEPT ![c] = k]
      /\ UNCHANGED <<band, song, assigned, guests, stranded>>
      /\ calls' \in 0..MaxCalls /\ faults' \in 0..MaxFaults
  BY DEF Then, Strong, TypeOK
<1> QED
  BY <1>1, CallMoves

LEMMA ThenQuietly ==
    ASSUME Strong, NEW c \in Slot, NEW k, Good(k), Then(c, k), ~Does(c, "reassign"),
           k.do \notin {"save instrument", "check owner"}
    PROVE  Strong'
BY Quiet, ThenKeeps

LEMMA ReturnKeeps ==
    ASSUME Strong, NEW c \in Slot, Return(c), ~Does(c, "reassign")
    PROVE  Strong'
BY IdleIsGood, IdleShape, ThenQuietly DEF Return

LEMMA CountOne ==
    ASSUME calls \in 0..MaxCalls, calls < MaxCalls, calls' = calls + 1
    PROVE  calls' \in 0..MaxCalls
BY BandBoundsAssumption

LEMMA BeginKeeps ==
    ASSUME Strong, NEW c \in Slot, NEW k, Good(k), Begin(c, k),
           k.do \notin {"save instrument", "check owner"}
    PROVE  Strong'
<1>1. /\ call' = [call EXCEPT ![c] = k]
      /\ UNCHANGED <<band, song, assigned, guests, stranded>>
      /\ ~Does(c, "reassign")
  BY IdleShape DEF Begin, Does
<1>2. calls \in 0..MaxCalls /\ faults \in 0..MaxFaults
  BY DEF Strong, TypeOK
<1>3. calls < MaxCalls /\ calls' = calls + 1 /\ faults' = faults
  BY DEF Begin
<1>4. calls' \in 0..MaxCalls /\ faults' \in 0..MaxFaults
  BY <1>2, <1>3, CountOne
<1> QED
  BY <1>1, <1>4, Quiet, CallMoves

\* A removal that dies strands the member it has taken away, if they play.
LEMMA CallFailsKeeps ==
    ASSUME Strong, NEW c \in Slot, CallFails(c)
    PROVE  Strong'
<1>1. /\ call' = [call EXCEPT ![c] = Idle]
      /\ UNCHANGED <<band, song, assigned, guests>>
      /\ calls' \in 0..MaxCalls /\ faults' \in 0..MaxFaults
  BY BandBoundsAssumption DEF CallFails, Strong, TypeOK
<1>2. CASE ~Does(c, "reassign")
  <2>1. stranded' = stranded
    BY <1>2 DEF CallFails
  <2> QED
    BY <1>1, <1>2, <2>1, IdleIsGood, IdleShape, Quiet, CallMoves
<1>3. CASE Does(c, "reassign")
  <2>1. PICK t \in Musician : t = call[c].target
    BY <1>3, CallShape, ContinuationShape DEF Does, Strong, TypeOK
  <2>2. stranded' = stranded \cup (({t} \ band.members) \cap (Playing \cup AboutToPlay))
    BY <1>3, <2>1 DEF CallFails
  <2>3. call' \in [Slot -> Calls] /\ \A d \in Slot : Good(call'[d])
    BY <1>1, IdleIsGood, CallsStayGood
  <2>4. TypeOK'
    BY <1>1, <2>1, <2>2, <2>3 DEF Strong, TypeOK
  <2>5. OwnerIsMember' /\ NothingOutlivesItsBand'
    BY <1>1 DEF Strong, OwnerIsMember, NothingOutlivesItsBand, Exists
  <2>6. \A m \in Playing \cup AboutToPlay : Excused(m) => Excused(m)'
    BY <1>1, <2>1, <2>2, IdleIsGood, WhoIsBeingReassigned DEF Excused
  <2>7. AssignedBelong'
    <3> SUFFICES ASSUME NEW i \in Instrument, NEW m, m = assigned[i], m # Nobody PROVE Excused(m)'
      BY <1>1 DEF AssignedBelong, Excused, BeingReassigned
    <3>1. m \in Playing
      BY DEF Playing, Strong, TypeOK
    <3> QED
      BY <2>6, <3>1 DEF Strong, AssignedBelong
  <2>8. SavesBelong'
    <3> SUFFICES ASSUME NEW m \in AboutToPlay' PROVE Excused(m)'
      BY DEF SavesBelong
    <3>1. m \in AboutToPlay
      BY <1>1, IdleIsGood, IdleShape, Quiet, WhoIsAboutToPlay
    <3> QED
      BY <2>6, <3>1 DEF Strong, SavesBelong
  <2> QED
    BY <2>3, <2>4, <2>5, <2>7, <2>8 DEF Strong
<1> QED
  BY <1>2, <1>3

-----------------------------------------------------------------------------
(* The controllers.                                                        *)

LEMMA RequestsKeep ==
    ASSUME Strong, Requests
    PROVE  Strong'
<1>1. PICK c \in Slot, m \in Musician :
         \/ PostBand(c, m) \/ PutBand(c, m) \/ DeleteBand(c, m) \/ PostSong(c, m)
         \/ \E t \in Musician : PostMember(c, m, t) \/ DeleteMember(c, m, t)
         \/ \E i \in Instrument : PatchEdit(c, m, i)
         \/ \E i \in Instrument, t \in Musician :
              PostInstrument(c, m, i, t) \/ PatchAssign(c, m, i, t) \/ PostInvite(c, m, i, t)
  BY DEF Requests
<1>2. ASSUME NEW step \in {"create band", "update band", "remove band", "create song"},
             Begin(c, [do |-> step, actor |-> m])
      PROVE  Strong'
  <2> DEFINE k == [do |-> step, actor |-> m]
  <2>1. Good(k)
    BY DEF Good, Calls
  <2>2. Begin(c, k)
    BY <1>2
  <2>3. k.do \notin {"save instrument", "check owner"}
    OBVIOUS
  <2> HIDE DEF k
  <2> QED
    BY <2>1, <2>2, <2>3, BeginKeeps
<1>3. ASSUME NEW t \in Musician, PostMember(c, m, t)
      PROVE  Strong'
  <2> DEFINE k == [do |-> "add member", actor |-> m, target |-> t, then |-> Idle]
  <2>1. k \in Calls
    BY IdleShape DEF Calls
  <2>2. Good(k)
    BY <2>1, IdleShape DEF Good
  <2>3. Begin(c, k)
    BY <1>3 DEF PostMember
  <2>4. k.do \notin {"save instrument", "check owner"}
    OBVIOUS
  <2> HIDE DEF k
  <2> QED
    BY <2>2, <2>3, <2>4, BeginKeeps
<1>4. ASSUME NEW t \in Musician, DeleteMember(c, m, t)
      PROVE  Strong'
  <2> DEFINE k == [do |-> "remove member", actor |-> m, target |-> t]
  <2>1. Good(k)
    BY DEF Good, Calls
  <2>2. Begin(c, k)
    BY <1>4 DEF DeleteMember
  <2>3. k.do \notin {"save instrument", "check owner"}
    OBVIOUS
  <2> HIDE DEF k
  <2> QED
    BY <2>1, <2>2, <2>3, BeginKeeps
<1>5. ASSUME NEW i \in Instrument, NEW t \in Musician,
             NEW step \in {"create instrument", "assign", "edit"},
             Begin(c, [do |-> step, actor |-> m, instrument |-> i, target |-> t])
      PROVE  Strong'
  <2> DEFINE k == [do |-> step, actor |-> m, instrument |-> i, target |-> t]
  <2>1. Good(k)
    BY DEF Good, Calls
  <2>2. Begin(c, k)
    BY <1>5
  <2>3. k.do \notin {"save instrument", "check owner"}
    OBVIOUS
  <2> HIDE DEF k
  <2> QED
    BY <2>1, <2>2, <2>3, BeginKeeps
<1>6. CASE PostBand(c, m) \/ PutBand(c, m) \/ DeleteBand(c, m) \/ PostSong(c, m)
  BY <1>2, <1>6 DEF PostBand, PutBand, DeleteBand, PostSong
<1>7. ASSUME NEW i \in Instrument, PatchEdit(c, m, i) PROVE Strong'
  BY <1>5, <1>7 DEF PatchEdit
<1>8. ASSUME NEW i \in Instrument, NEW t \in Musician,
             PostInstrument(c, m, i, t) \/ PatchAssign(c, m, i, t) \/ PostInvite(c, m, i, t)
      PROVE  Strong'
  BY <1>5, <1>8 DEF PostInstrument, PatchAssign, PostInvite
<1> QED
  BY <1>1, <1>3, <1>4, <1>6, <1>7, <1>8

-----------------------------------------------------------------------------
(* The reads.                                                              *)

LEMMA SaveBandIsGood ==
    ASSUME NEW was \in Bands \cup {NoBand}, NEW row \in Bands, NEW then \in Continuations,
           row.owner \in row.members,
           was # NoBand => row.owner = was.owner,
           then.do = "reassign" =>
               then.owner = row.owner /\ row.members = was.members \ {then.target},
           then.do # "reassign" => was.members \subseteq row.members,
           then.do = "save instrument" => then.musician \in row.members
    PROVE  Good([do |-> "save band", was |-> was, row |-> row, then |-> then])
<1> DEFINE k == [do |-> "save band", was |-> was, row |-> row, then |-> then]
<1>1. k \in Calls
  BY DEF Calls
<1>2. SavesItsMembers(k)
  BY DEF SavesItsMembers
<1> QED
  BY <1>1, <1>2 DEF Good

LEMMA CreateBandKeeps ==
    ASSUME Strong, NEW c \in Slot, CreateBand(c)
    PROVE  Strong'
<1>1. /\ ~Does(c, "reassign") /\ call[c] \in Calls
      /\ call[c].do = "create band"
  BY DEF CreateBand, Does, Strong, TypeOK
<1>2. CASE Exists
  BY <1>1, <1>2, ReturnKeeps DEF CreateBand
<1>3. CASE ~Exists
  <2>1. PICK m \in Musician : m = call[c].actor
    BY <1>1, CallShape
  <2>2. PICK row \in Bands : row = NewBand(m)
    BY BandShape
  <2> DEFINE k == [do |-> "save band", was |-> NoBand, row |-> row, then |-> Idle]
  <2>3. row.owner \in row.members /\ NoBand.members \subseteq row.members
    BY <2>2, BandShape
  <2>4. Idle \in Continuations /\ Idle.do \notin {"reassign", "save instrument"}
    BY IdleShape
  <2>5. Good(k)
    BY <2>3, <2>4, SaveBandIsGood
  <2>6. Then(c, k)
    BY <1>3, <2>1, <2>2 DEF CreateBand
  <2>7. k.do \notin {"save instrument", "check owner"}
    OBVIOUS
  <2> HIDE DEF k
  <2> QED
    BY <1>1, <2>5, <2>6, <2>7, ThenQuietly
<1> QED
  BY <1>2, <1>3

LEMMA UpdateBandKeeps ==
    ASSUME Strong, NEW c \in Slot, UpdateBand(c)
    PROVE  Strong'
<1>1. /\ ~Does(c, "reassign") /\ call[c] \in Calls
      /\ call[c].do = "update band"
  BY DEF UpdateBand, Does, Strong, TypeOK
<1>2. CASE Return(c)
  BY <1>1, <1>2, ReturnKeeps
<1>3. CASE /\ InScope(call[c].actor)
           /\ Then(c, [do |-> "save band", was |-> band, row |-> band, then |-> Idle])
  <2>1. PICK m \in Musician : m = call[c].actor
    BY <1>1, CallShape
  <2>2. band \in Bands /\ band.owner \in band.members
    BY <1>3, BandShape DEF InScope, Strong, TypeOK, OwnerIsMember, Exists
  <2> DEFINE k == [do |-> "save band", was |-> band, row |-> band, then |-> Idle]
  <2>3. Idle \in Continuations /\ Idle.do \notin {"reassign", "save instrument"}
    BY IdleShape
  <2>4. Good(k)
    BY <2>1, <2>2, <2>3, SaveBandIsGood
  <2>5. Then(c, k)
    BY <1>3
  <2>6. k.do \notin {"save instrument", "check owner"}
    OBVIOUS
  <2> HIDE DEF k
  <2> QED
    BY <1>1, <2>4, <2>5, <2>6, ThenQuietly
<1> QED
  BY <1>2, <1>3 DEF UpdateBand

LEMMA RemoveBandKeeps ==
    ASSUME Strong, NEW c \in Slot, RemoveBand(c)
    PROVE  Strong'
<1>1. ~Does(c, "reassign")
  BY DEF RemoveBand, Does
<1> DEFINE k == [do |-> "delete band"]
<1>2. Good(k)
  BY DEF Good, Calls
<1>3. Return(c) \/ Then(c, k)
  BY DEF RemoveBand
<1>4. k.do \notin {"save instrument", "check owner"}
  OBVIOUS
<1> HIDE DEF k
<1> QED
  BY <1>1, <1>2, <1>3, <1>4, ReturnKeeps, ThenQuietly

LEMMA AddMemberKeeps ==
    ASSUME Strong, NEW c \in Slot, AddMember(c)
    PROVE  Strong'
<1>1. /\ ~Does(c, "reassign") /\ call[c] \in Calls
      /\ call[c].do = "add member" /\ Good(call[c])
  BY DEF AddMember, Does, Strong, TypeOK
<1>2. PICK t \in Musician, then \in Continuations : t = call[c].target /\ then = call[c].then
  BY <1>1, CallShape
<1>3. then.do # "reassign" /\ (then.do = "save instrument" => then.musician = t)
  BY <1>1, <1>2 DEF Good
<1>4. CASE Return(c)
  BY <1>1, <1>4, ReturnKeeps
<1>5. CASE Exists /\ IsMember(t) /\ Then(c, then)
  <2>1. Excused(t)
    BY <1>5 DEF IsMember, Strong, OwnerIsMember, Excused
  <2>2. \A m \in Musician : Plays(then, m) => m = t
    BY <1>3, ContinuationShape DEF Plays
  <2> QED
    BY <1>1, <1>5, <2>1, <2>2, ContinuationIsGood, ThenKeeps
<1>6. CASE Exists /\ Then(c, [do |-> "save band", was |-> band, row |-> With(t), then |-> then])
  <2>1. band \in Bands /\ band.owner \in band.members /\ band.members \subseteq Musician
    BY <1>6, BandShape DEF Strong, TypeOK, OwnerIsMember, Exists
  <2>2. PICK ms \in SUBSET Musician : ms = band.members \cup {t}
    BY <2>1
  <2>3. PICK row \in Bands : row = With(t) /\ row.owner = band.owner /\ row.members = ms
    BY <2>1, <2>2, MembersShape DEF With
  <2> DEFINE k == [do |-> "save band", was |-> band, row |-> row, then |-> then]
  <2>4. /\ band.members \subseteq row.members
        /\ row.owner \in row.members
        /\ then.do = "save instrument" => then.musician \in row.members
    BY <1>3, <2>1, <2>2, <2>3
  <2>5. Good(k)
    BY <1>3, <2>1, <2>3, <2>4, SaveBandIsGood
  <2>6. Then(c, k)
    BY <1>6, <2>3
  <2> HIDE DEF k
  <2>7. k.do \notin {"save instrument", "check owner"}
    BY DEF k
  <2> QED
    BY <1>1, <2>5, <2>6, <2>7, ThenQuietly
<1> QED
  BY <1>2, <1>4, <1>5, <1>6 DEF AddMember

LEMMA RemoveMemberKeeps ==
    ASSUME Strong, NEW c \in Slot, RemoveMember(c)
    PROVE  Strong'
<1>1. /\ ~Does(c, "reassign") /\ call[c] \in Calls
      /\ call[c].do = "remove member"
  BY DEF RemoveMember, Does, Strong, TypeOK
<1>2. PICK t \in Musician : t = call[c].target
  BY <1>1, CallShape
<1>3. CASE Return(c)
  BY <1>1, <1>3, ReturnKeeps
<1>4. CASE /\ Exists /\ band.owner # t
           /\ Then(c, [do |-> "save band", was |-> band, row |-> Without(t),
                       then |-> [do |-> "reassign", target |-> t, owner |-> band.owner]])
  <2>1. band \in Bands /\ band.owner \in band.members /\ band.members \subseteq Musician /\ band.owner \in Musician
    BY <1>4, BandShape DEF Strong, TypeOK, OwnerIsMember, Exists
  <2>2. PICK ms \in SUBSET Musician : ms = band.members \ {t}
    BY <2>1
  <2>3. PICK row \in Bands : row = Without(t) /\ row.owner = band.owner /\ row.members = ms
    BY <2>1, <2>2, MembersShape DEF Without
  <2>4. PICK then \in Continuations : then = [do |-> "reassign", target |-> t, owner |-> band.owner]
    BY <2>1 DEF Continuations
  <2>5. then.do = "reassign" /\ then.owner = band.owner /\ then.target = t
    BY <2>4
  <2> DEFINE k == [do |-> "save band", was |-> band, row |-> row, then |-> then]
  <2>6. /\ row.owner \in row.members
        /\ row.members = band.members \ {then.target}
    BY <1>4, <2>1, <2>2, <2>3, <2>5
  <2>7. Good(k)
    BY <2>1, <2>3, <2>5, <2>6, SaveBandIsGood
  <2>8. Then(c, k)
    BY <1>4, <2>3, <2>4
  <2>9. k.do \notin {"save instrument", "check owner"}
    OBVIOUS
  <2> HIDE DEF k
  <2> QED
    BY <1>1, <2>7, <2>8, <2>9, ThenQuietly
<1> QED
  BY <1>2, <1>3, <1>4 DEF RemoveMember

LEMMA SongReadsKeep ==
    ASSUME Strong, NEW c \in Slot, CreateSong(c) \/ CreateInstrument(c) \/ SearchInstrument(c)
    PROVE  Strong'
<1>1. ~Does(c, "reassign") /\ call[c] \in Calls
  BY DEF CreateSong, CreateInstrument, SearchInstrument, Does, Strong, TypeOK
<1>2. CASE Return(c)
  BY <1>1, <1>2, ReturnKeeps
<1>3. CASE Does(c, "create song") /\ Then(c, [do |-> "save song", actor |-> call[c].actor])
  <2> DEFINE k == [do |-> "save song", actor |-> call[c].actor]
  <2>1. call[c].actor \in Musician
    BY <1>1, <1>3, CallShape DEF Does
  <2>2. Good(k) /\ k.do \notin {"save instrument", "check owner"}
    BY <2>1 DEF Good, Calls
  <2>3. Then(c, k)
    BY <1>3
  <2> HIDE DEF k
  <2> QED
    BY <1>1, <2>2, <2>3, ThenQuietly
<1>4. CASE Does(c, "create instrument") /\ Then(c, [call[c] EXCEPT !.do = "search instrument"])
  <2>1. call[c] \in [do : {"create instrument"}, actor : Musician, instrument : Instrument, target : Musician]
    BY <1>1, <1>4, ContinuationShape DEF Does, Calls
  <2> DEFINE k == [call[c] EXCEPT !.do = "search instrument"]
  <2>2. k \in [do : {"search instrument"}, actor : Musician, instrument : Instrument, target : Musician]
    BY <2>1
  <2>3. Good(k) /\ k.do \notin {"save instrument", "check owner"}
    <3> HIDE DEF k
    <3> QED
      BY <2>2 DEF Good, Calls
  <2>4. Then(c, k)
    BY <1>4
  <2> HIDE DEF k
  <2> QED
    BY <1>1, <2>3, <2>4, ThenQuietly
<1>5. CASE /\ Does(c, "search instrument")
           /\ Then(c, [do |-> "save instrument", instrument |-> call[c].instrument, was |-> Nobody,
                       musician |-> call[c].target, why |-> "created"])
  <2> DEFINE k == [do |-> "save instrument", instrument |-> call[c].instrument, was |-> Nobody,
                   musician |-> call[c].target, why |-> "created"]
  <2>1. call[c].instrument \in Instrument /\ call[c].target \in Musician
    BY <1>1, <1>5, CallShape DEF Does
  <2>2. k \in Continuations
    BY <2>1 DEF Continuations
  <2>3. Then(c, k)
    BY <1>5
  <2>4. \A m \in Musician : ~Plays(k, m)
    BY DEF Plays
  <2> HIDE DEF k
  <2> QED
    BY <1>1, <2>2, <2>3, <2>4, ContinuationIsGood, ThenKeeps
<1> QED
  BY <1>2, <1>3, <1>4, <1>5 DEF CreateSong, CreateInstrument, SearchInstrument

LEMMA ReadInstrumentKeeps ==
    ASSUME Strong, NEW c \in Slot, ReadInstrument(c)
    PROVE  Strong'
<1>1. /\ ~Does(c, "reassign") /\ call[c] \in Calls
      /\ call[c].do \in {"assign", "edit"}
  BY DEF ReadInstrument, Does, Strong, TypeOK
<1>2. PICK m \in Musician, i \in Instrument, t \in Musician :
         m = call[c].actor /\ i = call[c].instrument /\ t = call[c].target
  BY <1>1, CallShape
<1>3. CASE assigned[i] = Nobody
  BY <1>1, <1>2, <1>3, ReturnKeeps DEF ReadInstrument
<1>4. CASE assigned[i] # Nobody
  <2>1. PICK row \in Musician : row = assigned[i]
    BY <1>4 DEF Strong, TypeOK
  <2> DEFINE save == [do |-> "save instrument", instrument |-> i, was |-> row,
                      musician |-> IF Does(c, "assign") THEN t ELSE row,
                      why |-> IF Does(c, "assign") THEN "assigned" ELSE "edited"]
             k == [do |-> "check owner", actor |-> m, save |-> save]
  <2>2. /\ save \in Continuations
        /\ save.do = "save instrument"
        /\ save.why = "edited" => save.musician = row
    BY DEF Continuations
  <2>3. Then(c, k)
    BY <1>2, <1>4, <2>1 DEF ReadInstrument
  <2>4. Good(k)
    <3> HIDE DEF save
    <3>1. k \in Calls
      BY <2>2 DEF Calls
    <3> QED
      BY <2>2, <3>1 DEF Good
  <2>5. Excused(row)
    BY <1>4, <2>1 DEF Strong, AssignedBelong
  <2>6. \A n \in Musician : Plays(k, n) => n = row
    <3> HIDE DEF save
    <3> QED
      BY <2>2 DEF Plays
  <2> HIDE DEF k
  <2> QED
    BY <1>1, <2>3, <2>4, <2>5, <2>6, ThenKeeps
<1> QED
  BY <1>3, <1>4

LEMMA CheckOwnerKeeps ==
    ASSUME Strong, NEW c \in Slot, CheckOwner(c)
    PROVE  Strong'
<1>1. /\ ~Does(c, "reassign") /\ call[c] \in Calls
      /\ call[c].do = "check owner" /\ Good(call[c])
  BY DEF CheckOwner, Does, Strong, TypeOK
<1>2. PICK m \in Musician, save \in Continuations : m = call[c].actor /\ save = call[c].save
  BY <1>1, CallShape
<1>3. save.do = "save instrument" /\ save.musician \in Musician
  BY <1>1, <1>2, ContinuationShape DEF Good
<1>4. CASE Return(c)
  BY <1>1, <1>4, ReturnKeeps
\* Whom the edition leaves in the row is excused already.
<1>5. CASE save.why = "edited" /\ Then(c, save)
  <2>1. \A n \in Musician : Plays(save, n) => Plays(call[c], n)
    BY <1>1, <1>2, <1>3, <1>5 DEF Plays
  <2>2. \A n \in Musician : Plays(save, n) => Excused(n)
    BY <2>1 DEF Strong, SavesBelong, AboutToPlay
  <2> QED
    BY <1>1, <1>5, <2>2, ContinuationIsGood, ThenKeeps
<1>6. ASSUME Then(c, [do |-> "add member", actor |-> m, target |-> save.musician,
                      then |-> IF save.musician = save.was THEN Idle ELSE save])
      PROVE  Strong'
  <2>1. PICK then \in Continuations : then = IF save.musician = save.was THEN Idle ELSE save
    BY IdleShape
  <2>2. then.do # "reassign" /\ (then.do = "save instrument" => then.musician = save.musician)
    BY <1>3, <2>1, IdleShape
  <2> DEFINE k == [do |-> "add member", actor |-> m, target |-> save.musician, then |-> then]
  <2>3. k \in Calls
    BY <1>3 DEF Calls
  <2>4. Good(k) /\ k.do \notin {"save instrument", "check owner"}
    BY <2>2, <2>3 DEF Good
  <2>5. Then(c, k)
    BY <1>6, <2>1
  <2> HIDE DEF k
  <2> QED
    BY <1>1, <2>4, <2>5, ThenQuietly
<1>7. \/ Return(c)
      \/ save.why = "edited" /\ Then(c, save)
      \/ Then(c, [do |-> "add member", actor |-> m, target |-> save.musician,
                  then |-> IF save.musician = save.was THEN Idle ELSE save])
  BY <1>2 DEF CheckOwner
<1> QED
  BY <1>4, <1>5, <1>6, <1>7

-----------------------------------------------------------------------------
(* The saves.                                                              *)

LEMMA PlayingShape ==
    ASSUME Strong, NEW i \in Instrument, assigned[i] # Nobody
    PROVE  assigned[i] \in Musician /\ assigned[i] \in Playing
BY DEF Playing, Strong, TypeOK

LEMMA DeleteBandRowKeeps ==
    ASSUME Strong, NEW c \in Slot, DeleteBandRow(c)
    PROVE  Strong'
<1>1. /\ band' = NoBand /\ song' = FALSE
      /\ assigned' = [i \in Instrument |-> Nobody]
      /\ guests' = guests \cap AboutToPlay
      /\ stranded' = (stranded \cup band.members) \cap AboutToPlay
      /\ call' = [call EXCEPT ![c] = Idle]
      /\ UNCHANGED <<calls, faults>>
      /\ ~Does(c, "reassign")
  BY DEF DeleteBandRow, Does
<1>2. call' \in [Slot -> Calls] /\ \A d \in Slot : Good(call'[d])
  BY <1>1, IdleIsGood, CallsStayGood
<1>3. TypeOK'
  BY <1>1, <1>2 DEF Strong, TypeOK, AboutToPlay
<1>4. OwnerIsMember' /\ NothingOutlivesItsBand' /\ AssignedBelong'
  BY <1>1 DEF OwnerIsMember, NothingOutlivesItsBand, AssignedBelong, Exists
<1>5. SavesBelong'
  <2> SUFFICES ASSUME NEW m \in AboutToPlay' PROVE Excused(m)'
    BY DEF SavesBelong
  <2>1. m \in AboutToPlay
    BY <1>1, IdleIsGood, IdleShape, Quiet, WhoIsAboutToPlay
  <2>2. Excused(m)
    BY <2>1 DEF Strong, SavesBelong
  <2> QED
    BY <1>1, <2>1, <2>2, IdleIsGood, WhoIsBeingReassigned DEF Excused
<1> QED
  BY <1>2, <1>3, <1>4, <1>5 DEF Strong

LEMMA SaveSongKeeps ==
    ASSUME Strong, NEW c \in Slot, SaveSong(c)
    PROVE  Strong'
<1>1. /\ song' = (song \/ Exists)
      /\ call' = [call EXCEPT ![c] = Idle]
      /\ UNCHANGED <<band, assigned, guests, stranded, calls, faults>>
      /\ ~Does(c, "reassign")
  BY DEF SaveSong, Does
<1>2. call' \in [Slot -> Calls] /\ \A d \in Slot : Good(call'[d])
  BY <1>1, IdleIsGood, CallsStayGood
<1>3. song' \in BOOLEAN
  BY <1>1 DEF Strong, TypeOK, Exists
<1>4. TypeOK'
  BY <1>1, <1>2, <1>3 DEF Strong, TypeOK
<1>5. OwnerIsMember' /\ NothingOutlivesItsBand'
  BY <1>1 DEF Strong, OwnerIsMember, NothingOutlivesItsBand, Exists
<1>6. \A m : Excused(m) => Excused(m)'
  BY <1>1, IdleIsGood, WhoIsBeingReassigned DEF Excused
<1>7. AssignedBelong'
  BY <1>1, <1>6 DEF Strong, AssignedBelong
<1>8. SavesBelong'
  BY <1>1, <1>6, IdleIsGood, IdleShape, Quiet, WhoIsAboutToPlay DEF Strong, SavesBelong
<1> QED
  BY <1>2, <1>4, <1>5, <1>7, <1>8 DEF Strong

\* Of the members that a save takes away, those it had read are reassigned by
\* its continuation; the others are stranded, if they play.
LEMMA SaveBandKeeps ==
    ASSUME Strong, NEW c \in Slot, SaveBand(c)
    PROVE  Strong'
<1>1. /\ call[c].do = "save band" /\ ~Does(c, "reassign")
      /\ band' = call[c].row
      /\ stranded' = stranded \cup (Overwritten(c) \cap (Playing \cup AboutToPlay))
      /\ call' = [call EXCEPT ![c] = call[c].then]
      /\ UNCHANGED <<song, assigned, guests, calls, faults>>
  BY DEF SaveBand, Does
<1>2. call[c] \in Calls /\ SavesItsMembers(call[c])
  BY <1>1 DEF Strong, Good
<1>3. PICK row \in Bands, then \in Continuations : row = call[c].row /\ then = call[c].then
  BY <1>1, <1>2, CallShape
<1>4. Good(then)
  BY ContinuationIsGood
<1>5. /\ call' \in [Slot -> Calls] /\ \A d \in Slot : Good(call'[d])
      /\ \A d \in Slot : call'[d] = IF d = c THEN then ELSE call[d]
  BY <1>1, <1>3, <1>4, CallsStayGood
<1>6. stranded' \subseteq Musician
  BY <1>1 DEF Strong, TypeOK, Playing, AboutToPlay
<1>7. TypeOK'
  BY <1>1, <1>3, <1>5, <1>6 DEF Strong, TypeOK
<1>8. OwnerIsMember' /\ NothingOutlivesItsBand'
  BY <1>1, <1>2, <1>3, BandShape DEF SavesItsMembers, Strong, OwnerIsMember, NothingOutlivesItsBand, Exists
<1>9. ASSUME NEW m \in Playing \cup AboutToPlay, Excused(m)
      PROVE  Excused(m)'
  <2>1. CASE m \in guests \cup stranded
    BY <1>1, <2>1 DEF Excused
  <2>2. CASE BeingReassigned(m)
    BY <1>1, <1>3, <1>4, <2>2, WhoIsBeingReassigned DEF Excused
  <2>3. CASE m \in band.members /\ m \in row.members
    BY <1>1, <1>3, <2>3 DEF Excused
  <2>4. CASE m \in band.members /\ m \notin row.members /\ m \in call[c].was.members
    <3>1. then.do = "reassign" /\ then.target = m
      BY <1>2, <1>3, <2>4 DEF SavesItsMembers
    <3> QED
      BY <1>5, <3>1 DEF Excused, BeingReassigned, Does
  <2>5. CASE m \in band.members /\ m \notin row.members /\ m \notin call[c].was.members
    BY <1>1, <1>3, <2>5 DEF Overwritten, Excused
  <2> QED
    BY <1>9, <2>1, <2>2, <2>3, <2>4, <2>5 DEF Excused
<1>10. AssignedBelong'
  BY <1>1, <1>9, PlayingShape DEF Strong, AssignedBelong
<1>11. SavesBelong'
  <2> SUFFICES ASSUME NEW m \in AboutToPlay' PROVE Excused(m)'
    BY DEF SavesBelong
  <2>1. CASE m \in AboutToPlay
    BY <1>9, <2>1 DEF Strong, SavesBelong
  <2>2. CASE Plays(then, m)
    <3>1. m \in row.members
      BY <1>2, <1>3, <2>2, ContinuationShape DEF Plays, SavesItsMembers
    <3> QED
      BY <1>1, <1>3, <3>1 DEF Excused
  <2> QED
    BY <1>1, <1>3, <1>4, <2>1, <2>2, WhoIsAboutToPlay
<1> QED
  BY <1>5, <1>7, <1>8, <1>10, <1>11 DEF Strong

\* Whoever else is being reassigned still is; the target is through, unless a
\* call has read that they play.
LEMMA ReassignKeeps ==
    ASSUME Strong, NEW c \in Slot, Reassign(c)
    PROVE  Strong'
<1>1. /\ call[c].do = "reassign"
      /\ call' = [call EXCEPT ![c] = Idle]
      /\ UNCHANGED <<band, song, calls, faults>>
  BY DEF Reassign, Does
<1>2. PICK t \in Musician, o \in Musician : t = call[c].target /\ o = call[c].owner
  BY <1>1, CallShape, ContinuationShape DEF Strong, TypeOK
<1> DEFINE Moved == {i \in Instrument : assigned[i] = t}
           Through == {t} \ AboutToPlay
           Heirs == IF Moved = {} THEN {} ELSE {o}
<1>3. /\ assigned' = [i \in Instrument |-> IF i \in Moved THEN o ELSE assigned[i]]
      /\ guests' = guests \ Through
      /\ stranded' = (stranded \ Through) \cup ((({t} \ Through) \cup Heirs) \ band.members)
  BY <1>2 DEF Reassign
<1>4. call' \in [Slot -> Calls] /\ \A d \in Slot : Good(call'[d])
  BY <1>1, IdleIsGood, CallsStayGood
<1>5. /\ assigned' \in [Instrument -> Musician \cup {Nobody}]
      /\ \A i \in Instrument : assigned'[i] = IF assigned[i] = t THEN o ELSE assigned[i]
  BY <1>3 DEF Strong, TypeOK
<1>6. guests' \subseteq Musician /\ stranded' \subseteq Musician
  BY <1>3 DEF Strong, TypeOK
<1>7. TypeOK'
  BY <1>1, <1>4, <1>5, <1>6 DEF Strong, TypeOK
<1>8. OwnerIsMember'
  BY <1>1 DEF Strong, OwnerIsMember, Exists
<1>9. NothingOutlivesItsBand'
  BY <1>1, <1>5, NobodyAssumption DEF Strong, NothingOutlivesItsBand, Exists
<1>10. ASSUME NEW m, m # t \/ m \in AboutToPlay, Excused(m)
       PROVE  Excused(m)'
  <2>1. CASE m # t
    BY <1>1, <1>2, <1>3, <1>10, <2>1, IdleIsGood, WhoIsBeingReassigned DEF Excused
  <2>2. CASE m = t /\ m \in AboutToPlay
    BY <1>1, <1>3, <2>2 DEF Excused
  <2> QED
    BY <1>10, <2>1, <2>2
<1>11. AssignedBelong'
  <2> SUFFICES ASSUME NEW i \in Instrument, NEW m, m = assigned'[i], m # Nobody PROVE Excused(m)'
    BY DEF AssignedBelong, Excused, BeingReassigned
  <2>1. CASE assigned[i] = t
    <3>1. m = o /\ Moved # {}
      BY <1>5, <2>1
    <3> QED
      BY <1>1, <1>3, <3>1 DEF Excused
  <2>2. CASE assigned[i] # t
    <3>1. m = assigned[i] /\ Excused(m)
      BY <1>5, <2>2 DEF Strong, AssignedBelong
    <3> QED
      BY <1>10, <2>2, <3>1
  <2> QED
    BY <2>1, <2>2
<1>12. SavesBelong'
  <2> SUFFICES ASSUME NEW m \in AboutToPlay' PROVE Excused(m)'
    BY DEF SavesBelong
  <2>1. m \in AboutToPlay
    BY <1>1, IdleIsGood, IdleShape, Quiet, WhoIsAboutToPlay
  <2> QED
    BY <1>10, <2>1 DEF Strong, SavesBelong
<1> QED
  BY <1>4, <1>7, <1>8, <1>9, <1>11, <1>12 DEF Strong

\* Whom it writes is excused, or is a guest from now on.
LEMMA SaveInstrumentKeeps ==
    ASSUME Strong, NEW c \in Slot, SaveInstrument(c)
    PROVE  Strong'
<1>1. /\ call[c].do = "save instrument" /\ ~Does(c, "reassign")
      /\ call' = [call EXCEPT ![c] = Idle]
      /\ UNCHANGED <<band, song, stranded, calls, faults>>
  BY DEF SaveInstrument, Does
<1>2. call[c] \in Continuations
  BY <1>1, CallShape DEF Strong, TypeOK
<1>3. PICK i \in Instrument, m \in Musician : i = call[c].instrument /\ m = call[c].musician
  BY <1>1, <1>2, ContinuationShape
<1>4. call' \in [Slot -> Calls] /\ \A d \in Slot : Good(call'[d])
  BY <1>1, IdleIsGood, CallsStayGood
<1>5. OwnerIsMember'
  BY <1>1 DEF Strong, OwnerIsMember, Exists
<1>6. guests \subseteq guests' /\ guests' \subseteq Musician
  BY <1>3 DEF SaveInstrument, Strong, TypeOK
<1>7. \A n : Excused(n) => Excused(n)'
  BY <1>1, <1>6, IdleIsGood, WhoIsBeingReassigned DEF Excused
<1>8. SavesBelong'
  BY <1>1, <1>7, IdleIsGood, IdleShape, Quiet, WhoIsAboutToPlay DEF Strong, SavesBelong
<1>9. CASE song
  <2>1. /\ assigned' = [assigned EXCEPT ![i] = m]
        /\ guests' = IF call[c].why = "created" THEN guests \cup ({m} \ band.members) ELSE guests
    BY <1>3, <1>9 DEF SaveInstrument, MissesRelation
  <2>2. /\ assigned' \in [Instrument -> Musician \cup {Nobody}]
        /\ \A j \in Instrument : assigned'[j] = IF j = i THEN m ELSE assigned[j]
    BY <2>1 DEF Strong, TypeOK
  <2>3. TypeOK'
    BY <1>1, <1>4, <1>6, <2>2 DEF Strong, TypeOK
  <2>4. NothingOutlivesItsBand'
    BY <1>1, <1>9 DEF Strong, NothingOutlivesItsBand, Exists
  <2>5. Excused(m)'
    <3>1. CASE call[c].why = "created"
      BY <1>1, <2>1, <3>1 DEF Excused
    <3>2. CASE call[c].why # "created"
      <4>1. m \in AboutToPlay
        BY <1>1, <1>3, <3>2 DEF AboutToPlay, Plays
      <4> QED
        BY <1>7, <4>1 DEF Strong, SavesBelong
    <3> QED
      BY <3>1, <3>2
  <2>6. AssignedBelong'
    BY <1>7, <2>2, <2>5 DEF Strong, AssignedBelong
  <2> QED
    BY <1>4, <1>5, <1>8, <2>3, <2>4, <2>6 DEF Strong
<1>10. CASE ~song
  <2>1. UNCHANGED <<assigned, guests>>
    BY <1>10 DEF SaveInstrument, MissesRelation
  <2>2. TypeOK' /\ NothingOutlivesItsBand'
    BY <1>1, <1>4, <2>1 DEF Strong, TypeOK, NothingOutlivesItsBand, Exists
  <2>3. AssignedBelong'
    BY <1>7, <2>1 DEF Strong, AssignedBelong
  <2> QED
    BY <1>4, <1>5, <1>8, <2>2, <2>3 DEF Strong
<1> QED
  BY <1>9, <1>10 DEF Strong, TypeOK

-----------------------------------------------------------------------------
(* The steps together.                                                     *)

LEMMA InitIsStrong == Init => Strong
<1> SUFFICES ASSUME Init PROVE Strong
  OBVIOUS
<1>1. /\ band = NoBand /\ song = FALSE /\ guests = {} /\ stranded = {}
      /\ assigned = [i \in Instrument |-> Nobody]
      /\ call = [c \in Slot |-> Idle]
      /\ calls = 0 /\ faults = 0
  BY DEF Init
<1>2. Idle \in Calls
  BY IdleShape, ContinuationsAreCalls
<1>3. song \in BOOLEAN
  BY <1>1
<1>4. call \in [Slot -> Calls] /\ assigned \in [Instrument -> Musician \cup {Nobody}]
  BY <1>1, <1>2
<1>5. calls \in 0..MaxCalls /\ faults \in 0..MaxFaults
  BY <1>1, BandBoundsAssumption
<1>6. TypeOK
  BY <1>1, <1>3, <1>4, <1>5 DEF TypeOK
<1>7. OwnerIsMember /\ NothingOutlivesItsBand /\ AssignedBelong
  BY <1>1 DEF OwnerIsMember, NothingOutlivesItsBand, AssignedBelong, Exists
<1>8. \A c \in Slot : Good(call[c])
  BY <1>1, IdleIsGood
<1>9. SavesBelong
  BY <1>1, IdleShape DEF SavesBelong, AboutToPlay, Plays
<1> QED
  BY <1>6, <1>7, <1>8, <1>9 DEF Strong

LEMMA NextKeeps == Strong /\ [Next]_vars => Strong'
<1> SUFFICES ASSUME Strong, [Next]_vars PROVE Strong'
  OBVIOUS
<1>1. CASE UNCHANGED vars
  <2>1. TypeOK' /\ OwnerIsMember' /\ NothingOutlivesItsBand'
    BY <1>1 DEF Strong, TypeOK, OwnerIsMember, NothingOutlivesItsBand, Exists, vars
  <2>2. \A c \in Slot : Good(call'[c])
    BY <1>1 DEF Strong, vars
  <2>3. AssignedBelong' /\ SavesBelong'
    BY <1>1 DEF Strong, AssignedBelong, SavesBelong, AboutToPlay, Excused, BeingReassigned, Does, vars
  <2> QED
    BY <2>1, <2>2, <2>3 DEF Strong
<1>2. CASE Requests
  BY <1>2, RequestsKeep
<1>3. ASSUME NEW c \in Slot, Reads(c) PROVE Strong'
  BY <1>3, CreateBandKeeps, UpdateBandKeeps, RemoveBandKeeps, AddMemberKeeps, RemoveMemberKeeps,
     SongReadsKeep, ReadInstrumentKeeps, CheckOwnerKeeps DEF Reads
<1>4. ASSUME NEW c \in Slot, DeleteBandRow(c) \/ SaveSong(c) \/ CallFails(c) PROVE Strong'
  BY <1>4, DeleteBandRowKeeps, SaveSongKeeps, CallFailsKeeps
<1>5. ASSUME NEW c \in Slot, Saves(c) PROVE Strong'
  BY <1>5, SaveBandKeeps, SaveInstrumentKeeps, ReassignKeeps DEF Saves
<1> QED
  BY <1>1, <1>2, <1>3, <1>4, <1>5 DEF Next

LEMMA SpecIsStrong == Spec => []Strong
<1>1. Init => Strong
  BY InitIsStrong
<1>2. Strong /\ [Next]_vars => Strong'
  BY NextKeeps
<1> QED
  BY <1>1, <1>2, PTL DEF Spec

\* Whatever calls overlap or die and whatever stale row they save, the band
\* keeps an owner who is a member, nothing outlives it, and every save in
\* flight keeps that (BandPrismaRepository, BandMemberRemover, SongCreator).
THEOREM BandIsSound == Spec => []BandInv
<1>1. Strong => BandInv
  BY StrongImplies
<1> QED
  BY <1>1, SpecIsStrong, PTL

\* Whoever is assigned an instrument belongs to the band, unless they were a
\* guest from its creation, are about to lose it, or were stranded by one of
\* the crossings that AssignedBelong names (BandMemberRemover,
\* SongInstrumentAssignmentCore).
THEOREM AssignedDoBelong == Spec => []AssignedBelong
<1>1. Strong => AssignedBelong
  BY DEF Strong
<1> QED
  BY <1>1, SpecIsStrong, PTL

=============================================================================
