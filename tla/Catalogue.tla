------------------------------- MODULE Catalogue -------------------------------
(***************************************************************************)
(* Songs and instruments, and the lists that clients read: of bands, of    *)
(* songs, of the instruments played in a song, of the instruments there    *)
(* are.  A list is read in several statements: the membership of the       *)
(* caller, a page of rows, the number of rows.  Bands change and songs are *)
(* created in between, and the consumer of the creation of a song looks    *)
(* its duration up.                                                        *)
(*                                                                         *)
(* Queries and commands in flight are records of what they do next and of  *)
(* what they have read.  Everybody has a musician profile, and a musician  *)
(* stands for its user too.  Who owns a band and the creation of played    *)
(* instruments are the matter of BandMembership.                           *)
(*                                                                         *)
(* Ids are drawn by the clients, and the id of a song that was deleted     *)
(* with its band may be used again: nothing remembers it but the events    *)
(* and the requests that were on their way, and "gone".                    *)
(*                                                                         *)
(* Artificial: MaxRequests caps the queries, commands and deliveries,      *)
(* MaxChanges the changes of membership; Requested are the criteria that   *)
(* clients send, Members0 and Songs0 the bands and songs at the beginning. *)
(***************************************************************************)
EXTENDS Criteria

CONSTANTS
    Band, Musician, Song, Instrument,
    Part,         \* SongInstrument rows
    Url,
    YouTube,      \* the URLs of a YouTube host
    Pages,        \* what a page says: [Url -> sets of pages]
    Texts,        \* titles, names and descriptions: sets of words
    Requested,    \* for each kind of list
    Members0,     \* the members of the bands at the beginning
    Songs0,       \* and the songs
    Reader,       \* queries that can be in flight at a time
    Writer,       \* and commands
    MaxRequests, MaxChanges

ASSUME RowsAreFinite ==
    IsFiniteSet(Band) /\ IsFiniteSet(Song) /\ IsFiniteSet(Part) /\ IsFiniteSet(Instrument)

ASSUME UrlAssumption ==
    /\ YouTube \subseteq Url
    /\ Pages \in [Url -> SUBSET [lengthSeconds : Int, iso8601 : Int]]

ASSUME BoundsAssumption == MaxRequests \in Nat /\ MaxChanges \in Nat

VARIABLES
    bands,        \* the members of each band, its owner among them
    songs,
    parts,        \* the song of each SongInstrument row
    instruments,
    events,       \* SongCreated events to be delivered
    gone,         \* history: ids of songs that were deleted
    query,
    command,
    requests, changes

rows == <<bands, songs, parts, instruments>>
counters == <<requests, changes>>
vars == <<rows, events, gone, query, command, counters>>

NoSong == [band |-> "none"]
NoPart == "none"

SongRows ==
    [band : Band, title : Texts, url : Url, duration : Nat]

InstrumentRows == [name : Texts, description : Texts]

Idle == [do |-> "nothing"]

\* A query, when it is received: of a musician, about something (a band or a
\* song), with criteria or none.
NoCriteria == [filters |-> <<>>, limit |-> 0, offset |-> 0]

Asked(kind, step, m, of) ==
    [do |-> step, kind |-> kind, musician |-> m, admin |-> FALSE, of |-> of,
     criteria |-> NoCriteria, part |-> NoPart,
     items |-> {}, behind |-> {}, total |-> 0, again |-> FALSE,
     seen |-> {b \in Band : m \in bands[b]}, quiet |-> TRUE]

Kinds == {"bands", "songs", "parts", "instruments"}

\* Any sequence of filters may be sent, and any numbers or none.
ASSUME RequestedAssumption ==
    /\ DOMAIN Requested = Kinds
    /\ \A kind \in Kinds : \A raw \in Requested[kind] :
          /\ raw.filters \in Seq(Range(raw.filters))
          /\ raw.limit \in Seq(Int) /\ raw.offset \in Seq(Int)

\* At the beginning songs have a band and no duration yet.
ASSUME BeginningAssumption ==
    /\ Members0 \in [Band -> SUBSET Musician]
    /\ Songs0 \in [Song -> SongRows \cup {NoSong}]
    /\ \A s \in Song : Songs0[s] # NoSong =>
          /\ Members0[Songs0[s].band] # {}
          /\ Songs0[s].duration = Null
    /\ NoPart \notin Song

TypeOK ==
    /\ bands \in [Band -> SUBSET Musician]
    /\ songs \in [Song -> SongRows \cup {NoSong}]
    /\ parts \in [Part -> Song \cup {NoPart}]
    /\ instruments \in [Instrument -> InstrumentRows]
    /\ events \subseteq [song : Song, url : Url]
    /\ gone \subseteq Song
    /\ requests \in 0..MaxRequests /\ changes \in 0..MaxChanges

Init ==
    /\ bands = Members0
    /\ songs = Songs0
    /\ parts = [p \in Part |-> NoPart]
    /\ instruments \in [Instrument -> {[name |-> t, description |-> t] : t \in Texts}]
    /\ events = {[song |-> s, url |-> songs[s].url] : s \in {x \in Song : songs[x] # NoSong}}
    /\ gone = {}
    /\ query = [q \in Reader |-> Idle]
    /\ command = [c \in Writer |-> Idle]
    /\ requests = 0 /\ changes = 0

Existing == {s \in Song : songs[s] # NoSong}
SongsOf(b) == {s \in Existing : songs[s].band = b}
PartsOf(s) == {p \in Part : parts[p] = s}

\* isBandMember, of SongPrismaRepository and of SongInstrumentPrismaRepository
IsMember(b, m) == m \in bands[b]
PlaysIn(s, m) == s \in Existing /\ IsMember(songs[s].band, m)

BandsOf(m) == {b \in Band : IsMember(b, m)}

-----------------------------------------------------------------------------
(* The rows that meet a WHERE clause.  "Fails" is what Prisma answers to   *)
(* one that it cannot ask.                                                 *)

Fails == {"fails"}

\* BandPrismaRepository.matching: a condition on userId becomes one on the
\* user of some member, in the place of any other on the members.
MatchingBands(where) ==
    LET own == IF "userId" \in DOMAIN where THEN DOMAIN where \ {"userId", "members"} ELSE DOMAIN where
        rest == [c \in own |-> where[c]]
    IN  IF ~CanAsk(rest, {}, {"id"}) THEN Fails
        ELSE {b \in Band : /\ bands[b] # {}
                           /\ MeetsAll(rest, [id |-> b])
                           /\ "userId" \in DOMAIN where =>
                                 \E m \in bands[b] : Holds(where["userId"], m)}

SongCells(s) ==
    [id |-> s, bandId |-> songs[s].band, title |-> songs[s].title,
     originalVideoClipDurationSeconds |-> songs[s].duration]

\* SongPrismaRepository.applyMembershipScope
MatchingSongs(where, m) ==
    IF ~CanAsk(where, {"title"}, {"id", "bandId", "originalVideoClipDurationSeconds"}) THEN Fails
    ELSE {s \in Existing : MeetsAll(where, SongCells(s)) /\ PlaysIn(s, m)}

\* SongInstrumentPrismaRepository.matching
MatchingParts(where) ==
    IF ~CanAsk(where, {}, {"id", "songId"}) THEN Fails
    ELSE {p \in Part : parts[p] # NoPart /\ MeetsAll(where, [id |-> p, songId |-> parts[p]])}

InstrumentCells(i) ==
    [id |-> i, name |-> instruments[i].name, description |-> instruments[i].description]

\* InstrumentsPrismaRepository.matching
MatchingInstruments(where) ==
    IF ~CanAsk(where, {"name", "description"}, {"id"}) THEN Fails
    ELSE {i \in Instrument : MeetsAll(where, InstrumentCells(i))}

\* What a list matches, with the scope that its use case puts on it.
Matching(q) ==
    CASE q.kind = "bands" -> MatchingBands(Where(ScopedToUser(q.criteria.filters, q.musician, q.admin)))
      [] q.kind = "songs" -> MatchingSongs(Where(q.criteria.filters), q.musician)
      [] q.kind = "parts" -> MatchingParts(Where(ScopedToSong(q.criteria.filters, q.of)))
      [] q.kind = "instruments" -> MatchingInstruments(Where(q.criteria.filters))

\* The bands that rows of a list belong to.
Behind(kind, items) ==
    CASE kind = "bands" -> items
      [] kind \in {"songs", "band songs"} -> {songs[s].band : s \in items}
      [] kind \in {"parts", "part"} -> {songs[parts[p]].band : p \in items}
      [] OTHER -> {}

-----------------------------------------------------------------------------
(* Queries.                                                                *)

Asks(q, step) == query[q].do = step

SetQuery(q, k) == query' = [query EXCEPT ![q] = k]

Reads == UNCHANGED <<rows, events, gone, command>>

Receive(q, k) ==
    /\ query[q] = Idle
    /\ requests < MaxRequests
    /\ requests' = requests + 1
    /\ SetQuery(q, k)
    /\ Reads
    /\ UNCHANGED changes

\* The controllers of the lists: criteria that are not valid are refused.
GetMatch(q, k, raw) ==
    /\ IsCriteria(raw)
    /\ Receive(q, [k EXCEPT !.criteria = ToCriteria(raw)])

GetBands(q, m, raw) ==
    \E admin \in BOOLEAN : GetMatch(q, [Asked("bands", "page", m, NoPart) EXCEPT !.admin = admin], raw)

GetSongs(q, m, raw) == GetMatch(q, Asked("songs", "page", m, NoPart), raw)

GetParts(q, m, raw, s) == GetMatch(q, Asked("parts", "check song", m, s), raw)

GetInstruments(q, m, raw) == GetMatch(q, Asked("instruments", "page", m, NoPart), raw)

GetBandSongs(q, m, b) == Receive(q, Asked("band songs", "check band", m, b))

GetPart(q, m, s, p) == Receive(q, [Asked("part", "check song", m, s) EXCEPT !.part = p])

Continue(q, k) ==
    /\ SetQuery(q, k)
    /\ Reads
    /\ UNCHANGED counters

\* History: what is played is that of a song with an id used before.
IsOfReused(k) == k.kind \in {"parts", "part"} /\ k.of \in gone

Answer(q, items, total) ==
    Continue(q, [query[q] EXCEPT !.do = "answered", !.total = total, !.again = IsOfReused(query[q]),
                                 !.items = items, !.behind = Behind(query[q].kind, items)])

\* SongListByBand.run and SongInstrumentMatcher.run: ForbiddenException.
CheckBand(q) ==
    /\ Asks(q, "check band")
    /\ Continue(q, IF IsMember(query[q].of, query[q].musician)
                     THEN [query[q] EXCEPT !.do = "page"]
                     ELSE Idle)

CheckSong(q) ==
    /\ Asks(q, "check song")
    /\ Continue(q, IF PlaysIn(query[q].of, query[q].musician)
                     THEN [query[q] EXCEPT !.do = "page"]
                     ELSE Idle)

PageRead(q, items) ==
    Continue(q, [query[q] EXCEPT !.do = "count", !.again = IsOfReused(query[q]),
                                 !.items = items, !.behind = Behind(query[q].kind, items)])

Counted(q, total) == Continue(q, [query[q] EXCEPT !.do = "answered", !.total = total])

\* matching: a page of what matches, in the order asked for or in any.
ReadPage(q) ==
    /\ Asks(q, "page")
    /\ query[q].kind \in Kinds
    /\ LET found == Matching(query[q])
       IN  \/ found = Fails /\ Continue(q, Idle)
           \/ found # Fails /\ \E items \in kSubset(PageSize(Cardinality(found), query[q].criteria), found) :
                                  PageRead(q, items)

\* Mutant: what is counted is the page.
CountPage(q) ==
    /\ Asks(q, "count")
    /\ query[q].kind \in Kinds
    /\ Counted(q, Cardinality(query[q].items))

\* matchingCount, another statement.
CountAll(q) ==
    /\ Asks(q, "count")
    /\ query[q].kind \in Kinds
    /\ Counted(q, Cardinality(Matching(query[q])))

\* searchByBandId and countByBandId: all of them.
ListBandSongs(q) ==
    /\ Asks(q, "page")
    /\ query[q].kind = "band songs"
    /\ PageRead(q, SongsOf(query[q].of))

CountBandSongs(q) ==
    /\ Asks(q, "count")
    /\ query[q].kind = "band songs"
    /\ Counted(q, Cardinality(SongsOf(query[q].of)))

\* SongInstrumentFindById.run
FindPart(q) ==
    /\ Asks(q, "page")
    /\ query[q].kind = "part"
    /\ IF parts[query[q].part] = query[q].of
         THEN Answer(q, {query[q].part}, 1)
         ELSE Continue(q, Idle)

\* BandFinder.run: a list of at most one, by the scope of the lists.
GetBand(q, m, b) ==
    GetBands(q, m, [filters |-> <<Equal("_id", b)>>, limit |-> <<>>, offset |-> <<>>])

\* The answer has been sent.
Finish(q) == Asks(q, "answered") /\ Continue(q, Idle)

-----------------------------------------------------------------------------
(* What others write meanwhile.  A query remembers the bands of its        *)
(* musician, and whether anything was written.                             *)

NoticedByQueries ==
    query' = [q \in Reader |->
                IF query[q] = Idle THEN Idle
                ELSE [query[q] EXCEPT !.quiet = FALSE,
                                      !.seen = @ \cup {b \in Band : query[q].musician \in bands'[b]}]]

\* BandPrismaRepository.save: somebody joins or leaves, or founds the band.
ChangeMembers(b, m) ==
    /\ changes < MaxChanges
    /\ changes' = changes + 1
    /\ bands[b] # {m}
    /\ bands' = [bands EXCEPT ![b] = IF m \in @ THEN @ \ {m} ELSE @ \cup {m}]
    /\ NoticedByQueries
    /\ UNCHANGED <<songs, parts, instruments, events, gone, command, requests>>

\* BandPrismaRepository.remove: the songs go with the band, and what is
\* played in them.
RemoveBand(b) ==
    /\ changes < MaxChanges
    /\ bands[b] # {}
    /\ changes' = changes + 1
    /\ bands' = [bands EXCEPT ![b] = {}]
    /\ songs' = [s \in Song |-> IF s \in SongsOf(b) THEN NoSong ELSE songs[s]]
    /\ parts' = [p \in Part |-> IF parts[p] \in SongsOf(b) THEN NoPart ELSE parts[p]]
    /\ gone' = gone \cup SongsOf(b)
    /\ NoticedByQueries
    /\ UNCHANGED <<instruments, events, command, requests>>

\* SongInstrumentPrismaRepository.save: somebody is to play in a song.
AddPart(p, s) ==
    /\ s \in Existing
    /\ parts[p] = NoPart
    /\ parts' = [parts EXCEPT ![p] = s]
    /\ UNCHANGED <<bands, songs, instruments, events, gone, command, counters>>
    /\ NoticedByQueries

-----------------------------------------------------------------------------
(* Commands.                                                               *)

Does(c, step) == command[c].do = step

SetCommand(c, k) == command' = [command EXCEPT ![c] = k]

Begin(c, k) ==
    /\ command[c] = Idle
    /\ requests < MaxRequests
    /\ requests' = requests + 1
    /\ SetCommand(c, k)
    /\ UNCHANGED <<rows, gone, query, changes>>

Then(c, k) ==
    /\ SetCommand(c, k)
    /\ UNCHANGED <<rows, events, gone, query, counters>>

\* Of SongPrismaRepository and InstrumentsPrismaRepository: the row changes
\* and the queries in flight may see it.
Written(c, k) ==
    /\ SetCommand(c, k)
    /\ UNCHANGED <<bands, parts, counters>>
    /\ NoticedByQueries

\* BandSongPostCreateController.run
PostSong(c, m, b, s, t, u) ==
    /\ IsMember(b, m)
    /\ Begin(c, [do |-> "create song", song |-> s, band |-> b, title |-> t, url |-> u])
    /\ UNCHANGED events

\* SongCreator.run: SongExistException when the id is taken.
CreateSong(c) ==
    /\ Does(c, "create song")
    /\ Then(c, IF command[c].song \in Existing THEN Idle ELSE [command[c] EXCEPT !.do = "save song"])

\* Song.create
NewSong(k) == [band |-> k.band, title |-> k.title, url |-> k.url, duration |-> Null]

\* Mutant: the row is written whether it is there or not.
UpsertSong(c) ==
    /\ Does(c, "save song")
    /\ IF bands[command[c].band] = {} THEN Then(c, Idle)
       ELSE /\ songs' = [songs EXCEPT ![command[c].song] = NewSong(command[c])]
            /\ events' = events \cup {[song |-> command[c].song, url |-> command[c].url]}
            /\ Written(c, Idle)
            /\ UNCHANGED <<instruments, gone>>

\* Mutant: the band need not be there any more.
SaveSongUnchecked(c) ==
    /\ Does(c, "save song")
    /\ IF command[c].song \in Existing
         THEN Then(c, Idle)
         ELSE /\ songs' = [songs EXCEPT ![command[c].song] = NewSong(command[c])]
              /\ events' = events \cup {[song |-> command[c].song, url |-> command[c].url]}
              /\ Written(c, Idle)
              /\ UNCHANGED <<instruments, gone>>

\* throwTranslatedPersistenceError: the id was taken meanwhile, or the band
\* has gone.
IsRefused(k) == k.song \in Existing \/ bands[k.band] = {}

\* SongPrismaRepository.save: an insert with its event.
SaveSong(c) ==
    /\ Does(c, "save song")
    /\ IF IsRefused(command[c])
         THEN Then(c, Idle)
         ELSE /\ songs' = [songs EXCEPT ![command[c].song] = NewSong(command[c])]
              /\ events' = events \cup {[song |-> command[c].song, url |-> command[c].url]}
              /\ Written(c, Idle)
              /\ UNCHANGED <<instruments, gone>>

\* EnrichSongOriginalVideoClipDurationOnSongCreated.on.  An event may come
\* again.
Deliver(c, e) ==
    /\ e \in events
    /\ Begin(c, [do |-> "fetch", song |-> e.song, url |-> e.url])
    /\ events' \in {events, events \ {e}}

\* What the provider reads from a page: its first duration, if positive,
\* else the second.
DurationOf(page) ==
    IF page.lengthSeconds > 0 THEN page.lengthSeconds
    ELSE IF page.iso8601 > 0 THEN page.iso8601
    ELSE Null

\* normalizeUrl: nothing for another host.
NormalizeUrl(url) == IF url \in YouTube THEN {url} ELSE {}

\* HttpClient.get: a page as it is at the time, or an error, on which the
\* enricher gives up as it does on a page that tells no duration.
NoPage == [lengthSeconds |-> 0, iso8601 |-> 0]
Get(url) == Pages[url] \cup {NoPage}

\* YouTubeOriginalVideoClipDurationProvider.getDurationInSeconds
Fetch(c) ==
    /\ Does(c, "fetch")
    /\ \/ NormalizeUrl(command[c].url) = {} /\ Then(c, Idle)
       \/ \E url \in NormalizeUrl(command[c].url) : \E page \in Get(url) :
            Then(c, IF DurationOf(page) = Null THEN Idle
                    ELSE [do |-> "save duration", song |-> command[c].song,
                          duration |-> DurationOf(page)])

\* Mutant: the update is of all the songs of the band.
UpdateDurations(c) ==
    /\ Does(c, "save duration")
    /\ IF command[c].song \in Existing
         THEN /\ songs' = [s \in Song |->
                             IF s \in SongsOf(songs[command[c].song].band)
                               THEN [songs[s] EXCEPT !.duration = command[c].duration]
                               ELSE songs[s]]
              /\ Written(c, Idle)
              /\ UNCHANGED <<instruments, events, gone>>
         ELSE Then(c, Idle)

\* updateOriginalVideoClipDurationSeconds: the update of a song that has
\* gone fails, which the enricher catches.
UpdateDuration(c) ==
    /\ Does(c, "save duration")
    /\ IF command[c].song \in Existing
         THEN /\ songs' = [songs EXCEPT ![command[c].song].duration = command[c].duration]
              /\ Written(c, Idle)
              /\ UNCHANGED <<instruments, events, gone>>
         ELSE Then(c, Idle)

\* InstrumentsPutUpdateController.run; what the request leaves out stays.
PutInstrument(c, i, new) ==
    /\ Begin(c, [do |-> "update instrument", instrument |-> i, new |-> new])
    /\ UNCHANGED events

\* Instruments.update, on what InstrumentsUpdater.run has read: without a
\* change there is no event, and nothing is saved.
Updated(row, new) == [f \in DOMAIN row |-> IF f \in DOMAIN new THEN new[f] ELSE row[f]]

UpdateInstrument(c) ==
    /\ Does(c, "update instrument")
    /\ LET was == instruments[command[c].instrument]
           row == Updated(was, command[c].new)
       IN  Then(c, IF row = was THEN Idle
                   ELSE [do |-> "save instrument", instrument |-> command[c].instrument, row |-> row])

\* InstrumentsPrismaRepository.save: the whole row.  Its event was drained
\* before and is published afterwards: what may come of that is in Outbox.
SaveInstrument(c) ==
    /\ Does(c, "save instrument")
    /\ instruments' = [instruments EXCEPT ![command[c].instrument] = command[c].row]
    /\ Written(c, Idle)
    /\ UNCHANGED <<songs, events, gone>>

-----------------------------------------------------------------------------

Lists(q) ==
    \E m \in Musician :
        \/ \E raw \in Requested["bands"] : GetBands(q, m, raw)
        \/ \E raw \in Requested["songs"] : GetSongs(q, m, raw)
        \/ \E raw \in Requested["parts"], s \in Song : GetParts(q, m, raw, s)
        \/ \E raw \in Requested["instruments"] : GetInstruments(q, m, raw)

Singles(q) ==
    \E m \in Musician :
        \/ \E b \in Band : GetBandSongs(q, m, b) \/ GetBand(q, m, b)
        \/ \E s \in Song, p \in Part : GetPart(q, m, s, p)

QueryStep(q) ==
    \/ CheckBand(q) \/ CheckSong(q) \/ ReadPage(q) \/ CountAll(q)
    \/ ListBandSongs(q) \/ CountBandSongs(q) \/ FindPart(q) \/ Finish(q)

Partial == UNION {[fields -> Texts] : fields \in SUBSET {"name", "description"}}

Commands(c) ==
    \/ \E m \in Musician, b \in Band, s \in Song, t \in Texts, u \in Url : PostSong(c, m, b, s, t, u)
    \/ \E e \in events : Deliver(c, e)
    \/ \E i \in Instrument, new \in Partial : PutInstrument(c, i, new)

CommandStep(c) ==
    \/ CreateSong(c) \/ SaveSong(c) \/ Fetch(c) \/ UpdateDuration(c)
    \/ UpdateInstrument(c) \/ SaveInstrument(c)

Others ==
    \/ \E b \in Band, m \in Musician : ChangeMembers(b, m)
    \/ \E b \in Band : RemoveBand(b)
    \/ \E p \in Part, s \in Song : AddPart(p, s)

Next ==
    \/ \E q \in Reader : Lists(q) \/ Singles(q) \/ QueryStep(q)
    \/ \E c \in Writer : Commands(c) \/ CommandStep(c)
    \/ Others

Spec == Init /\ [][Next]_vars

-----------------------------------------------------------------------------
(* Properties.                                                             *)

\* The duration of a song is one that its own page told, also when it was
\* looked up twice or the songs changed meanwhile.  A song with an id used
\* before may be given the duration that was looked up for the former one.
DurationIsItsOwn ==
    \A s \in Existing \ gone : songs[s].duration # Null =>
        /\ songs[s].url \in YouTube
        /\ \E page \in Pages[songs[s].url] : songs[s].duration = DurationOf(page)

\* Every song belongs to a band, and what is played in a song goes with it.
NothingOutlivesItsBand ==
    /\ \A s \in Existing : bands[songs[s].band] # {}
    /\ \A p \in Part : parts[p] # NoPart => parts[p] \in Existing

\* Whatever bands are removed and events come again between the check and the
\* save of a song or of its duration, songs have a band and their own duration.
CatalogueInv == TypeOK /\ NothingOutlivesItsBand /\ DurationIsItsOwn

\* Whatever filters it sends, nobody but an administrator is answered with
\* rows of a band that it did not belong to at some moment of the request.
\* What is played in a song is told by the id alone once the song has been
\* checked, so a song that takes over the id in between is excepted.
AnswersStayInScope ==
    \A q \in Reader :
        Asks(q, "answered") /\ ~query[q].admin /\ ~query[q].again => query[q].behind \subseteq query[q].seen

\* The reference: the rows a list is asked for.
Expected(q) ==
    LET fs == q.criteria.filters
    IN  CASE q.kind = "songs" -> {s \in Existing : AsksFor(fs, SongCells(s)) /\ PlaysIn(s, q.musician)}
          [] q.kind = "parts" ->
                {p \in PartsOf(q.of) : AsksFor(Without(fs, "songId"), [id |-> p])}
          [] q.kind = "bands" ->
                {b \in IF q.admin THEN {x \in Band : bands[x] # {}} ELSE BandsOf(q.musician) :
                    AsksFor(Without(fs, "userId"), [id |-> b])}
          [] q.kind = "instruments" ->
                {i \in Instrument : AsksFor(fs, InstrumentCells(i))}

\* A filter of a list of bands on their members is replaced by the scope, and
\* an administrator's on the user has no row to be compared with.
ReplacesNone(q) ==
    q.kind = "bands" => \A i \in DOMAIN q.criteria.filters :
                            q.criteria.filters[i].field \notin {"members"} \cup (IF q.admin THEN {"userId"} ELSE {})

\* When nothing is written meanwhile, and no two filters are on one column,
\* a list answers with a page of the rows that meet all the filters, no
\* longer than the longest page, and with the number of those rows.
PagesAgree ==
    \A q \in Reader :
        LET k == query[q]
        IN  /\ Asks(q, "answered") /\ k.quiet /\ k.kind \in Kinds
            /\ OneFilterPerColumn(k.criteria.filters) /\ ReplacesNone(k)
            => /\ k.items \subseteq Expected(k)
               /\ k.total = Cardinality(Expected(k))
               /\ Cardinality(k.items) <= MaxLimit
               /\ k.total > k.criteria.offset => k.items # {}

\* Of two creations with the same id one is refused: a song that is there
\* keeps its band, its title and its address.
SongsStay ==
    [][\A s \in Existing :
        songs'[s] # NoSong =>
            /\ songs'[s].band = songs[s].band
            /\ songs'[s].title = songs[s].title
            /\ songs'[s].url = songs[s].url]_vars

=============================================================================
