------------------------------ MODULE SongProofs ------------------------------
(***************************************************************************)
(* What holds of songs: of the catalogue and its lists for any bands,      *)
(* songs, criteria, queries and commands in flight, and of the videoclip   *)
(* processes of those songs for every number of songs, ids, calls in       *)
(* flight, handlers and failures.                                          *)
(*                                                                         *)
(* The two share no variable: a step of one is no step of the other, and   *)
(* what is proved is proved of each by itself.                             *)
(***************************************************************************)
EXTENDS Catalogue, VideoclipProcess, FiniteSetTheorems, SequenceTheorems, WellFoundedInduction, TLAPS

-----------------------------------------------------------------------------
(* Induction and recursion over the numbers, stated of sets: the theorems  *)
(* of the library that take an operator are for other provers.             *)

\* A set that holds 0, and n + 1 whenever it holds n, holds every number.
LEMMA SetInduction ==
    ASSUME NEW T, T \subseteq Nat, 0 \in T, \A n \in Nat : n \in T => n + 1 \in T
    PROVE  T = Nat
<1> DEFINE Out == Nat \ T
<1> SUFFICES ASSUME Out # {} PROVE FALSE
  OBVIOUS
<1>1. PICK n \in Out : \A m \in Out : ~ (<<m, n>> \in OpToRel(<, Nat))
  <2>1. Out \subseteq Nat
    OBVIOUS
  <2> HIDE DEF Out
  <2> QED
    BY <2>1, NatLessThanWellFounded, WFMin
<1>2. n \in Nat /\ n # 0 /\ n - 1 \in Nat
  OBVIOUS
<1>3. n - 1 \in Out
  OBVIOUS
<1>4. <<n - 1, n>> \in OpToRel(<, Nat)
  BY <1>2 DEF OpToRel
<1> QED
  BY <1>1, <1>3, <1>4

\* A step for each number and a base define a sequence of values.
HaveValues(N, S, base, step) ==
    \E f \in [0..N -> S] : f[0] = base /\ \A i \in 1..N : f[i] = step[i][f[i - 1]]

LEMMA Recursion ==
    ASSUME NEW N \in Nat, NEW S, NEW base \in S, NEW step \in [1..N -> [S -> S]]
    PROVE  HaveValues(N, S, base, step)
<1> DEFINE Defines(f, n) == f \in [0..n -> S] /\ f[0] = base /\ \A i \in 1..n : f[i] = step[i][f[i - 1]]
           T == {n \in Nat : n <= N => \E f : Defines(f, n)}
<1>1. 0 \in T
  <2>1. Defines([i \in 0..0 |-> base], 0)
    OBVIOUS
  <2> QED
    BY <2>1
<1>2. ASSUME NEW n \in Nat, n \in T PROVE n + 1 \in T
  <2> SUFFICES ASSUME n + 1 <= N PROVE \E f : Defines(f, n + 1)
    OBVIOUS
  <2>1. PICK f : Defines(f, n)
    BY <1>2
  <2> DEFINE g == [i \in 0..(n + 1) |-> IF i = n + 1 THEN step[n + 1][f[n]] ELSE f[i]]
  <2>2. n + 1 \in 1..N /\ f[n] \in S /\ step[n + 1][f[n]] \in S
    BY <2>1
  <2>3. g \in [0..(n + 1) -> S]
    BY <2>1, <2>2
  <2>4. \A i \in 1..(n + 1) : g[i] = step[i][g[i - 1]]
    BY <2>1
  <2>5. g[0] = base
    BY <2>1
  <2> QED
    BY <2>3, <2>4, <2>5
<1>3. T = Nat
  <2>1. T \subseteq Nat
    OBVIOUS
  <2> HIDE DEF T
  <2> QED
    BY <1>1, <1>2, <2>1, SetInduction
<1> QED
  BY <1>3 DEF HaveValues

-----------------------------------------------------------------------------
(* Criteria.                                                               *)

\* What is kept of the first n filters: all that have another field, in
\* places of their own.
Keeps(R, fs, field, n, x) ==
    /\ x \in Seq(R)
    /\ \A k \in 1..Len(x) : \E j \in 1..n : x[k] = fs[j] /\ fs[j].field # field
    /\ \A j \in 1..n : fs[j].field # field => \E k \in 1..Len(x) : x[k] = fs[j]
    /\ OneFilterPerColumn(fs) => \A k, l \in 1..Len(x) : Column(x[k]) = Column(x[l]) => k = l

\* A filter on the field is passed over, another one is appended.
LEMMA KeepsNext ==
    ASSUME NEW R, NEW fs \in Seq(R), NEW field, NEW n \in Nat, n + 1 <= Len(fs),
           NEW x, Keeps(R, fs, field, n, x)
    PROVE  Keeps(R, fs, field, n + 1, IF fs[n + 1].field = field THEN x ELSE Append(x, fs[n + 1]))
<1>1. n + 1 \in 1..Len(fs) /\ n + 1 \in DOMAIN fs /\ fs[n + 1] \in R /\ 1..n \subseteq 1..(n + 1)
  OBVIOUS
<1>2. \A j \in 1..(n + 1) : j = n + 1 \/ j \in 1..n
  OBVIOUS
<1>3. CASE fs[n + 1].field = field
  BY <1>1, <1>2, <1>3 DEF Keeps
<1>4. CASE fs[n + 1].field # field
  <2> DEFINE y == Append(x, fs[n + 1])
  <2>1. y \in Seq(R) /\ Len(y) = Len(x) + 1 /\ Len(x) \in Nat /\ y[Len(x) + 1] = fs[n + 1]
          /\ \A k \in 1..Len(x) : y[k] = x[k]
    BY <1>1 DEF Keeps
  <2> HIDE DEF y
  <2>2. \A k \in 1..Len(y) : k = Len(x) + 1 \/ k \in 1..Len(x)
    BY <2>1
  <2>3. \A k \in 1..Len(x) : k \in 1..Len(y)
    BY <2>1
  <2>4. Len(x) + 1 \in 1..Len(y)
    BY <2>1
  <2>5. ASSUME NEW k \in 1..Len(y) PROVE \E j \in 1..(n + 1) : y[k] = fs[j] /\ fs[j].field # field
    <3>1. CASE k = Len(x) + 1
      BY <1>1, <1>4, <2>1, <3>1
    <3>2. CASE k \in 1..Len(x)
      BY <1>1, <2>1, <3>2 DEF Keeps
    <3> QED
      BY <2>2, <3>1, <3>2
  <2>6. ASSUME NEW j \in 1..(n + 1), fs[j].field # field PROVE \E k \in 1..Len(y) : y[k] = fs[j]
    <3>1. CASE j = n + 1
      BY <2>1, <2>4, <3>1
    <3>2. CASE j \in 1..n
      <4>1. PICK k \in 1..Len(x) : x[k] = fs[j]
        BY <2>6, <3>2 DEF Keeps
      <4> QED
        BY <2>1, <2>3, <4>1
    <3> QED
      BY <1>2, <3>1, <3>2
  <2>7. ASSUME OneFilterPerColumn(fs), NEW k \in 1..Len(y), NEW l \in 1..Len(y), Column(y[k]) = Column(y[l])
        PROVE  k = l
    <3>1. ASSUME NEW a \in 1..Len(x), Column(y[a]) = Column(fs[n + 1]) PROVE FALSE
      <4>1. PICK j \in 1..n : x[a] = fs[j]
        BY <3>1 DEF Keeps
      <4>2. j \in DOMAIN fs /\ j # n + 1
        BY <1>1, <4>1
      <4>3. Column(fs[j]) = Column(fs[n + 1])
        BY <2>1, <3>1, <4>1
      <4> QED
        BY <1>1, <2>7, <4>2, <4>3 DEF OneFilterPerColumn
    <3>2. CASE k \in 1..Len(x) /\ l \in 1..Len(x)
      BY <2>1, <2>7, <3>2 DEF Keeps
    <3>3. CASE k = Len(x) + 1 /\ l \in 1..Len(x)
      BY <2>1, <2>7, <3>1, <3>3
    <3>4. CASE k \in 1..Len(x) /\ l = Len(x) + 1
      BY <2>1, <2>7, <3>1, <3>4
    <3> QED
      BY <2>2, <3>2, <3>3, <3>4
  <2>8. Keeps(R, fs, field, n + 1, y)
    BY <2>1, <2>5, <2>6, <2>7 DEF Keeps
  <2> QED
    BY <1>4, <2>8 DEF y
<1> QED
  BY <1>3, <1>4

\* Of a sequence, Without keeps what has another field.
LEMMA WithoutShape ==
    ASSUME NEW R, NEW fs \in Seq(R), NEW field
    PROVE  Keeps(R, fs, field, Len(fs), Without(fs, field))
<1> DEFINE N == Len(fs)
           Next1(i, x) == IF fs[i].field = field THEN x ELSE Append(x, fs[i])
           kept == CHOOSE f : f = [i \in 0..Len(fs) |->
                      IF i = 0 THEN <<>>
                      ELSE IF fs[i].field = field THEN f[i - 1]
                      ELSE Append(f[i - 1], fs[i])]
<1>1. Without(fs, field) = kept[N]
  BY DEF Without
<1>2. kept = [i \in 0..N |-> IF i = 0 THEN <<>> ELSE Next1(i, kept[i - 1])]
  <2> DEFINE step == [i \in 1..N |-> [x \in Seq(R) |-> Next1(i, x)]]
  <2>1. N \in Nat /\ \A i \in 1..N : fs[i] \in R
    OBVIOUS
  <2>2. step \in [1..N -> [Seq(R) -> Seq(R)]]
    BY <2>1
  <2>3. <<>> \in Seq(R)
    OBVIOUS
  <2>4. \A i \in 1..N : \A x \in Seq(R) : step[i][x] = Next1(i, x)
    OBVIOUS
  <2> HIDE DEF step, N
  <2>5. HaveValues(N, Seq(R), <<>>, step)
    BY <2>1, <2>2, <2>3, Recursion
  <2>6. PICK f \in [0..N -> Seq(R)] : f[0] = <<>> /\ \A i \in 1..N : f[i] = step[i][f[i - 1]]
    BY <2>5 DEF HaveValues
  <2>7. ASSUME NEW i \in 0..N PROVE f[i] = IF i = 0 THEN <<>> ELSE Next1(i, f[i - 1])
    <3>1. CASE i = 0
      BY <2>6, <3>1
    <3>2. CASE i # 0
      <4>1. i \in 1..N /\ i - 1 \in 0..N
        BY <2>1, <3>2
      <4>2. f[i - 1] \in Seq(R)
        BY <4>1
      <4> HIDE DEF Next1
      <4> QED
        BY <2>4, <2>6, <3>2, <4>1, <4>2
    <3> QED
      BY <3>1, <3>2
  <2>8. f = [i \in 0..N |-> IF i = 0 THEN <<>> ELSE Next1(i, f[i - 1])]
    <3> HIDE DEF Next1
    <3> QED
      BY <2>7
  <2> QED
    BY <2>8 DEF N
<1> HIDE DEF kept, N
<1>3. N \in Nat /\ N = Len(fs)
  BY DEF N
<1> DEFINE T == {n \in Nat : n <= N => Keeps(R, fs, field, n, kept[n])}
<1>4. 0 \in T
  <2>1. kept[0] = <<>>
    BY <1>2, <1>3
  <2>2. Keeps(R, fs, field, 0, <<>>)
    BY DEF Keeps
  <2> QED
    BY <2>1, <2>2
<1>5. ASSUME NEW n \in Nat, n \in T PROVE n + 1 \in T
  <2> SUFFICES ASSUME n + 1 <= N PROVE Keeps(R, fs, field, n + 1, kept[n + 1])
    OBVIOUS
  <2>1. Keeps(R, fs, field, n, kept[n])
    BY <1>3, <1>5
  <2>2. n + 1 \in 0..N /\ n + 1 # 0 /\ (n + 1) - 1 = n
    BY <1>3
  <2>3. kept[n + 1] = Next1(n + 1, kept[n])
    <3> HIDE DEF Next1
    <3> QED
      BY <1>2, <2>2
  <2> QED
    BY <1>3, <2>1, <2>3, KeepsNext
<1>6. T = Nat
  <2>1. T \subseteq Nat
    OBVIOUS
  <2> HIDE DEF T
  <2> QED
    BY <1>4, <1>5, <2>1, SetInduction
<1>7. Keeps(R, fs, field, N, kept[N])
  BY <1>3, <1>6
<1> QED
  BY <1>1, <1>3, <1>7

\* The last filter on a column is the one that counts.
LEMMA LastFilterWins ==
    ASSUME NEW R, NEW fs \in Seq(R), NEW e
    PROVE  LET where == Where(Append(fs, e))
           IN  Column(e) \in DOMAIN where /\ where[Column(e)] = e
<1> DEFINE gs == Append(fs, e)
           n == Len(fs) + 1
<1>1. DOMAIN gs = 1..n /\ gs[n] = e /\ n \in Nat
  OBVIOUS
<1> HIDE DEF gs, n
<1>2. n \in On(gs, Column(e)) /\ On(gs, Column(e)) \subseteq 1..n /\ n \in 1..n
  BY <1>1 DEF On, n
<1>3. (CHOOSE i \in On(gs, Column(e)) : \A j \in On(gs, Column(e)) : j <= i) = n
  BY <1>1, <1>2
<1>4. Column(e) \in Columns(gs)
  BY <1>1, <1>2 DEF Columns
<1> QED
  BY <1>1, <1>3, <1>4 DEF Where, gs

\* Without two filters on a column, every filter counts.
LEMMA EveryFilterCounts ==
    ASSUME NEW fs, DOMAIN fs \subseteq Int, OneFilterPerColumn(fs)
    PROVE  /\ DOMAIN Where(fs) = Columns(fs)
           /\ \A i \in DOMAIN fs : Where(fs)[Column(fs[i])] = fs[i]
<1>1. ASSUME NEW i \in DOMAIN fs PROVE Where(fs)[Column(fs[i])] = fs[i]
  <2>1. On(fs, Column(fs[i])) = {i}
    BY DEF On, OneFilterPerColumn
  <2>2. (CHOOSE k \in On(fs, Column(fs[i])) : \A j \in On(fs, Column(fs[i])) : j <= k) = i
    BY <2>1
  <2>3. Column(fs[i]) \in Columns(fs)
    BY DEF Columns
  <2> QED
    BY <2>2, <2>3 DEF Where
<1> QED
  BY <1>1 DEF Where

-----------------------------------------------------------------------------
(* The invariant.                                                          *)

\* What clients have sent: of the criteria only the filters are kept as they
\* were.
ById(b) == <<Equal("_id", b)>>
Filters == {<<>>} \cup {ById(b) : b \in Band} \cup {raw.filters : raw \in UNION {Requested[kind] : kind \in Kinds}}

ListCriteria == [filters : Filters, limit : 1..MaxLimit, offset : Nat]
CriteriaRecord == ListCriteria \cup {NoCriteria}

QueryRecord ==
    [do : {"check band", "check song", "page", "count", "answered"},
     kind : Kinds \cup {"band songs", "part"}, musician : Musician, admin : BOOLEAN,
     of : Band \cup Song \cup {NoPart}, criteria : CriteriaRecord, part : Part \cup {NoPart},
     items : SUBSET (Band \cup Song \cup Part \cup Instrument), behind : SUBSET Band,
     total : Nat, seen : SUBSET Band, quiet : BOOLEAN, again : BOOLEAN]

\* A query is about what its kind says, and checks what its kind checks.
IsFitting(k) ==
    /\ k.kind = "band songs" => k.of \in Band
    /\ k.kind \in {"parts", "part"} => k.of \in Song
    /\ k.kind = "part" => k.part \in Part
    /\ k.kind \in Kinds => k.criteria \in ListCriteria
    /\ k.do = "check band" => k.kind = "band songs"
    /\ k.do = "check song" => k.kind \in {"parts", "part"}

HasRead(k) == k.do \in {"count", "answered"}

\* A query has seen the bands of its musician, and that of the song or the
\* band that it has checked: the song is there with that band or has gone.
IsInScope(k) ==
    /\ BandsOf(k.musician) \subseteq k.seen
    /\ k.kind = "band songs" /\ k.do # "check band" => k.of \in k.seen
    /\ k.kind \in {"parts", "part"} /\ k.do # "check song" =>
          /\ k.of \in Existing \cup gone
          /\ k.of \in Existing \ gone => songs[k.of].band \in k.seen
    /\ HasRead(k) /\ ~k.admin /\ ~k.again => k.behind \subseteq k.seen

\* The page and the number that were read of rows that nobody has written.
IsCurrent(k) ==
    HasRead(k) /\ k.quiet /\ k.kind \in Kinds =>
        /\ Matching(k) # Fails
        /\ k.items \subseteq Matching(k)
        /\ Cardinality(k.items) = PageSize(Cardinality(Matching(k)), k.criteria)
        /\ k.do = "answered" => k.total = Cardinality(Matching(k))

IsSound(k) ==
    \/ k = Idle
    \/ k \in QueryRecord /\ IsFitting(k) /\ IsInScope(k) /\ IsCurrent(k)

QueriesAreSound == query = [q \in Reader |-> query[q]] /\ \A q \in Reader : IsSound(query[q])

SongCommand == [do : {"create song", "save song"}, song : Song, band : Band, title : Texts, url : Url]
FetchCommand == [do : {"fetch"}, song : Song, url : Url]
DurationCommand == [do : {"save duration"}, song : Song, duration : Nat \ {Null}]
UpdateCommand == [do : {"update instrument"}, instrument : Instrument, new : Partial]
InstrumentCommand == [do : {"save instrument"}, instrument : Instrument, row : InstrumentRows]

CommandRecord ==
    {Idle} \cup SongCommand \cup FetchCommand \cup DurationCommand \cup UpdateCommand \cup InstrumentCommand

\* An address is that of the song, unless the song has gone.
IsOf(url, s) == s \in Existing \cup gone /\ (s \in Existing \ gone => songs[s].url = url)

IsToldBy(duration, url) == url \in YouTube /\ \E page \in Pages[url] : duration = DurationOf(page)

IsFounded(k) ==
    /\ k.do = "fetch" => IsOf(k.url, k.song)
    /\ k.do = "save duration" =>
          /\ k.song \in Existing \cup gone
          /\ k.song \in Existing \ gone => IsToldBy(k.duration, songs[k.song].url)

CommandsAreSound ==
    /\ command \in [Writer -> CommandRecord]
    /\ \A c \in Writer : IsFounded(command[c])

EventsAreSound == \A e \in events : IsOf(e.url, e.song)

CatInv == CatalogueInv /\ QueriesAreSound /\ CommandsAreSound /\ EventsAreSound

-----------------------------------------------------------------------------
(* What the lists match.                                                   *)

LEMMA FiltersAreSequences == \A fs \in Filters : fs \in Seq(Range(fs))
<1>1. ASSUME NEW b \in Band PROVE ById(b) \in Seq(Range(ById(b)))
  <2>1. ById(b) \in Seq({Equal("_id", b)}) /\ DOMAIN ById(b) = {1} /\ ById(b)[1] = Equal("_id", b)
    BY DEF ById
  <2> QED
    BY <2>1 DEF Range
<1>2. <<>> \in Seq(Range(<<>>))
  OBVIOUS
<1>3. \A raw \in UNION {Requested[kind] : kind \in Kinds} : raw.filters \in Seq(Range(raw.filters))
  BY RequestedAssumption
<1> QED
  BY <1>1, <1>2, <1>3 DEF Filters

\* Criteria that are not refused have a limit and an offset in range.
LEMMA CriteriaAreInRange ==
    ASSUME NEW kind \in Kinds, NEW raw \in Requested[kind], IsCriteria(raw)
    PROVE  ToCriteria(raw) \in ListCriteria
<1>1. raw.limit \in Seq(Int) /\ raw.offset \in Seq(Int)
  BY RequestedAssumption
<1>2. ASSUME NEW l \in Seq(Int), l # <<>> PROVE l[1] \in Int
  <2>1. Len(l) \in Nat /\ Len(l) # 0
    BY <1>2, EmptySeq
  <2> QED
    BY <2>1
<1>3. Limit(raw.limit) \in 1..MaxLimit
  BY <1>1, <1>2, LimitAssumption DEF IsCriteria, IsLimit, Limit
<1>4. Offset(raw.offset) \in Nat
  BY <1>1, <1>2 DEF IsCriteria, IsOffset, Offset
<1>5. raw.filters \in Filters
  BY DEF Filters
<1> QED
  BY <1>3, <1>4, <1>5 DEF ToCriteria, ListCriteria

LEMMA ByIdIsInRange ==
    ASSUME NEW b \in Band
    PROVE  ToCriteria([filters |-> ById(b), limit |-> <<>>, offset |-> <<>>]) \in ListCriteria
  BY LimitAssumption DEF ToCriteria, ListCriteria, Limit, Offset, Filters

\* Whatever filters come, the scope of the song is the filter on songId.
LEMMA SongScopeCounts ==
    ASSUME NEW R, NEW fs \in Seq(R), NEW s
    PROVE  LET where == Where(ScopedToSong(fs, s))
           IN  "songId" \in DOMAIN where /\ where["songId"] = Equal("songId", s)
<1>1. Without(fs, "songId") \in Seq(R)
  BY WithoutShape DEF Keeps
<1>2. Column(Equal("songId", s)) = "songId"
  BY DEF Column, Equal
<1> QED
  BY <1>1, <1>2, LastFilterWins DEF ScopedToSong

LEMMA UserScopeCounts ==
    ASSUME NEW R, NEW fs \in Seq(R), NEW m
    PROVE  LET where == Where(ScopedToUser(fs, m, FALSE))
           IN  "userId" \in DOMAIN where /\ where["userId"] = Equal("userId", m)
<1>1. Without(fs, "userId") \in Seq(R)
  BY WithoutShape DEF Keeps
<1>2. Column(Equal("userId", m)) = "userId"
  BY DEF Column, Equal
<1> QED
  BY <1>1, <1>2, LastFilterWins DEF ScopedToUser

\* Of the bands those are matched that the caller is in.
LEMMA OwnBandsMatch ==
    ASSUME NEW R, NEW fs \in Seq(R), NEW m,
           MatchingBands(Where(ScopedToUser(fs, m, FALSE))) # Fails
    PROVE  MatchingBands(Where(ScopedToUser(fs, m, FALSE))) \subseteq BandsOf(m)
<1> DEFINE where == Where(ScopedToUser(fs, m, FALSE))
<1>1. "userId" \in DOMAIN where /\ where["userId"] = Equal("userId", m)
  BY UserScopeCounts
<1>2. MatchingBands(where) # Fails
  OBVIOUS
<1> HIDE DEF where
<1>3. \A cell : Holds(Equal("userId", m), cell) => cell = m
  BY DEF Holds, Equal
<1>4. ASSUME NEW b \in MatchingBands(where) PROVE b \in Band /\ \E x \in bands[b] : Holds(where["userId"], x)
  BY <1>1, <1>2 DEF MatchingBands
<1>5. MatchingBands(where) \subseteq BandsOf(m)
  BY <1>1, <1>3, <1>4 DEF BandsOf, IsMember
<1> QED
  BY <1>5 DEF where

LEMMA MatchingBandsAreBands ==
    ASSUME NEW where, MatchingBands(where) # Fails
    PROVE  MatchingBands(where) \subseteq Band
  BY DEF MatchingBands

LEMMA OwnSongsMatch ==
    ASSUME NEW where, NEW m, MatchingSongs(where, m) # Fails
    PROVE  /\ MatchingSongs(where, m) \subseteq Existing
           /\ \A s \in MatchingSongs(where, m) : m \in bands[songs[s].band]
  BY DEF MatchingSongs, PlaysIn, IsMember

\* Of what is played that is matched which is played in the song.
LEMMA PartsOfTheSongMatch ==
    ASSUME NEW R, NEW fs \in Seq(R), NEW s,
           MatchingParts(Where(ScopedToSong(fs, s))) # Fails
    PROVE  /\ MatchingParts(Where(ScopedToSong(fs, s))) \subseteq Part
           /\ \A p \in MatchingParts(Where(ScopedToSong(fs, s))) : parts[p] # NoPart /\ parts[p] = s
<1> DEFINE where == Where(ScopedToSong(fs, s))
<1>1. "songId" \in DOMAIN where /\ where["songId"] = Equal("songId", s)
  BY SongScopeCounts
<1>2. MatchingParts(where) # Fails
  OBVIOUS
<1> HIDE DEF where
<1>3. \A cell : Holds(Equal("songId", s), cell) => cell = s
  BY DEF Holds, Equal
<1>4. ASSUME NEW p \in MatchingParts(where)
      PROVE  p \in Part /\ parts[p] # NoPart /\ Holds(where["songId"], parts[p])
  BY <1>1, <1>2 DEF MatchingParts, MeetsAll
<1>5. MatchingParts(where) \subseteq Part /\ \A p \in MatchingParts(where) : parts[p] # NoPart /\ parts[p] = s
  BY <1>1, <1>3, <1>4
<1> QED
  BY <1>5 DEF where

LEMMA MatchingIsFinite ==
    ASSUME NEW k, k.kind \in Kinds
    PROVE  /\ IsFiniteSet(Matching(k))
           /\ Matching(k) # Fails => Matching(k) \subseteq Band \cup Song \cup Part \cup Instrument
<1>1. IsFiniteSet(Fails)
  BY FS_Singleton DEF Fails
<1>2. CASE k.kind = "bands"
  <2> DEFINE found == MatchingBands(Where(ScopedToUser(k.criteria.filters, k.musician, k.admin)))
  <2>1. Matching(k) = found
    BY <1>2 DEF Matching
  <2>2. found = Fails \/ found \subseteq Band
    BY MatchingBandsAreBands
  <2> HIDE DEF found
  <2> QED
    BY <1>1, <2>1, <2>2, RowsAreFinite, FS_Subset
<1>3. CASE k.kind = "songs"
  <2> DEFINE found == MatchingSongs(Where(k.criteria.filters), k.musician)
  <2>1. Matching(k) = found
    BY <1>3 DEF Matching
  <2>2. found = Fails \/ found \subseteq Song
    BY DEF MatchingSongs, Existing
  <2> HIDE DEF found
  <2> QED
    BY <1>1, <2>1, <2>2, RowsAreFinite, FS_Subset
<1>4. CASE k.kind = "parts"
  <2> DEFINE found == MatchingParts(Where(ScopedToSong(k.criteria.filters, k.of)))
  <2>1. Matching(k) = found
    BY <1>4 DEF Matching
  <2>2. found = Fails \/ found \subseteq Part
    BY DEF MatchingParts
  <2> HIDE DEF found
  <2> QED
    BY <1>1, <2>1, <2>2, RowsAreFinite, FS_Subset
<1>5. CASE k.kind = "instruments"
  <2> DEFINE found == MatchingInstruments(Where(k.criteria.filters))
  <2>1. Matching(k) = found
    BY <1>5 DEF Matching
  <2>2. found = Fails \/ found \subseteq Instrument
    BY DEF MatchingInstruments
  <2> HIDE DEF found
  <2> QED
    BY <1>1, <2>1, <2>2, RowsAreFinite, FS_Subset
<1> QED
  BY <1>2, <1>3, <1>4, <1>5 DEF Kinds

\* What is matched depends on what was asked, not on how far it has come.
LEMMA MatchingOfTheSame ==
    ASSUME NEW k, NEW j, j.kind = k.kind, j.criteria = k.criteria, j.musician = k.musician,
           j.admin = k.admin, j.of = k.of
    PROVE  Matching(j) = Matching(k)
  BY DEF Matching

\* A page of a list is of bands that the caller has seen.
LEMMA PagesAreInScope ==
    ASSUME CatalogueInv, NEW k \in QueryRecord, IsInScope(k), k.do = "page",
           k.kind \in Kinds, Matching(k) # Fails, NEW items \in SUBSET Matching(k)
    PROVE  /\ Behind(k.kind, items) \subseteq Band
           /\ ~k.admin /\ ~IsOfReused(k) => Behind(k.kind, items) \subseteq k.seen
<1> DEFINE fs == k.criteria.filters
<1>1. fs \in Seq(Range(fs))
  <2>1. k.criteria \in CriteriaRecord
    BY DEF QueryRecord
  <2>2. fs \in Filters
    BY <2>1 DEF CriteriaRecord, ListCriteria, NoCriteria, Filters
  <2> QED
    BY <2>2, FiltersAreSequences
<1>2. BandsOf(k.musician) \subseteq k.seen /\ k.admin \in BOOLEAN
  BY DEF IsInScope, QueryRecord
<1>3. /\ \A s \in Existing : songs[s].band \in Band
      /\ \A p \in Part : parts[p] # NoPart => parts[p] \in Existing
  BY DEF CatalogueInv, TypeOK, NothingOutlivesItsBand, Existing, SongRows
<1> HIDE DEF fs
<1>4. CASE k.kind = "bands"
  <2>1. Matching(k) = MatchingBands(Where(ScopedToUser(fs, k.musician, k.admin)))
    BY <1>4 DEF Matching, fs
  <2>2. Behind(k.kind, items) = items
    BY <1>4 DEF Behind
  <2>3. items \subseteq Band
    BY <2>1, MatchingBandsAreBands
  <2>4. ASSUME ~k.admin PROVE items \subseteq k.seen
    <3>1. k.admin = FALSE
      BY <1>2, <2>4
    <3> QED
      BY <1>1, <1>2, <2>1, <3>1, OwnBandsMatch
  <2> QED
    BY <2>2, <2>3, <2>4
<1>5. CASE k.kind = "songs"
  <2>1. Matching(k) = MatchingSongs(Where(fs), k.musician)
    BY <1>5 DEF Matching, fs
  <2>2. Behind(k.kind, items) = {songs[s].band : s \in items}
    BY <1>5 DEF Behind
  <2>3. \A s \in items : s \in Existing /\ k.musician \in bands[songs[s].band]
    BY <2>1, OwnSongsMatch
  <2> QED
    BY <1>2, <1>3, <2>2, <2>3 DEF BandsOf, IsMember
<1>6. CASE k.kind = "parts"
  <2>1. Matching(k) = MatchingParts(Where(ScopedToSong(fs, k.of)))
    BY <1>6 DEF Matching, fs
  <2>2. Behind(k.kind, items) = {songs[parts[p]].band : p \in items}
    BY <1>6 DEF Behind
  <2>3. \A p \in items : p \in Part /\ parts[p] # NoPart /\ parts[p] = k.of
    BY <1>1, <2>1, PartsOfTheSongMatch
  <2>4. k.of \in Existing /\ ~IsOfReused(k) => songs[k.of].band \in k.seen
    BY <1>6 DEF IsInScope, IsOfReused
  <2> QED
    BY <1>3, <2>2, <2>3, <2>4
<1>7. CASE k.kind = "instruments"
  BY <1>7 DEF Behind
<1> QED
  BY <1>4, <1>5, <1>6, <1>7 DEF Kinds

-----------------------------------------------------------------------------
(* Steps of the queries.                                                   *)

LEMMA SoundUnlessWritten ==
    ASSUME NEW k, IsSound(k), UNCHANGED rows, UNCHANGED gone
    PROVE  IsSound(k)'
<1>1. Matching(k)' = Matching(k)
  BY DEF Matching, MatchingBands, MatchingSongs, MatchingParts, MatchingInstruments,
         PlaysIn, IsMember, Existing, SongCells, InstrumentCells, rows
<1>2. IsCurrent(k) => IsCurrent(k)'
  BY <1>1 DEF IsCurrent
<1>3. IsInScope(k) => IsInScope(k)'
  BY DEF IsInScope, BandsOf, IsMember, Existing, rows
<1> QED
  BY <1>2, <1>3 DEF IsSound

\* When rows stay, only the query that takes the step is to be looked at.
LEMMA QueryKeeps ==
    ASSUME CatInv, Reads, requests' \in 0..MaxRequests, changes' = changes,
           NEW q \in Reader, NEW k, IsSound(k), SetQuery(q, k)
    PROVE  CatInv'
<1>1. CatalogueInv'
  BY DEF CatInv, Reads, rows, CatalogueInv, TypeOK, NothingOutlivesItsBand, DurationIsItsOwn, Existing
<1>2. QueriesAreSound'
  <2>1. query' = [r \in Reader |-> IF r = q THEN k ELSE query[r]]
    BY DEF CatInv, QueriesAreSound, SetQuery
  <2>2. \A r \in Reader : IsSound(query[r])
    BY DEF CatInv, QueriesAreSound
  <2>3. UNCHANGED rows /\ UNCHANGED gone
    BY DEF Reads
  <2>4. ASSUME NEW r \in Reader PROVE IsSound(query[r])'
    <3>1. query'[r] = k \/ query'[r] = query[r]
      BY <2>1
    <3> QED
      BY <2>2, <2>3, <3>1, SoundUnlessWritten
  <2>5. query' = [r \in Reader |-> query'[r]]
    BY <2>1
  <2> QED
    BY <2>4, <2>5 DEF QueriesAreSound
<1>3. CommandsAreSound' /\ EventsAreSound'
  BY DEF CatInv, Reads, rows, CommandsAreSound, EventsAreSound, IsFounded, IsOf, Existing
<1> QED
  BY <1>1, <1>2, <1>3 DEF CatInv

LEMMA ReceiveKeeps ==
    ASSUME CatInv, NEW q \in Reader, NEW k, IsSound(k), Receive(q, k)
    PROVE  CatInv'
<1>1. requests' \in 0..MaxRequests
  BY BoundsAssumption DEF CatInv, CatalogueInv, TypeOK, Receive
<1> QED
  BY <1>1, QueryKeeps DEF Receive

LEMMA ContinueKeeps ==
    ASSUME CatInv, NEW q \in Reader, NEW k, IsSound(k), Continue(q, k)
    PROVE  CatInv'
<1>1. requests' \in 0..MaxRequests /\ changes' = changes
  BY DEF CatInv, CatalogueInv, TypeOK, Continue, counters
<1> QED
  BY <1>1, QueryKeeps DEF Continue

LEMMA IdleIsSound == IsSound(Idle)
  BY DEF IsSound

LEMMA NoCriteriaInRange == NoCriteria \in CriteriaRecord
  BY DEF CriteriaRecord

\* A query, as it is received: it has checked nothing yet, and read nothing.
IsFresh(k) ==
    /\ k \in QueryRecord
    /\ IsFitting(k)
    /\ k.do \in {"check band", "check song", "page"}
    /\ k.kind = "band songs" => k.do = "check band"
    /\ k.kind \in {"parts", "part"} => k.do = "check song"
    /\ k.seen = BandsOf(k.musician)

LEMMA FreshIsSound == ASSUME NEW k, IsFresh(k) PROVE IsSound(k)
  BY DEF IsFresh, IsSound, IsInScope, IsCurrent, HasRead

IsAsked(k, kind, step, m, of) ==
    /\ k \in QueryRecord
    /\ k.do = step /\ k.kind = kind /\ k.of = of
    /\ k.musician = m /\ k.seen = BandsOf(m)

LEMMA AskedIsRecorded ==
    ASSUME CatInv, NEW m \in Musician, NEW of \in Band \cup Song \cup {NoPart},
           NEW kind \in Kinds \cup {"band songs", "part"},
           NEW step \in {"check band", "check song", "page"}
    PROVE  IsAsked(Asked(kind, step, m, of), kind, step, m, of)
<1>1. Asked(kind, step, m, of) \in QueryRecord
  BY NoCriteriaInRange DEF Asked, QueryRecord
<1> QED
  BY <1>1 DEF IsAsked, Asked, BandsOf, IsMember

LEMMA GetMatchKeeps ==
    ASSUME CatInv, NEW q \in Reader, NEW m \in Musician, NEW of \in Band \cup Song \cup {NoPart},
           NEW kind \in Kinds, NEW step \in {"check song", "page"}, NEW admin \in BOOLEAN,
           NEW raw, IsCriteria(raw) => ToCriteria(raw) \in ListCriteria,
           kind = "parts" => of \in Song, step = "check song" <=> kind = "parts",
           \/ GetMatch(q, Asked(kind, step, m, of), raw)
           \/ GetMatch(q, [Asked(kind, step, m, of) EXCEPT !.admin = admin], raw)
    PROVE  CatInv'
<1> DEFINE asked == Asked(kind, step, m, of)
<1>1. IsAsked(asked, kind, step, m, of)
  BY AskedIsRecorded
<1> HIDE DEF asked
<1>2. ToCriteria(raw) \in ListCriteria
  BY DEF GetMatch
<1>3. ASSUME NEW k, k = asked \/ k = [asked EXCEPT !.admin = admin], GetMatch(q, k, raw) PROVE CatInv'
  <2>1. IsAsked(k, kind, step, m, of)
    BY <1>1, <1>3 DEF IsAsked, QueryRecord
  <2> DEFINE j == [k EXCEPT !.criteria = ToCriteria(raw)]
  <2>2. IsAsked(j, kind, step, m, of) /\ j.criteria = ToCriteria(raw)
    BY <1>2, <2>1 DEF IsAsked, QueryRecord, CriteriaRecord
  <2>3. Receive(q, j)
    BY <1>3 DEF GetMatch
  <2> HIDE DEF j
  <2>4. IsFresh(j)
    BY <1>2, <2>2 DEF IsAsked, IsFresh, IsFitting, Kinds
  <2> QED
    BY <2>3, <2>4, FreshIsSound, ReceiveKeeps
<1> QED
  BY <1>3 DEF asked

LEMMA ListsKeep ==
    ASSUME CatInv, NEW q \in Reader, Lists(q)
    PROVE  CatInv'
<1>1. \A kind \in Kinds : \A raw \in Requested[kind] : IsCriteria(raw) => ToCriteria(raw) \in ListCriteria
  BY CriteriaAreInRange
<1> USE DEF Kinds
<1>2. ASSUME NEW m \in Musician, NEW raw \in Requested["bands"], GetBands(q, m, raw) PROVE CatInv'
  BY <1>1, <1>2, GetMatchKeeps DEF GetBands
<1>3. ASSUME NEW m \in Musician, NEW raw \in Requested["songs"], GetSongs(q, m, raw) PROVE CatInv'
  BY <1>1, <1>3, GetMatchKeeps DEF GetSongs
<1>4. ASSUME NEW m \in Musician, NEW raw \in Requested["parts"], NEW s \in Song, GetParts(q, m, raw, s) PROVE CatInv'
  BY <1>1, <1>4, GetMatchKeeps DEF GetParts
<1>5. ASSUME NEW m \in Musician, NEW raw \in Requested["instruments"], GetInstruments(q, m, raw) PROVE CatInv'
  BY <1>1, <1>5, GetMatchKeeps DEF GetInstruments
<1> QED
  BY <1>2, <1>3, <1>4, <1>5 DEF Lists

LEMMA SinglesKeep ==
    ASSUME CatInv, NEW q \in Reader, Singles(q)
    PROVE  CatInv'
<1>1. ASSUME NEW m \in Musician, NEW b \in Band, GetBandSongs(q, m, b) PROVE CatInv'
  <2>1. IsAsked(Asked("band songs", "check band", m, b), "band songs", "check band", m, b)
    BY AskedIsRecorded
  <2>2. IsFresh(Asked("band songs", "check band", m, b))
    BY <2>1 DEF IsAsked, IsFresh, IsFitting, Kinds
  <2> QED
    BY <1>1, <2>2, FreshIsSound, ReceiveKeeps DEF GetBandSongs
<1>2. ASSUME NEW m \in Musician, NEW b \in Band, GetBand(q, m, b) PROVE CatInv'
  BY <1>2, ByIdIsInRange, GetMatchKeeps DEF GetBand, GetBands, ById, Kinds
<1>3. ASSUME NEW m \in Musician, NEW s \in Song, NEW p \in Part, GetPart(q, m, s, p) PROVE CatInv'
  <2> DEFINE asked == Asked("part", "check song", m, s)
             k == [asked EXCEPT !.part = p]
  <2>1. IsAsked(asked, "part", "check song", m, s)
    BY AskedIsRecorded
  <2> HIDE DEF asked
  <2>2. IsAsked(k, "part", "check song", m, s) /\ k.part = p
    BY <2>1 DEF IsAsked, QueryRecord
  <2>3. Receive(q, k)
    BY <1>3 DEF GetPart, asked
  <2> HIDE DEF k
  <2>4. IsFresh(k)
    BY <2>2 DEF IsAsked, IsFresh, IsFitting, Kinds
  <2> QED
    BY <2>3, <2>4, FreshIsSound, ReceiveKeeps
<1> QED
  BY <1>1, <1>2, <1>3 DEF Singles

\* A page of what a list matches, in the scope of the query.
LEMMA PageReadIsSound ==
    ASSUME NEW k \in QueryRecord, IsFitting(k), IsInScope(k), k.do = "page",
           NEW items \in SUBSET (Band \cup Song \cup Part \cup Instrument),
           Behind(k.kind, items) \subseteq Band,
           ~k.admin /\ ~IsOfReused(k) => Behind(k.kind, items) \subseteq k.seen,
           k.kind \in Kinds =>
              /\ Matching(k) # Fails /\ items \subseteq Matching(k)
              /\ Cardinality(items) = PageSize(Cardinality(Matching(k)), k.criteria)
    PROVE  IsSound([k EXCEPT !.do = "count", !.again = IsOfReused(k),
                             !.items = items, !.behind = Behind(k.kind, items)])
<1> DEFINE behind == Behind(k.kind, items)
           again == IsOfReused(k)
           j == [k EXCEPT !.do = "count", !.again = again, !.items = items, !.behind = behind]
<1>1. /\ behind \subseteq Band /\ (~k.admin /\ ~again => behind \subseteq k.seen)
      /\ again \in BOOLEAN
  BY DEF IsOfReused
<1> HIDE DEF behind, again
<1>2. j \in QueryRecord
  BY <1>1 DEF QueryRecord
<1>3. /\ j.do = "count" /\ j.items = items /\ j.behind = behind /\ j.again = again
      /\ j.kind = k.kind /\ j.criteria = k.criteria /\ j.musician = k.musician
      /\ j.admin = k.admin /\ j.of = k.of /\ j.part = k.part /\ j.seen = k.seen
  BY DEF QueryRecord
<1> HIDE DEF j
<1>4. IsFitting(j)
  BY <1>3 DEF IsFitting
<1>5. IsInScope(j)
  BY <1>1, <1>3 DEF IsInScope
<1>6. Matching(j) = Matching(k)
  BY <1>3, MatchingOfTheSame
<1>7. IsCurrent(j)
  BY <1>3, <1>6 DEF IsCurrent
<1> QED
  BY <1>2, <1>4, <1>5, <1>7 DEF IsSound, j, behind, again

\* An answer in the scope of a query for what is no list.
LEMMA AnswerIsSound ==
    ASSUME NEW k \in QueryRecord, IsFitting(k), IsInScope(k), k.do = "page", k.kind \notin Kinds,
           NEW items \in SUBSET (Band \cup Song \cup Part \cup Instrument), NEW total \in Nat,
           Behind(k.kind, items) \subseteq Band,
           ~IsOfReused(k) => Behind(k.kind, items) \subseteq k.seen
    PROVE  IsSound([k EXCEPT !.do = "answered", !.total = total, !.again = IsOfReused(k),
                             !.items = items, !.behind = Behind(k.kind, items)])
<1> DEFINE behind == Behind(k.kind, items)
           again == IsOfReused(k)
           j == [k EXCEPT !.do = "answered", !.total = total, !.again = again,
                          !.items = items, !.behind = behind]
<1>1. /\ behind \subseteq Band /\ (~again => behind \subseteq k.seen)
      /\ again \in BOOLEAN
  BY DEF IsOfReused
<1> HIDE DEF behind, again
<1>2. j \in QueryRecord
  BY <1>1 DEF QueryRecord
<1>3. /\ j.do = "answered" /\ j.behind = behind /\ j.again = again
      /\ j.kind = k.kind /\ j.musician = k.musician
      /\ j.criteria = k.criteria /\ j.of = k.of /\ j.part = k.part /\ j.seen = k.seen
  BY DEF QueryRecord
<1> HIDE DEF j
<1>4. IsFitting(j) /\ IsCurrent(j)
  BY <1>3 DEF IsFitting, IsCurrent
<1>5. IsInScope(j)
  BY <1>1, <1>3 DEF IsInScope
<1> QED
  BY <1>2, <1>4, <1>5 DEF IsSound, j, behind, again

\* What was checked is in the scope from now on.
LEMMA CheckedIsSound ==
    ASSUME CatInv, NEW k \in QueryRecord, IsFitting(k), IsInScope(k),
           \/ k.do = "check band" /\ IsMember(k.of, k.musician)
           \/ k.do = "check song" /\ PlaysIn(k.of, k.musician)
    PROVE  IsSound([k EXCEPT !.do = "page"])
<1> DEFINE j == [k EXCEPT !.do = "page"]
<1>1. j \in QueryRecord
  BY DEF QueryRecord
<1>2. /\ j.do = "page" /\ j.kind = k.kind /\ j.musician = k.musician
      /\ j.criteria = k.criteria /\ j.of = k.of /\ j.part = k.part /\ j.seen = k.seen
  BY DEF QueryRecord
<1> HIDE DEF j
<1>3. \A s \in Existing : songs[s].band \in Band
  BY DEF CatInv, CatalogueInv, TypeOK, Existing, SongRows
<1>4. IsFitting(j) /\ IsCurrent(j)
  BY <1>2 DEF IsFitting, IsCurrent, HasRead
<1>5. BandsOf(k.musician) \subseteq k.seen
  BY DEF IsInScope
<1>6. CASE k.do = "check band"
  <2>1. k.kind = "band songs" /\ k.of \in Band /\ IsMember(k.of, k.musician)
    BY <1>6 DEF IsFitting
  <2> QED
    BY <1>1, <1>2, <1>4, <1>5, <2>1 DEF IsSound, IsInScope, BandsOf, HasRead, j
<1>7. CASE k.do = "check song"
  <2>1. k.kind \in {"parts", "part"} /\ k.of \in Existing /\ songs[k.of].band \in BandsOf(k.musician)
    BY <1>3, <1>7 DEF IsFitting, PlaysIn, BandsOf
  <2> QED
    BY <1>1, <1>2, <1>4, <1>5, <2>1 DEF IsSound, IsInScope, HasRead, j
<1> QED
  BY <1>6, <1>7

\* The number of what a list matches is told with the page.
LEMMA CountedIsSound ==
    ASSUME NEW k \in QueryRecord, IsFitting(k), IsInScope(k), IsCurrent(k), k.do = "count",
           NEW total \in Nat, k.kind \in Kinds => total = Cardinality(Matching(k))
    PROVE  IsSound([k EXCEPT !.do = "answered", !.total = total])
<1> DEFINE j == [k EXCEPT !.do = "answered", !.total = total]
<1>1. j \in QueryRecord
  BY DEF QueryRecord
<1>2. /\ j.do = "answered" /\ j.items = k.items /\ j.behind = k.behind /\ j.again = k.again /\ j.total = total
      /\ j.kind = k.kind /\ j.criteria = k.criteria /\ j.musician = k.musician /\ j.quiet = k.quiet
      /\ j.admin = k.admin /\ j.of = k.of /\ j.part = k.part /\ j.seen = k.seen
  BY DEF QueryRecord
<1> HIDE DEF j
<1>3. Matching(j) = Matching(k)
  BY <1>2, MatchingOfTheSame
<1>4. IsCurrent(j)
  BY <1>2, <1>3 DEF IsCurrent, HasRead
<1>5. IsFitting(j) /\ IsInScope(j)
  BY <1>2 DEF IsFitting, IsInScope, HasRead
<1> QED
  BY <1>1, <1>4, <1>5 DEF IsSound, j

LEMMA QueryStepKeeps ==
    ASSUME CatInv, NEW q \in Reader, QueryStep(q)
    PROVE  CatInv'
<1>1. IsSound(query[q])
  BY DEF CatInv, QueriesAreSound
<1>2. CatalogueInv
  BY DEF CatInv
<1>3. /\ \A s \in Existing : s \in Song /\ songs[s].band \in Band
      /\ \A p \in Part : parts[p] # NoPart => parts[p] \in Existing
      /\ NoPart \notin Song
  BY BeginningAssumption DEF CatInv, CatalogueInv, TypeOK, NothingOutlivesItsBand, Existing, SongRows
<1>4. Idle.do = "nothing"
  BY DEF Idle
<1>5. ASSUME NEW k, k = query[q], k.do # "nothing"
      PROVE  k \in QueryRecord /\ IsFitting(k) /\ IsInScope(k) /\ IsCurrent(k)
  BY <1>1, <1>4, <1>5 DEF IsSound
<1>6. CASE Finish(q)
  BY <1>6, IdleIsSound, ContinueKeeps DEF Finish
<1>7. CASE CheckBand(q) \/ CheckSong(q)
  <2>1. PICK k : k = query[q]
    OBVIOUS
  <2>2. \/ Continue(q, Idle)
        \/ Continue(q, [k EXCEPT !.do = "page"]) /\ \/ k.do = "check band" /\ IsMember(k.of, k.musician)
                                                    \/ k.do = "check song" /\ PlaysIn(k.of, k.musician)
    BY <1>7, <2>1 DEF CheckBand, CheckSong, Asks
  <2>3. k.do # "nothing"
    BY <1>7, <2>1 DEF CheckBand, CheckSong, Asks
  <2> QED
    BY <1>5, <2>1, <2>2, <2>3, CheckedIsSound, IdleIsSound, ContinueKeeps
<1>8. CASE ReadPage(q)
  <2>1. PICK k : k = query[q]
    OBVIOUS
  <2>2. k.do = "page" /\ k.kind \in Kinds
    BY <1>8, <2>1 DEF ReadPage, Asks
  <2>3. k \in QueryRecord /\ IsFitting(k) /\ IsInScope(k)
    BY <1>5, <2>1, <2>2
  <2>4. CASE Continue(q, Idle)
    BY <2>4, IdleIsSound, ContinueKeeps
  <2>5. ASSUME Matching(k) # Fails,
               NEW items \in kSubset(PageSize(Cardinality(Matching(k)), k.criteria), Matching(k)),
               PageRead(q, items)
        PROVE  CatInv'
    <3>1. items \subseteq Matching(k) /\ Cardinality(items) = PageSize(Cardinality(Matching(k)), k.criteria)
      BY <2>5 DEF kSubset
    <3>2. items \subseteq Band \cup Song \cup Part \cup Instrument
      BY <2>2, <2>5, <3>1, MatchingIsFinite
    <3>3. /\ Behind(k.kind, items) \subseteq Band
          /\ ~k.admin /\ ~IsOfReused(k) => Behind(k.kind, items) \subseteq k.seen
      BY <1>2, <2>2, <2>3, <2>5, <3>1, PagesAreInScope
    <3>4. IsSound([k EXCEPT !.do = "count", !.again = IsOfReused(k),
                           !.items = items, !.behind = Behind(k.kind, items)])
      BY <2>2, <2>3, <2>5, <3>1, <3>2, <3>3, PageReadIsSound
    <3> QED
      BY <2>1, <2>5, <3>4, ContinueKeeps DEF PageRead
  <2> QED
    BY <1>8, <2>1, <2>4, <2>5 DEF ReadPage
<1>9. CASE ListBandSongs(q)
  <2>1. PICK k : k = query[q]
    OBVIOUS
  <2>2. k.do = "page" /\ k.kind = "band songs" /\ PageRead(q, SongsOf(k.of))
    BY <1>9, <2>1 DEF ListBandSongs, Asks
  <2>3. k \in QueryRecord /\ IsFitting(k) /\ IsInScope(k)
    BY <1>5, <2>1, <2>2
  <2> DEFINE items == SongsOf(k.of)
  <2>4. items \subseteq Song /\ \A s \in items : songs[s].band = k.of
    BY <1>3 DEF SongsOf
  <2>5. k.of \in Band /\ k.of \in k.seen
    BY <2>2, <2>3 DEF IsFitting, IsInScope
  <2> HIDE DEF items
  <2>6. Behind(k.kind, items) = {songs[s].band : s \in items}
    BY <2>2 DEF Behind
  <2>7. Behind(k.kind, items) \subseteq Band /\ Behind(k.kind, items) \subseteq k.seen
    BY <2>4, <2>5, <2>6
  <2>8. IsSound([k EXCEPT !.do = "count", !.again = IsOfReused(k),
                           !.items = items, !.behind = Behind(k.kind, items)])
    <3>1. k.kind \notin Kinds
      BY <2>2 DEF Kinds
    <3> QED
      BY <2>2, <2>3, <2>4, <2>7, <3>1, PageReadIsSound
  <2> QED
    BY <2>1, <2>2, <2>8, ContinueKeeps DEF PageRead, items
<1>10. CASE FindPart(q)
  <2>1. PICK k : k = query[q]
    OBVIOUS
  <2>2. k.do = "page" /\ k.kind = "part"
    BY <1>10, <2>1 DEF FindPart, Asks
  <2>3. k \in QueryRecord /\ IsFitting(k) /\ IsInScope(k)
    BY <1>5, <2>1, <2>2
  <2>4. CASE Continue(q, Idle)
    BY <2>4, IdleIsSound, ContinueKeeps
  <2>5. CASE parts[k.part] = k.of /\ Answer(q, {k.part}, 1)
    <3>1. k.part \in Part /\ k.of \in Song
      BY <2>2, <2>3 DEF IsFitting
    <3>2. parts[k.part] \in Existing /\ (~IsOfReused(k) => songs[parts[k.part]].band \in k.seen)
      BY <1>3, <2>2, <2>3, <2>5, <3>1 DEF IsInScope, IsOfReused
    <3> DEFINE items == {k.part}
    <3>3. Behind(k.kind, items) = {songs[parts[p]].band : p \in items}
      BY <2>2 DEF Behind
    <3>4. /\ Behind(k.kind, items) \subseteq Band
          /\ ~IsOfReused(k) => Behind(k.kind, items) \subseteq k.seen
      BY <1>3, <3>2, <3>3
    <3>5. k.kind \notin Kinds
      BY <2>2 DEF Kinds
    <3>6. items \subseteq Band \cup Song \cup Part \cup Instrument
      BY <3>1
    <3> HIDE DEF items
    <3>7. IsSound([k EXCEPT !.do = "answered", !.total = 1, !.again = IsOfReused(k),
                             !.items = items, !.behind = Behind(k.kind, items)])
      BY <2>2, <2>3, <3>4, <3>5, <3>6, AnswerIsSound
    <3> QED
      BY <2>1, <2>5, <3>7, ContinueKeeps DEF Answer, items
  <2> QED
    BY <1>10, <2>1, <2>4, <2>5 DEF FindPart
<1>11. CASE CountAll(q)
  <2>1. PICK k : k = query[q]
    OBVIOUS
  <2>2. k.do = "count" /\ k.kind \in Kinds /\ Counted(q, Cardinality(Matching(k)))
    BY <1>11, <2>1 DEF CountAll, Asks
  <2>3. k \in QueryRecord /\ IsFitting(k) /\ IsInScope(k) /\ IsCurrent(k)
    BY <1>5, <2>1, <2>2
  <2>4. Cardinality(Matching(k)) \in Nat
    BY <2>2, MatchingIsFinite, FS_CardinalityType
  <2>5. IsSound([k EXCEPT !.do = "answered", !.total = Cardinality(Matching(k))])
    BY <2>2, <2>3, <2>4, CountedIsSound
  <2> QED
    BY <2>1, <2>2, <2>5, ContinueKeeps DEF Counted
<1>12. CASE CountBandSongs(q)
  <2>1. PICK k : k = query[q]
    OBVIOUS
  <2>2. k.do = "count" /\ k.kind = "band songs" /\ Counted(q, Cardinality(SongsOf(k.of)))
    BY <1>12, <2>1 DEF CountBandSongs, Asks
  <2>3. k \in QueryRecord /\ IsFitting(k) /\ IsInScope(k) /\ IsCurrent(k) /\ k.kind \notin Kinds
    BY <1>5, <2>1, <2>2 DEF Kinds
  <2>4. Cardinality(SongsOf(k.of)) \in Nat
    <3>1. SongsOf(k.of) \subseteq Song
      BY <1>3 DEF SongsOf
    <3> QED
      BY <3>1, RowsAreFinite, FS_Subset, FS_CardinalityType
  <2>5. IsSound([k EXCEPT !.do = "answered", !.total = Cardinality(SongsOf(k.of))])
    BY <2>2, <2>3, <2>4, CountedIsSound
  <2> QED
    BY <2>1, <2>2, <2>5, ContinueKeeps DEF Counted
<1> QED
  BY <1>6, <1>7, <1>8, <1>9, <1>10, <1>11, <1>12 DEF QueryStep

-----------------------------------------------------------------------------
(* Steps that write.                                                       *)

\* A song stays what it is or goes for good, its id apart.
SongsKept ==
    \A s \in Existing \cup gone :
        /\ s \in Existing' \cup gone'
        /\ s \in Existing' \ gone' => /\ s \in Existing \ gone
                                      /\ songs'[s].band = songs[s].band
                                      /\ songs'[s].title = songs[s].title
                                      /\ songs'[s].url = songs[s].url

LEMMA SoundWhenNoticed ==
    ASSUME SongsKept, NEW k \in QueryRecord, IsFitting(k), IsInScope(k),
           NEW j, j = [k EXCEPT !.quiet = FALSE, !.seen = @ \cup {b \in Band : k.musician \in bands'[b]}]
    PROVE  IsSound(j)'
<1> DEFINE now == {b \in Band : k.musician \in bands'[b]}
<1>1. now \subseteq Band /\ now = BandsOf(k.musician)' /\ j = [k EXCEPT !.quiet = FALSE, !.seen = @ \cup now]
  BY DEF BandsOf, IsMember
<1> HIDE DEF now
<1>2. j \in QueryRecord
  BY <1>1 DEF QueryRecord
<1>3. /\ j.do = k.do /\ j.items = k.items /\ j.behind = k.behind /\ j.again = k.again /\ j.quiet = FALSE
      /\ j.kind = k.kind /\ j.criteria = k.criteria /\ j.musician = k.musician
      /\ j.admin = k.admin /\ j.of = k.of /\ j.part = k.part /\ j.seen = k.seen \cup now
  BY <1>1 DEF QueryRecord
<1>4. IsFitting(j) /\ IsCurrent(j)'
  BY <1>3 DEF IsFitting, IsCurrent
<1>5. IsInScope(j)'
  BY <1>1, <1>3 DEF IsInScope, HasRead, SongsKept
<1> QED
  BY <1>2, <1>4, <1>5 DEF IsSound

LEMMA QueriesNotice ==
    ASSUME CatInv, SongsKept, NoticedByQueries
    PROVE  QueriesAreSound'
<1>1. ASSUME NEW q \in Reader PROVE IsSound(query[q])'
  <2>1. PICK k : k = query[q]
    OBVIOUS
  <2>2. IsSound(k)
    BY <2>1 DEF CatInv, QueriesAreSound
  <2>3. CASE k = Idle
    <3>1. query'[q] = Idle
      BY <2>1, <2>3 DEF NoticedByQueries
    <3> QED
      BY <3>1 DEF IsSound
  <2>4. CASE k # Idle
    <3>1. k \in QueryRecord /\ IsFitting(k) /\ IsInScope(k)
      BY <2>2, <2>4 DEF IsSound
    <3>2. query'[q] = [k EXCEPT !.quiet = FALSE, !.seen = @ \cup {b \in Band : k.musician \in bands'[b]}]
      BY <2>1, <2>4 DEF NoticedByQueries
    <3>3. PICK j : j = query'[q]
      OBVIOUS
    <3>4. IsSound(j)'
      BY <3>1, <3>2, <3>3, SoundWhenNoticed
    <3> QED
      BY <3>3, <3>4
  <2> QED
    BY <2>3, <2>4
<1>2. query' = [q \in Reader |-> query'[q]]
  BY DEF NoticedByQueries
<1> QED
  BY <1>1, <1>2 DEF QueriesAreSound

LEMMA FoundedUnlessReplaced ==
    ASSUME SongsKept, NEW k, IsFounded(k)
    PROVE  IsFounded(k)'
  BY DEF SongsKept, IsFounded, IsOf

\* A step that writes rows keeps the invariant when it keeps the songs.
LEMMA WriteKeeps ==
    ASSUME CatInv, CatalogueInv', SongsKept, NoticedByQueries, EventsAreSound',
           \/ UNCHANGED command
           \/ \E c \in Writer : SetCommand(c, Idle)
    PROVE  CatInv'
<1>1. Idle \in CommandRecord /\ IsFounded(Idle)'
  BY DEF CommandRecord, IsFounded, Idle
<1>2. command \in [Writer -> CommandRecord] /\ \A c \in Writer : IsFounded(command[c])
  BY DEF CatInv, CommandsAreSound
<1>3. command' \in [Writer -> CommandRecord] /\ \A c \in Writer : command'[c] \in {command[c], Idle}
  BY <1>1, <1>2 DEF SetCommand
<1>4. ASSUME NEW c \in Writer PROVE IsFounded(command[c])'
  <2>1. CASE command'[c] = command[c]
    BY <1>2, <2>1, FoundedUnlessReplaced
  <2>2. CASE command'[c] = Idle
    BY <1>1, <2>2
  <2> QED
    BY <1>3, <2>1, <2>2
<1>5. CommandsAreSound'
  BY <1>3, <1>4 DEF CommandsAreSound
<1> QED
  BY <1>5, QueriesNotice DEF CatInv

\* Nor does a step of a command that writes no row disturb it.
LEMMA CommandKeeps ==
    ASSUME CatInv, UNCHANGED <<rows, gone, query, changes>>, requests' \in 0..MaxRequests,
           events' \subseteq events,
           NEW c \in Writer, NEW k \in CommandRecord, IsFounded(k), SetCommand(c, k)
    PROVE  CatInv'
<1>1. CatalogueInv'
  BY DEF CatInv, rows, CatalogueInv, TypeOK, NothingOutlivesItsBand, DurationIsItsOwn, Existing
<1>2. QueriesAreSound'
  <2>1. query' = query /\ UNCHANGED rows /\ UNCHANGED gone
    OBVIOUS
  <2>2. ASSUME NEW q \in Reader PROVE IsSound(query[q])'
    <3>1. PICK j : j = query[q]
      OBVIOUS
    <3>2. IsSound(j)
      BY <3>1 DEF CatInv, QueriesAreSound
    <3>3. IsSound(j)'
      BY <2>1, <3>2, SoundUnlessWritten
    <3> QED
      BY <2>1, <3>1, <3>3
  <2> QED
    BY <2>1, <2>2 DEF CatInv, QueriesAreSound
<1>3. EventsAreSound'
  BY DEF CatInv, EventsAreSound, IsOf, Existing, rows
<1>4. \A j : IsFounded(j) => IsFounded(j)'
  BY DEF IsFounded, IsOf, Existing, rows
<1>5. CommandsAreSound'
  <2>1. command \in [Writer -> CommandRecord] /\ \A d \in Writer : IsFounded(command[d])
    BY DEF CatInv, CommandsAreSound
  <2>2. command' \in [Writer -> CommandRecord]
    BY <2>1 DEF SetCommand
  <2>3. ASSUME NEW d \in Writer PROVE IsFounded(command[d])'
    <3>1. command'[d] = k \/ command'[d] = command[d]
      BY <2>1 DEF SetCommand
    <3> QED
      BY <1>4, <2>1, <3>1
  <2> QED
    BY <2>2, <2>3 DEF CommandsAreSound
<1> QED
  BY <1>1, <1>2, <1>3, <1>5 DEF CatInv

LEMMA BeginKeeps ==
    ASSUME CatInv, NEW c \in Writer, NEW k \in CommandRecord, IsFounded(k), Begin(c, k),
           events' \subseteq events
    PROVE  CatInv'
<1>1. requests' \in 0..MaxRequests
  BY BoundsAssumption DEF CatInv, CatalogueInv, TypeOK, Begin
<1> QED
  BY <1>1, CommandKeeps DEF Begin

LEMMA ThenKeeps ==
    ASSUME CatInv, NEW c \in Writer, NEW k \in CommandRecord, IsFounded(k), Then(c, k)
    PROVE  CatInv'
<1>1. requests' \in 0..MaxRequests
  BY DEF CatInv, CatalogueInv, TypeOK, Then, counters
<1> QED
  BY <1>1, CommandKeeps DEF Then, counters

\* Nothing that waits is without foundation.
LEMMA IdleIsFounded == Idle \in CommandRecord /\ IsFounded(Idle)
  BY DEF CommandRecord, IsFounded, Idle

LEMMA CommandsKeep ==
    ASSUME CatInv, NEW c \in Writer, Commands(c)
    PROVE  CatInv'
<1>1. ASSUME NEW m \in Musician, NEW b \in Band, NEW s \in Song, NEW t \in Texts, NEW u \in Url,
             PostSong(c, m, b, s, t, u)
      PROVE  CatInv'
  <2> DEFINE k == [do |-> "create song", song |-> s, band |-> b, title |-> t, url |-> u]
  <2>1. k \in CommandRecord /\ IsFounded(k)
    BY DEF CommandRecord, SongCommand, IsFounded
  <2> QED
    BY <1>1, <2>1, BeginKeeps DEF PostSong
<1>2. ASSUME NEW e \in events, Deliver(c, e) PROVE CatInv'
  <2> DEFINE k == [do |-> "fetch", song |-> e.song, url |-> e.url]
  <2>1. e.song \in Song /\ e.url \in Url /\ IsOf(e.url, e.song)
    BY DEF CatInv, CatalogueInv, TypeOK, EventsAreSound
  <2>2. k \in CommandRecord /\ IsFounded(k)
    BY <2>1 DEF CommandRecord, FetchCommand, IsFounded
  <2> QED
    BY <1>2, <2>2, BeginKeeps DEF Deliver
<1>3. ASSUME NEW i \in Instrument, NEW new \in Partial, PutInstrument(c, i, new) PROVE CatInv'
  <2> DEFINE k == [do |-> "update instrument", instrument |-> i, new |-> new]
  <2>1. k \in CommandRecord /\ IsFounded(k)
    BY DEF CommandRecord, UpdateCommand, IsFounded
  <2> QED
    BY <1>3, <2>1, BeginKeeps DEF PutInstrument
<1> QED
  BY <1>1, <1>2, <1>3 DEF Commands

\* What a command is about depends on what it does.
LEMMA CommandOfItsKind ==
    ASSUME NEW k \in CommandRecord
    PROVE  /\ k.do \in {"create song", "save song"} => k \in SongCommand
           /\ k.do = "fetch" => k \in FetchCommand
           /\ k.do = "save duration" => k \in DurationCommand
           /\ k.do = "update instrument" => k \in UpdateCommand
           /\ k.do = "save instrument" => k \in InstrumentCommand
<1>1. k = Idle => k.do = "nothing"
  BY DEF Idle
<1>2. k \in SongCommand => k.do \in {"create song", "save song"}
  BY DEF SongCommand
<1>3. k \in FetchCommand => k.do = "fetch"
  BY DEF FetchCommand
<1>4. k \in DurationCommand => k.do = "save duration"
  BY DEF DurationCommand
<1>5. k \in UpdateCommand => k.do = "update instrument"
  BY DEF UpdateCommand
<1>6. k \in InstrumentCommand => k.do = "save instrument"
  BY DEF InstrumentCommand
<1>7. \/ k = Idle \/ k \in SongCommand \/ k \in FetchCommand \/ k \in DurationCommand
      \/ k \in UpdateCommand \/ k \in InstrumentCommand
  BY DEF CommandRecord
<1> QED
  BY <1>1, <1>2, <1>3, <1>4, <1>5, <1>6, <1>7

LEMMA CreateSongKeeps ==
    ASSUME CatInv, NEW c \in Writer, CreateSong(c)
    PROVE  CatInv'
<1>1. PICK k \in CommandRecord : k = command[c]
  BY DEF CatInv, CommandsAreSound
<1>2. k \in SongCommand
  BY <1>1, CommandOfItsKind DEF CreateSong, Does
<1> DEFINE saves == [k EXCEPT !.do = "save song"]
<1>3. saves \in CommandRecord /\ IsFounded(saves)
  <2>1. saves \in SongCommand
    BY <1>2 DEF SongCommand
  <2>2. saves.do = "save song"
    BY <1>2 DEF SongCommand
  <2> QED
    BY <2>1, <2>2 DEF CommandRecord, IsFounded
<1> QED
  BY <1>1, <1>3, ThenKeeps, IdleIsFounded DEF CreateSong

LEMMA SaveSongKeeps ==
    ASSUME CatInv, NEW c \in Writer, SaveSong(c)
    PROVE  CatInv'
<1>1. PICK k \in CommandRecord : k = command[c]
  BY DEF CatInv, CommandsAreSound
<1>2. k \in SongCommand
  BY <1>1, CommandOfItsKind DEF SaveSong, Does
<1>3. CASE Then(c, Idle)
  BY <1>3, ThenKeeps, IdleIsFounded
<1>4. CASE ~Then(c, Idle)
  <2>1. /\ k.song \notin Existing
        /\ bands[k.band] # {}
        /\ songs' = [songs EXCEPT ![k.song] = NewSong(k)]
        /\ events' = events \cup {[song |-> k.song, url |-> k.url]}
        /\ Written(c, Idle)
        /\ instruments' = instruments /\ gone' = gone
    BY <1>1, <1>4 DEF SaveSong, IsRefused
  <2>2. bands' = bands /\ parts' = parts /\ requests' = requests /\ changes' = changes /\ NoticedByQueries
    BY <2>1 DEF Written, counters
  <2>3. k.song \in Song /\ NewSong(k) \in SongRows /\ NewSong(k) # NoSong
          /\ NewSong(k).band = k.band /\ NewSong(k).url = k.url /\ NewSong(k).duration = Null
    <3>1. NewSong(k).band \in Band /\ NewSong(k) \in SongRows
      BY <1>2 DEF SongCommand, NewSong, SongRows, Null
    <3>2. NewSong(k) # NoSong
      <4>1. "url" \in DOMAIN NewSong(k) /\ "url" \notin DOMAIN NoSong
        BY DEF NewSong, NoSong
      <4> QED
        BY <4>1
    <3> QED
      BY <1>2, <3>1, <3>2 DEF SongCommand, NewSong
  <2>4. TypeOK /\ NothingOutlivesItsBand /\ DurationIsItsOwn
    BY DEF CatInv, CatalogueInv
  <2> DEFINE row == NewSong(k)
  <2> HIDE DEF row
  <2>5. songs' = [songs EXCEPT ![k.song] = row] /\ songs \in [Song -> SongRows \cup {NoSong}]
    BY <2>1, <2>4 DEF row, TypeOK
  <2>6. row \in SongRows /\ row # NoSong /\ row.band = k.band /\ row.url = k.url /\ row.duration = Null
    BY <2>3 DEF row
  <2>7. /\ songs'[k.song] = row
        /\ \A s \in Song : s # k.song => songs'[s] = songs[s]
        /\ songs' \in [Song -> SongRows \cup {NoSong}]
    BY <2>3, <2>5, <2>6
  <2>8. Existing' = Existing \cup {k.song}
    BY <2>3, <2>6, <2>7 DEF Existing
  <2>9. SongsKept
    BY <2>1, <2>3, <2>7, <2>8 DEF SongsKept, Existing
  <2>10. TypeOK'
    <3>1. [song |-> k.song, url |-> k.url] \in [song : Song, url : Url]
      BY <1>2 DEF SongCommand
    <3> QED
      BY <2>1, <2>2, <2>4, <2>7, <3>1 DEF TypeOK
  <2>11. NothingOutlivesItsBand'
    BY <2>1, <2>2, <2>4, <2>6, <2>7, <2>8 DEF NothingOutlivesItsBand, Existing
  <2>12. DurationIsItsOwn'
    BY <2>1, <2>4, <2>6, <2>7, <2>8 DEF DurationIsItsOwn, Existing
  <2>13. EventsAreSound'
    <3>1. ASSUME NEW e \in events PROVE IsOf(e.url, e.song)'
      <4>1. IsOf(e.url, e.song)
        BY DEF CatInv, EventsAreSound
      <4> QED
        BY <2>9, <4>1 DEF IsOf, SongsKept
    <3>2. IsOf(k.url, k.song)'
      BY <2>6, <2>7, <2>8 DEF IsOf
    <3> QED
      BY <2>1, <3>1, <3>2 DEF EventsAreSound
  <2> QED
    BY <2>1, <2>2, <2>9, <2>10, <2>11, <2>12, <2>13, WriteKeeps DEF CatalogueInv, Written
<1> QED
  BY <1>3, <1>4

LEMMA FetchKeeps ==
    ASSUME CatInv, NEW c \in Writer, Fetch(c)
    PROVE  CatInv'
<1>1. PICK k \in CommandRecord : k = command[c]
  BY DEF CatInv, CommandsAreSound
<1>2. k \in FetchCommand /\ k.do = "fetch"
  BY <1>1, CommandOfItsKind DEF Fetch, Does
<1>3. IsOf(k.url, k.song)
  BY <1>1, <1>2 DEF CatInv, CommandsAreSound, IsFounded
<1>4. ASSUME NEW page \in Get(k.url), k.url \in YouTube, DurationOf(page) # Null,
             Then(c, [do |-> "save duration", song |-> k.song, duration |-> DurationOf(page)])
      PROVE  CatInv'
  <2> DEFINE saves == [do |-> "save duration", song |-> k.song, duration |-> DurationOf(page)]
  <2>1. page \in Pages[k.url]
    <3>1. DurationOf(NoPage) = Null
      BY DEF DurationOf, NoPage
    <3> QED
      BY <1>4, <3>1 DEF Get
  <2>2. DurationOf(page) \in Nat \ {Null}
    <3>1. k.url \in Url
      BY <1>2 DEF FetchCommand
    <3>2. page.lengthSeconds \in Int /\ page.iso8601 \in Int
      BY <2>1, <3>1, UrlAssumption
    <3>3. DurationOf(page) \in Int /\ DurationOf(page) >= 0
      BY <3>2 DEF DurationOf, Null
    <3>4. DurationOf(page) # 0
      BY <1>4 DEF Null
    <3> QED
      BY <3>3, <3>4 DEF Null
  <2>3. IsToldBy(DurationOf(page), k.url)
    BY <1>4, <2>1 DEF IsToldBy
  <2>4. saves \in CommandRecord
    BY <1>2, <2>2 DEF CommandRecord, FetchCommand, DurationCommand
  <2>5. IsFounded(saves)
    BY <1>3, <2>3 DEF IsFounded, IsOf
  <2> QED
    BY <1>4, <2>4, <2>5, ThenKeeps
<1> QED
  BY <1>1, <1>4, ThenKeeps, IdleIsFounded DEF Fetch, NormalizeUrl

LEMMA UpdateDurationKeeps ==
    ASSUME CatInv, NEW c \in Writer, UpdateDuration(c)
    PROVE  CatInv'
<1>1. PICK k \in CommandRecord : k = command[c]
  BY DEF CatInv, CommandsAreSound
<1>2. k \in DurationCommand /\ k.do = "save duration"
  BY <1>1, CommandOfItsKind DEF UpdateDuration, Does
<1>3. CASE Then(c, Idle)
  BY <1>3, ThenKeeps, IdleIsFounded
<1>4. CASE ~Then(c, Idle)
  <2>1. /\ k.song \in Existing
        /\ songs' = [songs EXCEPT ![k.song].duration = k.duration]
        /\ Written(c, Idle)
        /\ instruments' = instruments /\ gone' = gone /\ events' = events
    BY <1>1, <1>4 DEF UpdateDuration
  <2>2. bands' = bands /\ parts' = parts /\ requests' = requests /\ changes' = changes /\ NoticedByQueries
    BY <2>1 DEF Written, counters
  <2>3. TypeOK /\ NothingOutlivesItsBand /\ DurationIsItsOwn
    BY DEF CatInv, CatalogueInv
  <2>4. k.song \notin gone => IsToldBy(k.duration, songs[k.song].url)
    BY <1>1, <1>2, <2>1 DEF CatInv, CommandsAreSound, IsFounded
  <2>5. songs \in [Song -> SongRows \cup {NoSong}] /\ songs[k.song] \in SongRows /\ k.song \in Song
    BY <2>1, <2>3 DEF TypeOK, Existing
  <2> DEFINE row == [songs[k.song] EXCEPT !.duration = k.duration]
  <2>6. row \in SongRows /\ row.band = songs[k.song].band /\ row.title = songs[k.song].title
          /\ row.url = songs[k.song].url /\ row.duration = k.duration
    BY <1>2, <2>5 DEF SongRows, DurationCommand
  <2>7. songs' = [songs EXCEPT ![k.song] = row]
    BY <2>1, <2>5
  <2> HIDE DEF row
  <2>8. row # NoSong
    <3>1. DOMAIN row = {"band", "title", "url", "duration"} /\ "url" \notin DOMAIN NoSong
      BY <2>6 DEF SongRows, NoSong
    <3> QED
      BY <3>1
  <2>9. /\ songs'[k.song] = row
        /\ \A s \in Song : s # k.song => songs'[s] = songs[s]
        /\ songs' \in [Song -> SongRows \cup {NoSong}]
    BY <2>5, <2>6, <2>7
  <2>10. Existing' = Existing
    BY <2>1, <2>8, <2>9 DEF Existing
  <2>11. SongsKept
    BY <2>1, <2>5, <2>6, <2>9, <2>10 DEF SongsKept, Existing
  <2>12. TypeOK'
    BY <2>1, <2>2, <2>3, <2>9 DEF TypeOK
  <2>13. NothingOutlivesItsBand'
    BY <2>1, <2>2, <2>3, <2>6, <2>9, <2>10 DEF NothingOutlivesItsBand, Existing
  <2>14. DurationIsItsOwn'
    BY <2>1, <2>3, <2>4, <2>6, <2>9, <2>10 DEF DurationIsItsOwn, Existing, IsToldBy
  <2>15. EventsAreSound'
    <3>1. ASSUME NEW e \in events PROVE IsOf(e.url, e.song)'
      <4>1. IsOf(e.url, e.song)
        BY DEF CatInv, EventsAreSound
      <4> QED
        BY <2>11, <4>1 DEF IsOf, SongsKept
    <3> QED
      BY <2>1, <3>1 DEF EventsAreSound
  <2> QED
    BY <2>1, <2>2, <2>11, <2>12, <2>13, <2>14, <2>15, WriteKeeps DEF CatalogueInv, Written
<1> QED
  BY <1>3, <1>4

\* What a request leaves out stays, and the row is complete.
LEMMA UpdatedIsARow ==
    ASSUME NEW row \in InstrumentRows, NEW new \in Partial
    PROVE  Updated(row, new) \in InstrumentRows
<1>1. DOMAIN row = {"name", "description"} /\ row.name \in Texts /\ row.description \in Texts
  BY DEF InstrumentRows
<1>2. \A f \in DOMAIN new : new[f] \in Texts
  BY DEF Partial
<1>3. DOMAIN Updated(row, new) = {"name", "description"}
        /\ Updated(row, new).name \in Texts /\ Updated(row, new).description \in Texts
  BY <1>1, <1>2 DEF Updated
<1>4. Updated(row, new) = [name |-> Updated(row, new).name, description |-> Updated(row, new).description]
  BY <1>1, <1>3 DEF Updated
<1> QED
  BY <1>3, <1>4 DEF InstrumentRows

LEMMA UpdateInstrumentKeeps ==
    ASSUME CatInv, NEW c \in Writer, UpdateInstrument(c)
    PROVE  CatInv'
<1>1. PICK k \in CommandRecord : k = command[c]
  BY DEF CatInv, CommandsAreSound
<1>2. k \in UpdateCommand
  BY <1>1, CommandOfItsKind DEF UpdateInstrument, Does
<1> DEFINE row == Updated(instruments[k.instrument], k.new)
           saves == [do |-> "save instrument", instrument |-> k.instrument, row |-> row]
<1>3. instruments[k.instrument] \in InstrumentRows
  BY <1>2 DEF CatInv, CatalogueInv, TypeOK, UpdateCommand
<1>4. row \in InstrumentRows
  BY <1>2, <1>3, UpdatedIsARow DEF UpdateCommand
<1>5. Then(c, Idle) \/ Then(c, saves)
  BY <1>1 DEF UpdateInstrument
<1> HIDE DEF row
<1>6. saves \in CommandRecord /\ IsFounded(saves)
  BY <1>2, <1>4 DEF CommandRecord, UpdateCommand, InstrumentCommand, IsFounded
<1> QED
  BY <1>5, <1>6, ThenKeeps, IdleIsFounded

LEMMA SaveInstrumentKeeps ==
    ASSUME CatInv, NEW c \in Writer, SaveInstrument(c)
    PROVE  CatInv'
<1>1. PICK k \in CommandRecord : k = command[c]
  BY DEF CatInv, CommandsAreSound
<1>2. k.row \in InstrumentRows
  <2>1. k \in InstrumentCommand
    BY <1>1, CommandOfItsKind DEF SaveInstrument, Does
  <2> QED
    BY <2>1 DEF InstrumentCommand
<1>3. /\ instruments' = [instruments EXCEPT ![k.instrument] = k.row]
      /\ songs' = songs /\ events' = events /\ gone' = gone
      /\ bands' = bands /\ parts' = parts /\ requests' = requests /\ changes' = changes
      /\ NoticedByQueries /\ SetCommand(c, Idle)
  BY <1>1 DEF SaveInstrument, Written, counters
<1>4. CatalogueInv'
  BY <1>2, <1>3 DEF CatInv, CatalogueInv, TypeOK, NothingOutlivesItsBand, DurationIsItsOwn, Existing
<1>5. SongsKept /\ EventsAreSound'
  BY <1>3 DEF CatInv, SongsKept, EventsAreSound, IsOf, Existing
<1> QED
  BY <1>3, <1>4, <1>5, WriteKeeps

LEMMA ChangeMembersKeeps ==
    ASSUME CatInv, NEW b \in Band, NEW m \in Musician, ChangeMembers(b, m)
    PROVE  CatInv'
<1>1. /\ bands[b] # {m}
      /\ bands' = [bands EXCEPT ![b] = IF m \in @ THEN @ \ {m} ELSE @ \cup {m}]
      /\ songs' = songs /\ parts' = parts /\ instruments' = instruments /\ events' = events
      /\ gone' = gone /\ command' = command /\ requests' = requests /\ NoticedByQueries
  BY DEF ChangeMembers
<1>2. TypeOK /\ NothingOutlivesItsBand /\ DurationIsItsOwn
  BY DEF CatInv, CatalogueInv
<1>3. changes' \in 0..MaxChanges
  BY <1>2, BoundsAssumption DEF TypeOK, ChangeMembers
<1>4. /\ bands' \in [Band -> SUBSET Musician]
      /\ \A x \in Band : bands[x] # {} => bands'[x] # {}
  BY <1>1, <1>2 DEF TypeOK
<1>5. TypeOK'
  BY <1>1, <1>2, <1>3, <1>4 DEF TypeOK
<1>6. \A s \in Existing : songs[s].band \in Band
  BY <1>2 DEF TypeOK, Existing, SongRows
<1>7. NothingOutlivesItsBand' /\ DurationIsItsOwn'
  BY <1>1, <1>2, <1>4, <1>6 DEF NothingOutlivesItsBand, DurationIsItsOwn, Existing
<1>8. SongsKept /\ EventsAreSound'
  BY <1>1 DEF CatInv, SongsKept, EventsAreSound, IsOf, Existing
<1> QED
  BY <1>1, <1>5, <1>7, <1>8, WriteKeeps DEF CatalogueInv

LEMMA RemoveBandKeeps ==
    ASSUME CatInv, NEW b \in Band, RemoveBand(b)
    PROVE  CatInv'
<1>1. /\ bands' = [bands EXCEPT ![b] = {}]
      /\ songs' = [s \in Song |-> IF s \in SongsOf(b) THEN NoSong ELSE songs[s]]
      /\ parts' = [p \in Part |-> IF parts[p] \in SongsOf(b) THEN NoPart ELSE parts[p]]
      /\ gone' = gone \cup SongsOf(b)
      /\ instruments' = instruments /\ events' = events
      /\ command' = command /\ requests' = requests /\ NoticedByQueries
  BY DEF RemoveBand
<1>2. TypeOK /\ NothingOutlivesItsBand /\ DurationIsItsOwn
  BY DEF CatInv, CatalogueInv
<1>3. changes' \in 0..MaxChanges
  BY <1>2, BoundsAssumption DEF TypeOK, RemoveBand
<1>4. SongsOf(b) \subseteq Song
  BY DEF SongsOf, Existing
<1>5. Existing' = Existing \ SongsOf(b)
  BY <1>1 DEF Existing, SongsOf
<1>6. \A s \in Existing' : songs'[s] = songs[s] /\ songs[s].band \in Band /\ songs[s].band # b
  BY <1>1, <1>2, <1>5 DEF TypeOK, Existing, SongsOf, SongRows
<1>7. TypeOK'
  BY <1>1, <1>2, <1>3, <1>4 DEF TypeOK
<1>8. NothingOutlivesItsBand'
  <2>1. \A s \in Existing' : bands'[songs'[s].band] # {}
    BY <1>1, <1>2, <1>5, <1>6 DEF TypeOK, NothingOutlivesItsBand
  <2>2. \A p \in Part : parts'[p] # NoPart => parts'[p] \in Existing'
    BY <1>1, <1>2, <1>5 DEF NothingOutlivesItsBand
  <2> QED
    BY <2>1, <2>2 DEF NothingOutlivesItsBand
<1>9. DurationIsItsOwn'
  BY <1>1, <1>2, <1>5, <1>6 DEF DurationIsItsOwn
<1>10. SongsKept
  BY <1>1, <1>2, <1>5, <1>6 DEF SongsKept, NothingOutlivesItsBand
<1>11. EventsAreSound'
  <2>1. ASSUME NEW e \in events PROVE IsOf(e.url, e.song)'
    <3>1. IsOf(e.url, e.song)
      BY DEF CatInv, EventsAreSound
    <3> QED
      BY <1>10, <3>1 DEF IsOf, SongsKept
  <2> QED
    BY <1>1, <2>1 DEF EventsAreSound
<1> QED
  BY <1>1, <1>7, <1>8, <1>9, <1>10, <1>11, WriteKeeps DEF CatalogueInv

LEMMA AddPartKeeps ==
    ASSUME CatInv, NEW p \in Part, NEW s \in Song, AddPart(p, s)
    PROVE  CatInv'
<1>1. /\ s \in Existing
      /\ parts' = [parts EXCEPT ![p] = s]
      /\ bands' = bands /\ songs' = songs /\ instruments' = instruments /\ events' = events
      /\ gone' = gone /\ command' = command /\ requests' = requests /\ changes' = changes
      /\ NoticedByQueries
  BY DEF AddPart, counters
<1>2. CatalogueInv'
  BY <1>1 DEF CatInv, CatalogueInv, TypeOK, NothingOutlivesItsBand, DurationIsItsOwn, Existing
<1>3. SongsKept /\ EventsAreSound'
  BY <1>1 DEF CatInv, SongsKept, EventsAreSound, IsOf, Existing
<1> QED
  BY <1>1, <1>2, <1>3, WriteKeeps

-----------------------------------------------------------------------------
(* The invariant holds.                                                    *)

LEMMA CatInit ==
    ASSUME Init
    PROVE  CatInv
<1>1. Existing = {s \in Song : Songs0[s] # NoSong}
  BY DEF Init, Existing
<1>2. TypeOK
  BY BeginningAssumption, BoundsAssumption DEF Init, TypeOK, InstrumentRows, SongRows
<1>3. NothingOutlivesItsBand /\ DurationIsItsOwn
  BY <1>1, BeginningAssumption DEF Init, NothingOutlivesItsBand, DurationIsItsOwn
<1>4. QueriesAreSound /\ CommandsAreSound
  BY IdleIsSound, IdleIsFounded DEF Init, QueriesAreSound, CommandsAreSound
<1>5. EventsAreSound
  BY <1>1 DEF Init, EventsAreSound, IsOf, Existing
<1> QED
  BY <1>2, <1>3, <1>4, <1>5 DEF CatInv, CatalogueInv

LEMMA CatNext ==
    ASSUME CatInv, [Next]_vars
    PROVE  CatInv'
<1>1. ASSUME NEW q \in Reader, Lists(q) \/ Singles(q) \/ QueryStep(q) PROVE CatInv'
  BY <1>1, ListsKeep, SinglesKeep, QueryStepKeeps
<1>2. ASSUME NEW c \in Writer, Commands(c) \/ CommandStep(c) PROVE CatInv'
  BY <1>2, CommandsKeep, CreateSongKeeps, SaveSongKeeps, FetchKeeps, UpdateDurationKeeps,
     UpdateInstrumentKeeps, SaveInstrumentKeeps DEF CommandStep
<1>3. ASSUME Others PROVE CatInv'
  BY <1>3, ChangeMembersKeeps, RemoveBandKeeps, AddPartKeeps DEF Others
<1>4. CASE UNCHANGED vars
  <2>1. UNCHANGED <<rows, gone, query, command, events, requests, changes>>
    BY <1>4 DEF vars, counters
  <2>2. CatalogueInv'
    BY <2>1 DEF CatInv, rows, CatalogueInv, TypeOK, NothingOutlivesItsBand, DurationIsItsOwn, Existing
  <2>3. ASSUME NEW q \in Reader PROVE IsSound(query[q])'
    <3>1. PICK j : j = query[q]
      OBVIOUS
    <3>2. IsSound(j)'
      BY <2>1, <3>1, SoundUnlessWritten DEF CatInv, QueriesAreSound
    <3> QED
      BY <2>1, <3>1, <3>2
  <2>4. CommandsAreSound' /\ EventsAreSound'
    BY <2>1 DEF CatInv, rows, CommandsAreSound, EventsAreSound, IsFounded, IsOf, Existing
  <2> QED
    BY <2>1, <2>2, <2>3, <2>4 DEF CatInv, QueriesAreSound
<1> QED
  BY <1>1, <1>2, <1>3, <1>4 DEF Next

THEOREM CatInvariant == Spec => []CatInv
<1>1. Init => CatInv
  BY CatInit
<1>2. CatInv /\ [Next]_vars => CatInv'
  BY CatNext
<1> QED
  BY <1>1, <1>2, PTL DEF Spec

-----------------------------------------------------------------------------
(* What is matched is what was asked for.                                  *)

\* A row meets one filter.
Meets(f, row) ==
    /\ Column(f) = "originalVideoClipDurationSeconds" => row[Column(f)] # Null
    /\ Holds(f, row[Column(f)])

LEMMA WhereMeansAll ==
    ASSUME NEW fs, DOMAIN fs \subseteq Int, OneFilterPerColumn(fs), NEW row
    PROVE  MeetsAll(Where(fs), row) <=> AsksFor(fs, row)
<1>1. /\ DOMAIN Where(fs) = {Column(fs[i]) : i \in DOMAIN fs}
      /\ \A i \in DOMAIN fs : Where(fs)[Column(fs[i])] = fs[i]
  BY EveryFilterCounts DEF Columns
<1>2. AsksFor(fs, row) <=> \A i \in DOMAIN fs : Meets(fs[i], row)
  BY DEF AsksFor, Meets
<1>3. MeetsAll(Where(fs), row) <=> \A i \in DOMAIN fs : Meets(fs[i], row)
  BY <1>1 DEF MeetsAll, Meets
<1> QED
  BY <1>2, <1>3

LEMMA EqualHolds == ASSUME NEW field, NEW v, NEW cell PROVE Holds(Equal(field, v), cell) <=> cell = v
  BY DEF Holds, Equal

\* A scope in the place of the filters on its field leaves the others alone.
AddsOnlyScope(R, fs, field, v) ==
    LET rest == Without(fs, field)
        where == Where(Append(rest, Equal(field, v)))
    IN  /\ rest \in Seq(R)
        /\ \A i \in DOMAIN rest : Column(rest[i]) # field /\ \E j \in DOMAIN fs : rest[i] = fs[j]
        /\ \A j \in DOMAIN fs : fs[j].field # field => \E i \in DOMAIN rest : rest[i] = fs[j]
        /\ DOMAIN where = {Column(rest[i]) : i \in DOMAIN rest} \cup {field}
        /\ \A i \in DOMAIN rest : where[Column(rest[i])] = rest[i]
        /\ where[field] = Equal(field, v)

LEMMA ScopeIsOneMore ==
    ASSUME NEW R, NEW fs \in Seq(R), OneFilterPerColumn(fs), NEW field \in {"songId", "userId"}, NEW v
    PROVE  AddsOnlyScope(R, fs, field, v)
<1> DEFINE rest == Without(fs, field)
           e == Equal(field, v)
           scoped == Append(rest, e)
           n == Len(rest)
<1>1. Keeps(R, fs, field, Len(fs), rest)
  BY WithoutShape
<1>2. rest \in Seq(R) /\ n \in Nat /\ DOMAIN rest = 1..n /\ DOMAIN fs = 1..Len(fs)
  BY <1>1 DEF Keeps
<1>3. \A f : Column(f) = field <=> f.field = field
  BY DEF Column
<1>4. \A i \in DOMAIN rest : Column(rest[i]) # field /\ \E j \in DOMAIN fs : rest[i] = fs[j]
  <2> HIDE DEF rest
  <2>1. \A i \in DOMAIN rest : \E j \in DOMAIN fs : rest[i] = fs[j] /\ fs[j].field # field
    BY <1>1, <1>2 DEF Keeps
  <2> QED
    BY <2>1, <1>3
<1>5. \A j \in DOMAIN fs : fs[j].field # field => \E i \in DOMAIN rest : rest[i] = fs[j]
  BY <1>1, <1>2 DEF Keeps
<1>6. Column(e) = field
  BY <1>3 DEF Equal
<1> HIDE DEF e, rest
<1>7. /\ DOMAIN scoped = 1..(n + 1)
      /\ \A i \in 1..n : scoped[i] = rest[i]
      /\ scoped[n + 1] = e
  BY <1>2
<1> HIDE DEF scoped
<1>8. OneFilterPerColumn(scoped)
  <2>1. ASSUME NEW i \in 1..(n + 1), NEW j \in 1..(n + 1), Column(scoped[i]) = Column(scoped[j]) PROVE i = j
    <3>1. CASE i \in 1..n /\ j \in 1..n
      BY <1>1, <1>7, <2>1, <3>1 DEF Keeps
    <3>2. CASE i = n + 1 /\ j \in 1..n
      BY <1>2, <1>4, <1>6, <1>7, <2>1, <3>2
    <3>3. CASE i \in 1..n /\ j = n + 1
      BY <1>2, <1>4, <1>6, <1>7, <2>1, <3>3
    <3>4. (i \in 1..n \/ i = n + 1) /\ (j \in 1..n \/ j = n + 1)
      BY <1>2
    <3> QED
      BY <3>1, <3>2, <3>3, <3>4
  <2> QED
    BY <1>7, <2>1 DEF OneFilterPerColumn
<1>9. DOMAIN scoped \subseteq Int
  BY <1>2, <1>7
<1>10. /\ DOMAIN Where(scoped) = {Column(scoped[i]) : i \in DOMAIN scoped}
       /\ \A i \in DOMAIN scoped : Where(scoped)[Column(scoped[i])] = scoped[i]
  BY <1>8, <1>9, EveryFilterCounts DEF Columns
<1>11. \A i \in 1..n : i \in DOMAIN scoped
  BY <1>2, <1>7
<1>12. n + 1 \in DOMAIN scoped /\ \A i \in DOMAIN scoped : i \in 1..n \/ i = n + 1
  BY <1>2, <1>7
<1>13. DOMAIN Where(scoped) = {Column(rest[i]) : i \in DOMAIN rest} \cup {field}
  BY <1>2, <1>6, <1>7, <1>10, <1>11, <1>12
<1>14. \A i \in DOMAIN rest : Where(scoped)[Column(rest[i])] = rest[i]
  BY <1>2, <1>7, <1>10, <1>11
<1>15. Where(scoped)[field] = e
  BY <1>6, <1>7, <1>10, <1>12
<1> QED
  BY <1>2, <1>4, <1>5, <1>13, <1>14, <1>15 DEF AddsOnlyScope, rest, scoped, e

LEMMA SongsAsAsked ==
    ASSUME NEW R, NEW fs \in Seq(R), OneFilterPerColumn(fs), NEW m, MatchingSongs(Where(fs), m) # Fails
    PROVE  MatchingSongs(Where(fs), m) = {s \in Existing : AsksFor(fs, SongCells(s)) /\ PlaysIn(s, m)}
<1>1. DOMAIN fs \subseteq Int
  OBVIOUS
<1>2. \A row : MeetsAll(Where(fs), row) <=> AsksFor(fs, row)
  BY <1>1, WhereMeansAll
<1> QED
  BY <1>2 DEF MatchingSongs

LEMMA InstrumentsAsAsked ==
    ASSUME NEW R, NEW fs \in Seq(R), OneFilterPerColumn(fs), MatchingInstruments(Where(fs)) # Fails
    PROVE  MatchingInstruments(Where(fs)) = {i \in Instrument : AsksFor(fs, InstrumentCells(i))}
<1>1. DOMAIN fs \subseteq Int
  OBVIOUS
<1>2. \A row : MeetsAll(Where(fs), row) <=> AsksFor(fs, row)
  BY <1>1, WhereMeansAll
<1> QED
  BY <1>2 DEF MatchingInstruments

LEMMA PartsAsAsked ==
    ASSUME NEW R, NEW fs \in Seq(R), OneFilterPerColumn(fs), NEW s \in Song,
           MatchingParts(Where(ScopedToSong(fs, s))) # Fails
    PROVE  MatchingParts(Where(ScopedToSong(fs, s)))
             = {p \in PartsOf(s) : AsksFor(Without(fs, "songId"), [id |-> p])}
<1> DEFINE rest == Without(fs, "songId")
           scoped == Append(rest, Equal("songId", s))
           where == Where(scoped)
<1>1. /\ \A i \in DOMAIN rest : Column(rest[i]) # "songId"
      /\ DOMAIN where = {Column(rest[i]) : i \in DOMAIN rest} \cup {"songId"}
      /\ \A i \in DOMAIN rest : where[Column(rest[i])] = rest[i]
      /\ where["songId"] = Equal("songId", s)
  <2>1. AddsOnlyScope(R, fs, "songId", s)
    BY ScopeIsOneMore
  <2> QED
    BY <2>1 DEF AddsOnlyScope
<1>2. MatchingParts(where) # Fails /\ where = Where(ScopedToSong(fs, s))
  BY DEF ScopedToSong
<1> HIDE DEF where, rest
<1>3. DOMAIN where \subseteq {"id", "songId"}
  BY <1>2 DEF MatchingParts, CanAsk
<1>4. \A i \in DOMAIN rest : Column(rest[i]) = "id"
  BY <1>1, <1>3
<1>5. s # NoPart
  BY BeginningAssumption
<1>6. ASSUME NEW p \in Part, NEW row, row = [id |-> p, songId |-> parts[p]]
      PROVE  MeetsAll(where, row) <=> AsksFor(rest, [id |-> p]) /\ parts[p] = s
  <2>1. row["songId"] = parts[p] /\ row["id"] = p /\ [id |-> p]["id"] = p
    BY <1>6
  <2>2. MeetsAll(where, row) <=> (\A i \in DOMAIN rest : Holds(rest[i], row["id"])) /\ Holds(Equal("songId", s), row["songId"])
    BY <1>1, <1>4 DEF MeetsAll
  <2>3. AsksFor(rest, [id |-> p]) <=> \A i \in DOMAIN rest : Holds(rest[i], p)
    BY <1>4, <2>1 DEF AsksFor
  <2> QED
    BY <2>1, <2>2, <2>3, EqualHolds
<1>7. MatchingParts(where) = {p \in Part : parts[p] # NoPart /\ MeetsAll(where, [id |-> p, songId |-> parts[p]])}
  BY <1>2 DEF MatchingParts
<1> QED
  BY <1>2, <1>5, <1>6, <1>7 DEF PartsOf, rest

LEMMA BandsAsAsked ==
    ASSUME NEW R, NEW fs \in Seq(R), OneFilterPerColumn(fs), NEW m, NEW admin \in BOOLEAN,
           \A i \in DOMAIN fs : fs[i].field # "members" /\ (admin => fs[i].field # "userId"),
           MatchingBands(Where(ScopedToUser(fs, m, admin))) # Fails
    PROVE  MatchingBands(Where(ScopedToUser(fs, m, admin)))
             = {b \in IF admin THEN {x \in Band : bands[x] # {}} ELSE BandsOf(m) :
                   AsksFor(Without(fs, "userId"), [id |-> b])}
<1> DEFINE rest == Without(fs, "userId")
           where == Where(ScopedToUser(fs, m, admin))
           own == IF "userId" \in DOMAIN where THEN DOMAIN where \ {"userId", "members"} ELSE DOMAIN where
           kept == [c \in own |-> where[c]]
<1>1. /\ rest \in Seq(R)
      /\ \A i \in DOMAIN rest : Column(rest[i]) # "userId" /\ \E j \in DOMAIN fs : rest[i] = fs[j]
      /\ \A j \in DOMAIN fs : fs[j].field # "userId" => \E i \in DOMAIN rest : rest[i] = fs[j]
  <2>1. AddsOnlyScope(R, fs, "userId", m)
    BY ScopeIsOneMore
  <2> QED
    BY <2>1 DEF AddsOnlyScope
<1>2. \A i \in DOMAIN fs : Column(fs[i]) # "members"
  BY DEF Column
<1>3. /\ own = {Column(rest[i]) : i \in DOMAIN rest}
      /\ \A i \in DOMAIN rest : where[Column(rest[i])] = rest[i]
      /\ ~admin => "userId" \in DOMAIN where /\ where["userId"] = Equal("userId", m)
      /\ admin => "userId" \notin DOMAIN where
  <2>1. CASE admin = FALSE
    <3> DEFINE scoped == Append(rest, Equal("userId", m))
    <3>1. /\ DOMAIN Where(scoped) = {Column(rest[i]) : i \in DOMAIN rest} \cup {"userId"}
          /\ \A i \in DOMAIN rest : Where(scoped)[Column(rest[i])] = rest[i]
          /\ Where(scoped)["userId"] = Equal("userId", m)
      <4>1. AddsOnlyScope(R, fs, "userId", m)
        BY ScopeIsOneMore
      <4> QED
        BY <4>1 DEF AddsOnlyScope
    <3>2. where = Where(scoped)
      BY <2>1 DEF ScopedToUser
    <3> HIDE DEF scoped, where, rest
    <3>3. own = {Column(rest[i]) : i \in DOMAIN rest}
      BY <1>1, <1>2, <3>1, <3>2
    <3> QED
      BY <2>1, <3>1, <3>2, <3>3
  <2>2. CASE admin = TRUE
    <3>1. where = Where(fs) /\ DOMAIN fs \subseteq Int
      BY <2>2 DEF ScopedToUser
    <3>2. /\ DOMAIN where = {Column(fs[i]) : i \in DOMAIN fs}
          /\ \A i \in DOMAIN fs : where[Column(fs[i])] = fs[i]
      BY <3>1, EveryFilterCounts DEF Columns
    <3>3. \A i \in DOMAIN fs : fs[i].field # "userId" /\ Column(fs[i]) # "userId"
      BY <2>2 DEF Column
    <3>4. {Column(fs[i]) : i \in DOMAIN fs} = {Column(rest[i]) : i \in DOMAIN rest}
      BY <1>1, <3>3
    <3> HIDE DEF where, rest
    <3> QED
      BY <1>1, <2>2, <3>2, <3>3, <3>4
  <2> QED
    BY <2>1, <2>2
<1>4. MatchingBands(where) # Fails
  OBVIOUS
<1> HIDE DEF where, rest
<1>5. CanAsk(kept, {}, {"id"})
  BY <1>4 DEF MatchingBands
<1>6. \A i \in DOMAIN rest : Column(rest[i]) = "id"
  BY <1>3, <1>5 DEF CanAsk
<1>7. ASSUME NEW b \in Band PROVE MeetsAll(kept, [id |-> b]) <=> AsksFor(rest, [id |-> b])
  BY <1>3, <1>6 DEF MeetsAll, AsksFor
<1>8. MatchingBands(where) = {b \in Band : /\ bands[b] # {}
                                           /\ MeetsAll(kept, [id |-> b])
                                           /\ "userId" \in DOMAIN where =>
                                                 \E x \in bands[b] : Holds(where["userId"], x)}
  BY <1>5 DEF MatchingBands
<1> HIDE DEF kept, own
<1>9. CASE admin = TRUE
  BY <1>3, <1>7, <1>8, <1>9 DEF where, rest
<1>10. CASE admin = FALSE
  <2>1. \A b \in Band : (bands[b] # {} /\ \E x \in bands[b] : Holds(where["userId"], x)) <=> m \in bands[b]
    BY <1>3, <1>10, EqualHolds
  <2> QED
    BY <1>3, <1>7, <1>8, <1>10, <2>1 DEF where, rest, BandsOf, IsMember
<1> QED
  BY <1>9, <1>10

\* What was read of a list that nobody wrote is what was asked for.
LEMMA ExpectedIsMatched ==
    ASSUME CatInv, NEW k \in QueryRecord, IsFitting(k), k.kind \in Kinds, Matching(k) # Fails,
           OneFilterPerColumn(k.criteria.filters), ReplacesNone(k)
    PROVE  Matching(k) = Expected(k)
<1> DEFINE fs == k.criteria.filters
<1>1. fs \in Seq(Range(fs))
  <2>1. fs \in Filters
    BY DEF IsFitting, ListCriteria
  <2> QED
    BY <2>1, FiltersAreSequences
<1>2. OneFilterPerColumn(fs)
  OBVIOUS
<1> HIDE DEF fs
<1>3. CASE k.kind = "songs"
  BY <1>1, <1>2, <1>3, SongsAsAsked DEF Matching, Expected, fs
<1>4. CASE k.kind = "parts"
  <2>1. k.of \in Song
    BY <1>4 DEF IsFitting
  <2> QED
    BY <1>1, <1>2, <1>4, <2>1, PartsAsAsked DEF Matching, Expected, fs
<1>5. CASE k.kind = "bands"
  <2>1. \A i \in DOMAIN fs : fs[i].field # "members" /\ (k.admin => fs[i].field # "userId")
    BY <1>5 DEF ReplacesNone, fs
  <2>2. k.admin \in BOOLEAN
    BY DEF QueryRecord
  <2> DEFINE m == k.musician
             admin == k.admin
  <2>3. Matching(k) = MatchingBands(Where(ScopedToUser(fs, m, admin)))
    BY <1>5 DEF Matching, fs
  <2>4. Expected(k) = {b \in IF admin THEN {x \in Band : bands[x] # {}} ELSE BandsOf(m) :
                          AsksFor(Without(fs, "userId"), [id |-> b])}
    BY <1>5 DEF Expected, fs
  <2>5. MatchingBands(Where(ScopedToUser(fs, m, admin))) # Fails
    BY <2>3
  <2> HIDE DEF m, admin
  <2> QED
    BY <1>1, <1>2, <2>1, <2>2, <2>3, <2>4, <2>5, BandsAsAsked DEF m, admin
<1>6. CASE k.kind = "instruments"
  BY <1>1, <1>2, <1>6, InstrumentsAsAsked DEF Matching, Expected, fs
<1> QED
  BY <1>3, <1>4, <1>5, <1>6 DEF Kinds

-----------------------------------------------------------------------------
(* The theorems.                                                           *)

\* Bands, songs and durations stay consistent.
THEOREM CatalogueHolds == Spec => []CatalogueInv
<1>1. CatInv => CatalogueInv
  BY DEF CatInv
<1> QED
  BY <1>1, CatInvariant, PTL

\* Nobody but an administrator is answered from outside of its bands.
THEOREM ScopesHold == Spec => []AnswersStayInScope
<1>1. CatInv => AnswersStayInScope
  <2> SUFFICES ASSUME CatInv, NEW q \in Reader, Asks(q, "answered"), ~query[q].admin, ~query[q].again
               PROVE  query[q].behind \subseteq query[q].seen
    BY DEF AnswersStayInScope
  <2>1. IsSound(query[q]) /\ query[q].do = "answered"
    BY DEF CatInv, QueriesAreSound, Asks
  <2>2. IsInScope(query[q])
    BY <2>1 DEF IsSound, Idle
  <2> QED
    BY <2>1, <2>2 DEF IsInScope, HasRead
<1> QED
  BY <1>1, CatInvariant, PTL

\* An undisturbed list is the page and the number that were asked for.
THEOREM PagesHold == Spec => []PagesAgree
<1>1. CatInv => PagesAgree
  <2> SUFFICES ASSUME CatInv, NEW q \in Reader, NEW k, k = query[q], Asks(q, "answered"),
                      k.quiet, k.kind \in Kinds, OneFilterPerColumn(k.criteria.filters), ReplacesNone(k)
               PROVE  /\ k.items \subseteq Expected(k)
                      /\ k.total = Cardinality(Expected(k))
                      /\ Cardinality(k.items) <= MaxLimit
                      /\ k.total > k.criteria.offset => k.items # {}
    BY DEF PagesAgree
  <2>1. IsSound(k) /\ k.do = "answered"
    BY DEF CatInv, QueriesAreSound, Asks
  <2>2. k \in QueryRecord /\ IsFitting(k) /\ IsCurrent(k)
    BY <2>1 DEF IsSound, Idle
  <2>3. /\ Matching(k) # Fails /\ k.items \subseteq Matching(k)
        /\ Cardinality(k.items) = PageSize(Cardinality(Matching(k)), k.criteria)
        /\ k.total = Cardinality(Matching(k))
    BY <2>1, <2>2 DEF IsCurrent, HasRead
  <2>4. Matching(k) = Expected(k)
    BY <2>2, <2>3, ExpectedIsMatched
  <2>5. k.criteria.limit \in 1..MaxLimit /\ k.criteria.offset \in Nat
    BY <2>2 DEF IsFitting, ListCriteria
  <2>6. Cardinality(Matching(k)) \in Nat
    BY MatchingIsFinite, FS_CardinalityType
  <2>7. Cardinality(k.items) <= MaxLimit /\ (k.total > k.criteria.offset => Cardinality(k.items) >= 1)
    <3> DEFINE n == Cardinality(Matching(k))
               limit == k.criteria.limit
               offset == k.criteria.offset
    <3>1. Cardinality(k.items) = LET left == IF n > offset THEN n - offset ELSE 0
                                 IN  IF left > limit THEN limit ELSE left
      BY <2>3 DEF PageSize
    <3>2. n \in Nat /\ limit \in 1..MaxLimit /\ offset \in Nat /\ k.total = n
      BY <2>3, <2>5, <2>6
    <3> HIDE DEF n, limit
    <3> QED
      BY <3>1, <3>2, LimitAssumption
  <2>8. k.items = {} => Cardinality(k.items) = 0
    BY FS_EmptySet
  <2> QED
    BY <2>3, <2>4, <2>7, <2>8
<1> QED
  BY <1>1, CatInvariant, PTL

\* A song keeps what it was created with.
THEOREM SongsStayAsCreated == Spec => SongsStay
<1>1. ASSUME CatInv, [Next]_vars, NEW s \in Existing, songs'[s] # NoSong
      PROVE  /\ songs'[s].band = songs[s].band
             /\ songs'[s].title = songs[s].title
             /\ songs'[s].url = songs[s].url
  <2>1. s \in Song /\ songs[s] \in SongRows
    BY <1>1 DEF CatInv, CatalogueInv, TypeOK, Existing
  <2>2. CASE songs' = songs
    BY <2>2
  <2>3. ASSUME NEW c \in Writer, SaveSong(c), songs' # songs PROVE songs'[s] = songs[s]
    BY <1>1, <2>1, <2>3 DEF SaveSong, Then, rows, IsRefused, CatInv, CatalogueInv, TypeOK
  <2>4. ASSUME NEW c \in Writer, UpdateDuration(c), songs' # songs
        PROVE  /\ songs'[s].band = songs[s].band
               /\ songs'[s].title = songs[s].title
               /\ songs'[s].url = songs[s].url
    <3>1. songs' = [songs EXCEPT ![command[c].song].duration = command[c].duration]
      BY <2>4 DEF UpdateDuration, Then, rows
    <3>2. songs \in [Song -> SongRows \cup {NoSong}]
      BY <1>1 DEF CatInv, CatalogueInv, TypeOK
    <3>3. songs'[s] = songs[s] \/ songs'[s] = [songs[s] EXCEPT !.duration = command[c].duration]
      BY <2>1, <3>1, <3>2
    <3> QED
      BY <2>1, <3>3 DEF SongRows
  <2>5. ASSUME NEW b \in Band, RemoveBand(b) PROVE songs'[s] = songs[s]
    BY <1>1, <2>1, <2>5 DEF RemoveBand
  <2>6. \/ songs' = songs
        \/ \E c \in Writer : SaveSong(c) \/ UpdateDuration(c)
        \/ \E b \in Band : RemoveBand(b)
    <3>1. ASSUME NEW q \in Reader, Lists(q) \/ Singles(q) PROVE songs' = songs
      BY <3>1 DEF Lists, Singles, GetBands, GetSongs, GetParts, GetInstruments, GetBandSongs, GetBand,
                  GetPart, GetMatch, Receive, Reads, rows
    <3>2. ASSUME NEW q \in Reader, QueryStep(q) PROVE songs' = songs
      BY <3>2 DEF QueryStep, CheckBand, CheckSong, ReadPage, CountAll, ListBandSongs, CountBandSongs,
                  FindPart, Finish, PageRead, Counted, Answer, Continue, Reads, rows
    <3>3. ASSUME NEW c \in Writer, Commands(c) PROVE songs' = songs
      BY <3>3 DEF Commands, PostSong, Deliver, PutInstrument, Begin, rows
    <3>4. ASSUME NEW c \in Writer, CreateSong(c) \/ Fetch(c) \/ UpdateInstrument(c) \/ SaveInstrument(c)
          PROVE  songs' = songs
      BY <3>4 DEF CreateSong, Fetch, UpdateInstrument, SaveInstrument, Then, rows
    <3>5. ASSUME NEW b \in Band, NEW m \in Musician, ChangeMembers(b, m) PROVE songs' = songs
      BY <3>5 DEF ChangeMembers
    <3>6. ASSUME NEW p \in Part, NEW t \in Song, AddPart(p, t) PROVE songs' = songs
      BY <3>6 DEF AddPart
    <3>7. CASE UNCHANGED vars
      BY <3>7 DEF vars, rows
    <3> QED
      BY <1>1, <3>1, <3>2, <3>3, <3>4, <3>5, <3>6, <3>7 DEF Next, CommandStep, Others
  <2> QED
    BY <2>2, <2>3, <2>4, <2>5, <2>6
<1>2. CatInv /\ [Next]_vars =>
        [\A s \in Existing :
            songs'[s] # NoSong =>
                /\ songs'[s].band = songs[s].band
                /\ songs'[s].title = songs[s].title
                /\ songs'[s].url = songs[s].url]_vars
  BY <1>1
<1> QED
  BY <1>2, CatInvariant, PTL DEF Spec, SongsStay

-----------------------------------------------------------------------------
(* Videoclip processes.  Records.                                          *)

LEMMA ProcessShape ==
    ASSUME NEW r \in Processes
    PROVE  /\ r.song \in SongId
           /\ r.status \in {"PENDING", "CANCELLED"} \cup Outcomes
           /\ r # NoRow
           /\ \A s \in {"PENDING", "CANCELLED"} \cup Outcomes :
                /\ [r EXCEPT !.status = s] \in Processes
                /\ [r EXCEPT !.status = s].status = s
                /\ [r EXCEPT !.status = s].song = r.song
BY DEF Processes, NoRow, Outcomes

LEMMA ActiveShape ==
    ASSUME NEW r \in Processes \cup {NoRow}, IsActive(r)
    PROVE  r \in Processes /\ r.status = "PENDING"
BY DEF Processes, NoRow, IsActive, Outcomes

LEMMA OutcomeEnds ==
    ASSUME NEW r \in Processes, r.status \in Outcomes \cup {"CANCELLED"}
    PROVE  ~IsActive(r)
BY DEF IsActive, Outcomes

LEMMA SaveShape ==
    ASSUME NEW k \in Saves
    PROVE  k # NoSave => k.id \in Id /\ k.row \in Processes /\ k = [at |-> "save", id |-> k.id, row |-> k.row]
BY DEF Saves

LEMMA NewSave ==
    ASSUME NEW p \in Id, NEW r \in Processes, NEW k, k = [at |-> "save", id |-> p, row |-> r]
    PROVE  k \in Saves /\ k # NoSave /\ k.id = p /\ k.row = r
BY DEF Saves, NoSave

LEMMA WorkShape ==
    ASSUME NEW k \in Works
    PROVE  k # NoSave => k.message \in Messages /\ k.row \in Processes
BY DEF Works

LEMMA NewWork ==
    ASSUME NEW m \in Messages, NEW r \in Processes, NEW k, k = [at |-> "save", message |-> m, row |-> r]
    PROVE  k \in Works /\ k # NoSave /\ k.message = m /\ k.row = r
BY DEF Works, NoSave

LEMMA IdleSave == NoSave \in Saves /\ NoSave \in Works
BY DEF Saves, Works

LEMMA MessageShape ==
    ASSUME NEW m \in Messages
    PROVE  m.id \in Id /\ m.outcome \in Outcomes
BY DEF Messages

LEMMA FreshShape ==
    ASSUME NEW p \in Id, NEW o \in Outcomes
    PROVE  Fresh(o, p) \in Messages /\ Fresh(o, p).id = p
BY VideoclipAssumption DEF Fresh, Messages

LEMMA AgainShape ==
    ASSUME NEW m \in Messages, ~TooMuch(m)
    PROVE  Again(m) \in Messages /\ Again(m).id = m.id
BY VideoclipAssumption DEF Again, TooMuch, Messages

\* The rows after an upsert.
LEMMA UpsertRows ==
    ASSUME ProcessTypeOK, NEW p \in Id, NEW r \in Processes, Upsert(p, r)
    PROVE  /\ processes' \in [Id -> Processes \cup {NoRow}]
           /\ processes'[p] = r
           /\ \A q \in Id : q # p => processes'[q] = processes[q]
BY DEF ProcessTypeOK, Upsert

\* One message more or less in the queues of answers.
LEMMA AnswerCounts ==
    ASSUME ProcessTypeOK, NEW m \in Messages
    PROVE  /\ More(m) \in [Messages -> Nat]
           /\ More(m)[m] > 0
           /\ \A n \in Messages : answers[n] > 0 => More(m)[n] > 0
           /\ answers[m] > 0 => Fewer(m) \in [Messages -> Nat]
           /\ \A n \in Messages : n # m => Fewer(m)[n] = answers[n]
BY DEF ProcessTypeOK, More, Fewer

LEMMA CallStays ==
    ASSUME ProcessTypeOK, NEW c \in Slot, NEW k \in Saves, call' = [call EXCEPT ![c] = k]
    PROVE  /\ call' \in [Slot -> Saves]
           /\ call'[c] = k
           /\ \A d \in Slot : d # c => call'[d] = call[d]
BY DEF ProcessTypeOK

LEMMA HandlerStays ==
    ASSUME ProcessTypeOK, NEW q \in Subscribers, NEW h \in Handler, NEW k \in Works,
           handler' = [handler EXCEPT ![q][h] = k]
    PROVE  /\ handler' \in [Subscribers -> [Handler -> Works]]
           /\ handler'[q][h] = k
           /\ \A r \in Subscribers, g \in Handler : r # q \/ g # h => handler'[r][g] = handler[r][g]
BY DEF ProcessTypeOK

-----------------------------------------------------------------------------
(* Every active process is awaited, whatever overlaps.                     *)

LEMMA InitAwaited == ProcessInit => AwaitedInv
<1> SUFFICES ASSUME ProcessInit PROVE AwaitedInv
  OBVIOUS
<1>1. ProcessTypeOK
  BY VideoclipAssumption, IdleSave DEF ProcessInit, ProcessTypeOK
<1>2. HandlersEnd
  BY DEF ProcessInit, HandlersEnd
<1>3. ActiveIsAwaited
  BY DEF ProcessInit, ActiveIsAwaited, IsActive, NoRow
<1> QED
  BY <1>1, <1>2, <1>3 DEF AwaitedInv

LEMMA BeginAwaited ==
    ASSUME AwaitedInv, NEW c \in Slot, NEW p \in Id, NEW r \in Processes, Prepare(c, p, r)
    PROVE  AwaitedInv'
<1> USE DEF AwaitedInv
<1>1. ProcessTypeOK'
  <2> DEFINE k == [at |-> "save", id |-> p, row |-> r]
  <2>1. k \in Saves
    BY NewSave
  <2>2. call' = [call EXCEPT ![c] = k]
    BY DEF Prepare
  <2> HIDE DEF k
  <2>3. call' \in [Slot -> Saves]
    BY <2>1, <2>2, CallStays
  <2>4. calls' \in 0..MaxCalls
    BY VideoclipAssumption DEF Prepare, ProcessTypeOK
  <2> QED
    BY <2>3, <2>4 DEF Prepare, ProcessTypeOK
<1>2. HandlersEnd'
  BY DEF Prepare, HandlersEnd
<1>3. ActiveIsAwaited'
  <2>1. UNCHANGED <<processes, requested, answers, stranded, handler>>
    BY DEF Prepare
  <2> QED
    BY <2>1 DEF ActiveIsAwaited, Awaited
<1> QED
  BY <1>1, <1>2, <1>3

LEMMA CancelBegins ==
    ASSUME ProcessTypeOK, NEW c \in Slot, NEW s \in SongId, Cancel(c, s)
    PROVE  \E p \in Id, r \in Processes : ~IsActive(r) /\ Prepare(c, p, r)
<1>1. PICK p \in ActiveIn(s) : Prepare(c, p, [processes[p] EXCEPT !.status = "CANCELLED"])
  BY DEF Cancel
<1>2. p \in Id /\ IsActive(processes[p]) /\ processes[p] \in Processes \cup {NoRow}
  BY DEF ActiveIn, ProcessTypeOK
<1>3. processes[p] \in Processes
  BY <1>2, ActiveShape
<1>4. [processes[p] EXCEPT !.status = "CANCELLED"] \in Processes /\ [processes[p] EXCEPT !.status = "CANCELLED"].status = "CANCELLED"
  BY <1>3, ProcessShape
<1>5. ~IsActive([processes[p] EXCEPT !.status = "CANCELLED"])
  BY <1>4, OutcomeEnds
<1> QED
  BY <1>1, <1>2, <1>4, <1>5

LEMMA RequestBegins ==
    ASSUME ProcessTypeOK, NEW c \in Slot, NEW p \in Id, NEW s \in SongId, Request(c, p, s)
    PROVE  LET r == [song |-> s, status |-> "PENDING", startedAt |-> calls]
           IN  r \in Processes /\ r.song = s /\ Prepare(c, p, r)
BY VideoclipAssumption DEF Request, Processes, ProcessTypeOK

LEMMA SaveAwaited ==
    ASSUME AwaitedInv, NEW c \in Slot, Save(c)
    PROVE  AwaitedInv'
<1> USE DEF AwaitedInv
<1>1. call[c].id \in Id /\ call[c].row \in Processes
  BY SaveShape DEF Save, ProcessTypeOK
<1> DEFINE p == call[c].id
           r == call[c].row
<1>2. requested' \in [Id -> Nat] /\ \A q \in Id : requested[q] > 0 => requested'[q] > 0
  BY <1>1 DEF Save, ProcessTypeOK
<1>3. processes' \in [Id -> Processes \cup {NoRow}]
  BY <1>1, UpsertRows DEF Save, ProcessTypeOK
<1>4. ProcessTypeOK'
  <2>1. call' \in [Slot -> Saves]
    BY IdleSave, CallStays DEF Save
  <2>2. stranded' \in SUBSET Id
    BY DEF Save, ProcessTypeOK
  <2> QED
    BY <1>2, <1>3, <2>1, <2>2 DEF Save, ProcessTypeOK
<1>5. HandlersEnd'
  BY DEF Save, HandlersEnd
<1>6. ActiveIsAwaited'
  <2> SUFFICES ASSUME NEW q \in Id, IsActive(processes'[q]) PROVE Awaited(q)' \/ q \in stranded'
    BY DEF ActiveIsAwaited, IsActive
  <2>1. Awaited(q) => Awaited(q)'
    BY <1>2 DEF Save, Awaited
  <2>2. CASE UNCHANGED <<processes, requested, stranded>>
    BY <2>1, <2>2 DEF ActiveIsAwaited
  <2>3. CASE Upsert(p, r) /\ q # p
    <3>1. processes'[q] = processes[q]
      BY <2>3, <1>1, UpsertRows
    <3>2. q \in stranded => q \in stranded'
      BY <2>3 DEF Save
    <3> QED
      BY <2>1, <3>1, <3>2 DEF ActiveIsAwaited
  <2>4. CASE Upsert(p, r) /\ q = p /\ requested' = [requested EXCEPT ![p] = @ + 1]
    <3>1. requested'[q] > 0
      BY <2>4, <1>1 DEF ProcessTypeOK
    <3> QED
      BY <3>1 DEF Awaited
  <2>5. CASE Upsert(p, r) /\ q = p /\ ~IsActive(r)
    BY <2>5, <1>1, UpsertRows
  <2> QED
    BY <2>2, <2>3, <2>4, <2>5 DEF Save
<1> QED
  BY <1>4, <1>5, <1>6

LEMMA CallFailsAwaited ==
    ASSUME AwaitedInv, NEW c \in Slot, CallFails(c)
    PROVE  AwaitedInv'
<1> USE DEF AwaitedInv
<1>1. ProcessTypeOK'
  <2>1. call' \in [Slot -> Saves]
    BY IdleSave, CallStays DEF CallFails
  <2>2. faults' \in 0..MaxFaults
    BY VideoclipAssumption DEF CallFails, Fault, ProcessTypeOK
  <2> QED
    BY <2>1, <2>2 DEF CallFails, ProcessTypeOK
<1>2. HandlersEnd' /\ ActiveIsAwaited'
  <2>1. UNCHANGED <<processes, requested, answers, stranded, handler>>
    BY DEF CallFails
  <2> QED
    BY <2>1 DEF HandlersEnd, ActiveIsAwaited, Awaited
<1> QED
  BY <1>1, <1>2

LEMMA RemovedRows ==
    ASSUME ProcessTypeOK, NEW s \in SongId, SongRemoved(s)
    PROVE  /\ processes' \in [Id -> Processes \cup {NoRow}]
           /\ \A p \in Id : IsActive(processes'[p]) => processes'[p] = processes[p]
BY DEF SongRemoved, ProcessTypeOK, IsActive, NoRow

LEMMA SongRemovedAwaited ==
    ASSUME AwaitedInv, NEW s \in SongId, SongRemoved(s)
    PROVE  AwaitedInv'
<1> USE DEF AwaitedInv
<1>1. ProcessTypeOK'
  <2>1. songsLeft' \in SUBSET SongId
    BY DEF SongRemoved, ProcessTypeOK
  <2> QED
    BY <2>1, RemovedRows DEF SongRemoved, ProcessTypeOK
<1>2. HandlersEnd'
  BY DEF SongRemoved, HandlersEnd
<1>3. ActiveIsAwaited'
  <2>1. UNCHANGED <<requested, answers, stranded, handler>>
    BY DEF SongRemoved
  <2>2. \A p \in Id : IsActive(processes'[p]) => processes'[p] = processes[p]
    BY RemovedRows
  <2> QED
    BY <2>1, <2>2 DEF ActiveIsAwaited, Awaited
<1> QED
  BY <1>1, <1>2, <1>3

LEMMA WorkerAnswersAwaited ==
    ASSUME AwaitedInv, NEW p \in Id, NEW o \in Outcomes, WorkerAnswers(p, o)
    PROVE  AwaitedInv'
<1> USE DEF AwaitedInv
<1>1. PICK m \in Messages : m = Fresh(o, p) /\ m.id = p
  BY FreshShape
<1>2. answers' = More(m)
  BY <1>1 DEF WorkerAnswers
<1>3. ProcessTypeOK'
  <2>1. requested' \in [Id -> Nat]
    BY DEF WorkerAnswers, ProcessTypeOK
  <2>2. faults' \in 0..MaxFaults
    BY VideoclipAssumption DEF WorkerAnswers, Fault, ProcessTypeOK
  <2> QED
    BY <1>2, <2>1, <2>2, AnswerCounts DEF WorkerAnswers, ProcessTypeOK
<1>4. HandlersEnd'
  BY DEF WorkerAnswers, HandlersEnd
<1>5. ActiveIsAwaited'
  <2> SUFFICES ASSUME NEW q \in Id, IsActive(processes'[q]) PROVE Awaited(q)' \/ q \in stranded'
    BY DEF ActiveIsAwaited, IsActive
  <2>1. Awaited(q) \/ q \in stranded'
    BY DEF ActiveIsAwaited, WorkerAnswers
  <2>2. answers'[m] > 0 /\ \A n \in Messages : answers[n] > 0 => answers'[n] > 0
    BY <1>2, AnswerCounts
  <2>3. requested[q] > 0 => requested'[q] > 0 \/ q = p
    BY DEF WorkerAnswers, ProcessTypeOK
  <2>4. UNCHANGED handler
    BY DEF WorkerAnswers
  <2> QED
    BY <1>1, <2>1, <2>2, <2>3, <2>4 DEF Awaited
<1> QED
  BY <1>3, <1>4, <1>5

LEMMA RefuseAwaited ==
    ASSUME AwaitedInv, NEW m \in Messages, Refuse(m)
    PROVE  AwaitedInv'
<1> USE DEF AwaitedInv
<1>1. /\ answers' \in [Messages -> Nat]
      /\ \A n \in Messages : n # m /\ answers[n] > 0 => answers'[n] > 0
  <2>1. Fewer(m) \in [Messages -> Nat] /\ \A n \in Messages : n # m => Fewer(m)[n] = answers[n]
    BY AnswerCounts DEF Refuse
  <2>2. CASE TooMuch(m)
    BY <2>1, <2>2 DEF Refuse
  <2>3. CASE ~TooMuch(m)
    <3>1. PICK f \in [Messages -> Nat] : f = Fewer(m)
      BY <2>1
    <3>2. PICK again \in Messages : again = Again(m)
      BY <2>3, AgainShape
    <3>3. answers' = [f EXCEPT ![again] = @ + 1]
      BY <2>3, <3>1, <3>2 DEF Refuse
    <3> QED
      BY <2>1, <3>1, <3>3
  <2> QED
    BY <2>2, <2>3
<1>2. ProcessTypeOK'
  BY <1>1 DEF Refuse, ProcessTypeOK
<1>3. HandlersEnd'
  BY DEF Refuse, HandlersEnd
<1>4. ActiveIsAwaited'
  <2> SUFFICES ASSUME NEW q \in Id, IsActive(processes'[q]) PROVE Awaited(q)' \/ q \in stranded'
    BY DEF ActiveIsAwaited, IsActive
  <2>1. q # m.id /\ (Awaited(q) \/ q \in stranded')
    BY DEF ActiveIsAwaited, Refuse
  <2>2. UNCHANGED <<requested, handler>>
    BY DEF Refuse
  <2> QED
    BY <1>1, <2>1, <2>2 DEF Awaited
<1> QED
  BY <1>2, <1>3, <1>4

\* What a handler takes up.
LEMMA HandleEffect ==
    ASSUME ProcessTypeOK, NEW q \in Subscribers, NEW h \in Handler, NEW m \in Messages,
           Handle(q, h, m)
    PROVE  /\ handler' \in [Subscribers -> [Handler -> Works]]
           /\ handler'[q][h] # NoSave
           /\ handler'[q][h].message = m
           /\ handler'[q][h].row.status = m.outcome
           /\ handler[q][h] = NoSave
           /\ \A r \in Subscribers, g \in Handler : r # q \/ g # h => handler'[r][g] = handler[r][g]
<1>1. PICK p \in Id, o \in Outcomes : p = m.id /\ o = m.outcome
  BY MessageShape
<1> DEFINE s == [processes[p] EXCEPT !.status = o]
           k == [at |-> "save", message |-> m, row |-> s]
<1>2. processes[p] \in Processes
  BY <1>1, ActiveShape DEF Handle, ProcessTypeOK
<1>3. s \in Processes /\ s.status = o
  BY <1>2, ProcessShape
<1>4. handler' = [handler EXCEPT ![q][h] = k] /\ handler[q][h] = NoSave
  BY <1>1 DEF Handle
<1> HIDE DEF s
<1>5. k \in Works /\ k # NoSave /\ k.message = m /\ k.row = s
  BY <1>3, NewWork
<1> HIDE DEF k
<1>6. /\ handler' \in [Subscribers -> [Handler -> Works]]
      /\ handler'[q][h] = k
      /\ \A r \in Subscribers, g \in Handler : r # q \/ g # h => handler'[r][g] = handler[r][g]
  BY <1>4, <1>5, HandlerStays
<1> QED
  BY <1>1, <1>3, <1>4, <1>5, <1>6

LEMMA HandleAwaited ==
    ASSUME AwaitedInv, NEW q \in Subscribers, NEW h \in Handler, NEW m \in Messages,
           Handle(q, h, m)
    PROVE  AwaitedInv'
<1> USE DEF AwaitedInv
<1>1. ProcessTypeOK'
  BY AnswerCounts, HandleEffect DEF Handle, ProcessTypeOK
<1>2. HandlersEnd'
  BY HandleEffect DEF HandlersEnd, Handle
<1>3. ActiveIsAwaited'
  <2> SUFFICES ASSUME NEW u \in Id, IsActive(processes'[u]) PROVE Awaited(u)' \/ u \in stranded'
    BY DEF ActiveIsAwaited, IsActive
  <2>1. CASE u = m.id
    BY <2>1, HandleEffect DEF Awaited
  <2>2. CASE u # m.id
    <3>1. (Awaited(u) \/ u \in stranded') /\ UNCHANGED requested
      BY DEF ActiveIsAwaited, Handle
    <3>2. \A n \in Messages : n.id = u => answers'[n] = answers[n]
      BY <2>2, AnswerCounts DEF Handle
    <3>3. \A r \in Subscribers, g \in Handler : handler[r][g] # NoSave => handler'[r][g] = handler[r][g]
      BY HandleEffect
    <3> QED
      BY <3>1, <3>2, <3>3 DEF Awaited
  <2> QED
    BY <2>1, <2>2
<1> QED
  BY <1>1, <1>2, <1>3

\* The end of a handler: its process has ended, its message comes again, or
\* the process is stranded.
LEMMA HandlerEndsAwaited ==
    ASSUME AwaitedInv, NEW q \in Subscribers, NEW h \in Handler,
           handler[q][h] # NoSave,
           HandlerEnds(q, h),
           \/ HandlerUpserts(handler[q][h]) /\ Acked
           \/ /\ UNCHANGED processes \/ HandlerUpserts(handler[q][h])
              /\ Redelivered(handler[q][h].message) \/ Thrown(handler[q][h].message),
           faults' \in 0..MaxFaults
    PROVE  AwaitedInv'
<1> USE DEF AwaitedInv
<1>1. PICK m \in Messages, r \in Processes : m = handler[q][h].message /\ r = handler[q][h].row /\ r.status = m.outcome
  BY WorkShape DEF ProcessTypeOK, HandlersEnd
<1>2. PICK p \in Id : p = m.id
  BY MessageShape
<1>3. ~IsActive(r)
  BY <1>1, MessageShape, OutcomeEnds
<1>4. UNCHANGED processes \/ Upsert(p, r)
  BY <1>1, <1>2 DEF HandlerUpserts
<1>5. /\ processes' \in [Id -> Processes \cup {NoRow}]
      /\ \A u \in Id : IsActive(processes'[u]) => processes'[u] = processes[u]
      /\ Upsert(p, r) => ~IsActive(processes'[p])
  BY <1>3, <1>4, UpsertRows DEF ProcessTypeOK
<1>6. /\ answers' \in [Messages -> Nat]
      /\ \A n \in Messages : answers[n] > 0 => answers'[n] > 0
      /\ stranded' \in SUBSET Id /\ stranded \subseteq stranded'
      /\ \/ ~IsActive(processes'[p])
         \/ \E n \in Messages : n.id = p /\ answers'[n] > 0
         \/ p \in stranded'
  <2>1. answers \in [Messages -> Nat] /\ stranded \in SUBSET Id
    BY DEF ProcessTypeOK
  <2>2. CASE HandlerUpserts(handler[q][h]) /\ Acked
    BY <1>1, <1>2, <1>5, <2>1, <2>2 DEF HandlerUpserts, Acked
  <2>3. CASE Redelivered(m)
    BY <1>2, <2>1, <2>3, AnswerCounts DEF Redelivered
  <2>4. CASE Thrown(m) /\ TooMuch(m)
    BY <1>2, <2>1, <2>4 DEF Thrown
  <2>5. CASE Thrown(m) /\ ~TooMuch(m)
    <3>1. PICK n \in Messages : n = Again(m) /\ n.id = p
      BY <1>2, <2>5, AgainShape
    <3>2. answers' = More(n) /\ UNCHANGED stranded
      BY <2>5, <3>1 DEF Thrown
    <3> QED
      BY <2>1, <3>1, <3>2, AnswerCounts
  <2> QED
    BY <1>1, <2>2, <2>3, <2>4, <2>5
<1>7. /\ handler' \in [Subscribers -> [Handler -> Works]]
      /\ handler'[q][h] = NoSave
      /\ \A s \in Subscribers, g \in Handler : s # q \/ g # h => handler'[s][g] = handler[s][g]
  BY IdleSave, HandlerStays DEF HandlerEnds
<1>8. ProcessTypeOK'
  BY <1>5, <1>6, <1>7 DEF HandlerEnds, ProcessTypeOK
<1>9. HandlersEnd'
  BY <1>7 DEF HandlersEnd
<1>10. ActiveIsAwaited'
  <2> SUFFICES ASSUME NEW u \in Id, IsActive(processes'[u]) PROVE Awaited(u)' \/ u \in stranded'
    BY DEF ActiveIsAwaited, IsActive
  <2>1. (Awaited(u) \/ u \in stranded) /\ UNCHANGED requested
    BY <1>5 DEF ActiveIsAwaited, HandlerEnds
  <2>2. CASE u = p
    BY <2>2, <1>6 DEF Awaited
  <2>3. CASE u # p
    <3>1. \A s \in Subscribers, g \in Handler :
             handler[s][g] # NoSave /\ handler[s][g].message.id = u => handler'[s][g] = handler[s][g]
      BY <2>3, <1>1, <1>2, <1>7
    <3> QED
      BY <2>1, <3>1, <1>6 DEF Awaited
  <2> QED
    BY <2>2, <2>3
<1> QED
  BY <1>8, <1>9, <1>10

LEMMA HandlerStepAwaited ==
    ASSUME AwaitedInv, NEW q \in Subscribers, NEW h \in Handler,
           HandlerSave(q, h) \/ HandlerFails(q, h)
    PROVE  AwaitedInv'
<1>1. faults' \in 0..MaxFaults
  <2>1. faults \in 0..MaxFaults
    BY DEF AwaitedInv, ProcessTypeOK
  <2>2. UNCHANGED faults \/ Fault
    BY DEF HandlerSave, HandlerFails
  <2> QED
    BY VideoclipAssumption, <2>1, <2>2 DEF Fault
<1>2. handler[q][h] # NoSave /\ HandlerEnds(q, h)
  BY DEF HandlerSave, HandlerFails
<1>3. \/ HandlerUpserts(handler[q][h]) /\ Acked
      \/ /\ UNCHANGED processes \/ HandlerUpserts(handler[q][h])
         /\ Redelivered(handler[q][h].message) \/ Thrown(handler[q][h].message)
  BY DEF HandlerSave, HandlerFails
<1> QED
  BY <1>1, <1>2, <1>3, HandlerEndsAwaited

LEMMA NextAwaited == AwaitedInv /\ [ProcessNext]_processVars => AwaitedInv'
<1> SUFFICES ASSUME AwaitedInv, [ProcessNext]_processVars PROVE AwaitedInv'
  OBVIOUS
<1>1. ASSUME NEW c \in Slot, Save(c) \/ CallFails(c) PROVE AwaitedInv'
  BY <1>1, SaveAwaited, CallFailsAwaited
<1>2. ASSUME NEW c \in Slot, NEW s \in SongId, Cancel(c, s) PROVE AwaitedInv'
  BY <1>2, CancelBegins, BeginAwaited DEF AwaitedInv
<1>3. ASSUME NEW c \in Slot, NEW p \in Id, NEW s \in SongId, Request(c, p, s) PROVE AwaitedInv'
  BY <1>3, RequestBegins, BeginAwaited DEF AwaitedInv
<1>4. ASSUME NEW s \in SongId, SongRemoved(s) PROVE AwaitedInv'
  BY <1>4, SongRemovedAwaited
<1>5. ASSUME NEW p \in Id, NEW o \in Outcomes, WorkerAnswers(p, o) PROVE AwaitedInv'
  BY <1>5, WorkerAnswersAwaited
<1>6. ASSUME NEW m \in Messages, Refuse(m) \/ \E q \in Subscribers, h \in Handler : Handle(q, h, m)
      PROVE  AwaitedInv'
  BY <1>6, RefuseAwaited, HandleAwaited
<1>7. ASSUME NEW q \in Subscribers, NEW h \in Handler, HandlerSave(q, h) \/ HandlerFails(q, h)
      PROVE  AwaitedInv'
  BY <1>7, HandlerStepAwaited
<1>8. CASE UNCHANGED processVars
  BY <1>8 DEF processVars, AwaitedInv, ProcessTypeOK, HandlersEnd, ActiveIsAwaited, Awaited
<1> QED
  BY <1>1, <1>2, <1>3, <1>4, <1>5, <1>6, <1>7, <1>8 DEF ProcessNext, Environment

\* An active process is never left without anybody to end it: its request is
\* with the worker, or an answer waits or is being saved, unless the handlers
\* of an answer threw until it became a dead letter.
THEOREM ActiveProcessesAreAwaited == ProcessSpec => []ActiveIsAwaited
<1>1. AwaitedInv => ActiveIsAwaited
  BY DEF AwaitedInv
<1> QED
  BY InitAwaited, NextAwaited, <1>1, PTL DEF ProcessSpec

-----------------------------------------------------------------------------
(* One active process for each song, if its requests do not overlap.       *)

LEMMA SerialIsNext == SerialNext => ProcessNext
BY DEF SerialNext, SerialRequest, ProcessNext

\* A step that makes no process active and begins no request.
LEMMA NothingBecomesActive ==
    ASSUME OneRequest, OneActive,
           \A p \in Id : IsActive(processes'[p]) => processes'[p] = processes[p],
           \A c \in Slot, s \in SongId : Requests(c, s)' => Requests(c, s)
    PROVE  OneRequest' /\ OneActive'
BY DEF OneRequest, OneActive, ActiveIn, IsActive

\* A call that ends requests nothing more, and the others go on.
LEMMA CallEnds ==
    ASSUME ProcessTypeOK, NEW c \in Slot, call' = [call EXCEPT ![c] = NoSave]
    PROVE  /\ \A s \in SongId : ~Requests(c, s)'
           /\ \A d \in Slot, s \in SongId : d # c => Requests(d, s)' = Requests(d, s)
BY IdleSave, CallStays DEF Requests, IsActive

LEMMA BeginSerial ==
    ASSUME ProcessTypeOK, NEW c \in Slot, NEW p \in Id, NEW r \in Processes, Prepare(c, p, r)
    PROVE  /\ \A s \in SongId : Requests(c, s)' <=> IsActive(r) /\ r.song = s
           /\ \A d \in Slot, s \in SongId : d # c => Requests(d, s)' = Requests(d, s)
<1> DEFINE k == [at |-> "save", id |-> p, row |-> r]
<1>1. k \in Saves /\ k # NoSave /\ k.row = r /\ call' = [call EXCEPT ![c] = k]
  BY NewSave DEF Prepare
<1> HIDE DEF k
<1>2. call'[c] = k /\ \A d \in Slot : d # c => call'[d] = call[d]
  BY <1>1, CallStays
<1> QED
  BY <1>1, <1>2 DEF Requests, IsActive

LEMMA RequestSerial ==
    ASSUME ProcessTypeOK, OneRequest, OneActive, NEW c \in Slot, NEW p \in Id, NEW s \in SongId,
           SerialRequest(c, p, s)
    PROVE  OneRequest' /\ OneActive'
<1>1. Request(c, p, s) /\ \A d \in Slot : ~Requests(d, s)
  BY DEF SerialRequest
<1>2. PICK r \in Processes : r.song = s /\ Prepare(c, p, r)
  BY <1>1, RequestBegins
<1>3. UNCHANGED processes /\ ActiveIn(s) = {}
  BY <1>1, <1>2 DEF Prepare, Request
<1>4. /\ \A u \in SongId : Requests(c, u)' => u = s
      /\ \A d \in Slot, u \in SongId : d # c => Requests(d, u)' = Requests(d, u)
  BY <1>2, BeginSerial
<1>5. \A u \in SongId : ActiveIn(u)' = ActiveIn(u)
  BY <1>3 DEF ActiveIn
<1>6. OneActive'
  BY <1>5 DEF OneActive
<1>7. OneRequest'
  <2> SUFFICES ASSUME NEW u \in SongId, NEW d \in Slot, Requests(d, u)'
               PROVE  ActiveIn(u)' = {} /\ \A e \in Slot : Requests(e, u)' => d = e
    BY DEF OneRequest
  <2>1. CASE u = s
    BY <2>1, <1>1, <1>3, <1>4, <1>5
  <2>2. CASE u # s
    BY <2>2, <1>4, <1>5 DEF OneRequest
  <2> QED
    BY <2>1, <2>2
<1> QED
  BY <1>6, <1>7

LEMMA SaveSerial ==
    ASSUME ProcessTypeOK, OneRequest, OneActive, NEW c \in Slot, Save(c)
    PROVE  OneRequest' /\ OneActive'
<1>1. call[c] # NoSave /\ call[c].id \in Id /\ call[c].row \in Processes
  BY SaveShape DEF Save, ProcessTypeOK
<1>2. /\ \A s \in SongId : ~Requests(c, s)'
      /\ \A d \in Slot, s \in SongId : d # c => Requests(d, s)' = Requests(d, s)
  BY CallEnds DEF Save
<1>3. CASE UNCHANGED processes
  BY <1>2, <1>3, NothingBecomesActive
<1>4. CASE Upsert(call[c].id, call[c].row)
  <2>1. PICK p \in Id, r \in Processes : p = call[c].id /\ r = call[c].row
    BY <1>1
  <2>2. processes'[p] = r /\ \A q \in Id : q # p => processes'[q] = processes[q]
    BY <1>4, <2>1, UpsertRows
  <2>3. CASE ~IsActive(r)
    <3>1. \A q \in Id : IsActive(processes'[q]) => processes'[q] = processes[q]
      BY <2>2, <2>3
    <3> QED
      BY <1>2, <3>1, NothingBecomesActive
  <2>4. CASE IsActive(r)
    <3>1. r.song \in SongId /\ Requests(c, r.song)
      BY <1>1, <2>1, <2>4, ProcessShape DEF Requests
    <3>2. ActiveIn(r.song) = {} /\ \A d \in Slot : Requests(d, r.song) => c = d
      BY <3>1 DEF OneRequest
    <3>3. \A s \in SongId : ActiveIn(s)' = IF s = r.song THEN {p} ELSE ActiveIn(s) \ {p}
      <4>1. \A q \in Id, s \in SongId :
               IsActive(processes'[q]) /\ processes'[q].song = s <=>
                 IF s = r.song THEN q = p ELSE IsActive(processes[q]) /\ processes[q].song = s /\ q # p
        BY <2>2, <2>4, <3>2 DEF ActiveIn
      <4> QED
        BY <4>1 DEF ActiveIn, IsActive
    <3>4. OneActive'
      BY <3>3 DEF OneActive
    <3>5. OneRequest'
      <4> SUFFICES ASSUME NEW s \in SongId, NEW d \in Slot, Requests(d, s)'
                   PROVE  ActiveIn(s)' = {} /\ \A e \in Slot : Requests(e, s)' => d = e
        BY DEF OneRequest
      <4>1. d # c /\ Requests(d, s)
        BY <1>2
      <4>2. s # r.song /\ ActiveIn(s) = {} /\ \A e \in Slot : Requests(e, s) => d = e
        BY <3>2, <4>1 DEF OneRequest
      <4> QED
        BY <1>2, <3>3, <4>2
    <3> QED
      BY <3>4, <3>5
  <2> QED
    BY <2>3, <2>4
<1> QED
  BY <1>3, <1>4 DEF Save

LEMMA NextSerial == SerialInv /\ [SerialNext]_processVars => SerialInv'
<1> SUFFICES ASSUME SerialInv, [SerialNext]_processVars PROVE SerialInv'
  OBVIOUS
<1> USE DEF SerialInv
<1>1. AwaitedInv'
  BY NextAwaited, SerialIsNext
<1>2. ProcessTypeOK
  BY DEF AwaitedInv
<1>3. ASSUME UNCHANGED processes, UNCHANGED call PROVE OneRequest' /\ OneActive'
  BY <1>3 DEF OneRequest, OneActive, ActiveIn, Requests
<1>4. ASSUME NEW c \in Slot, CallFails(c) PROVE OneRequest' /\ OneActive'
  <2>1. \A d \in Slot, s \in SongId : Requests(d, s)' => Requests(d, s)
    BY <1>2, <1>4, CallEnds DEF CallFails
  <2> QED
    BY <1>4, <2>1, NothingBecomesActive DEF CallFails
<1>5. ASSUME NEW c \in Slot, NEW s \in SongId, Cancel(c, s) PROVE OneRequest' /\ OneActive'
  <2>1. PICK p \in Id, r \in Processes : ~IsActive(r) /\ Prepare(c, p, r)
    BY <1>2, <1>5, CancelBegins
  <2>2. \A d \in Slot, u \in SongId : Requests(d, u)' => Requests(d, u)
    BY <1>2, <2>1, BeginSerial
  <2> QED
    BY <2>1, <2>2, NothingBecomesActive DEF Prepare
<1>6. ASSUME NEW s \in SongId, SongRemoved(s) PROVE OneRequest' /\ OneActive'
  <2>1. \A p \in Id : IsActive(processes'[p]) => processes'[p] = processes[p]
    BY <1>2, <1>6, RemovedRows
  <2>2. \A c \in Slot, u \in SongId : Requests(c, u)' => Requests(c, u)
    BY <1>6 DEF SongRemoved, Requests
  <2> QED
    BY <2>1, <2>2, NothingBecomesActive
<1>7. ASSUME NEW q \in Subscribers, NEW h \in Handler, HandlerSave(q, h) \/ HandlerFails(q, h)
      PROVE  OneRequest' /\ OneActive'
  <2>1. PICK p \in Id, r \in Processes :
           /\ p = handler[q][h].message.id /\ r = handler[q][h].row
           /\ r.status \in Outcomes
    <3>1. handler[q][h] # NoSave
      BY <1>7 DEF HandlerSave, HandlerFails
    <3>2. handler[q][h] \in Works
      BY <1>2 DEF ProcessTypeOK
    <3>3. handler[q][h].message \in Messages /\ handler[q][h].row \in Processes
      BY <3>1, <3>2, WorkShape
    <3>4. handler[q][h].row.status = handler[q][h].message.outcome
      BY <3>1 DEF AwaitedInv, HandlersEnd
    <3> QED
      BY <3>3, <3>4, MessageShape
  <2>2. UNCHANGED processes \/ Upsert(p, r)
    BY <1>7, <2>1 DEF HandlerSave, HandlerFails, HandlerUpserts
  <2>3. ~IsActive(r)
    BY <2>1, OutcomeEnds
  <2>4. \A u \in Id : IsActive(processes'[u]) => processes'[u] = processes[u]
    BY <1>2, <2>2, <2>3, UpsertRows
  <2>5. \A c \in Slot, u \in SongId : Requests(c, u)' => Requests(c, u)
    BY <1>7 DEF HandlerSave, HandlerFails, HandlerEnds, Requests
  <2> QED
    BY <2>4, <2>5, NothingBecomesActive
<1>8. ASSUME NEW p \in Id, NEW o \in Outcomes, WorkerAnswers(p, o)
      PROVE  OneRequest' /\ OneActive'
  BY <1>3, <1>8 DEF WorkerAnswers
<1>9. ASSUME NEW m \in Messages, Refuse(m) \/ \E q \in Subscribers, h \in Handler : Handle(q, h, m)
      PROVE  OneRequest' /\ OneActive'
  BY <1>3, <1>9 DEF Refuse, Handle
<1>10. ASSUME UNCHANGED processVars PROVE OneRequest' /\ OneActive'
  BY <1>3, <1>10 DEF processVars
<1>11. OneRequest' /\ OneActive'
  BY <1>2, <1>4, <1>5, <1>6, <1>7, <1>8, <1>9, <1>10, SaveSerial, RequestSerial DEF SerialNext, Environment
<1> QED
  BY <1>1, <1>11

LEMMA InitSerial == ProcessInit => SerialInv
BY InitAwaited DEF ProcessInit, SerialInv, OneRequest, OneActive, ActiveIn, Requests, IsActive, NoRow

\* The types, the awaited processes and, when the requests of a song do not
\* overlap, its one active process: the invariant the runs check.
THEOREM InvariantCorrect == SerialSpec => []SerialInv
BY InitSerial, NextSerial, PTL DEF SerialSpec

\* A song has one active process at most, if its requests do not overlap.
THEOREM SongsHaveOneProcess == SerialSpec => []OneActive
<1>1. SerialInv => OneActive
  BY DEF SerialInv
<1> QED
  BY InvariantCorrect, <1>1, PTL

===============================================================================
