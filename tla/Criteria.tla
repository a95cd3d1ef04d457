-------------------------------- MODULE Criteria --------------------------------
(***************************************************************************)
(* Criteria of the lists: what a client asks for, what is refused, the     *)
(* scopes that are put on top, and the WHERE clause that comes of it.      *)
(*                                                                         *)
(* A criteria of a client is [filters |-> a sequence, limit, offset],      *)
(* where limit and offset are <<>> when they are not given.  A filter is   *)
(*   [field, operator, values, array]                                      *)
(* with one value when it is no array.  Whatever is missing or has another *)
(* type makes the criteria invalid, and stands for itself as an operator   *)
(* that does not exist, a limit of zero or an empty array.                 *)
(*                                                                         *)
(* Cells: a number, a name, or a text as the set of its words.  The case   *)
(* of letters and the order of the rows are left out.                      *)
(***************************************************************************)
EXTENDS Integers, SequencesExt

CONSTANTS
    DefaultLimit,
    MaxLimit

ASSUME LimitAssumption ==
    /\ DefaultLimit \in Nat \ {0}
    /\ MaxLimit \in Nat
    /\ DefaultLimit <= MaxLimit

Null == 0   \* a nullable number without a value

Operator == {"EQUAL", "NOT_EQUAL", "GT", "LT", "CONTAINS", "NOT_CONTAINS"}

-----------------------------------------------------------------------------
(* What the client sends.                                                  *)

\* ensureIsValidFilterValue: an array is not empty, and of one type
IsValue(f) == f.values # {}

\* Filter.fromValues
IsFilter(f) == f.operator \in Operator /\ IsValue(f)

\* sanitizeLimit and sanitizeOffset throw
IsLimit(l) == l # <<>> => l[1] >= 1
IsOffset(o) == o # <<>> => o[1] >= 0

\* sanitizeLimit and sanitizeOffset
Limit(l) == IF l = <<>> THEN DefaultLimit ELSE IF l[1] > MaxLimit THEN MaxLimit ELSE l[1]
Offset(o) == IF o = <<>> THEN 0 ELSE o[1]

\* queryParamsToCriteria: throws unless the criteria is valid.
IsCriteria(raw) ==
    /\ \A i \in DOMAIN raw.filters : IsFilter(raw.filters[i])
    /\ IsLimit(raw.limit)
    /\ IsOffset(raw.offset)

ToCriteria(raw) ==
    [filters |-> raw.filters, limit |-> Limit(raw.limit), offset |-> Offset(raw.offset)]

-----------------------------------------------------------------------------
(* Scopes.                                                                 *)

Equal(field, v) == [field |-> field, operator |-> "EQUAL", values |-> {v}, array |-> FALSE]

\* Array.filter, on a field
Without(filters, field) ==
    LET kept[i \in 0..Len(filters)] ==
            IF i = 0 THEN <<>>
            ELSE IF filters[i].field = field THEN kept[i - 1]
            ELSE Append(kept[i - 1], filters[i])
    IN  kept[Len(filters)]

\* Mutant: the scope comes first, and the client's filters stay.
ScopedToUserFirst(filters, user, admin) ==
    IF admin THEN filters ELSE <<Equal("userId", user)>> \o filters

\* CriteriaScopeSecurity.apply
ScopedToUser(filters, user, admin) ==
    IF admin THEN filters ELSE Append(Without(filters, "userId"), Equal("userId", user))

\* SongInstrumentMatcher.applySongScope
ScopedToSong(filters, song) == Append(Without(filters, "songId"), Equal("songId", song))

-----------------------------------------------------------------------------
(* PrismaCriteriaConverter                                                 *)

Column(f) == IF f.field = "_id" THEN "id" ELSE f.field

Columns(filters) == {Column(filters[i]) : i \in DOMAIN filters}

\* The filters on a column, by their places.
On(filters, c) == {i \in DOMAIN filters : Column(filters[i]) = c}

\* generateQuery: "where" has one entry per column, so that of several
\* filters on a column the last one stays.
Where(filters) ==
    [c \in Columns(filters) |-> filters[CHOOSE i \in On(filters, c) : \A j \in On(filters, c) : j <= i]]

\* The database: a condition on no value is not met, a negative one neither.
Holds(f, cell) ==
    CASE f.operator = "EQUAL" -> cell \in f.values
      [] f.operator = "NOT_EQUAL" -> cell \notin f.values
      [] f.operator = "GT" -> \A v \in f.values : cell > v
      [] f.operator = "LT" -> \A v \in f.values : cell < v
      [] f.operator = "CONTAINS" -> \A v \in f.values : v \subseteq cell
      [] f.operator = "NOT_CONTAINS" -> \A v \in f.values : ~(v \subseteq cell)

\* A statement fails when a column is not in the table, an array goes with
\* an operator for one value, and text is searched where there is none.
CanAsk(where, texts, others) ==
    /\ DOMAIN where \subseteq texts \cup others
    /\ \A c \in DOMAIN where :
          /\ where[c].array => where[c].operator \in {"EQUAL", "NOT_EQUAL"}
          /\ where[c].operator \in {"CONTAINS", "NOT_CONTAINS"} => c \in texts

MeetsAll(where, row) ==
    \A c \in DOMAIN where :
        /\ c = "originalVideoClipDurationSeconds" => row[c] # Null
        /\ Holds(where[c], row[c])

\* convert: skip and take.
PageSize(n, criteria) ==
    LET left == IF n > criteria.offset THEN n - criteria.offset ELSE 0
    IN  IF left > criteria.limit THEN criteria.limit ELSE left

-----------------------------------------------------------------------------
(* The reference: a row is asked for when it meets every filter.           *)

AsksFor(filters, row) ==
    \A i \in DOMAIN filters :
        LET c == Column(filters[i])
        IN  /\ c = "originalVideoClipDurationSeconds" => row[c] # Null
            /\ Holds(filters[i], row[c])

OneFilterPerColumn(filters) ==
    \A i, j \in DOMAIN filters : Column(filters[i]) = Column(filters[j]) => i = j

=============================================================================
