------------------------------ MODULE MCCatalogue ------------------------------
(***************************************************************************)
(* Instances of Catalogue for TLC: criteria that try to leave the scope,   *)
(* that have two filters on one column, that ask for more than a page, for *)
(* less than one row, for what no table has.                               *)
(***************************************************************************)
EXTENDS Catalogue

Rock == {"rock"}
RockBallad == {"rock", "ballad"}
AllTexts == {Rock, RockBallad}

OneEach == [b \in Band |-> IF b = "b1" THEN {"m1"} ELSE {"m2"}]

OneSong ==
    [s \in Song |-> IF s = "s1" THEN [band |-> "b1", title |-> RockBallad, url |-> "u1", duration |-> Null]
                               ELSE NoSong]

\* Pages that say both durations, one of them, none.
AllPages ==
    [u \in Url |->
        {[lengthSeconds |-> 1, iso8601 |-> 2], [lengthSeconds |-> 0, iso8601 |-> 3],
         [lengthSeconds |-> 0, iso8601 |-> 0]}]

F(field, operator, v) == [field |-> field, operator |-> operator, values |-> {v}, array |-> FALSE]
Fs(field, operator, vs) == [field |-> field, operator |-> operator, values |-> vs, array |-> TRUE]
Ask(filters) == [filters |-> filters, limit |-> <<>>, offset |-> <<>>]

Length == "originalVideoClipDurationSeconds"

\* Refused: less than one row, no such operator, an empty array.
Everywhere ==
    {Ask(<<>>),
     [filters |-> <<>>, limit |-> <<9>>, offset |-> <<1>>],
     [filters |-> <<>>, limit |-> <<0>>, offset |-> <<>>],
     Ask(<<F("_id", "LIKE", "b1")>>),
     Ask(<<Fs("_id", "EQUAL", {})>>)}

AllRequested ==
    [bands |-> Everywhere \cup
        {Ask(<<F("userId", "NOT_EQUAL", "m0")>>),
         Ask(<<F("members", "EQUAL", "m1")>>),
         Ask(<<F("id", "EQUAL", "b1"), F("_id", "NOT_EQUAL", "b1")>>)},
     songs |-> Everywhere \cup
        {Ask(<<Fs("bandId", "EQUAL", Band), F("title", "NOT_CONTAINS", {"ballad"})>>),
         Ask(<<F(Length, "GT", 0), F(Length, "LT", 2)>>),
         Ask(<<F(Length, "NOT_EQUAL", 3)>>)},
     parts |-> {Ask(<<>>), Ask(<<F("songId", "NOT_EQUAL", "s0")>>), Ask(<<F("songId", "EQUAL", "s1")>>)},
     instruments |->
        {Ask(<<F("name", "CONTAINS", {"ballad"}), F("description", "EQUAL", Rock)>>)}]

=============================================================================
