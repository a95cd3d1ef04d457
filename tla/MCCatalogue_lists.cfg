CONSTANTS
    DefaultLimit = 1
    MaxLimit = 1
    Band = {"b1", "b2"}
    Musician = {"m1", "m2"}
    Song = {"s1", "s2"}
    Instrument = {"i1"}
    Part = {"p1"}
    Url = {"u1", "u2"}
    YouTube = {"u1"}
    Pages <- AllPages
    Texts <- AllTexts
    Requested <- AllRequested
    Members0 <- OneEach
    Songs0 <- OneSong
    Reader = {"q1"}
    Writer = {"c1", "c2"}
    MaxRequests = 2
    MaxChanges = 1

SPECIFICATION Spec
CHECK_DEADLOCK FALSE

INVARIANTS CatalogueInv AnswersStayInScope PagesAgree
PROPERTIES SongsStay
