CONSTANTS
    UserId = {u1, u2}
    Email = {e1, e2}
    Password = {p1, p2}
    MusicianId = {m1, m2}
    Username = {n1, n2}
    Slot = {c1, c2}
    MaxCalls = 8

SPECIFICATION FreshSpec
SYMMETRY Symmetry
CHECK_DEADLOCK FALSE

INVARIANTS AccountsInv
PROPERTIES EntriesStay
