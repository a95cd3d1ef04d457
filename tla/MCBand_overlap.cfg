CONSTANTS
    Musician = {m1, m2, m3}
    Instrument = {i1, i2}
    Slot = {c1, c2}
    MaxCalls = 7
    MaxFaults = 1
    Nobody = Nobody

SPECIFICATION Spec
SYMMETRY Symmetry
CHECK_DEADLOCK FALSE

INVARIANTS BandInv AssignedBelong
