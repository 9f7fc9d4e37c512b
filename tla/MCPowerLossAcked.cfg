CONSTANTS
    Ids = {i1, i2}
    Users = {u1}
    Authenticators = {a1}
    Counts = {0}
    NoCred = NoCred
    Threads = {t1, t2}
    MaxWrites = 3
    MaxCrashes = 2
    PowerLossPossible = TRUE
    Torn = Torn
    None = None
SYMMETRY Symmetry
SPECIFICATION Spec
INVARIANT
    AckedWritesSurvive
