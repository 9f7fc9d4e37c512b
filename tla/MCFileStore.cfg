CONSTANTS
    Ids = {i1, i2}
    Users = {u1, u2}
    Authenticators = {a1}
    Counts = {0, 1}
    NoCred = NoCred
    Threads = {t1, t2}
    MaxWrites = 3
    MaxCrashes = 1
    PowerLossPossible = FALSE
    Torn = Torn
    None = None
SYMMETRY Symmetry
SPECIFICATION Spec
INVARIANTS
    TypeOK
    NoLostUpdate
    AckedWritesSurvive
PROPERTIES
    ImplementsMap
