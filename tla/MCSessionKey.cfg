CONSTANTS
    Servers = {s1, s2}
    Keys = {k1, k2, k3, k4}
    Part = Part
    MaxStarts = 6
    PowerLossPossible = TRUE
    None = None
SYMMETRY Symmetry
SPECIFICATION Spec
INVARIANTS
    TypeOK
    NeverSignsWithPart
    TokensSurvive
PROPERTY
    KeyIsStable
CHECK_DEADLOCK FALSE
