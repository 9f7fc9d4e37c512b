CONSTANTS
    Servers = {s1}
    Keys = {k1, k2, k3}
    Part = Part
    MaxStarts = 4
    PowerLossPossible = FALSE
    None = None
SYMMETRY Symmetry
SPECIFICATION Spec
INVARIANT
    KeyFileIsUsable
CHECK_DEADLOCK FALSE
