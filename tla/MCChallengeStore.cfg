CONSTANTS
    Names = {n1}
    Challenges = {c1, c2, c3}
    Threads = {t1, t2}
    TTL = 1
    MaxTime = 3
    None = None
SYMMETRY Symmetry
SPECIFICATION Spec
INVARIANTS
    TypeOK
    SingleUse
    SweptAtLastIssue
PROPERTIES
    AcceptsOnlyItsOwn
    ImplementsTokens
