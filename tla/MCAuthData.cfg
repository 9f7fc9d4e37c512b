SPECIFICATION SpecParser
CONSTANTS
    MaxDepth = 2
    MaxElements = 5
    MaxInputSize = 272
    Inputs <- ObjectInputs
    AuthDataInputs <- ParserInputs
    None = None
INVARIANTS
    AcceptsOnlyBuilt
    RefusesOnlyUnbuilt
    StoredKeyLoads
    WorkIsBounded
    AcceptsCanonical
    RefusesOnlyIllegal
    NoKeyTwice
