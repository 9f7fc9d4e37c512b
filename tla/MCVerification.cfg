CONSTANTS
    i1 = i1
    None = None
    RPID = "example.com"
    Floor = "preferred"
    Pages <- MCPages
    Origins <- MCOrigins
    Names = {n1}
    Ids = {i1}
    Challenges = {c1, c2, c3}
    Authenticators <- MCAuthenticators
    OtherClientData <- OddClientData
    OtherAttestations <- OddAttestations
    OtherAuthData <- OddAuthData
    Overrides = {""}
    MaxCount = 3
    MaxSigned = 2
SYMMETRY MCSymmetry
SPECIFICATION Spec
INVARIANTS
    SessionsAreSigned
    HonestCeremoniesSucceed
    OneSessionPerSignature
    SelfAttestedKeysAreHeld
    CounterAlarmIsGenuine
CHECK_DEADLOCK FALSE
