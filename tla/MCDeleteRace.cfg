CONSTANTS
    u1 = u1  u2 = u2  f1 = f1
    a1 = a1  a2 = a2
    i1 = i1  i2 = i2
    Users <- MCUsers
    Names <- MCUsers
    Authenticators <- MCAuthenticators
    Ids <- SoleIds
    Challenges = {c1, c2}
    Threads = {t1, t2}
    Counts = {0}
    TTL = 1
    MaxTime = 1
    SessionTTL = 1
    SessionKeyFile = TRUE
    Floors = {"preferred"}
    Attestations <- IdentityAttestations
    Assertions <- IdentityAssertions
    None = None
    NoCred = NoCred
SYMMETRY IdentitySymmetry
SPECIFICATION RPSpec
PROPERTY
    OnlyOwnersDelete
