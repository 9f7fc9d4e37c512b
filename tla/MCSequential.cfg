CONSTANTS
    u1 = u1  u2 = u2  f1 = f1
    a1 = a1  a2 = a2
    i1 = i1  i2 = i2
    Users <- SoleUsers
    Names <- SoleNames
    Authenticators <- SoleAuthenticators
    Ids <- SoleIds
    Challenges = {c1, c2}
    Threads = {t1}
    Counts = {0, 1, 2}
    TTL = 1
    MaxTime = 0
    SessionTTL = 1
    SessionKeyFile = FALSE
    Floors = {"discouraged", "preferred", "required"}
    Attestations <- PolicyAttestations
    Assertions <- SequentialAssertions
    None = None
    NoCred = NoCred
SYMMETRY Symmetry
SPECIFICATION RPSpec
PROPERTIES
    CounterNeverRegresses
    UVNeverLoosened
