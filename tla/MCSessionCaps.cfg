SPECIFICATION Spec
CONSTANTS
    cam = cam
    eve = eve
    Account = {cam, eve}
    Session = {s1, s2, s3}
    Nobody = Nobody
    NoCap = NoCap
    BadFile = BadFile
    TTL = 2
    U32Max = 3
    Limit <- MCLimit
    Config <- MCConfig
    ShortSessions = TRUE
SYMMETRY Symmetry
INVARIANTS
    FreshSessionsCounted
    ConfigCoherent
PROPERTIES
    AdmissionWithinCaps
