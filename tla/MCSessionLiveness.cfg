SPECIFICATION FairSpec
CONSTANTS
    cam = cam
    eve = eve
    Account = {cam, eve}
    Session = {s1, s2}
    Nobody = Nobody
    NoCap = NoCap
    BadFile = BadFile
    TTL = 1
    U32Max = 3
    Limit <- MCLimit
    Config <- MCShrinkingConfig
    ShortSessions = FALSE
INVARIANTS
    SessionsTypeOK
    GlobalIsSum
    OldestFirst
PROPERTIES
    TrackerSpec
    CapsNeverWedge
    ReloadTakesEffect
