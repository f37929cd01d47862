SPECIFICATION FairSpec
CONSTANTS
    Upload = {u1, u2}
    NoFile = NoFile
    Target <- ClipAndProbe
    Probe = {"test"}
    Offset = {0}
    MaxBlocks = 1
    Encryption = FALSE
    CheckErrors = TRUE
    ExclusiveUploads = TRUE
    Cleanup = TRUE
    Retention = 1
    StagingTTL = 0
    QuarantineTTL = 0
    MaxAge = 2
INVARIANTS
    ArchiveTypeOK
PROPERTIES
    OnlyExpiredClipsGo
    AcknowledgedIsStored
    ImplementsAppendOnly
    EverythingExpires
