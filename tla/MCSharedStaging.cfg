SPECIFICATION Spec
CONSTANTS
    Upload = {u1, u2}
    NoFile = NoFile
    Target <- OneClip
    Probe = {"test"}
    Offset = {0, 1, 2}
    MaxBlocks = 2
    Encryption = FALSE
    CheckErrors = FALSE
    ExclusiveUploads = FALSE
    Cleanup = FALSE
    Retention = 1
    StagingTTL = 0
    QuarantineTTL = 0
    MaxAge = 2
PROPERTIES
    FinalImmutable
