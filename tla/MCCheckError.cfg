SPECIFICATION Spec
CONSTANTS
    Upload = {u1, u2}
    NoFile = NoFile
    Target <- DayClip
    Probe = {"test"}
    Offset = {0}
    MaxBlocks = 1
    Encryption = TRUE
    CheckErrors = TRUE
    ExclusiveUploads = TRUE
    Cleanup = FALSE
    Retention = 1
    StagingTTL = 0
    QuarantineTTL = 0
    MaxAge = 2
PROPERTIES
    FinalImmutable
