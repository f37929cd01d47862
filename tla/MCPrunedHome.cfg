SPECIFICATION Spec
CONSTANTS
    Upload = {u1, u2}
    NoFile = NoFile
    Target <- OneClip
    Probe = {"test"}
    Offset = {0}
    MaxBlocks = 2
    Encryption = FALSE
    CheckErrors = FALSE
    ExclusiveUploads = TRUE
    Cleanup = TRUE
    Retention = 1
    StagingTTL = 0
    QuarantineTTL = 0
    MaxAge = 2
INVARIANTS
    UploadsFindTheirHome
