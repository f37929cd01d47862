SPECIFICATION Spec
CONSTANTS
    Upload = {u1, u2, u3}
    NoFile = NoFile
    Target <- ClipAndProbe
    Probe = {"test"}
    Offset = {0, 1}
    MaxBlocks = 2
    Encryption = TRUE
    CheckErrors = TRUE
    ExclusiveUploads = TRUE
    Cleanup = FALSE
    Retention = 1
    StagingTTL = 0
    QuarantineTTL = 0
    MaxAge = 2
SYMMETRY Symmetry
PROPERTIES
    AcknowledgedIsStored
    SettledClipsImmutable
