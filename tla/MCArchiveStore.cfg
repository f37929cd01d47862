SPECIFICATION Spec
CONSTANTS
    Upload = {u1, u2, u3}
    NoFile = NoFile
    Target <- TwoClips
    Probe = {"test"}
    Offset = {0, 1, 2}
    MaxBlocks = 2
    Encryption = FALSE
    CheckErrors = TRUE
    ExclusiveUploads = TRUE
    Cleanup = FALSE
    Retention = 1
    StagingTTL = 0
    QuarantineTTL = 0
    MaxAge = 2
SYMMETRY Symmetry
INVARIANTS
    ClipsWhole
    StoreInv
PROPERTIES
    FinalImmutable
    ImplementsAppendOnly
