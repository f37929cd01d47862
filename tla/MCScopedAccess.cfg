SPECIFICATION Spec
CONSTANTS
    Session = {s1, s2}
    File <- MCFile
    Root <- MCRoot
    Name <- MCName
    Staged = {"partial"}
    Quarantine = "quarantine"
    Probe = {"test"}
    FinalName <- MCFinalName
    StagingName <- MCStagingName
    VirtualPath <- MCVirtualPath
    Node <- MCNode
    StartDirs <- MCStartDirs
    StartFiles <- MCStartFiles
    LinkSets <- MCLinkSets
    All = All
    None = None
SYMMETRY Sessions
INVARIANTS
    NoAccountShadowed
    AccessInScope
    ListingRoundTrip
