SPECIFICATION Spec
CONSTANTS
    Root <- MCRoot
    All = All
    None = None
    Unquote <- MCUnquote
    Unreadable = Unreadable
    Job = {j1, j2}
    MaxShort = 3
    Request <- MCRequest
    Password = {"p0", "p1", "p2"}
    Key = {k1, k2}
    FirstKey = k1
    IdentityPath = {i1, i2}
    FirstPath = i1
    Clip = {c1}
    Blocks = 1
    Batch <- MCBatch
    FirstLines <- MCFirstLines
SYMMETRY Symmetry
CONSTRAINT OneAtATime
INVARIANTS
    OperationsTypeOK
    
    FootageRecoverable
    NoPartialPlaintext
PROPERTIES
    AccountsKept
