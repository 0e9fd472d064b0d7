SPECIFICATION SerialSpec
CONSTANTS
    Names = {"a"}
    Contents = {"v1", "v2"}
    Metas = {"m1"}
    Packages <- MetaPackages
    AutoNames = {"a"}
    MaxErrors = 0
    MaxFailures = 2
    Clis = {"cli"}
    NoMd5 = NoMd5
    NoFile = NoFile
    Partial = Partial
INVARIANTS
    SyncSeesDisk
    NeverPartial
    ApprovedMatchesContent
PROPERTIES
    ImplementsProtocol
    ClearResets
