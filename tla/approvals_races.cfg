SPECIFICATION Spec
CONSTANTS
    Names = {"a"}
    Contents = {"v1", "v2"}
    Metas = {"m1"}
    Packages <- MetaPackages
    AutoNames = {"a"}
    MaxErrors = 1
    MaxFailures = 1
    Clis = {"cli"}
    NoMd5 = NoMd5
    NoFile = NoFile
    Partial = Partial
INVARIANTS
    TypeOK
    StoresWellFormed
    ApprovalsGranted
    
PROPERTIES
    OnlyGrantedLaunches
