SPECIFICATION AloneSpec
CONSTANTS
    Names = {"a"}
    Contents = {"v1", "v2"}
    Metas = {"m1"}
    Packages <- PlainPackages
    AutoNames = {}
    MaxErrors = 0
    MaxFailures = 0
    Clis = {"cli"}
    NoMd5 = NoMd5
    NoFile = NoFile
    Partial = Partial
PROPERTIES
    RejectionHolds
