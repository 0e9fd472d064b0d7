CHECK_DEADLOCK FALSE
SPECIFICATION FairSpec
CONSTANTS
    Names = {"a"}
    Versions = {"v1", "v2"}
    Submissions = {s1}
    Pages = {p1}
    NoMd5 = NoMd5
    NoScript = NoScript
    NoRow = NoRow
    MaxChanges = 2
INVARIANTS
    TypeOK
PROPERTIES
    ApiRunsCurrentVersion
    CacheConverges
