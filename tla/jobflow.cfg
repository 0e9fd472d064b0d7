SPECIFICATION FairSpec
CONSTANTS
    Jobs = {j1}
    Clients = {c1, c2}
    NoRow = NoRow
INVARIANTS
    TypeOK
    FinalRowsAreTrue
    RefusedNeverRuns
    AuditIsTrue
PROPERTIES
    EndStaysRecorded
    JobsSettle
