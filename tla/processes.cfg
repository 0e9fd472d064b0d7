SPECIFICATION FairSpec
CONSTANTS
    Jobs = {j1, j2}
    Pids = {p1, p2}
    ForeignPids = {p1}
    Stranger = Stranger
    NoPid = NoPid
    MaxCrashes = 2
    MaxSaveErrors = 1
INVARIANTS
    TypeOK
    ChildPidIsOwn
    CompletedIsTrue
    JobsTracked
    SavedJobsSurvive
PROPERTIES
    ImplementsRecords
    ExitIsNoticed
    StopsWhenIdle
