SPECIFICATION Spec
CONSTANTS
    Sections = {s1}
    Drafted = {s1}
    RequirePlanApproval = TRUE
    Work <- SomeWork
    Chunks = 2
    MaxLosses = 1
INVARIANTS
    TypeOK
    ReportIsWhatWasSeen
    CaughtUpAgrees
    DownloadsWholeReport
    CancelledHasEnded
PROPERTIES
    DraftOutlivesCard
CHECK_DEADLOCK FALSE
