SPECIFICATION Spec
CONSTANTS
    Sections = {s1}
    Drafted = {s1}
    RequirePlanApproval = FALSE
    Work <- FullWork
    Chunks = 1
    MaxLosses = 1
INVARIANTS
    RebuiltAfterReconnect
CHECK_DEADLOCK FALSE
