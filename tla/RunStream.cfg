SPECIFICATION Spec
CONSTANTS
    Sections = {s1, s2}
    SectionConcurrency = 2
    RequirePlanApproval = FALSE
    Subscribers = {u1}
    Cancels = {c1}
    Submits = {}
    Engine = Engine
    MaxRestarts = 0
    s1 = s1
    s2 = s2
    u1 = u1
    c1 = c1
SYMMETRY Symmetry
INVARIANTS
    TypeOK
    OneWriter
    SentWasPersisted
    SentInOrder
    DoneStreamComplete
    ClosedStreamHasVerdict
    RowMatchesLog
