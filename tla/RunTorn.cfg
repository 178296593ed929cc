SPECIFICATION Spec
CONSTANTS
    Sections = {s1, s2}
    SectionConcurrency = 2
    RequirePlanApproval = FALSE
    Subscribers = {u1}
    Cancels = {}
    Submits = {}
    Engine = Engine
    MaxRestarts = 0
    s1 = s1
    s2 = s2
    u1 = u1
INVARIANTS
    NothingMissedLive
