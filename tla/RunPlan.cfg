SPECIFICATION Spec
CONSTANTS
    Sections = {s1, s2}
    SectionConcurrency = 1
    RequirePlanApproval = TRUE
    Subscribers = {u1}
    Cancels = {}
    Submits = {m1, m2}
    Engine = Engine
    MaxRestarts = 0
    s1 = s1
    s2 = s2
    u1 = u1
    m1 = m1
    m2 = m2
SYMMETRY Symmetry
INVARIANTS
    DoneIsComplete
    ApprovedIsResearched
