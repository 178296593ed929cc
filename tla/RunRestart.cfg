SPECIFICATION Spec
CONSTANTS
    Sections = {s1}
    SectionConcurrency = 1
    RequirePlanApproval = TRUE
    Subscribers = {u1}
    Cancels = {c1}
    Submits = {m1}
    Engine = Engine
    MaxRestarts = 1
    s1 = s1
    u1 = u1
    c1 = c1
    m1 = m1
SYMMETRY Symmetry
INVARIANTS
    LogContiguous
    OnlyVerdictsAfterVerdict
PROPERTIES
    RowNeverReopens
    ImplementsEventStream
