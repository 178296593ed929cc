SPECIFICATION Spec
CONSTANTS
    Sections = {s1}
    SectionConcurrency = 1
    RequirePlanApproval = FALSE
    Subscribers = {u1}
    Cancels = {c1}
    Submits = {}
    Engine = Engine
    MaxRestarts = 0
    s1 = s1
    u1 = u1
    c1 = c1
PROPERTIES
    CancelledNotOverwritten
