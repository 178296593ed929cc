SPECIFICATION FairSpec
CONSTANTS
    Sections = {s1}
    SectionConcurrency = 1
    RequirePlanApproval = FALSE
    Subscribers = {u1}
    Cancels = {}
    Submits = {}
    Engine = Engine
    MaxRestarts = 1
    s1 = s1
    u1 = u1
PROPERTIES
    ResumedRunSettles
