SPECIFICATION MCSpec
CONSTANTS
    p1 = p1
    p2 = p2
    Editors = {e1, e2}
    Mains = {p1, p2}
    Verifiers = {p1}
    MaxSaves = 2
    Creds = {c1, c2}
    Admins = {a1, a2}
    Lookups = {x1}
    EnvKey = env
    MaxRotations = 2
    MaxRestarts = 1
    PageSize = 2
    MaxRuns = 6
    Items = {i1, i2}
    MaxEvents = 3
    MaxPings = 2
INVARIANTS
    PairFits
    PanelIsFreed
    AllReadable
    KeyIsResolved
    NoGap
    EndIsOldest
    OwnChangesShow
    EventsInOrder
    NoEventWaits
PROPERTIES
    SaveKeepsForm
    RotationSucceeds
    PageIsShown
CHECK_DEADLOCK FALSE
