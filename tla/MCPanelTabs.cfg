SPECIFICATION Spec
CONSTANTS
    problems = problems
    log = log
    browser = browser
    left = left
    Bottom = bottom
    Hidden = hidden
    NoView = none
    NoPanel = nopanel
    Groups <- MCGroups
    AddOrder <- MCOrder
    DefaultGroup <- MCDefault
    MaxQueue = 2
    UseExposed = FALSE
INVARIANTS
    TypeOK
    CardsFollowTabs
    ClosedCanReturn
PROPERTY
    AskedIsDone
CHECK_DEADLOCK FALSE
