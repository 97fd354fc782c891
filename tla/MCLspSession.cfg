SPECIFICATION Spec
CONSTANTS
    Servers = {s1, s2}
    NoServer = NoServer
    MaxContents = 3
    MaxSessions = 2
    MaxInFlight = 2
INVARIANTS
    TypeOK
    ServerFollowsText
    OpenInItsServerOnly
PROPERTY
    AnswersFitSession
CHECK_DEADLOCK FALSE
