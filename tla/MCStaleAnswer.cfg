SPECIFICATION Spec
CONSTANTS
    Servers = {s1}
    NoServer = NoServer
    MaxContents = 3
    MaxSessions = 2
    MaxInFlight = 1
PROPERTIES
    AnswersFitText
CHECK_DEADLOCK FALSE
