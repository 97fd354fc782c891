SPECIFICATION Spec
CONSTANTS
    Projects = {p1}
    NoProject = NoProject
    SaveOutcomes = {TRUE, FALSE}
    MaxHunks = 2
    MaxCommands = 1
    MaxQueue = 2
    MaxRequests = 3
INVARIANTS
    TypeOK
    RunningIffUnderWay
    OneLiveWorker
    StoppedProposesNothing
PROPERTIES
    PromptsEnd
    ImplementsPromise
