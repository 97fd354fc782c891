SPECIFICATION Spec
CONSTANTS
    Projects = {p1, p2}
    NoProject = NoProject
    BuildOnSave = TRUE
    MaxCommands = 2
    MaxMoves = 1
    MaxQueue = 2
SYMMETRY ProjectsAreAlike
INVARIANTS
    TypeOK
    AllComesBack
    AloneIsFollowed
CHECK_DEADLOCK FALSE
