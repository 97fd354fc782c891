\* One file with two possible names, three contents and two nodes.
SPECIFICATION Spec
CONSTANTS
    Paths = {a, b}
    NoFile = NoFile
    MaxContents = 3
    MaxNodes = 2
    MaxEvents = 2
SYMMETRY PathsAreAlike
INVARIANTS
    TypeOK
    NextChangeIsSeen
    SavePointIsOnDisk
PROPERTY
    EditsSurvive
CHECK_DEADLOCK FALSE
