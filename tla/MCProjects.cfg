SPECIFICATION Spec
CONSTANTS
    a = a
    inner = inner
    b = b
    x = x
    Folders = {a, inner, b}
    Inside <- MCInside
    Renames <- MCRenames
    Files = {x}
    FilesOf <- MCFilesOf
    NoProject = NoProject
    Closed = Closed
    MaxProjects = 2
    MaxQueue = 2
INVARIANTS
    TypeOK
    OpeningIsNotDeleted
    NothingDangles
    SomeoneIsActive
PROPERTIES
    OpeningsEnd
CHECK_DEADLOCK FALSE
