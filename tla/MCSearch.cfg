SPECIFICATION Spec
CONSTANTS
    f = f
    g = g
    Files = {f, g}
    NoFile = NoFile
    Output <- MCOutput
    MaxSearches = 3
    MaxReferences = 2
    MaxFinds = 2
INVARIANTS
    TypeOK
    ListIsOfTheSearch
    DoneIsTheLastAct
PROPERTY
    FindComesBack
CHECK_DEADLOCK FALSE
