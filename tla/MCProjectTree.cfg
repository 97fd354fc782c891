SPECIFICATION TreeSpec
CONSTANTS
    Dirs = {d, e}
    MaxNodes = 2
    MaxEvents = 3
    MaxItems = 5
    MaxOpens = 2
SYMMETRY NamesAreAlike
INVARIANTS
    TreeTypeOK
    SettledTreeIsDisk
    ParentIsThere
CHECK_DEADLOCK FALSE
