SPECIFICATION Spec
CONSTANTS
    a = a
    b = b
    c = c
    d = d
    h1 = h1
    h2 = h2
    h3 = h3
    h4 = h4
    h5 = h5
    Paths <- MCPaths
    Diffs <- MCDiffs
    Unsafe = {d}
    Symlinks = {c}
    Absent = Absent
    MaxApplies = 2
    MaxEdits = 2
INVARIANTS
    TypeOK
    NothingLost
PROPERTY
    ProposedHunksAreDecided
CHECK_DEADLOCK FALSE
