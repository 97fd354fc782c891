SPECIFICATION CaptureSpec
CONSTANTS
    MaxSent = 7
    MaxStray = 2
    Endless = TRUE
    PipeSize = 3
    BufferSize = 2
    maxOutputBytes = 4
INVARIANTS
    CaptureTypeOK
    OutputComplete
    NoChildLeft
PROPERTY
    StopAndTimeoutWork
CHECK_DEADLOCK FALSE
