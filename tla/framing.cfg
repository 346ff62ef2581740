CONSTANTS
    Length = 2
    Scripts <- MCScripts
    SSN_LENGTH = 2
    BUFFER_SIZE = 17
    Window = 4
SPECIFICATION FairSpec
INVARIANTS FramesIntact PanicsOnlyAtEmailLength ClosedMeansClosed
PROPERTY EverythingArrives
CHECK_DEADLOCK FALSE
