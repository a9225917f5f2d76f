\* A ring and a body for three values; lines of up to five letters, with room
\* for three, and up to two chunks at once; two requests that may overlap.
SPECIFICATION MainSpec
CONSTANTS
    Limit = 4
    Capacity = 3
    MaxMeasurements = 9
    Elements <- MCElements
    None = None
    Letters <- MCLetters
    Chunk = 3
    max_cmdline_size = 3
    MaxArrived = 4
    MaxLine = 5
    Hosts <- MCHosts
    Paths <- MCPaths
    Bodies <- MCBodies
    Replies <- MCReplies
    Counts <- MCCounts
    Widths = {2, 9}
    MaxRequests = 2
    watchdog = TRUE
INVARIANTS
    InOrder
    NothingLost
    RunAsTyped
    ContentLengthTrue
    ReportsWhole
    BlueTellsBusy
    FailureStays
\* The measurements are used up in the end, and after a failed start without
\* a console nothing is left to switch an LED.
CHECK_DEADLOCK FALSE
