\* Every fault once, nobody at the console.
SPECIFICATION Spec
CONSTANTS
    Exchange = {x1, x2}
    Post <- MCPost
    Other = Other
    Callback <- MCCallback
    NoCallback = NoCallback
    Time = {1, 2}
    NoTime = NoTime
    MaxReports = 2
    Torn = Torn
    NoFile = NoFile
    report_http_default = TRUE
    Console = FALSE
    Budget <- MCAllFaults
INVARIANTS
    TypeOK
    NoSilentLoss
    DeletesWhatItSent
    OneAtATime
    WedgedOnlyByFault
    NoNeedlessRepeat
PROPERTIES
    ImplementsOutbox
\* The reports are used up and the reporter may be wedged.
CHECK_DEADLOCK FALSE
