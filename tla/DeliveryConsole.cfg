\* Somebody uses the console while reports are sent.
SPECIFICATION Spec
CONSTANTS
    Exchange = {x1, x2}
    Post <- MCPost
    Other = Other
    Callback <- MCCallback
    NoCallback = NoCallback
    Time = {1, 2}
    NoTime = NoTime
    MaxReports = 2
    Torn = Torn
    NoFile = NoFile
    report_http_default = TRUE
    Console = TRUE
    Budget <- MCLossy
INVARIANTS
    NoSilentLoss
\* The reports are used up.
CHECK_DEADLOCK FALSE
