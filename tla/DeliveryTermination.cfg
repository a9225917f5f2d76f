\* The https agent terminates once.
SPECIFICATION FairSpec
CONSTANTS
    Exchange = {x1, x2}
    Post <- MCPost
    Other = Other
    Callback <- MCCallback
    NoCallback = NoCallback
    Time = {1, 2}
    NoTime = NoTime
    MaxReports = 2
    Torn = Torn
    NoFile = NoFile
    report_http_default = TRUE
    Console = FALSE
    Budget <- MCTermination
PROPERTIES
    StartsAgain
CHECK_DEADLOCK FALSE
