\* Two handles, two threads at a time, three afifos one after the other.
SPECIFICATION FairSpec
CONSTANTS
    MAX_HANDLE = 1
    Details = {d1, d2}
    Afifo = {f1, f2, f3}
    NULL = NULL
INVARIANTS
    TypeOK
    MisuseExplained
    OpenMeansServed
    OneLateMeasurement
    NoLeak
PROPERTIES
    ClosedEnds
CHECK_DEADLOCK FALSE
