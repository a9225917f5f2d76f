\* Two posts with up to two values, a query of up to three rows.
SPECIFICATION GraphSpec
CONSTANTS
    Times = {1, 2}
    Values <- MCValues
    MaxValues = 2
    MaxPosts = 2
    MaxFailed = 1
    Span = 1
    Limit = 3
    Parameters <- MCParameters
    None = None
INVARIANTS
    RowsAsSent
    OkMeansShown
    LabelsEndReports
    OnlyPeaksLowered
\* A page ends.
CHECK_DEADLOCK FALSE
