\* Batches of three, a ring of three.
SPECIFICATION FairSpec
CONSTANTS
    bin_size = 3
    output_buffer_size = 3
    Values <- MCValues
    None = None
INVARIANTS
    FreedUnused
PROPERTIES
    ImplementsAfifo
    ReadReturns
\* The afifo is destroyed in the end, whoever still waits for it.
CHECK_DEADLOCK FALSE
