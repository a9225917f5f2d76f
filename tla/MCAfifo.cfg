\* Batches of three, a ring that keeps two medians.
SPECIFICATION Spec
CONSTANTS
    bin_size = 3
    output_buffer_size = 3
    Values <- MCValues
    None = None
INVARIANTS
    TypeOK
    OnlyMeasurements
PROPERTIES
    ImplementsBoundedQueue
    ImplementsMedianQueue
