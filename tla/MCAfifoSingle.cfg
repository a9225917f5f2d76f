\* No aggregation: every measurement is its own batch.
SPECIFICATION Spec
CONSTANTS
    bin_size = 1
    output_buffer_size = 4
    Values <- MCValues
    None = None
PROPERTIES
    ImplementsMedianQueue
