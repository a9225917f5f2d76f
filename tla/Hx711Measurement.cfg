\* Values of four bits, two polls.
SPECIFICATION Spec
CONSTANTS
    Width = 4
    Polls = 2
PROPERTIES
    DeliversConversion
