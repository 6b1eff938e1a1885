\* Variable arrays, of lengths that were sent, misread or never read.
SPECIFICATION Spec
CONSTANTS
    NULL = NULL
    Base = 2
    Limit = 12
    MaxItems = 1
    Stale = 1
    SizeMod = 80
    Truncation = TRUE
    CallbacksFail = TRUE
    Types <- MessageTypes
    Values <- MessageValues
    Messages <- AnyArrays
INVARIANTS DestinationsInBounds PointersScanned
PROPERTY CallsReturn
\* A reader that has decoded or given up the message stops.
CHECK_DEADLOCK FALSE
