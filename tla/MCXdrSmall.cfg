\* Small integers in messages that arrive whole.
SPECIFICATION Spec
CONSTANTS
    NULL = NULL
    Base = 2
    Limit = 16
    MaxItems = 3
    Stale = 1
    SizeMod = 256
    Truncation = FALSE
    CallbacksFail = FALSE
    Types <- MessageTypes
    Values <- MessageValues
    Messages <- SmallIntegers
INVARIANT Decodable
\* A reader that has decoded or given up the message stops.
CHECK_DEADLOCK FALSE
