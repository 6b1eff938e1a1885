\* Messages that arrive whole.
SPECIFICATION Spec
CONSTANTS
    NULL = NULL
    Base = 2
    Limit = 16
    MaxItems = 3
    Stale = 1
    SizeMod = 256
    Truncation = FALSE
    CallbacksFail = FALSE
    Types <- MessageTypes
    Values <- MessageValues
    Messages <- PlainAndArrays
INVARIANT Decodable
PROPERTY Delivery
\* A reader that has decoded or given up the message stops.
CHECK_DEADLOCK FALSE
