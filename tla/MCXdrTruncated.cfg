\* Messages cut short, callbacks that fail.
SPECIFICATION Spec
CONSTANTS
    NULL = NULL
    Base = 2
    Limit = 14
    MaxItems = 2
    Stale = 1
    SizeMod = 256
    Truncation = TRUE
    CallbacksFail = TRUE
    Types <- MessageTypes
    Values <- MessageValues
    Messages <- AnyPlain
INVARIANTS TypeOK StreamInBounds
PROPERTIES WrittenOnce Delivery
\* A reader that has decoded or given up the message stops.
CHECK_DEADLOCK FALSE
