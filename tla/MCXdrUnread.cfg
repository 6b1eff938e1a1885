\* A variable array cut short after its length.
SPECIFICATION Spec
CONSTANTS
    NULL = NULL
    Base = 2
    Limit = 24
    MaxItems = 1
    Stale = 1
    SizeMod = 256
    Truncation = TRUE
    CallbacksFail = FALSE
    Types <- MessageTypes
    Values <- MessageValues
    Messages <- LongArray
PROPERTY StoresInBounds
\* A reader that has decoded or given up the message stops.
CHECK_DEADLOCK FALSE
