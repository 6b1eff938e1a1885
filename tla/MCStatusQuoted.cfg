\* Handlers that throw with the message they were given.
SPECIFICATION Spec
CONSTANTS
    EAGAIN = EAGAIN
    Statuses = {EAGAIN, EINVAL}
    Modules = {m1, m2}
    Messages <- SomeMessages
    Kept <- CutLong
    NULL = NULL
    Levels = {0, 5}
    MaxDepth = 3
    NestedRethrow = FALSE
    QuoteMessage = TRUE
INVARIANT HandlerToldMessage
SYMMETRY Symmetry
\* abort() ends the process
CHECK_DEADLOCK FALSE
