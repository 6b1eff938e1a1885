\* Any clients: a handler may ask for a rethrow at any time.
SPECIFICATION Spec
CONSTANTS
    EAGAIN = EAGAIN
    Statuses = {EAGAIN, EINVAL}
    Modules = {m1, m2}
    Messages <- SomeMessages
    Kept <- CutLong
    NULL = NULL
    Levels = {0, 5}
    MaxDepth = 3
    NestedRethrow = TRUE
    QuoteMessage = TRUE
INVARIANTS TypeOK HandlerChain AbortJustified MessageStable
SYMMETRY Symmetry
\* abort() ends the process
CHECK_DEADLOCK FALSE
