\* Clients whose handlers, once they have made guarded calls of their own,
\* do not ask for a rethrow, and which never throw with the message they were
\* given.
SPECIFICATION Spec
CONSTANTS
    EAGAIN = EAGAIN
    Statuses = {EAGAIN, EINVAL}
    Modules = {m1, m2}
    Messages <- SomeMessages
    Kept <- CutLong
    NULL = NULL
    Levels = {0, 5}
    MaxDepth = 3
    NestedRethrow = FALSE
    QuoteMessage = FALSE
INVARIANT AssertionsHold
PROPERTY StructuredExceptions
SYMMETRY Symmetry
\* abort() ends the process
CHECK_DEADLOCK FALSE
