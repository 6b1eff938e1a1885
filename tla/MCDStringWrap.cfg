\* Sizes for which pos + len, and counts for which len * n, exceeds SIZE_MAX.
SPECIFICATION Spec
CONSTANTS
    Alphabet <- Chars012
    SizeMod = 32
    Memory = 12
    ShortBuf = 2
    MaxText = 5
    MaxStrings = 3
    MaxSources = 2
    MaxJoined = 3
    Sizes = {0, 1, 31}
    Counts = {0, 1, 12}
    Junk = {0, 2}
    Literals <- SomeTexts
    Formatted <- ShortAndLong
    Times <- Times12
    Characters = {0, 1}
    Predicates <- Separators
    Maps <- Swap
INVARIANT SlicesInBounds
\* The last call is the last
CHECK_DEADLOCK FALSE
