\* Clients that mind the limits of size_t.
SPECIFICATION Spec
CONSTANTS
    Alphabet <- Chars012
    SizeMod = 32
    Memory = 12
    ShortBuf = 2
    MaxText = 5
    MaxStrings = 3
    MaxSources = 2
    MaxJoined = 3
    Sizes = {0, 1, 3}
    Counts = {0, 1, 3}
    Junk = {0, 2}
    Literals <- SomeTexts
    Formatted <- ShortAndLong
    Times <- TimesWithEmpty
    Characters = {0, 1}
    Predicates <- Separators
    Maps <- Swap
INVARIANTS TypeOK SlicesInBounds
PROPERTIES ValueSemantics FormattingEnds
\* The last call is the last
CHECK_DEADLOCK FALSE
