SPECIFICATION SendSpec
CONSTANTS
    k1 = k1
    k2 = k2
    Key = {k1, k2}
    Closer = closer
    None = None
    MaxServer = 2
    MaxAdapter = 2
    Bounds <- MCBounds
INVARIANTS
    NothingBehindClose
    OneServerPerOperation
    QuietWhenStopped
    LostWithItsServer
PROPERTIES
    EveryCallReturns
CHECK_DEADLOCK FALSE
