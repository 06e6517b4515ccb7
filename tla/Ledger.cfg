CONSTANTS
    p1 = p1
    p2 = p2
    started = started
    finished = finished
    Process <- MCProcess
    Payload <- MCPayload
    Width <- MixedWidth
    MaxLines = 4
    MaxFaults = 2
    None = None
SYMMETRY MCSymmetry
SPECIFICATION SpecReader
INVARIANTS
    NumberedWithoutGaps
    MisreadWasTorn
    ReaderSeesCommitted
PROPERTY RefinesDurableLog
