CONSTANTS
    p1 = p1
    p2 = p2
    started = started
    finished = finished
    None = None
    Process <- MCProcess
    Payload <- MCPayload
    Width <- MixedWidth
    MaxLines = 4
    MaxFaults = 2
SPECIFICATION SpecReader
INVARIANT AcknowledgedIsDurable
