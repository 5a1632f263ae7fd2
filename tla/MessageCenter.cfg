CONSTANTS
    p1 = p1
    p2 = p2
    c1 = c1
    c2 = c2
    Nowhere = Nowhere
    Pods <- TwoPods
    Clients <- OneClient
    Skipped <- NotMessages
    BatchSize = 2
    QueueSize = 1
    MaxEvents = 3
    MaxFaults = 2
SPECIFICATION LiveSpec
INVARIANTS
    CursorCovered
    StreamInOrder
    NoMessageSkipped
PROPERTIES
    ImplementsPromise
    EveryMessageListed
