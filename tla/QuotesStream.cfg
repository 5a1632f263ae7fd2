CONSTANTS
    a = a
    b = b
    c1 = c1
    Symbols <- TwoSymbols
    Clients <- OneClient
    QueueSize = 1
    MaxTicks = 3
    MaxOutages = 1
    MaxCleanups = 1
SPECIFICATION LiveSpec
INVARIANTS
    LastQuoteArrives
    CaughtUp
PROPERTIES
    NeverBackwards
    TickArrives
