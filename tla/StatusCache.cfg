CONSTANTS
    t1 = t1
    t2 = t2
    Threads <- MCThreads
    Details <- Light
    TTL = 1
    MaxWait = 1
    MaxCompute = 1
    MaxWrites = 1
SPECIFICATION LiveSpec
INVARIANTS
    CausalPage
PROPERTIES
    FreshAfterQuiet
    GoesBackForCause
    LastWriteShown
