CONSTANTS
    t1 = t1
    t2 = t2
    Threads <- MCThreads
    Details <- AnyDetail
    TTL = 2
    MaxWait = 1
    MaxCompute = 1
    MaxWrites = 1
SPECIFICATION Spec
INVARIANTS
    FullDetailOnRequest
