CONSTANTS
    f1 = f1
    f2 = f2
    bad = bad
    hand = hand
    r1 = r1
    Execs <- PagedFills
    When <- PagedInstants
    Incomplete <- None
    Manual <- HandFills
    Requests <- OneFetch
    TwoSlots = FALSE
    PageSize = 1
    Paging = TRUE
    Base = 10
    MaxDeletes = 0
SPECIFICATION Spec
INVARIANTS
    NoRowSkipped
