CONSTANTS
    f1 = f1
    f2 = f2
    bad = bad
    hand = hand
    r1 = r1
    Execs <- MixedFills
    When <- MixedInstants
    Incomplete <- BadFills
    Manual <- HandFills
    Requests <- OneFetch
    TwoSlots = TRUE
    PageSize = 1
    Paging = TRUE
    Base = 10
    MaxDeletes = 1
    c1 = c1
    v1 = v1
    v2 = v2
    t1 = t1
    Callers <- OneCaller
    Values <- TwoValues
    Null = null
    Blank = blank
    Wrong = wrong
    YamlTokens <- OneToken
    EnvOperator = t1
    EnvAdmin = t1
    DefaultRole = "viewer"
    OtherToken = other
    NoToken = noToken
SPECIFICATION MCSpec
VIEW Kept
INVARIANTS
    OkMeansStored
    PagesComplete
    NoRowRepeated
PROPERTIES
    AnswerMatchesRow
    OthersKept
    OutagesTold
