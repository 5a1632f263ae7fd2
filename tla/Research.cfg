SPECIFICATION MCSpec
CONSTANTS
    a = a
    b = b
    t1 = t1
    t2 = t2
    l1 = l1
    l2 = l2
    Requests <- TwoRequests
    Asks <- AsksOfTwo
    YamlTokens <- TwoTokens
    EnvOperator = t1
    EnvAdmin = t2
    DefaultRole = "operator"
    OtherToken = other
    NoToken = noToken
    Ladders <- TwoLadders
    NoLadder = noLadder
    CacheTTL = 2
    Names = 2
    Batches = 2
    none = none
    None = none
    Documents <- SmallDocuments
    Quarterly <- QuarterlyLists
    Annual <- AnnualLists
    Quarters = 2
    Years = 2
SYMMETRY EitherLadder
INVARIANTS
    RowsAsAsked
    OutagesSaid
    ScanHonest
    NewestOfEachPeriod
    QuartersRight
    DocumentWhole
PROPERTIES
    BlanksFade
    WritesByRole
