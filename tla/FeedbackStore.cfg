CONSTANTS
    r1 = r1
    r2 = r2
    Requests <- TwoRequests
    MaxConn = 2
    MaxImages = 1
    MaxReports = 1
    MaxNews = 1
    MaxFaults = 2
SPECIFICATION LiveSpec
INVARIANTS
    ConnectionsBounded
    ReportsWhole
    NewsSeen
    AnswerTrue
PROPERTIES
    StoreRecovers
