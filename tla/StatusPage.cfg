CONSTANTS
    r1 = r1
    r2 = r2
    host = host
    stream = stream
    structure = structure
    v = v
    null = null
    n1 = n1
    n2 = n2
    noName = noName
    Requests <- TwoRequests
    IbFields <- TwoIbFields
    ActiveFields <- OneActiveField
    Values <- OneValue
    Cleared = null
    ReadsFail = TRUE
    Names <- TwoNames
    NoName = noName
SPECIFICATION MCSpec
INVARIANTS
    AnswerShowsWrite
    NamesOfTheirIds
    CheckOfItsBeat
PROPERTIES
    OmittedKept
