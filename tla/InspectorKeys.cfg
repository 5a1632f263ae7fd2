CONSTANTS
    none = none
    None = none
    Quarterly <- QuarterlyLists
    Annual <- AnnualLists
    Quarters = 2
    Years = 2
SPECIFICATION TablesSpec
INVARIANTS
    KeysUnique
