\* Tables of up to three rows, of which a report reads two.
SPECIFICATION FairSpec
CONSTANTS
    Tables <- MCTables
    ListLimit = 2
    ReadLimit = 2
    MaxStrip = 5
INVARIANTS
    TypeOK
    StripInOrder
    TotalOfAllRows
    AllButRefused
    PeriodsAddUp
PROPERTIES
    EndsOrAsks
