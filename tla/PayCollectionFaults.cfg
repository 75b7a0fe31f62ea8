\* Two users; reads, writes and power may fail anywhere, or reads and power only.
SPECIFICATION Spec
CONSTANTS
    Customers <- MCCustomers
    ListLimit = 2
    Users = {101010, 101011}
    Opening <- MCOpening
    Delivered <- Both
    Entered = {1250}
    MaxTrans = 4
    MaxBalance = 5000
    FaultSets = {{"read", "write", "power"}, {"read", "power"}}
    None = None
INVARIANTS
    ReceiptHasRow
    BalanceFromRows
PROPERTIES
    BalanceMoves
