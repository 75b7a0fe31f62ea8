\* The terminal as delivered; nothing fails but the paper.
SPECIFICATION Spec
CONSTANTS
    Customers <- MCCustomers
    ListLimit = 2
    Users = {101010, 101011}
    Opening <- MCOpening
    Delivered <- AlexOnly
    Entered = {0, 1250}
    MaxTrans = 4
    MaxBalance = 9000
    FaultSets = {{}}
    None = None
INVARIANTS
    TypeOK
    BalanceAgrees
    ReceiptAgrees
PROPERTIES
    ImplementsLedger
