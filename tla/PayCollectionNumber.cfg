\* Two users: the number on the receipt.
SPECIFICATION Spec
CONSTANTS
    Customers <- MCCustomers
    ListLimit = 2
    Users = {101010, 101011}
    Opening <- MCOpening
    Delivered <- Both
    Entered = {0, 1250}
    MaxTrans = 4
    MaxBalance = 9000
    FaultSets = {{}}
    None = None
INVARIANTS
    BillNoIsTransNo
