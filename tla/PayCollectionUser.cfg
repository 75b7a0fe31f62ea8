\* The terminal as delivered: who can collect.
SPECIFICATION Spec
CONSTANTS
    Customers <- MCCustomers
    ListLimit = 2
    Users = {101010, 101011}
    Opening <- MCOpening
    Delivered <- AlexOnly
    Entered = {0, 1250}
    MaxTrans = 3
    MaxBalance = 9000
    FaultSets = {{}}
    None = None
INVARIANTS
    UserIsAvailable
