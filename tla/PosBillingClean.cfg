\* Nothing fails but the paper.
SPECIFICATION Spec
CONSTANTS
    Products <- MCProducts
    Priced <- MCPriced
    Rate <- MCRate
    Quantities = {0, 2}
    Adjustments <- MCAdjustments
    MaxBillId = 2
    Faults = {}
    Absent = Absent
    None = None
INVARIANTS
    TypeOK
    BillBalances
    EveryBillComplete
    TotalShown
