\* The total shown while products are picked.
SPECIFICATION Spec
CONSTANTS
    Products <- MCProducts
    Priced <- MCPriced
    Rate <- MCRate
    Quantities = {0, 1}
    Adjustments = {0}
    MaxBillId = 1
    Faults = {}
    Absent = Absent
    None = None
INVARIANTS
    TotalAmtIsTotal
