\* The bill tables as a book of bills, whatever fails.
SPECIFICATION FairSpec
CONSTANTS
    Products = {1, 2}
    Priced = {1, 2}
    Rate <- MCRate
    Quantities = {0}
    Adjustments <- MCAdjustments
    MaxBillId = 2
    Faults = {"read", "write", "power"}
    Absent = Absent
    None = None
PROPERTIES
    ReturnsToScreen
    ImplementsBillBook
