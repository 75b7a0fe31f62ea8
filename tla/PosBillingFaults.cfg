\* Failing writes and power cuts anywhere, with the reports; one day.
SPECIFICATION ReportsSpec
CONSTANTS
    Products = {1, 2}
    Priced = {1, 2}
    Rate <- MCRate
    Quantities = {0, 1}
    Adjustments <- MCAdjustments
    MaxBillId = 2
    Faults = {"write", "power"}
    DateLimit = 2
    DayLimit = 2
    BillLimit = 2
    MaxDay = 1
    Absent = Absent
    None = None
INVARIANTS
    ItemsHaveHeader
    NoProductTwice
    NoExtraItems
    ReceiptStands
    SalesReconcile
    GoodsArePaid
PROPERTIES
    BooksInInk
    FreshIds
