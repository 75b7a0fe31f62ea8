\* Nothing fails but the paper; three days, of which two are offered.
SPECIFICATION ReportsSpec
CONSTANTS
    Products = {1}
    Priced = {1}
    Rate <- OneRate
    Quantities = {0, 1}
    Adjustments = {0}
    MaxBillId = 3
    Faults = {}
    DateLimit = 2
    DayLimit = 2
    BillLimit = 3
    MaxDay = 3
    Absent = Absent
    None = None
INVARIANTS
    DaysAddUp
    LatestDaysOffered
PROPERTIES
    DayIsFinal
