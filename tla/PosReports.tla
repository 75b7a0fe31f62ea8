----------------------------- MODULE PosReports -----------------------------
(***************************************************************************)
(* The POS reports over the tables that PosBilling writes: the day report, *)
(* the total report, the stock report and the cancelled bill report.       *)
(* Code: src/src/main.cpp from POS_Daily_Report on.                        *)
(*                                                                         *)
(* A report changes no table: it is an operator, what it prints when it is *)
(* asked for in the present state.  The calendar is added to PosBilling:   *)
(* today, and the date of each bill.                                       *)
(***************************************************************************)
EXTENDS PosBilling

CONSTANTS
    DateLimit,      \* how many dates the day report offers
    DayLimit,       \* how many bills of a day it reads
    BillLimit,      \* how many bills the other reports read
    MaxDay          \* bound: the days the model lives

Days == 1..MaxDay

ASSUME LimitsAssumption == DateLimit \in Nat \ {0} /\ DayLimit \in Nat /\ BillLimit \in Nat
ASSUME DaysAssumption   == MaxDay \in Nat \ {0} /\ None \notin Days

VARIABLES
    Date_Time,      \* the column of pos_bill_header: id -> day
    today           \* getCurrentTime

calendar    == <<Date_Time, today>>
reportsVars == <<vars, calendar>>

-----------------------------------------------------------------------------
(* Queries *)

\* The first n rows of S, in the order of their ids.
FirstRows(S, n) == {b \in S : Cardinality({c \in S : c < b}) < n}

\* SELECT * FROM pos_bill_header, BillLimit rows of it
AllBills == FirstRows(Ids, BillLimit)

\* Mutant: the query of Delete Bill, which leaves cancelled bills out.
LiveOfDay(d) == FirstRows({b \in Ids : Date_Time[b] = d /\ ~bill[b].is_deleted}, DayLimit)

\* ... WHERE Date_Time LIKE ? || '%'
BillsForDate(d) == FirstRows({b \in Ids : Date_Time[b] = d}, DayLimit)

\* Mutant: the oldest dates first.
OldestDates ==
    LET dates == {Date_Time[b] : b \in Ids}
    IN  {d \in dates : Cardinality({e \in dates : e < d}) < DateLimit}

\* select distinct ... ORDER BY Id DESC: the dates of the latest bills.
UniqueDates ==
    LET last == {b \in Ids : \A c \in Ids : Date_Time[c] = Date_Time[b] => c <= b}
    IN  {Date_Time[b] : b \in {c \in last : Cardinality({e \in last : e > c}) < DateLimit}}

\* Mutant: the header is not looked up.
SoldOnAnyBill(p) ==
    SumFunction([i \in {j \in DOMAIN item : item[j].Product_ID = p} |-> item[i].Quantity])

\* GetTotalSold: SUM(Quantity) over the bills that exist and are not cancelled.
Sold(p) ==
    LET rows == {i \in DOMAIN item : /\ item[i].Product_ID = p
                                     /\ item[i].Bill_ID \in Ids
                                     /\ ~bill[item[i].Bill_ID].is_deleted}
    IN  SumFunction([i \in rows |-> item[i].Quantity])

NetOf(S) == SumFunction([b \in S |-> bill[b].net_amt])

-----------------------------------------------------------------------------
(* Reports *)

DayReport(d) ==
    [ date  |-> d,
      lines |-> {<<b, bill[b].net_amt>> : b \in BillsForDate(d)},
      total |-> Tostr(NetOf(BillsForDate(d))) ]

TotalReport ==
    [ lines |-> {<<b, bill[b].net_amt>> : b \in AllBills}, total |-> Tostr(NetOf(AllBills)) ]

\* Products that were sold, and how many.
StockReport == {<<p, Tostr(Sold(p))>> : p \in {q \in Products : Sold(q) > 0}}

CancelledBillReport == {<<b, bill[b].net_amt>> : b \in {c \in AllBills : bill[c].is_deleted}}

-----------------------------------------------------------------------------
ReportsInit ==
    /\ Init
    /\ Date_Time = [b \in BillIds |-> None]
    /\ today = 1

\* Mutant: cancelling a bill writes Date_Time, not Delete_AT.
BillRedated ==
    /\ Next
    /\ Date_Time' = [b \in BillIds |->
                        IF bill'[b] = None THEN None
                        ELSE IF bill'[b] # bill[b] THEN today
                        ELSE Date_Time[b]]
    /\ UNCHANGED today

\* Any step of PosBilling.  A header is written with the date of that moment.
Bill ==
    /\ Next
    /\ Date_Time' = [b \in BillIds |->
                        IF bill'[b] = None THEN None
                        ELSE IF bill[b] = None THEN today
                        ELSE Date_Time[b]]
    /\ UNCHANGED today

\* Midnight.  The clock is only read when a header is written, so it need not
\* be moved at other points.
Midnight ==
    /\ pc \in {"main", "header"}
    /\ today < MaxDay
    /\ today' = today + 1
    /\ UNCHANGED <<vars, Date_Time>>

ReportsNext == Bill \/ Midnight

ReportsSpec == ReportsInit /\ [][ReportsNext]_reportsVars

-----------------------------------------------------------------------------
(* Properties *)

\* A report can be asked for: Reports is an entry of the main menu.
Asked == pc = "main"

Live == {b \in Ids : ~bill[b].is_deleted}

\* What the products on the stock report sold for, with the discounts of the
\* bills that are not cancelled.
SoldValue ==
    SumFunction([s \in StockReport |-> s[2] * Rate[s[1]]])
      + SumFunction([b \in Live |-> bill[b].add_less])

\* The total report without the cancelled bills.
NetSales == TotalReport.total - SumFunction([s \in CancelledBillReport |-> s[2]])

\* The type of the calendar.
CalendarOK ==
    /\ Date_Time \in [BillIds -> Days \cup {None}]
    /\ today \in Days
    /\ \A b \in BillIds : Date_Time[b] = None <=> bill[b] = None

\* The day reports of the dates on offer add up to the total report, while no
\* limit is reached: both count cancelled bills, and every bill has one date.
DaysAddUp ==
    /\ Asked
    /\ Cardinality(Ids) <= BillLimit
    /\ \A d \in Days : Cardinality({b \in Ids : Date_Time[b] = d}) <= DayLimit
    /\ Cardinality({Date_Time[b] : b \in Ids}) <= DateLimit
    => TotalReport.total = SumFunction([d \in UniqueDates |-> DayReport(d).total])

\* Three reports reconcile while every bill has its rows and no limit is
\* reached: the total report, less the cancelled bill report, is what the stock
\* report says was sold, with the discounts.  Items and headers are written by
\* different statements, and the reports treat cancelled bills in three ways.
SalesReconcile ==
    /\ Asked
    /\ Cardinality(Ids) <= BillLimit
    /\ \A b \in Ids : Complete(b)
    => SoldValue = NetSales

\* Whatever fails, and at whatever statement the power was cut, the reports
\* never show more goods sold than money taken.
GoodsArePaid == Asked /\ Cardinality(Ids) <= BillLimit => SoldValue <= NetSales

\* The report of a day that is over is final: it prints the same until the
\* bills are cleared, although bills of that day may be cancelled and others
\* saved in between.
DayIsFinal ==
    [][ bill' # bill /\ Ids' # {} => \A d \in Days : d < today => DayReport(d)' = DayReport(d) ]_reportsVars

\* However many dates there are, those on offer are the latest, the day of the
\* last bill among them: the list goes by the ids, which start again from 1
\* after Clear Bill.
LatestDaysOffered ==
    Asked /\ Ids # {} =>
        /\ \E b \in Ids : IsLastId(b) /\ Date_Time[b] \in UniqueDates
        /\ \A b \in Ids : Date_Time[b] \in UniqueDates
                           \/ \A d \in UniqueDates : Date_Time[b] < d
=============================================================================
