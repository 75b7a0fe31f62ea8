------------------------- MODULE PosReports_proofs -------------------------
(***************************************************************************)
(* The calendar, the day report and the sales, for every shop, every limit *)
(* and every choice of faults: bills and dates go together, the day of the *)
(* last bill is on offer, the report of a day that is over is final, the   *)
(* days add up to the totals of all bills, and what was sold is what the   *)
(* bills say, as far as amounts are printed in full.                       *)
(***************************************************************************)
EXTENDS PosReports, PosBilling_book, WellFoundedInduction

USE DEF BillIds

\* Ids and dates grow together.
Chronological ==
    /\ \A b, c \in Ids : b < c => Date_Time[b] <= Date_Time[c]
    /\ \A b \in Ids : Date_Time[b] <= today

CalInv == IInv /\ CalendarOK /\ Chronological

-----------------------------------------------------------------------------
\* The steps that write pos_bill_header.
LEMMA WritesOfBill ==
    ASSUME Next
    PROVE  UNCHANGED bill \/ InsertHeader \/ MarkBillAsDeleted \/ ClearBills
  BY DEF Next, User, Program, vars, tables,
        OpenBilling, OpenAdmin, OpenPos, ChooseScreen, LeaveMenu, PickProduct,
        EnterQuantity, SkipQuantity, OpenSummary, PickLine, EditLine, RemoveLine,
        LeaveSummary, ProceedToBill, EnterDiscount, DismissNoPaper, PickBill,
        DeclineDelete, ConfirmClear, InsertHeaderFails, GetLastBillID,
        GetLastBillIDFails, InsertItem, InsertItemFails, NoPaper, PrintBill,
        ClearItems, ClearSeq, ClearFails, PowerCut

\* Bills are cleared together, or keep what was due.
LEMMA BillsKept ==
    ASSUME IInv, Next, Ids' # {}
    PROVE  \A b \in Ids : b \in Ids' /\ bill'[b].net_amt = bill[b].net_amt
<1>1. bill \in [BillIds -> Headers \cup {None}]
  BY DEF IInv, TypeOK
<1>2. CASE UNCHANGED bill
  BY <1>2 DEF Ids
<1>3. CASE InsertHeader
  <2>1. PICK n \in BillIds : IsNextId(n) /\ \A m \in BillIds : m # n => bill'[m] = bill[m]
    BY <1>1, <1>3 DEF InsertHeader
  <2>2. n \notin Ids
    BY <2>1, NextIdIsFresh DEF IInv
  <2>3. \A b \in Ids : b \in BillIds /\ bill'[b] = bill[b] /\ bill[b] # None
    BY <2>1, <2>2 DEF Ids
  <2> QED BY <2>3 DEF Ids
<1>4. CASE MarkBillAsDeleted
  <2>1. sel \in Ids /\ bill' = [bill EXCEPT ![sel].is_deleted = TRUE]
    BY <1>4 DEF MarkBillAsDeleted, IInv, SelectionOK
  <2>2. bill[sel] \in Headers
    BY <1>1, <2>1 DEF Ids
  <2>3. [bill[sel] EXCEPT !.is_deleted = TRUE] \in Headers
    BY <2>2, CancelledType
  <2>4. [bill[sel] EXCEPT !.is_deleted = TRUE].net_amt = bill[sel].net_amt
    BY <2>2 DEF Headers
  <2>5. bill' = [bill EXCEPT ![sel] = [bill[sel] EXCEPT !.is_deleted = TRUE]]
    BY <2>1
  <2>6. \A b \in Ids : bill'[b] # None /\ bill'[b].net_amt = bill[b].net_amt
    BY <1>1, <2>1, <2>3, <2>4, <2>5, RowsAssumption DEF Ids
  <2> QED BY <2>6 DEF Ids
<1>5. CASE ClearBills
  BY <1>5 DEF ClearBills, Ids
<1> QED BY <1>2, <1>3, <1>4, <1>5, WritesOfBill

-----------------------------------------------------------------------------
\* The reports only look: with the calendar, the program is that of PosBilling,
\* and whatever is proved of it holds here.
THEOREM BillingAsBefore == ReportsSpec => Spec
<1>1. ReportsInit => Init
  BY DEF ReportsInit
<1>2. [ReportsNext]_reportsVars => [Next]_vars
  BY DEF ReportsNext, Bill, Midnight, reportsVars
<1> QED BY <1>1, <1>2, PTL DEF ReportsSpec, Spec

\* A bill has a date exactly as long as it is in the table.
THEOREM CalendarCorrect == ReportsSpec => []CalendarOK
<1>1. ReportsInit => CalendarOK
  <2> SUFFICES ASSUME ReportsInit PROVE CalendarOK
    OBVIOUS
  <2>1. Date_Time = [b \in BillIds |-> None] /\ bill = [b \in BillIds |-> None] /\ today = 1
    BY DEF ReportsInit, Init
  <2>2. 1 \in Days
    BY DaysAssumption DEF Days
  <2>3. Date_Time \in [BillIds -> Days \cup {None}]
    BY <2>1
  <2>4. \A b \in BillIds : Date_Time[b] = None <=> bill[b] = None
    BY <2>1
  <2> QED BY <2>1, <2>2, <2>3, <2>4 DEF CalendarOK
<1>2. CalendarOK /\ [ReportsNext]_reportsVars => CalendarOK'
  <2> SUFFICES ASSUME CalendarOK, [ReportsNext]_reportsVars PROVE CalendarOK'
    OBVIOUS
  <2>1. CASE Bill
    BY <2>1, DaysAssumption DEF Bill, CalendarOK
  <2>2. CASE Midnight
    BY <2>2, DaysAssumption DEF Midnight, CalendarOK, Days, vars, tables
  <2>3. CASE UNCHANGED reportsVars
    BY <2>3 DEF reportsVars, calendar, vars, tables, CalendarOK
  <2> QED BY <2>1, <2>2, <2>3 DEF ReportsNext
<1> QED BY <1>1, <1>2, PTL DEF ReportsSpec

\* A new bill has the highest id and the latest date.
LEMMA StaysChronological ==
    ASSUME IInv, CalendarOK, Chronological, [ReportsNext]_reportsVars
    PROVE  Chronological'
<1>1. today \in Int /\ \A b \in Ids : b \in Int /\ Date_Time[b] \in Int
  BY DaysAssumption DEF CalendarOK, Days, Ids
<1>2. CASE Bill
  <2>1. today' = today /\ \A b \in Ids' : Date_Time'[b] = IF b \in Ids THEN Date_Time[b] ELSE today
    BY <1>2 DEF Bill, Ids
  <2>2. \A b \in Ids' \ Ids : b \in Int /\ Ids' \subseteq Ids \cup {b} /\ \A c \in Ids : c < b
    <3>1. CASE UNCHANGED bill \/ MarkBillAsDeleted \/ ClearBills
      <4>1. CASE UNCHANGED bill
        BY <4>1 DEF Ids
      <4>2. CASE MarkBillAsDeleted
        BY <4>2 DEF MarkBillAsDeleted, IInv, SelectionOK, TypeOK, Ids
      <4>3. CASE ClearBills
        BY <4>3 DEF ClearBills, Ids
      <4> QED BY <3>1, <4>1, <4>2, <4>3
    <3>2. CASE InsertHeader
      <4>1. PICK n \in BillIds : IsNextId(n) /\ \A m \in BillIds : m # n => bill'[m] = bill[m]
        BY <3>2 DEF InsertHeader, IInv, TypeOK
      <4>2. n \notin Ids /\ \A c \in Ids : c < n
        BY <4>1, NextIdIsFresh DEF IInv
      <4> QED BY <4>1, <4>2 DEF Ids
    <3> QED BY <1>2, <3>1, <3>2, WritesOfBill DEF Bill
  <2>3. ASSUME NEW b \in Ids', NEW c \in Ids', b < c
        PROVE  Date_Time'[b] <= Date_Time'[c]
    <3>1. CASE c \in Ids
      <4>1. b \in Ids
        BY <1>1, <2>2, <2>3, <3>1
      <4> QED BY <2>1, <2>3, <3>1, <4>1 DEF Chronological
    <3>2. CASE c \notin Ids
      <4>1. b \in Ids
        BY <2>2, <2>3, <3>2
      <4> QED BY <2>1, <3>2, <4>1 DEF Chronological
    <3> QED BY <3>1, <3>2
  <2>4. \A b \in Ids' : Date_Time'[b] <= today'
    BY <1>1, <2>1 DEF Chronological
  <2> QED BY <2>3, <2>4 DEF Chronological
<1>3. CASE Midnight
  <2>1. Ids' = Ids /\ Date_Time' = Date_Time /\ today' = today + 1
    BY <1>3 DEF Midnight, vars, tables, Ids
  <2> QED BY <1>1, <2>1 DEF Chronological
<1>4. CASE UNCHANGED reportsVars
  <2>1. Ids' = Ids /\ Date_Time' = Date_Time /\ today' = today
    BY <1>4 DEF reportsVars, calendar, vars, tables, Ids
  <2> QED BY <2>1 DEF Chronological
<1> QED BY <1>2, <1>3, <1>4 DEF ReportsNext

\* The dates of the bills are in the order of their ids, also after Clear Bill.
THEOREM DatesFollowIds == ReportsSpec => []CalInv
<1>1. ReportsInit => Chronological
  BY DEF ReportsInit, Init, Chronological, Ids
<1>2. IInv /\ CalendarOK /\ Chronological /\ [ReportsNext]_reportsVars => Chronological'
  BY StaysChronological
<1> QED BY <1>1, <1>2, BillingAsBefore, Invariance, CalendarCorrect, PTL DEF ReportsSpec, CalInv

-----------------------------------------------------------------------------
\* A set of ids that is not empty has a last one.
LEMMA LastOne ==
    ASSUME NEW S \in SUBSET Ids, S # {}
    PROVE  \E m \in S : \A b \in S : b <= m
<1> DEFINE T == {MaxBillId - b : b \in S}
           R == OpToRel(<, Nat)
<1>1. T \subseteq Nat /\ T # {}
  <2>1. \A b \in S : MaxBillId - b \in Nat
    BY BoundAssumption DEF Ids
  <2>2. PICK b \in S : TRUE
    OBVIOUS
  <2>3. MaxBillId - b \in T
    OBVIOUS
  <2> QED BY <2>1, <2>3
<1>2. \E x \in T : \A y \in T : ~(<<y, x>> \in R)
  <2>1. IsWellFoundedOn(R, Nat)
    BY NatLessThanWellFounded
  <2> HIDE DEF T, R
  <2> QED BY <1>1, <2>1, WFMin
<1>3. PICK m \in S : \A y \in T : ~(<<y, MaxBillId - m>> \in R)
  BY <1>2
<1>4. \A x, y \in Nat : x < y => <<x, y>> \in R
  BY DEF OpToRel
<1>5. ASSUME NEW b \in S PROVE b <= m
  <2>1. b \in Nat /\ m \in Nat /\ MaxBillId \in Nat
        /\ MaxBillId - b \in Nat /\ MaxBillId - m \in Nat /\ MaxBillId - b \in T
    BY BoundAssumption DEF Ids
  <2>2. ~(MaxBillId - b < MaxBillId - m)
    BY <1>3, <1>4, <2>1
  <2> QED BY <2>1, <2>2
<1> QED BY <1>5

\* However many dates there are, those on offer are the latest.
THEOREM LatestDaysAreOffered == ReportsSpec => []LatestDaysOffered
<1>1. ASSUME CalInv PROVE LatestDaysOffered
  <2> SUFFICES ASSUME Ids # {}
               PROVE  /\ \E b \in Ids : IsLastId(b) /\ Date_Time[b] \in UniqueDates
                      /\ \A b \in Ids : Date_Time[b] \in UniqueDates
                                         \/ \A d \in UniqueDates : Date_Time[b] < d
    BY DEF LatestDaysOffered
  <2> DEFINE last == {b \in Ids : \A c \in Ids : Date_Time[c] = Date_Time[b] => c <= b}
             After(c) == {e \in last : e > c}
  <2>t. \A b \in Ids : b \in Nat /\ Date_Time[b] \in Int
    BY <1>1, BoundAssumption, DaysAssumption DEF CalInv, CalendarOK, Days, Ids
  <2>u. UniqueDates = {Date_Time[b] : b \in {c \in last : Cardinality(After(c)) < DateLimit}}
    BY DEF UniqueDates
  <2>1. PICK m \in Ids : \A b \in Ids : b <= m
    BY LastOne
  <2>2. After(m) = {}
    BY <2>t, <2>1
  <2>3. Cardinality(After(m)) < DateLimit
    BY <2>2, FS_EmptySet, LimitsAssumption
  <2>4. m \in last
    BY <2>1
  <2>5. Date_Time[m] \in UniqueDates
    BY <2>u, <2>3, <2>4
  <2>6. ASSUME NEW b \in Ids, Date_Time[b] \notin UniqueDates, NEW d \in UniqueDates
        PROVE  Date_Time[b] < d
    <3>1. PICK c \in last : Cardinality(After(c)) < DateLimit /\ d = Date_Time[c]
      BY <2>u
    <3> DEFINE Same == {e \in Ids : Date_Time[e] = Date_Time[b]}
    <3>2. PICK g \in Same : \A e \in Same : e <= g
      <4>1. Same \in SUBSET Ids /\ b \in Same
        OBVIOUS
      <4> HIDE DEF Same
      <4> QED BY <4>1, LastOne
    <3>3. g \in last /\ Date_Time[g] = Date_Time[b]
      BY <3>2
    <3>4. ~(Cardinality(After(g)) < DateLimit)
      BY <2>u, <2>6, <3>3
    <3>5. ~(g > c)
      <4> SUFFICES ASSUME g > c PROVE FALSE
        OBVIOUS
      <4>1. After(g) \subseteq After(c)
        BY <2>t, <3>1, <3>3
      <4>2. IsFiniteSet(After(c))
        <5>1. After(c) \subseteq 1..MaxBillId
          BY DEF Ids
        <5>2. IsFiniteSet(1..MaxBillId)
          BY BoundAssumption, FS_Interval
        <5> HIDE DEF After
        <5> QED BY <5>1, <5>2, FS_Subset
      <4> HIDE DEF After
      <4>3. Cardinality(After(g)) <= Cardinality(After(c)) /\ Cardinality(After(g)) \in Nat /\ Cardinality(After(c)) \in Nat
        BY <4>1, <4>2, FS_Subset, FS_CardinalityType
      <4> QED BY <3>1, <3>4, <4>3, LimitsAssumption
    <3>6. c \in Ids /\ g \in Ids /\ g # c
      BY <2>6, <3>1, <3>3
    <3>7. g < c
      BY <2>t, <3>5, <3>6
    <3>8. Date_Time[g] <= d
      BY <1>1, <3>1, <3>6, <3>7 DEF CalInv, Chronological
    <3>9. Date_Time[g] # d
      BY <2>6, <3>3
    <3> QED BY <2>t, <3>1, <3>3, <3>6, <3>8, <3>9
  <2>7. IsLastId(m)
    BY <2>1 DEF IsLastId
  <2> QED BY <2>5, <2>6, <2>7
<1> QED BY <1>1, DatesFollowIds, PTL

\* The report of a day that is over prints the same until the bills are
\* cleared, whatever is saved or cancelled in between.
THEOREM DaysAreFinal == ReportsSpec => DayIsFinal
<1> DEFINE A == bill' # bill /\ Ids' # {} => \A d \in Days : d < today => DayReport(d)' = DayReport(d)
<1>1. ASSUME CalInv, [ReportsNext]_reportsVars PROVE A
  <2> SUFFICES ASSUME bill' # bill, Ids' # {}, NEW d \in Days, d < today
               PROVE  DayReport(d)' = DayReport(d)
    OBVIOUS
  <2>1. Bill
    BY <1>1 DEF ReportsNext, Midnight, reportsVars, vars, tables
  <2>2. \A b \in Ids : b \in Ids' /\ bill'[b].net_amt = bill[b].net_amt
    BY <1>1, <2>1, BillsKept DEF CalInv, Bill
  <2>3. \A b \in Ids' : Date_Time'[b] = IF b \in Ids THEN Date_Time[b] ELSE today
    BY <2>1 DEF Bill, Ids
  <2>4. today \in Days /\ today # d
    BY <1>1, DaysAssumption DEF CalInv, CalendarOK, Days
  <2>5. {b \in Ids : Date_Time[b] = d}' = {b \in Ids : Date_Time[b] = d}
    BY <2>2, <2>3, <2>4
  <2>6. BillsForDate(d)' = BillsForDate(d)
    BY <2>5 DEF BillsForDate
  <2> DEFINE B == BillsForDate(d)
  <2>7. \A b \in B : bill'[b].net_amt = bill[b].net_amt
    BY <2>2 DEF BillsForDate, FirstRows
  <2> HIDE DEF B
  <2>8. {<<b, bill'[b].net_amt>> : b \in B} = {<<b, bill[b].net_amt>> : b \in B}
    BY <2>7
  <2>9. [b \in B |-> bill'[b].net_amt] = [b \in B |-> bill[b].net_amt]
    BY <2>7
  <2>10. NetOf(B)' = NetOf(B)
    BY <2>6, <2>9 DEF NetOf, B
  <2> QED BY <2>6, <2>8, <2>10 DEF DayReport, B
<1> QED BY <1>1, DatesFollowIds, PTL DEF ReportsSpec, DayIsFinal

-----------------------------------------------------------------------------
(* Sums: the reports print theirs with the six digits of tostr.             *)

\* What is due for a bill.
Due == {t + a : t \in Totals, a \in Adjustments}

\* As many of the numbers D as there can be bills add up to six digits.
SixDigits(D) == \E m \in Nat : Unit(m * MaxBillId) = 1 /\ \A x \in D : Abs(x) <= m

\* Their sum is printed as it is.
LEMMA SumIsExact ==
    ASSUME NEW D \in SUBSET Int, SixDigits(D),
           NEW S, IsFiniteSet(S), Cardinality(S) <= MaxBillId,
           NEW f, \A x \in S : f[x] \in D
    PROVE  /\ SumFunctionOnSet(f, S) \in Int
           /\ Tostr(SumFunctionOnSet(f, S)) = SumFunctionOnSet(f, S)
<1>1. PICK m \in Nat : Unit(m * MaxBillId) = 1 /\ \A x \in D : Abs(x) <= m
  BY DEF SixDigits
<1>2. \A x \in S : f[x] \in Int /\ -m <= f[x] /\ f[x] <= m
  <2>1. \A x \in Int : Abs(x) <= m => -m <= x /\ x <= m
    BY DEF Abs
  <2> QED BY <1>1, <2>1
<1>3. PICK s \in Int : s = SumFunctionOnSet(f, S)
  BY <1>2, SumIsInt
<1>4. -(m * Cardinality(S)) <= s /\ s <= m * Cardinality(S)
  BY <1>2, <1>3, SumBounded
<1>5. PICK k \in Nat : k = Cardinality(S)
  BY FS_CardinalityType
<1>6. m * k <= m * MaxBillId /\ m * k \in Nat /\ m * MaxBillId \in Nat
  <2>1. \A a, b, c \in Nat : b <= c => a * b <= a * c /\ a * b \in Nat
    OBVIOUS
  <2> QED BY <1>5, <2>1, BoundAssumption
<1>7. Abs(s) \in Nat /\ Abs(s) <= m * MaxBillId
  BY <1>4, <1>5, <1>6 DEF Abs
<1>8. \A x, y \in Nat : x <= y /\ Unit(y) = 1 => Unit(x) = 1
  BY DEF Unit
<1>9. Unit(Abs(s)) = 1
  BY <1>1, <1>6, <1>7, <1>8
<1> QED BY <1>3, <1>9, TostrExact

\* So is each of them.
LEMMA OneIsExact ==
    ASSUME NEW D \in SUBSET Int, SixDigits(D), MaxBillId # 0, NEW x \in D
    PROVE  Tostr(x) = x
<1> DEFINE f == [y \in {x} |-> x]
<1>1. IsFiniteSet({x}) /\ Cardinality({x}) <= MaxBillId
  <2>1. IsFiniteSet({x}) /\ Cardinality({x}) = 1
    BY FS_Singleton
  <2>2. 1 <= MaxBillId
    BY BoundAssumption
  <2> QED BY <2>1, <2>2
<1>2. SumFunctionOnSet(f, {x}) = x
  <2>1. f[x] = x /\ x \in Int
    OBVIOUS
  <2> HIDE DEF f
  <2> QED BY <2>1, SumOfOne
<1>3. \A y \in {x} : f[y] \in D
  OBVIOUS
<1> HIDE DEF f
<1> QED BY <1>1, <1>2, <1>3, SumIsExact

\* The column of the net amounts.
Net == [b \in Ids |-> bill[b].net_amt]

\* The amounts due are numbers.
LEMMA DueIsInt == Due \subseteq Int
  BY TotalsAreNat, AdjustmentsAssumption DEF Due

\* There are finitely many bills, and no more than the bound.
LEMMA IdsFinite == IsFiniteSet(Ids) /\ Cardinality(Ids) <= MaxBillId /\ (Ids # {} => MaxBillId # 0)
<1>1. Ids \subseteq 1..MaxBillId
  BY DEF Ids
<1>2. IsFiniteSet(1..MaxBillId) /\ Cardinality(1..MaxBillId) = MaxBillId
  BY BoundAssumption, FS_Interval
<1>3. Ids # {} => MaxBillId # 0
  <2> SUFFICES ASSUME NEW b \in Ids PROVE MaxBillId # 0
    OBVIOUS
  <2>1. b \in 1..MaxBillId
    BY <1>1
  <2> QED BY <2>1, BoundAssumption
<1> HIDE DEF Ids
<1> QED BY <1>1, <1>2, <1>3, FS_Subset

\* The values of a function on a finite set are finitely many.
LEMMA ImageFinite ==
    ASSUME NEW S, IsFiniteSet(S), NEW f
    PROVE  IsFiniteSet({f[x] : x \in S})
<1> DEFINE T == {f[x] : x \in S}
           g == [x \in S |-> f[x]]
<1>1. g \in [S -> T]
  OBVIOUS
<1>2. \A t \in T : \E x \in S : g[x] = t
  OBVIOUS
<1> HIDE DEF g, T
<1>3. g \in Surjection(S, T)
  BY <1>1, <1>2 DEF Surjection
<1>4. IsFiniteSet(T)
  BY <1>3, FS_Surjection
<1> QED BY <1>4 DEF T

\* So the dates of the bills are.
LEMMA DatesFinite == IsFiniteSet({Date_Time[b] : b \in Ids})
  BY IdsFinite, ImageFinite

\* What is added up of the bills S is printed as it is.
LEMMA NetIsExact ==
    ASSUME TypeOK, SixDigits(Due), NEW S \in SUBSET Ids
    PROVE  /\ \A b \in S : Net[b] \in Due
           /\ NetOf(S) = SumFunctionOnSet(Net, S)
           /\ NetOf(S) \in Int /\ Tostr(NetOf(S)) = NetOf(S)
<1>1. \A b \in Ids : bill[b].net_amt \in Due
  <2> SUFFICES ASSUME NEW b \in Ids PROVE bill[b].net_amt \in Due
    OBVIOUS
  <2>1. bill[b] \in Headers
    BY DEF TypeOK, Ids
  <2>2. PICK t \in Totals, a \in Adjustments : bill[b].net_amt = Tostr(t + a)
    BY <2>1 DEF Headers, NetAmounts
  <2>3. t + a \in Due
    BY DEF Due
  <2> QED BY <2>2, <2>3, OneIsExact, DueIsInt, IdsFinite
<1>2. IsFiniteSet(S) /\ Cardinality(S) <= MaxBillId
  <2>1. IsFiniteSet(S) /\ Cardinality(S) <= Cardinality(Ids) /\ Cardinality(S) \in Nat /\ Cardinality(Ids) \in Nat
    BY IdsFinite, FS_Subset, FS_CardinalityType
  <2> QED BY <2>1, IdsFinite, BoundAssumption
<1> DEFINE n == [b \in S |-> bill[b].net_amt]
<1>3. DOMAIN n = S /\ NetOf(S) = SumFunction(n)
  BY DEF NetOf
<1>4. \A b \in S : n[b] = Net[b] /\ Net[b] \in Due
  BY <1>1 DEF Net
<1> HIDE DEF n
<1>5. NetOf(S) = SumFunctionOnSet(n, S)
  BY <1>3 DEF SumFunction
<1>6. SumFunctionOnSet(Net, S) = SumFunctionOnSet(n, S)
  BY <1>2, <1>4, DueIsInt, SumEqual
<1>7. SumFunctionOnSet(Net, S) \in Int /\ Tostr(SumFunctionOnSet(Net, S)) = SumFunctionOnSet(Net, S)
  BY <1>2, <1>4, DueIsInt, SumIsExact
<1> QED BY <1>4, <1>5, <1>6, <1>7

\* Within the limit, all rows of a query are read.
LEMMA AllRead ==
    ASSUME NEW S \in SUBSET Ids, NEW n \in Nat, Cardinality(S) <= n
    PROVE  FirstRows(S, n) = S
<1>1. IsFiniteSet(S)
  BY IdsFinite, FS_Subset
<1>2. ASSUME NEW b \in S PROVE Cardinality({c \in S : c < b}) < n
  <2> DEFINE U == {c \in S : c < b}
  <2>1. U \in SUBSET S /\ b \notin U
    BY IdsAreNumbers
  <2> HIDE DEF U
  <2>2. Cardinality(U) < n
    BY <1>1, <2>1, FewEnough
  <2> QED BY <2>2 DEF U
<1> QED BY <1>2 DEF FirstRows

\* Within its limit, the day report offers every date of a bill.
LEMMA AllDatesOffered ==
    ASSUME Cardinality({Date_Time[b] : b \in Ids}) <= DateLimit
    PROVE  UniqueDates = {Date_Time[b] : b \in Ids}
<1> DEFINE dates == {Date_Time[b] : b \in Ids}
           last  == {b \in Ids : \A c \in Ids : Date_Time[c] = Date_Time[b] => c <= b}
           After(c) == {e \in last : e > c}
           f == [b \in last |-> Date_Time[b]]
<1>1. UniqueDates = {Date_Time[b] : b \in {c \in last : Cardinality(After(c)) < DateLimit}}
  BY DEF UniqueDates
<1>2. IsFiniteSet(dates)
  BY DatesFinite
<1>3. ASSUME NEW b \in last, NEW c \in last, Date_Time[b] = Date_Time[c] PROVE b = c
  <2>1. b <= c /\ c <= b
    BY <1>3
  <2>2. b \in Nat /\ c \in Nat
    BY IdsAreNumbers
  <2> QED BY <2>1, <2>2
<1>4. f \in Injection(last, dates)
  <2>1. f \in [last -> dates]
    OBVIOUS
  <2>2. \A b, c \in last : f[b] = f[c] => b = c
    BY <1>3
  <2> HIDE DEF f, last, dates
  <2> QED BY <2>1, <2>2 DEF Injection, IsInjective
<1>5. \A c \in last : After(c) \in SUBSET last /\ c \notin After(c)
  BY IdsAreNumbers
<1>6. ASSUME NEW b \in Ids PROVE \E c \in last : Date_Time[c] = Date_Time[b]
  <2> DEFINE Same == {e \in Ids : Date_Time[e] = Date_Time[b]}
  <2>1. Same \in SUBSET Ids /\ b \in Same
    OBVIOUS
  <2>2. PICK g \in Same : \A e \in Same : e <= g
    <3> HIDE DEF Same
    <3> QED BY <2>1, LastOne
  <2> QED BY <2>2
<1>c. Cardinality(dates) <= DateLimit
  OBVIOUS
<1>d. last \subseteq Ids
  OBVIOUS
<1> HIDE DEF dates, last, f, After
<1>7. IsFiniteSet(last) /\ Cardinality(last) <= DateLimit
  <2>1. IsFiniteSet(last) /\ Cardinality(last) <= Cardinality(dates)
    BY <1>2, <1>4, FS_Injection
  <2>2. Cardinality(last) \in Nat /\ Cardinality(dates) \in Nat
    BY <1>2, <2>1, FS_CardinalityType
  <2> QED BY <2>1, <2>2, <1>c, LimitsAssumption
<1>8. \A c \in last : Cardinality(After(c)) < DateLimit
  BY <1>5, <1>7, FewEnough, LimitsAssumption
<1> QED BY <1>1, <1>6, <1>8, <1>d DEF dates

\* The day reports of all dates add up to the total report, each of which counts
\* cancelled bills too (POS_Daily_Report, POS_Total_Report).
THEOREM DaysReconcile ==
    ASSUME SixDigits(Due)
    PROVE  ReportsSpec => []DaysAddUp
<1>1. ASSUME TypeOK, CalendarOK PROVE DaysAddUp
  <2> SUFFICES ASSUME Cardinality(Ids) <= BillLimit,
                      \A d \in Days : Cardinality({b \in Ids : Date_Time[b] = d}) <= DayLimit,
                      Cardinality({Date_Time[b] : b \in Ids}) <= DateLimit
               PROVE  TotalReport.total = SumFunction([d \in UniqueDates |-> DayReport(d).total])
    BY DEF DaysAddUp
  <2>1. AllBills = Ids
    BY AllRead, LimitsAssumption DEF AllBills
  <2>2. TotalReport.total = SumFunctionOnSet(Net, Ids)
    BY <1>1, <2>1, NetIsExact DEF TotalReport
  <2> DEFINE T == {Date_Time[b] : b \in Ids}
             h == [d \in T |-> DayReport(d).total]
  <2>3. UniqueDates = T /\ T \subseteq Days
    BY <1>1, AllDatesOffered DEF CalendarOK, Ids
  <2>4. \A d \in T : h[d] = SumFunctionOnSet(Net, InGroup(Ids, Date_Time, d))
    <3> SUFFICES ASSUME NEW d \in T PROVE h[d] = SumFunctionOnSet(Net, InGroup(Ids, Date_Time, d))
      OBVIOUS
    <3>1. {b \in Ids : Date_Time[b] = d} = InGroup(Ids, Date_Time, d)
      BY DEF InGroup
    <3>2. InGroup(Ids, Date_Time, d) \in SUBSET Ids
      BY DEF InGroup
    <3>3. BillsForDate(d) = InGroup(Ids, Date_Time, d)
      BY <2>3, <3>1, <3>2, AllRead, LimitsAssumption DEF BillsForDate
    <3>4. DayReport(d).total = Tostr(NetOf(InGroup(Ids, Date_Time, d)))
      BY <3>3 DEF DayReport
    <3> QED BY <1>1, <3>2, <3>4, NetIsExact
  <2>5. DOMAIN h = T
    OBVIOUS
  <2>6. IsFiniteSet(T)
    BY DatesFinite
  <2>7. \A b \in Ids : Net[b] \in Int /\ Date_Time[b] \in T
    BY <1>1, NetIsExact, DueIsInt
  <2>8. SumFunction([d \in UniqueDates |-> DayReport(d).total]) = SumFunction(h)
    BY <2>3
  <2> HIDE DEF T, h
  <2>9. SumFunctionOnSet(Net, Ids) = SumFunctionOnSet(h, T)
    BY <2>4, <2>6, <2>7, IdsFinite, SumByGroup
  <2> QED BY <2>2, <2>5, <2>8, <2>9 DEF SumFunction
<1> QED BY <1>1, BillingAsBefore, TypeCorrect, CalendarCorrect, PTL


-----------------------------------------------------------------------------
(* Sales: by product on the stock report, by bill on the others.            *)

\* The rows of the bills that are not cancelled, and their columns.
LiveRows == {i \in DOMAIN item : item[i].Bill_ID \in Ids /\ ~bill[item[i].Bill_ID].is_deleted}
Sort     == [i \in DOMAIN item |-> item[i].Product_ID]
BillOf   == [i \in DOMAIN item |-> item[i].Bill_ID]
Pieces   == [i \in DOMAIN item |-> item[i].Quantity]
Amount   == [i \in DOMAIN item |-> item[i].Quantity * item[i].Net_Amt]

\* What a product sold for; what the rows of a bill and its discount come to.
Worth == [p \in Priced |-> Sold(p) * Rate[p]]
Lines == [b \in Live |-> SumFunction(RowAmount(b))]
Paid  == [b \in Live |-> SumFunction(RowAmount(b)) + bill[b].add_less]

\* The rows are as they were typed.
LEMMA RowTypes ==
    ASSUME TypeOK, PricedRows, Exact
    PROVE  /\ IsFiniteSet(DOMAIN item) /\ IsFiniteSet(LiveRows) /\ LiveRows \subseteq DOMAIN item
           /\ \A i \in DOMAIN item : /\ Pieces[i] \in Quantities /\ Sort[i] \in Priced
                                     /\ Amount[i] = Rate[Sort[i]] * Pieces[i] /\ Amount[i] \in Nat
<1>1. DOMAIN item = 1..Len(item) /\ Len(item) \in Nat
  BY DEF TypeOK
<1>2. IsFiniteSet(DOMAIN item)
  BY <1>1, FS_Interval
<1>3. LiveRows \subseteq DOMAIN item
  BY DEF LiveRows
<1>4. ASSUME NEW i \in DOMAIN item
      PROVE  /\ Pieces[i] \in Quantities /\ Sort[i] \in Priced
             /\ Amount[i] = Rate[Sort[i]] * Pieces[i] /\ Amount[i] \in Nat
  <2>1. item[i] \in Items
    BY DEF TypeOK
  <2>2. item[i].Quantity \in Quantities
    BY <2>1 DEF Items, Exact
  <2>3. item[i].Product_ID \in Priced /\ item[i].Net_Amt = Rate[item[i].Product_ID]
    BY DEF PricedRows, Exact
  <2>4. item[i].Quantity \in Nat /\ Rate[item[i].Product_ID] \in Nat
    BY <2>2, <2>3, QuantitiesAssumption, RatesAssumption
  <2>5. \A m, n \in Nat : m * n = n * m /\ m * n \in Nat
    OBVIOUS
  <2> QED BY <2>2, <2>3, <2>4, <2>5 DEF Pieces, Sort, Amount
<1>5. IsFiniteSet(LiveRows)
  BY <1>2, <1>3, FS_Subset
<1> QED BY <1>2, <1>3, <1>4, <1>5

\* No bill lists a product twice, so what was sold of it is few enough to be
\* printed as it is.
LEMMA SoldIsExact ==
    ASSUME TypeOK, NoProductTwice, PricedRows, Exact, SixDigits(Quantities), NEW p
    PROVE  /\ Sold(p) = SumFunctionOnSet(Pieces, InGroup(LiveRows, Sort, p))
           /\ Sold(p) \in Nat /\ Tostr(Sold(p)) = Sold(p)
<1> DEFINE rows == InGroup(LiveRows, Sort, p)
           f == [i \in rows |-> item[i].Bill_ID]
           q == [i \in rows |-> item[i].Quantity]
<1>1. rows = {i \in DOMAIN item : /\ item[i].Product_ID = p
                                  /\ item[i].Bill_ID \in Ids
                                  /\ ~bill[item[i].Bill_ID].is_deleted}
  BY DEF InGroup, LiveRows, Sort
<1>2. Sold(p) = SumFunction(q) /\ DOMAIN q = rows
  BY <1>1 DEF Sold
<1>3. \A i, j \in rows : item[i].Bill_ID = item[j].Bill_ID => i = j
  BY <1>1 DEF NoProductTwice
<1>4. f \in Injection(rows, Ids)
  <2>1. f \in [rows -> Ids]
    BY <1>1
  <2>2. \A i, j \in rows : f[i] = f[j] => i = j
    BY <1>3
  <2> HIDE DEF f, rows
  <2> QED BY <2>1, <2>2 DEF Injection, IsInjective
<1>5. rows \subseteq DOMAIN item /\ \A i \in rows : q[i] = Pieces[i] /\ Pieces[i] \in Quantities
  BY <1>1, RowTypes DEF Pieces
<1> HIDE DEF rows, f, q
<1>6. IsFiniteSet(rows) /\ Cardinality(rows) <= Cardinality(Ids)
  BY <1>4, IdsFinite, FS_Injection
<1>7. Cardinality(rows) <= MaxBillId
  <2>1. Cardinality(rows) \in Nat /\ Cardinality(Ids) \in Nat
    BY <1>6, IdsFinite, FS_CardinalityType
  <2> QED BY <2>1, <1>6, IdsFinite, BoundAssumption
<1>n. \A i \in rows : Pieces[i] \in Nat
  BY <1>5, QuantitiesAssumption
<1>8. SumFunctionOnSet(Pieces, rows) = SumFunctionOnSet(q, rows)
  <2>1. \A i \in rows : Pieces[i] \in Int /\ Pieces[i] = q[i]
    BY <1>5, <1>n
  <2> QED BY <1>6, <2>1, SumEqual
<1>9. SumFunctionOnSet(Pieces, rows) \in Nat
  BY <1>6, <1>n, SumIsNat
<1>10. Tostr(SumFunctionOnSet(Pieces, rows)) = SumFunctionOnSet(Pieces, rows)
  <2>1. Quantities \in SUBSET Int
    BY QuantitiesAssumption
  <2> QED BY <1>5, <1>6, <1>7, <2>1, SumIsExact
<1> QED BY <1>2, <1>8, <1>9, <1>10 DEF SumFunction, rows

\* What the products sold for is what the rows come to.
LEMMA StockIsRows ==
    ASSUME TypeOK, NoProductTwice, PricedRows, Exact, SixDigits(Quantities)
    PROVE  SumFunction([s \in StockReport |-> s[2] * Rate[s[1]]]) = SumFunctionOnSet(Amount, LiveRows)
<1> DEFINE Sellers == {q \in Products : Sold(q) > 0}
           Idle == Priced \ Sellers
           h    == [s \in StockReport |-> s[2] * Rate[s[1]]]
           name == [p \in Sellers |-> <<p, Tostr(Sold(p))>>]
<1>1. \A p \in Products : p \notin Priced => Sold(p) = 0
  <2> SUFFICES ASSUME NEW p \in Products, p \notin Priced PROVE Sold(p) = 0
    OBVIOUS
  <2>1. InGroup(LiveRows, Sort, p) = {}
    BY RowTypes DEF InGroup
  <2> QED BY <2>1, SoldIsExact, SumOfNothing
<1>2. Sellers \subseteq Priced
  BY <1>1
<1>3. IsFiniteSet(Priced) /\ IsFiniteSet(Sellers) /\ IsFiniteSet(Idle)
  BY <1>2, ProductsAssumption, RatesAssumption, FS_Subset
<1>4. ASSUME NEW p \in Priced
      PROVE  Worth[p] \in Int /\ Worth[p] = SumFunctionOnSet(Amount, InGroup(LiveRows, Sort, p))
  <2>1. Rate[p] \in Nat /\ Sold(p) \in Nat /\ Sold(p) = SumFunctionOnSet(Pieces, InGroup(LiveRows, Sort, p))
    BY RatesAssumption, SoldIsExact
  <2>2. IsFiniteSet(InGroup(LiveRows, Sort, p))
    BY RowTypes, FS_Subset DEF InGroup
  <2>3. ASSUME NEW i \in InGroup(LiveRows, Sort, p)
        PROVE  Pieces[i] \in Int /\ Amount[i] = Rate[p] * Pieces[i]
    <3>1. i \in DOMAIN item /\ Sort[i] = p
      BY RowTypes DEF InGroup
    <3>2. Pieces[i] \in Quantities /\ Amount[i] = Rate[Sort[i]] * Pieces[i]
      BY <3>1, RowTypes
    <3> QED BY <3>1, <3>2, QuantitiesAssumption
  <2>4. SumFunctionOnSet(Amount, InGroup(LiveRows, Sort, p)) = Rate[p] * Sold(p)
    <3>1. PICK c \in Int : c = Rate[p]
      BY <2>1
    <3>r. PICK R : R = InGroup(LiveRows, Sort, p)
      OBVIOUS
    <3>2. IsFiniteSet(R) /\ \A i \in R : Pieces[i] \in Int /\ Amount[i] = c * Pieces[i]
      BY <2>2, <2>3, <3>1, <3>r
    <3>3. SumFunctionOnSet(Amount, R) = c * SumFunctionOnSet(Pieces, R)
      BY <3>2, SumTimes
    <3> QED BY <2>1, <3>1, <3>r, <3>3
  <2>5. \A m, n \in Nat : m * n = n * m /\ m * n \in Int
    OBVIOUS
  <2> QED BY <2>1, <2>4, <2>5 DEF Worth
<1>5. SumFunctionOnSet(Amount, LiveRows) = SumFunctionOnSet(Worth, Priced)
  <2>1. \A i \in LiveRows : Amount[i] \in Int /\ Sort[i] \in Priced
    BY RowTypes
  <2> QED BY <1>3, <1>4, <2>1, RowTypes, SumByGroup
<1>6. \A p \in Idle : Worth[p] = 0
  <2> SUFFICES ASSUME NEW p \in Idle PROVE Worth[p] = 0
    OBVIOUS
  <2>1. p \in Products /\ Rate[p] \in Nat /\ ~(Sold(p) > 0) /\ Sold(p) \in Nat
    BY RatesAssumption, SoldIsExact
  <2>2. Sold(p) = 0
    BY <2>1
  <2> QED BY <2>1, <2>2 DEF Worth
<1>7. \A p \in Sellers : name[p] \in StockReport /\ h[name[p]] = Worth[p]
  <2> SUFFICES ASSUME NEW p \in Sellers PROVE name[p] \in StockReport /\ h[name[p]] = Worth[p]
    OBVIOUS
  <2>1. name[p] = <<p, Sold(p)>> /\ name[p] \in StockReport
    BY SoldIsExact DEF StockReport
  <2> QED BY <1>2, <2>1 DEF Worth
<1>8. \A s \in StockReport : \E p \in Sellers : name[p] = s
  BY DEF StockReport
<1>9. \A p, q \in Sellers : name[p] = name[q] => p = q
  OBVIOUS
<1>10. IsFiniteSet(StockReport)
  <2>1. StockReport = {name[p] : p \in Sellers}
    BY DEF StockReport
  <2> HIDE DEF Sellers, name
  <2> QED BY <1>3, <2>1, ImageFinite
<1>11. DOMAIN h = StockReport
  OBVIOUS
<1>12. Priced = Sellers \cup Idle /\ Sellers \cap Idle = {}
  BY <1>2
<1> HIDE DEF Sellers, Idle, h, name
<1>13. SumFunctionOnSet(Worth, Idle) = 0
  <2>1. \A p \in Idle : Worth[p] \in Int /\ Worth[p] = 0 * Worth[p]
    BY <1>6
  <2>2. SumFunctionOnSet(Worth, Idle) = 0 * SumFunctionOnSet(Worth, Idle)
    BY <1>3, <2>1, SumTimes
  <2>3. SumFunctionOnSet(Worth, Idle) \in Int
    BY <1>3, <2>1, SumIsInt
  <2> QED BY <2>2, <2>3
<1>14. SumFunctionOnSet(Worth, Priced) = SumFunctionOnSet(Worth, Sellers)
  <2>1. SumFunctionOnSet(Worth, Priced) = SumFunctionOnSet(Worth, Sellers) + SumFunctionOnSet(Worth, Idle)
    BY <1>3, <1>4, <1>12, SumUnion
  <2>2. SumFunctionOnSet(Worth, Sellers) \in Int
    BY <1>2, <1>3, <1>4, SumIsInt
  <2> QED BY <1>13, <2>1, <2>2
<1>15. SumFunctionOnSet(Worth, Sellers) = SumFunctionOnSet(h, StockReport)
  <2>1. \A p \in Sellers : Worth[p] \in Int
    BY <1>2, <1>4
  <2> QED BY <1>3, <1>7, <1>8, <1>9, <1>10, <2>1, SumRenamed
<1> QED BY <1>5, <1>11, <1>14, <1>15 DEF SumFunction, h

\* What the rows come to is what they come to bill by bill.
LEMMA RowsByBill ==
    ASSUME TypeOK, PricedRows, Exact
    PROVE  /\ SumFunctionOnSet(Amount, LiveRows) = SumFunctionOnSet(Lines, Live)
           /\ \A b \in Live : Lines[b] \in Nat
<1>1. IsFiniteSet(Live)
  BY IdsFinite, FS_Subset DEF Live
<1>2. ASSUME NEW b \in Live
      PROVE  Lines[b] \in Nat /\ Lines[b] = SumFunctionOnSet(Amount, InGroup(LiveRows, BillOf, b))
  <2>1. InGroup(LiveRows, BillOf, b) = RowsOf(b)
    BY DEF InGroup, LiveRows, BillOf, RowsOf, Live
  <2>2. \A i \in RowsOf(b) : RowAmount(b)[i] = Amount[i] /\ Amount[i] \in Nat
    BY RowTypes DEF RowsOf, RowAmount, Amount
  <2>3. Lines[b] = SumFunctionOnSet(RowAmount(b), RowsOf(b))
    BY DEF Lines, SumFunction, RowAmount
  <2>4. IsFiniteSet(RowsOf(b))
    BY RowsFinite
  <2>5. SumFunctionOnSet(Amount, RowsOf(b)) = SumFunctionOnSet(RowAmount(b), RowsOf(b))
    BY <2>2, <2>4, SumEqual
  <2>6. SumFunctionOnSet(Amount, RowsOf(b)) \in Nat
    BY <2>2, <2>4, SumIsNat
  <2> QED BY <2>1, <2>3, <2>5, <2>6
<1>3. \A i \in LiveRows : Amount[i] \in Int /\ BillOf[i] \in Live
  BY RowTypes DEF LiveRows, BillOf, Live
<1> QED BY <1>1, <1>2, <1>3, RowTypes, SumByGroup

\* What the total report shows without the cancelled bills is due for the others.
LEMMA NetSalesIsNet ==
    ASSUME TypeOK, SixDigits(Due), Cardinality(Ids) <= BillLimit
    PROVE  NetSales = SumFunctionOnSet(Net, Live)
<1> DEFINE Gone == {b \in Ids : bill[b].is_deleted}
           h    == [s \in CancelledBillReport |-> s[2]]
           name == [b \in Gone |-> <<b, bill[b].net_amt>>]
<1>1. AllBills = Ids
  BY AllRead, LimitsAssumption DEF AllBills
<1>2. TotalReport.total = SumFunctionOnSet(Net, Ids) /\ \A b \in Ids : Net[b] \in Int
  BY <1>1, NetIsExact, DueIsInt DEF TotalReport
<1>3. CancelledBillReport = {<<b, bill[b].net_amt>> : b \in Gone}
  BY <1>1 DEF CancelledBillReport
<1>4. IsFiniteSet(Live) /\ IsFiniteSet(Gone)
  BY IdsFinite, FS_Subset DEF Live
<1>5. Ids = Live \cup Gone /\ Live \cap Gone = {}
  BY DEF Live
<1>6. \A b \in Gone : name[b] \in CancelledBillReport /\ h[name[b]] = Net[b]
  BY <1>3 DEF Net
<1>7. \A b, c \in Gone : name[b] = name[c] => b = c
  OBVIOUS
<1>8. \A s \in CancelledBillReport : \E b \in Gone : name[b] = s
  BY <1>3
<1>9. DOMAIN h = CancelledBillReport
  OBVIOUS
<1> HIDE DEF Gone, h, name
<1>10. IsFiniteSet(CancelledBillReport)
  <2>1. CancelledBillReport = {name[b] : b \in Gone}
    BY <1>3 DEF name
  <2> QED BY <1>4, <2>1, ImageFinite
<1>11. SumFunctionOnSet(Net, Gone) = SumFunctionOnSet(h, CancelledBillReport)
  BY <1>2, <1>4, <1>5, <1>6, <1>7, <1>8, <1>10, SumRenamed
<1>12. SumFunctionOnSet(Net, Ids) = SumFunctionOnSet(Net, Live) + SumFunctionOnSet(Net, Gone)
  BY <1>2, <1>4, <1>5, SumUnion
<1>13. SumFunctionOnSet(Net, Live) \in Int /\ SumFunctionOnSet(Net, Gone) \in Int
  BY <1>2, <1>4, <1>5, SumIsInt
<1> QED BY <1>2, <1>9, <1>11, <1>12, <1>13 DEF NetSales, SumFunction, h

\* What the stock report shows, with the discounts, is what the bills come to.
LEMMA SoldValueIsPaid ==
    ASSUME TypeOK, NoProductTwice, PricedRows, BalInv, Exact, SixDigits(Quantities)
    PROVE  SoldValue = SumFunctionOnSet(Paid, Live)
<1> DEFINE d == [b \in Live |-> bill[b].add_less]
<1>1. \A b \in Live : Lines[b] \in Int /\ d[b] \in Int /\ Paid[b] = Lines[b] + d[b]
  <2>1. \A b \in Ids : bill[b].add_less \in Int
    BY AdjustmentsAssumption DEF BalInv, Booked
  <2> QED BY <2>1, RowsByBill DEF Lines, Paid, Live
<1>2. IsFiniteSet(Live)
  BY IdsFinite, FS_Subset DEF Live
<1>3. DOMAIN d = Live
  OBVIOUS
<1>4. SoldValue = SumFunctionOnSet(Lines, Live) + SumFunction(d)
  BY StockIsRows, RowsByBill DEF SoldValue
<1> HIDE DEF d
<1>5. SumFunctionOnSet(Paid, Live) = SumFunctionOnSet(Lines, Live) + SumFunctionOnSet(d, Live)
  BY <1>1, <1>2, SumPlus
<1> QED BY <1>3, <1>4, <1>5 DEF SumFunction

\* A bill comes to no more than what is due for it, and to that if it is whole.
LEMMA PaidIsDue ==
    ASSUME TypeOK, BalInv, Exact, SixDigits(Due), NEW b \in Live
    PROVE  /\ Paid[b] \in Int /\ Net[b] \in Int /\ Paid[b] <= Net[b]
           /\ Complete(b) => Paid[b] = Net[b]
<1>1. b \in Ids
  BY DEF Live
<1>2. PICK t \in Totals, a \in Adjustments : Booked(b, t, a)
  BY <1>1 DEF BalInv
<1>3. t + a \in Due /\ t \in Int /\ a \in Int
  BY TotalsAreNat, AdjustmentsAssumption DEF Due
<1>4. Net[b] = t + a /\ bill[b].add_less = a
  <2>1. Tostr(t + a) = t + a
    BY <1>1, <1>3, OneIsExact, DueIsInt, IdsFinite
  <2> QED BY <1>1, <1>2, <2>1 DEF Booked, Net
<1>5. PICK l \in Nat : l = SumFunction(RowAmount(b))
  <2>1. \A i \in RowsOf(b) : RowAmount(b)[i] \in Nat
    BY AmountTypes
  <2>2. DOMAIN RowAmount(b) = RowsOf(b)
    BY DEF RowAmount
  <2> QED BY <2>1, <2>2, RowsFinite, SumIsNat DEF SumFunction
<1>6. Paid[b] = l + a
  BY <1>4, <1>5 DEF Paid
<1>7. l <= t /\ (Complete(b) => l = t)
  BY <1>2, <1>5 DEF Booked
<1> QED BY <1>3, <1>4, <1>6, <1>7

\* Three reports reconcile while every bill has its rows and no limit is
\* reached.
THEOREM SalesAgree ==
    ASSUME Exact, SixDigits(Due), SixDigits(Quantities)
    PROVE  ReportsSpec => []SalesReconcile
<1>1. ASSUME IInv, PricedRows, BalInv PROVE SalesReconcile
  <2> SUFFICES ASSUME Cardinality(Ids) <= BillLimit, \A b \in Ids : Complete(b)
               PROVE  SoldValue = NetSales
    BY DEF SalesReconcile
  <2>1. \A b \in Live : Paid[b] \in Int /\ Net[b] = Paid[b]
    BY <1>1, PaidIsDue DEF IInv, Live
  <2>2. IsFiniteSet(Live)
    BY IdsFinite, FS_Subset DEF Live
  <2>3. SumFunctionOnSet(Paid, Live) = SumFunctionOnSet(Net, Live)
    BY <2>1, <2>2, SumEqual
  <2> QED BY <1>1, <2>3, SoldValueIsPaid, NetSalesIsNet DEF IInv
<1> QED BY <1>1, BillingAsBefore, Invariance, RowsArePriced, AmountsAreBooked, PTL

\* Whatever fails and wherever the power is cut, the reports never show more
\* goods sold than money taken.
THEOREM NeverMoreThanPaid ==
    ASSUME Exact, SixDigits(Due), SixDigits(Quantities)
    PROVE  ReportsSpec => []GoodsArePaid
<1>1. ASSUME IInv, PricedRows, BalInv PROVE GoodsArePaid
  <2> SUFFICES ASSUME Cardinality(Ids) <= BillLimit PROVE SoldValue <= NetSales
    BY DEF GoodsArePaid
  <2>1. \A b \in Live : Paid[b] \in Int /\ Net[b] \in Int /\ Paid[b] <= Net[b]
    BY <1>1, PaidIsDue DEF IInv
  <2>2. IsFiniteSet(Live)
    BY IdsFinite, FS_Subset DEF Live
  <2>3. SumFunctionOnSet(Paid, Live) <= SumFunctionOnSet(Net, Live)
    BY <2>1, <2>2, SumMonotone
  <2> QED BY <1>1, <2>3, SoldValueIsPaid, NetSalesIsNet DEF IInv
<1> QED BY <1>1, BillingAsBefore, Invariance, RowsArePriced, AmountsAreBooked, PTL
=============================================================================
