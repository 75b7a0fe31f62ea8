-------------------------- MODULE CollectionReport --------------------------
(***************************************************************************)
(* The reports on collections: by date, month, year or customer, picked    *)
(* from a list or, for dates, typed in.  Code: src/src/main.cpp, from      *)
(* getDateWiseDetails to CustomerWiseReport; the four functions that print *)
(* differ only in the query and the title.                                 *)
(*                                                                         *)
(* The reports on bills (POS_Daily_Report to POS_Deleted_Bill_Report) and  *)
(* the receipts (insertAndPrint, display_bill_summary) are printed by the  *)
(* same device, each as a fixed number of texts.  What is in the texts is  *)
(* in PosReports, PosBilling and PayCollection.                            *)
(*                                                                         *)
(* A step is the code between two calls of the printer's driver, or up to  *)
(* a key.  Paper can run out, and be loaded, at any point.  The driver     *)
(* (src/lib/visiontek/inc/printer.h) may fail at every call: prn_open and  *)
(* prn_close answer -1, prn_paperstatus -1 with paper there, and           *)
(* prn_write_text -1 to -7 for a device that is not open, no paper, a low  *)
(* battery, the temperature, or an error.  A text it stops in the middle   *)
(* of counts as refused.                                                   *)
(*                                                                         *)
(* printer::WriteText (src/src/Visiontek.cpp) is declared to return what   *)
(* the driver answered, but has no return statement: whether its caller    *)
(* sees "-3, no paper" says nothing about the paper, and is a free choice  *)
(* here, after every write.                                                *)
(***************************************************************************)
EXTENDS Integers, Sequences, FiniteSets, FiniteSetsExt, SequencesExt

CONSTANTS
    Tables,         \* what pay_coll_trans may hold: sequences of rows
    ListLimit,      \* how many periods or customers a list offers
    ReadLimit,      \* how many rows a report reads
    MaxStrip        \* bound: nothing is printed again when a strip is this long

\* The reports on collections.
Kinds == {"date", "month", "year", "customer"}

\* What is printed without a loop: reports on bills, and receipts.
Fixed == {"bills", "receipt"}

\* How many times these call WriteText.
Texts(k) == IF k = "receipt" THEN 7 ELSE 6

ASSUME LimitsAssumption == ListLimit \in Nat \ {0} /\ ReadLimit \in Nat
ASSUME BoundAssumption  == MaxStrip \in Nat

\* A Date_Time is <<year, month, day>>, or <<>> when it is no date; a Cust_ID
\* is <<id>>, or <<>> when it has less than the six digits the query asks for.
ASSUME TablesAssumption ==
    \A t \in Tables :
        /\ t \in Seq([Date_Time : Seq(Nat), Cust_ID : Seq(Nat), Net_Amt : Int])
        /\ \A n \in DOMAIN t : Len(t[n].Date_Time) \in {0, 3} /\ Len(t[n].Cust_ID) \in {0, 1}

\* Amounts are whole currency units, of which a float adds up as many as a
\* report reads without rounding, and "%0.2f" prints all digits.
ASSUME FloatExact ==
    \A t \in Tables : \A n \in DOMAIN t : t[n].Net_Amt * ReadLimit \in (-16777216)..16777216

VARIABLES
    trans,              \* the table; Trans_No is the position
    pc,                 \* where the program is
    kind,               \* what is printed: one of Kinds or of Fixed
    key,                \* the period or customer it was asked for
    allTransactions,    \* the Trans_Nos that were read
    part,               \* what it prints: the title, row i, the total, or text i
    i,
    parsedNetAmt,
    paper,              \* there is paper
    open,               \* the printer's device is open
    strip,              \* history: what has been printed of this report
    refused,            \* history: the texts of it that the driver refused
    asked               \* history: it found no paper, and the user was asked

query   == <<kind, key, allTransactions>>
printed == <<part, i, parsedNetAmt>>
device  == <<paper, open>>
history == <<strip, refused, asked>>
vars    == <<trans, pc, query, printed, device, history>>

-----------------------------------------------------------------------------
(* Queries *)

Column(k, n) == IF k = "customer" THEN trans[n].Cust_ID ELSE trans[n].Date_Time

\* The pieces that substr keeps.
Width(k) == CASE k = "year" -> 1 [] k = "month" -> 2 [] k = "date" -> 3 [] k = "customer" -> 1

HasKey(k) == {n \in DOMAIN trans : Column(k, n) # <<>>}
KeyOf(k, n) == SubSeq(Column(k, n), 1, Width(k))

\* The first rows of S, up to a limit.
FirstOf(S, limit) == {n \in S : Cardinality({j \in S : j < n}) < limit}

\* select distinct substr(...): the latest dates (ORDER BY Trans_No DESC), or
\* the customers in the order in which they appear in the table.
Offered(k) ==
    LET first == {n \in HasKey(k) : \A m \in HasKey(k) : KeyOf(k, m) = KeyOf(k, n) => n <= m}
        last  == {n \in HasKey(k) : \A m \in HasKey(k) : KeyOf(k, m) = KeyOf(k, n) => m <= n}
        listed == IF k = "customer"
                  THEN FirstOf(first, ListLimit)
                  ELSE {n \in last : Cardinality({j \in last : j > n}) < ListLimit}
    IN  {KeyOf(k, n) : n \in listed}

\* ... WHERE ... LIKE ? || '%'
Matching(k, x) == {n \in DOMAIN trans : IsPrefix(x, Column(k, n))}

\* Mutant: the last row of the limit is not read.
ReadShort(k, x) == FirstOf(Matching(k, x), ReadLimit - 1)

\* The first ReadLimit rows of SELECT * ...
Read(k, x) == FirstOf(Matching(k, x), ReadLimit)

\* The rows as a vector, in the order of the table.
InOrder(S) == {s \in [1..Cardinality(S) -> S] : \A a, b \in DOMAIN s : a < b => s[a] < s[b]}

-----------------------------------------------------------------------------
Init ==
    /\ trans \in Tables
    /\ pc = "menu"
    /\ kind = "date"
    /\ key = <<>>
    /\ allTransactions = <<>>
    /\ part = "title"
    /\ i = 0
    /\ parsedNetAmt = 0
    /\ paper \in BOOLEAN
    /\ open = FALSE
    /\ strip = <<>>
    /\ refused = {}
    /\ asked = FALSE

\* The function returns, its locals are gone and the strip is torn off.
Return ==
    /\ pc' = "menu"
    /\ kind' = "date"
    /\ key' = <<>>
    /\ allTransactions' = <<>>
    /\ part' = "title"
    /\ i' = 0
    /\ parsedNetAmt' = 0
    /\ strip' = <<>>
    /\ refused' = {}
    /\ asked' = FALSE

\* prn_open, whatever it answers: a device that is not open may stay so.
OpenPrinter == open' \in {TRUE, open}

\* Read the rows and open the printer.
OpenReport(k, x) ==
    /\ kind' = k
    /\ key' = x
    /\ allTransactions' \in InOrder(Read(k, x))
    /\ OpenPrinter
    /\ pc' = "write"
    /\ part' = "title"
    /\ i' = 0
    /\ parsedNetAmt' = 0
    /\ UNCHANGED <<trans, paper, history>>

\* ListDates, ListMonths, ListYears: ENTER or F6 on a line.
ListPeriods ==
    /\ pc = "menu"
    /\ \E k \in Kinds \ {"customer"} : \E x \in Offered(k) : OpenReport(k, x)

\* EnteringDate: a date or the beginning of one, with collections or without.
EnteringDate ==
    /\ pc = "menu"
    /\ \/ \E n \in HasKey("date"), w \in 1..3 :
             OpenReport("date", SubSeq(trans[n].Date_Time, 1, w))
       \/ OpenReport("date", <<0>>)

\* CustomerWiseReport: a customer, then the question whether to print.
PickCustomer ==
    /\ pc = "menu"
    /\ kind' = "customer"
    /\ key' \in Offered("customer")
    /\ pc' = "ask"
    /\ UNCHANGED <<trans, allTransactions, printed, device, history>>

\* getCustomerWiseDetails: ENTER ...
PrintCustomer ==
    /\ pc = "ask"
    /\ kind = "customer"
    /\ OpenReport(kind, key)

\* POS_Daily_Report (a date was picked), POS_Total_Report, POS_Stock_Report
\* and insertAndPrint: "Press Enter to print".
AskToPrint ==
    /\ pc = "menu"
    /\ kind' \in Fixed
    /\ pc' = "ask"
    /\ UNCHANGED <<trans, key, allTransactions, printed, device, history>>

\* ENTER; POS_Deleted_Bill_Report and display_bill_summary do not ask.
OpenFixed ==
    /\ \/ pc = "menu" /\ kind' \in Fixed
       \/ pc = "ask" /\ kind \in Fixed /\ UNCHANGED kind
    /\ OpenPrinter
    /\ pc' = "check"
    /\ UNCHANGED <<trans, key, allTransactions, printed, paper, history>>

\* ... or another key, or ENTER when there is nothing to report.
LeaveQuestion ==
    /\ pc = "ask"
    /\ Return
    /\ UNCHANGED <<trans, device>>

-----------------------------------------------------------------------------
(* Printing *)

Text(p, n) == [part |-> p, n |-> n]

\* The text whose turn it is.
Current ==
    Text(part, CASE part = "title" -> 0
                 [] part = "row"   -> allTransactions[i]
                 [] part = "total" -> parsedNetAmt
                 [] part = "text"  -> i)

\* prn_write_text prints the text, or refuses it: always when the device is not
\* open or there is no paper, and for its other reasons at any time.
Send(t) ==
    \/ open /\ paper /\ strip' = Append(strip, t) /\ UNCHANGED refused
    \/ refused' = refused \cup {t} /\ UNCHANGED strip

\* prn_paperstatus can answer 0: there is paper, or nobody looks for it.
PaperSeen == paper \/ ~open

\* Mutant: the first row is left out.
StartAtTwo ==
    \/ /\ part # "total" /\ i < Len(allTransactions)
       /\ part' = "row" /\ i' = (IF i = 0 /\ Len(allTransactions) > 1 THEN 2 ELSE i + 1)
       /\ pc' = "write"
    \/ /\ part # "total" /\ i = Len(allTransactions)
       /\ part' = "total" /\ i' = i /\ pc' = "write"
    \/ /\ part = "total"
       /\ pc' = "feed" /\ UNCHANGED <<part, i>>

\* Mutant: the loop goes one row too far.
ContinuePast ==
    \/ /\ part # "total" /\ i <= Len(allTransactions)
       /\ part' = "row" /\ i' = i + 1 /\ pc' = "write"
    \/ /\ part # "total" /\ i > Len(allTransactions)
       /\ part' = "total" /\ i' = i /\ pc' = "write"
    \/ /\ part = "total"
       /\ pc' = "feed" /\ UNCHANGED <<part, i>>

\* On to the next row, to the total after the last, and to the end after it.
Continue ==
    \/ /\ part # "total" /\ i < Len(allTransactions)
       /\ part' = "row" /\ i' = i + 1 /\ pc' = "write"
    \/ /\ part # "total" /\ i = Len(allTransactions)
       /\ part' = "total" /\ i' = i /\ pc' = "write"
    \/ /\ part = "total"
       /\ pc' = "feed" /\ UNCHANGED <<part, i>>

\* What WriteText returned is not -3, or it is.
Returned == Continue \/ (pc' = "status" /\ UNCHANGED <<part, i>>)

\* Mutant: an amount is only added up when it is printed.
WriteThenAdd ==
    /\ pc = "write" /\ part # "text"
    /\ Send(Current)
    /\ parsedNetAmt' = IF part = "row" /\ strip' # strip
                       THEN parsedNetAmt + trans[allTransactions[i]].Net_Amt
                       ELSE parsedNetAmt
    /\ Returned
    /\ UNCHANGED <<trans, query, device, asked>>

\* The first WriteText of a part; the amount of a row is added up before it.
Write ==
    /\ pc = "write" /\ part # "text"
    /\ parsedNetAmt' = IF part = "row" THEN parsedNetAmt + trans[allTransactions[i]].Net_Amt
                       ELSE parsedNetAmt
    /\ Send(Current)
    /\ Returned
    /\ UNCHANGED <<trans, query, device, asked>>

\* Mutant: when the paper is back, the part is written again without a key.
Rewrite ==
    /\ pc = "status"
    /\ pc' = IF paper THEN "write" ELSE "noPaper"
    /\ UNCHANGED <<trans, query, printed, device, history>>

\* while (prn_paperstatus() != 0).  When the paper is back the loop ends, and
\* the part is not written again.
CheckPaper ==
    /\ pc = "status"
    /\ \/ PaperSeen /\ Continue /\ UNCHANGED asked
       \/ pc' = "noPaper" /\ asked' = TRUE /\ UNCHANGED <<part, i>>
    /\ UNCHANGED <<trans, query, parsedNetAmt, device, strip, refused>>

\* Mutant: a row is written again like the title and the total.
RetryRow ==
    /\ pc = "noPaper"
    /\ PaperSeen /\ Len(strip) < MaxStrip
    /\ Send(Current)
    /\ Returned
    /\ UNCHANGED <<trans, query, parsedNetAmt, device, asked>>

\* ENTER, with paper: the title or the total is written again.  For a row it
\* is buff1 that is written, which is still empty: nothing is sent.
Retry ==
    /\ pc = "noPaper"
    /\ PaperSeen /\ Len(strip) < MaxStrip
    /\ IF part = "row" THEN UNCHANGED <<strip, refused>> ELSE Send(Current)
    /\ Returned
    /\ UNCHANGED <<trans, query, parsedNetAmt, device, asked>>

\* ENTER when prn_paperstatus fails, or any key but CANCEL.
OtherKey ==
    /\ pc = "noPaper"
    /\ pc' = "status"
    /\ UNCHANGED <<trans, query, printed, device, history>>

\* CANCEL: the function returns without prn_close.
Cancel ==
    /\ pc = "noPaper"
    /\ Return
    /\ UNCHANGED <<trans, device>>

\* A report on bills or a receipt looks for paper once, before it writes.
CheckOnce ==
    /\ pc = "check"
    /\ \/ PaperSeen /\ part' = "text" /\ i' = 1 /\ pc' = "write" /\ UNCHANGED asked
       \/ pc' = "missing" /\ asked' = TRUE /\ UNCHANGED <<part, i>>
    /\ UNCHANGED <<trans, query, parsedNetAmt, device, strip, refused>>

\* "No Paper !", a key; again without prn_close.
GiveUp ==
    /\ pc = "missing"
    /\ Return
    /\ UNCHANGED <<trans, device>>

\* One of the texts.  returncheck at most shows what WriteText returned.
WriteText ==
    /\ pc = "write" /\ part = "text"
    /\ Send(Current)
    /\ \/ i < Texts(kind) /\ i' = i + 1 /\ pc' = pc
       \/ i = Texts(kind) /\ i' = i /\ pc' = "feed"
    /\ UNCHANGED <<trans, query, part, parsedNetAmt, device, asked>>

\* prn_paper_feed and prn_close, whatever they answer.
Feed ==
    /\ pc = "feed"
    /\ Return
    /\ open' \in {FALSE, open}
    /\ UNCHANGED <<trans, paper>>

-----------------------------------------------------------------------------
\* Paper runs out, or is taken out, or is loaded.
Paper ==
    /\ paper' = ~paper
    /\ UNCHANGED <<trans, pc, query, printed, open, history>>

User == ListPeriods \/ EnteringDate \/ PickCustomer \/ PrintCustomer
        \/ AskToPrint \/ OpenFixed \/ LeaveQuestion
        \/ Retry \/ OtherKey \/ Cancel \/ GiveUp

Program == Write \/ CheckPaper \/ CheckOnce \/ WriteText \/ Feed

Next == User \/ Program \/ Paper

Spec == Init /\ [][Next]_vars

\* Between two keys the program does not stop.
FairSpec == Spec /\ WF_vars(Program)

-----------------------------------------------------------------------------
(* Properties *)

NetOf(rows) == SumFunction([j \in DOMAIN rows |-> trans[rows[j]].Net_Amt])

Parts   == {"title", "row", "total", "text"}
Working == {"write", "status", "check", "feed"}

\* The program waits for a key because it found no paper.
NoPaper == pc \in {"noPaper", "missing"}

\* The type of every variable.
TypeOK ==
    /\ trans \in Tables
    /\ pc \in {"menu", "ask", "noPaper", "missing"} \cup Working
    /\ kind \in Kinds \cup Fixed
    /\ allTransactions \in Seq(DOMAIN trans)
    /\ part \in Parts
    /\ i \in IF part = "text" THEN 1..Texts(kind) ELSE 0..Len(allTransactions)
    /\ part = "row" => i > 0
    /\ part = "text" => kind \in Fixed /\ pc \in {"write", "feed"}
    /\ parsedNetAmt \in Int
    /\ {paper, open, asked} \subseteq BOOLEAN
    /\ strip \in Seq([part : Parts, n : Int])
    /\ refused \subseteq [part : Parts, n : Int]

\* What p may stand before, anywhere on a strip.
Before(p, q) ==
    CASE p.part = "title" -> TRUE
      [] p.part = "row"   -> (q.part = "row" /\ p.n < q.n) \/ q.part = "total"
      [] p.part = "total" -> q = p
      [] p.part = "text"  -> q.part = "text" /\ p.n < q.n

\* Whatever the driver refuses and whatever is printed again, the rows on the
\* strip are in the order of the table, none of them twice, after the title and
\* before the total; and so are the texts of a report on bills or a receipt.
StripInOrder == \A x, y \in DOMAIN strip : x < y => Before(strip[x], strip[y])

\* TOTAL is the total of every row that was read, also of those the driver
\* refused.
TotalOfAllRows ==
    \A x \in DOMAIN strip : strip[x].part = "total" => strip[x].n = NetOf(allTransactions)

\* The texts of the report or receipt.
Whole ==
    IF kind \in Fixed THEN {Text("text", n) : n \in 1..Texts(kind)}
    ELSE {Text("title", 0), Text("total", NetOf(allTransactions))}
         \cup {Text("row", allTransactions[j]) : j \in DOMAIN allTransactions}

\* What is printed to its end lacks only what the driver refused: no turn of
\* the loop is lost or taken twice, whatever WriteText seems to return and
\* whatever keys are pressed.  Only the title and the total of a report that
\* asked for paper can be refused and printed all the same, or printed again.
AllButRefused ==
    pc = "feed" =>
        /\ \A t \in Whole : t \in refused \/ \E x \in DOMAIN strip : strip[x] = t
        /\ \A x \in DOMAIN strip :
              /\ strip[x] \in Whole
              /\ \/ asked /\ strip[x].part \in {"title", "total"}
                 \/ strip[x] \notin refused /\ \A y \in DOMAIN strip : strip[y] = strip[x] => y = x

\* No limit is reached by any list or report.
WithinLimits ==
    \A k \in Kinds :
        /\ Cardinality({KeyOf(k, n) : n \in HasKey(k)}) <= ListLimit
        /\ \A n \in HasKey(k) : Cardinality(Matching(k, KeyOf(k, n))) <= ReadLimit

\* While no limit is reached, the reports of every kind add up to the same:
\* every dated transaction is on one day's, one month's and one year's report,
\* and the report of a year is that of its months.
PeriodsAddUp ==
    pc = "menu" /\ WithinLimits =>
        LET Net(rows) == SumFunction([n \in rows |-> trans[n].Net_Amt])
            Sum(k, keys) == SumFunction([x \in keys |-> Net(Read(k, x))])
            Within(k, y) == {x \in Offered(k) : IsPrefix(y, x)}
        IN  /\ \A k \in Kinds : Sum(k, Offered(k)) = Net(HasKey(k))
            /\ \A y \in Offered("year") : /\ Sum("month", Within("month", y)) = Sum("year", {y})
                                          /\ Sum("date", Within("date", y)) = Sum("year", {y})

\* A report ends, or asks for paper: it does not write forever, whatever
\* WriteText seems to return.
EndsOrAsks == pc \in Working ~> pc = "menu" \/ NoPaper
=============================================================================
