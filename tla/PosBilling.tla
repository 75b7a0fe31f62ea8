----------------------------- MODULE PosBilling -----------------------------
(***************************************************************************)
(* Spot billing on the terminal: the cart, the summary screen, saving a    *)
(* bill as one header row and one row per product, printing the receipt,   *)
(* and the two administrator functions that touch bills (Clear Bill and    *)
(* Delete Bill).  Code: src/src/main.cpp, with the statements it runs in   *)
(* src/src/POSDS.cpp.                                                      *)
(*                                                                         *)
(* The program has one thread.  A step of the model is the code between    *)
(* two points where the outside world can intervene: a key the program     *)
(* waits for, or a SQL statement, each of which SQLite commits by itself   *)
(* (the code opens no transaction).  `pc' names the point.  The power may  *)
(* be cut at any of them.                                                  *)
(*                                                                         *)
(* Amounts are whole currency units: the code's float is exact on them up  *)
(* to 2^24 (assumption FloatExact).                                        *)
(***************************************************************************)
EXTENDS Integers, Sequences, FiniteSets, FiniteSetsExt, SequencesExt

CONSTANTS
    Products,       \* Product_ID of every row of pos_product
    Priced,         \* the products whose sales_rate parses as a number
    Rate,           \* what it parses to
    Quantities,     \* what a user can type for a quantity, 0 included
    Adjustments,    \* what add_less_pos can return, 0 included
    MaxBillId,      \* bound: the largest bill id SQLite hands out
    Faults,         \* subset of {"read", "write", "power"}: what can go wrong
    Absent,         \* "not in this bill"
    None            \* "no row", "no receipt", "nothing selected"

BillIds == 1..MaxBillId
Line    == Quantities \cup {Absent}
Bills   == [Products -> Line]           \* contents of a cart
NoBill  == [p \in Products |-> Absent]

ASSUME ProductsAssumption    == Products \subseteq Nat /\ IsFiniteSet(Products)
ASSUME RatesAssumption       == Priced \subseteq Products /\ Rate \in [Priced -> Nat]
ASSUME QuantitiesAssumption  == Quantities \subseteq Nat /\ 0 \in Quantities
ASSUME AdjustmentsAssumption == Adjustments \subseteq Int /\ 0 \in Adjustments
ASSUME BoundAssumption       == MaxBillId \in Nat
ASSUME FaultsAssumption      == Faults \subseteq {"read", "write", "power"}
ASSUME AbsentAssumption      == Absent \notin Nat
ASSUME NoneAssumption        == None \notin Products \cup BillIds

-----------------------------------------------------------------------------
VARIABLES
    bill,           \* table pos_bill_header: id -> row
    item,           \* table pos_bill_item, in insertion order
    seq,            \* sqlite_sequence entry of pos_bill_header, 0 when there is none
    gBillData,      \* the cart
    gBillAmt,       \* its total, as last computed
    pc,             \* where the program waits or which statement it runs next
    route,          \* which screen display_bill_summary and the quantity prompt return to
    sel,            \* product whose quantity is asked for, or bill picked for deletion
    shown,          \* productDisplayList
    fresh,          \* res.lastSpecialKey of the summary has not been assigned yet
    add_less_amt,
    newBillId,
    todo,           \* products of the cart whose row is still to be inserted
    receipt         \* history: some receipt handed out since the bills were last cleared

tables == <<bill, item, seq>>
cart   == <<gBillData, gBillAmt>>
locals == <<shown, fresh, add_less_amt, newBillId, todo>>
vars   == <<tables, cart, pc, route, sel, locals, receipt>>

-----------------------------------------------------------------------------
(* Amounts *)

InBill(b) == {p \in Products : b[p] # Absent}

\* The loop that recomputes gBillAmt.
BillTotal(b) == SumFunction([p \in InBill(b) |-> Rate[p] * b[p]])

ASSUME FloatExact ==
    \A b \in [Products -> Line] :
        InBill(b) \subseteq Priced => BillTotal(b) < 16777216

\* tostr prints a float with the stream's default of six significant digits,
\* rounding half to even, and the column's REAL affinity reads the text back.
Unit(x) == IF x < 1000000 THEN 1 ELSE IF x < 10000000 THEN 10 ELSE 100

Rounded(x) ==
    LET u == Unit(x)
        q == x \div u
        r == x % u
    IN  u * (IF 2 * r > u \/ (2 * r = u /\ q % 2 = 1) THEN q + 1 ELSE q)

Tostr(x) == IF x < 0 THEN -Rounded(-x) ELSE Rounded(x)

-----------------------------------------------------------------------------
(* Rows and receipts *)

Totals == {0} \cup {BillTotal(b) : b \in {c \in Bills : InBill(c) \subseteq Priced}}

GrossAmounts == {Tostr(t) : t \in Totals}
Discounts    == {Tostr(a) : a \in Adjustments}
NetAmounts   == {Tostr(t + a) : t \in Totals, a \in Adjustments}

Headers ==
    [ gross_amt    : GrossAmounts,
      add_less     : Discounts,
      net_amt      : NetAmounts,
      unique_items : 0..Cardinality(Products),
      is_deleted   : BOOLEAN ]

Items ==
    [ Bill_ID    : BillIds,
      Product_ID : Products,
      Quantity   : {Tostr(q) : q \in Quantities},
      Net_Amt    : {Tostr(Rate[p]) : p \in Priced} ]

Receipts ==
    [ Bill_No  : BillIds,
      lines    : [Products -> {Tostr(q) : q \in Quantities} \cup {Absent}],
      gross    : GrossAmounts,
      discount : Discounts,
      total    : NetAmounts ]

ASSUME RowsAssumption == None \notin Headers

-----------------------------------------------------------------------------
(* The tables *)

Ids == {b \in BillIds : bill[b] # None}

\* INTEGER PRIMARY KEY AUTOINCREMENT: one more than the largest id ever used.
IsNextId(n) ==
    /\ \A b \in Ids \cup {seq} : b < n
    /\ \E b \in Ids \cup {seq} : n = b + 1

\* Mutant: the query takes the oldest id.
IsOldestId(n) == n \in Ids /\ \A b \in Ids : n <= b

\* select MAX(Id) from pos_bill_header
IsLastId(n) == n \in Ids /\ \A b \in Ids : b <= n

\* Mutant: the net amount is not converted like the others.
HeaderUnrounded(amt, addLess, uniqueItems) ==
    [ gross_amt    |-> Tostr(amt),
      add_less     |-> Tostr(addLess),
      net_amt      |-> amt + addLess,
      unique_items |-> uniqueItems,
      is_deleted   |-> FALSE ]

Header(amt, addLess, uniqueItems) ==
    [ gross_amt    |-> Tostr(amt),
      add_less     |-> Tostr(addLess),
      net_amt      |-> Tostr(amt + addLess),
      unique_items |-> uniqueItems,
      is_deleted   |-> FALSE ]

Item(b, p, q) ==
    [ Bill_ID    |-> b,
      Product_ID |-> p,
      Quantity   |-> Tostr(q),
      Net_Amt    |-> Tostr(Rate[p]) ]

-----------------------------------------------------------------------------
(* The cart and its screens *)

\* addItemToBill
AddItem(b, p, q) ==
    IF b[p] # Absent THEN [b EXCEPT ![p] = IF q = 0 THEN Absent ELSE q]
    ELSE IF p \in Priced THEN [b EXCEPT ![p] = q]
    ELSE b

\* What one turn of the summary loop lists: the products of the cart that
\* Product::FromDatabase finds.  A product whose read fails is left out.
Listings(b) ==
    {[p \in Products |-> IF p \in S THEN b[p] ELSE Absent] :
        S \in IF "read" \in Faults THEN SUBSET InBill(b) ELSE {InBill(b)}}

\* Start a turn of the summary loop on the cart b: total, list, menu.
ShowSummary(b) ==
    /\ gBillData' = b
    /\ gBillAmt' = BillTotal(b)
    /\ shown' \in Listings(b)
    /\ pc' = "summary"

ToScreen ==
    /\ pc' = IF route = "list" THEN "pick" ELSE "choice"
    /\ route' = IF route = "list" THEN "list" ELSE "none"
    /\ sel' = None

ClearLocals ==
    /\ shown' = NoBill
    /\ fresh' = FALSE
    /\ add_less_amt' = 0
    /\ newBillId' = None
    /\ todo' = {}

\* display_bill_summary returns to its caller.
EndSummary == ToScreen /\ ClearLocals

Init ==
    /\ bill = [b \in BillIds |-> None]
    /\ item = <<>>
    /\ seq = 0
    /\ gBillData = NoBill
    /\ gBillAmt = 0
    /\ pc = "main"
    /\ route = "none"
    /\ sel = None
    /\ shown = NoBill
    /\ fresh = FALSE
    /\ add_less_amt = 0
    /\ newBillId = None
    /\ todo = {}
    /\ receipt = None

-----------------------------------------------------------------------------
(* Menus *)

\* Billing(): forgets the previous cart on entry.
OpenBilling ==
    /\ pc = "main"
    /\ pc' = "billing"
    /\ gBillData' = NoBill
    /\ gBillAmt' = 0
    /\ UNCHANGED <<tables, route, sel, locals, receipt>>

\* Settings(), once past the administrator check.
OpenAdmin ==
    /\ pc = "main"
    /\ pc' = "admin"
    /\ UNCHANGED <<tables, cart, route, sel, locals, receipt>>

\* Billing menu, second entry.
OpenPos ==
    /\ pc = "billing"
    /\ pc' = "choice"
    /\ UNCHANGED <<tables, cart, route, sel, locals, receipt>>

\* Pos_Billing_Type_Choice: by code, from the list, or by a name search.
ChooseScreen ==
    /\ pc = "choice"
    /\ route' \in {"code", "list", "search"}
    /\ pc' = "pick"
    /\ UNCHANGED <<tables, cart, sel, locals, receipt>>

\* CANCEL in a menu or on a product screen.
LeaveMenu ==
    /\ pc \in {"billing", "choice", "pick", "admin"}
    /\ pc' = CASE pc = "choice" -> "billing"
               [] pc = "pick"   -> "choice"
               [] OTHER         -> "main"
    /\ route' = "none"
    /\ UNCHANGED <<tables, cart, sel, locals, receipt>>

-----------------------------------------------------------------------------
(* Filling the cart *)

\* A code that exists, or ENTER on a listed product.
PickProduct ==
    /\ pc = "pick"
    /\ sel' \in Products
    /\ pc' = "quantity"
    /\ UNCHANGED <<tables, cart, route, locals, receipt>>

\* Mutant: the total is not recomputed.
EnterQuantityOnly ==
    /\ pc = "quantity"
    /\ \E q \in Quantities : gBillData' = AddItem(gBillData, sel, q)
    /\ gBillAmt' = gBillAmt
    /\ ToScreen
    /\ UNCHANGED <<tables, locals, receipt>>

\* ask_product_quantity with a number typed in.
EnterQuantity ==
    /\ pc = "quantity"
    /\ \E q \in Quantities : gBillData' = AddItem(gBillData, sel, q)
    /\ gBillAmt' = BillTotal(gBillData')
    /\ ToScreen
    /\ UNCHANGED <<tables, locals, receipt>>

\* ask_product_quantity with nothing usable typed in.
SkipQuantity ==
    /\ pc = "quantity"
    /\ ToScreen
    /\ UNCHANGED <<tables, cart, locals, receipt>>

-----------------------------------------------------------------------------
(* display_bill_summary: looking at the cart *)

\* F6 on the list or on a search result (the code prompt has no F6).
OpenSummary ==
    /\ pc = "pick"
    /\ route \in {"list", "search"}
    /\ ShowSummary(gBillData)
    /\ fresh' = TRUE
    /\ UNCHANGED <<tables, route, sel, add_less_amt, newBillId, todo, receipt>>

\* ENTER on a line of the summary.
PickLine ==
    /\ pc = "summary"
    /\ sel' \in InBill(shown)
    /\ pc' = "edit"
    /\ fresh' = FALSE
    /\ UNCHANGED <<tables, cart, route, shown, add_less_amt, newBillId, todo, receipt>>

\* Mutant: the list is built before the loop, not at each turn.
EditLineStaleList ==
    /\ pc = "edit"
    /\ \E q \in Quantities \ {0} : gBillData' = [gBillData EXCEPT ![sel] = q]
    /\ gBillAmt' = BillTotal(gBillData')
    /\ pc' = "summary"
    /\ sel' = None
    /\ UNCHANGED <<tables, route, locals, receipt>>

\* edit_product_quantity with a number other than 0, or with no number: the
\* loop turns.
EditLine ==
    /\ pc = "edit"
    /\ \/ \E q \in Quantities \ {0} : ShowSummary([gBillData EXCEPT ![sel] = q])
       \/ ShowSummary(gBillData)
    /\ sel' = None
    /\ UNCHANGED <<tables, route, fresh, add_less_amt, newBillId, todo, receipt>>

\* edit_product_quantity with 0: the product leaves the cart and the list, and
\* the function returns at once, total untouched, when the list is now empty.
RemoveLine ==
    /\ pc = "edit"
    /\ LET left == [gBillData EXCEPT ![sel] = Absent]
       IN  \/ /\ InBill(shown) \ {sel} # {}
              /\ ShowSummary(left)
              /\ sel' = None
              /\ UNCHANGED <<route, fresh, add_less_amt, newBillId, todo>>
           \/ /\ InBill(shown) \ {sel} = {}
              /\ gBillData' = left
              /\ gBillAmt' = gBillAmt
              /\ EndSummary
    /\ UNCHANGED <<tables, receipt>>

\* CANCEL on the summary, or any key on "No Data!" when nothing is listed.
LeaveSummary ==
    /\ pc = "summary"
    /\ EndSummary
    /\ UNCHANGED <<tables, cart, receipt>>

\* F6 on the summary.  With nothing to list any key ends the menu, which leaves
\* lastSpecialKey as it is, and on the first turn that is an uninitialised byte: it may be F6.
ProceedToBill ==
    /\ pc = "summary"
    /\ InBill(shown) # {} \/ fresh
    /\ pc' = "discount"
    /\ UNCHANGED <<tables, cart, route, sel, locals, receipt>>

-----------------------------------------------------------------------------
(* display_bill_summary: saving and printing the bill *)

\* Mutant: gBillAmt is not set to 0 before the loop adds to it.
EnterDiscountAccumulates ==
    /\ pc = "discount"
    /\ add_less_amt' \in Adjustments
    /\ gBillAmt' = gBillAmt + BillTotal(gBillData)
    /\ pc' = "header"
    /\ UNCHANGED <<tables, gBillData, route, sel, shown, fresh, newBillId, todo, receipt>>

\* add_less_pos returns; the total is recomputed.
EnterDiscount ==
    /\ pc = "discount"
    /\ add_less_amt' \in Adjustments
    /\ gBillAmt' = BillTotal(gBillData)
    /\ pc' = "header"
    /\ UNCHANGED <<tables, gBillData, route, sel, shown, fresh, newBillId, todo, receipt>>

\* PosBillHeader::InsertIntoTable
InsertHeader ==
    /\ pc = "header"
    /\ \E n \in BillIds :
          /\ IsNextId(n)
          /\ bill' = [bill EXCEPT ![n] =
                         Header(gBillAmt, add_less_amt, Cardinality(InBill(gBillData)))]
          /\ seq' = n
    /\ pc' = "lastId"
    /\ UNCHANGED <<item, cart, route, sel, locals, receipt>>

\* The insert throws, or there is no id left: nothing is saved, the cart stays.
InsertHeaderFails ==
    /\ pc = "header"
    /\ "write" \in Faults \/ \A n \in BillIds : ~IsNextId(n)
    /\ EndSummary
    /\ UNCHANGED <<tables, cart, receipt>>

\* PosBillHeader::GetLastBillID; the item loop follows, if there are items.
GetLastBillID ==
    /\ pc = "lastId"
    /\ \E n \in BillIds : IsLastId(n) /\ newBillId' = n
    /\ todo' = InBill(gBillData)
    /\ pc' = IF todo' = {} THEN "paper" ELSE "items"
    /\ UNCHANGED <<tables, cart, route, sel, shown, fresh, add_less_amt, receipt>>

\* Return without items: the header stays in the table.
GetLastBillIDFails ==
    /\ pc = "lastId"
    /\ "read" \in Faults \/ Ids = {}
    /\ EndSummary
    /\ UNCHANGED <<tables, cart, receipt>>

\* Mutant: the loop ends after one product.
InsertOneItem ==
    /\ pc = "items"
    /\ \E p \in todo : item' = Append(item, Item(newBillId, p, gBillData[p]))
    /\ todo' = {}
    /\ pc' = "paper"
    /\ UNCHANGED <<bill, seq, cart, route, sel, shown, fresh, add_less_amt,
                   newBillId, receipt>>

\* PosBillItem::InsertIntoTable for the next product in the map's order.
InsertItem ==
    /\ pc = "items"
    /\ \E p \in todo :
          /\ \A r \in todo : p <= r
          /\ item' = Append(item, Item(newBillId, p, gBillData[p]))
          /\ todo' = todo \ {p}
    /\ pc' = IF todo' = {} THEN "paper" ELSE "items"
    /\ UNCHANGED <<bill, seq, cart, route, sel, shown, fresh, add_less_amt,
                   newBillId, receipt>>

\* Return with part of the items saved; the cart stays.
InsertItemFails ==
    /\ pc = "items"
    /\ "write" \in Faults
    /\ EndSummary
    /\ UNCHANGED <<tables, cart, receipt>>

\* prn_paperstatus is not 0: a key is awaited, then the function returns with
\* the bill saved, nothing printed and the cart kept.
NoPaper ==
    /\ pc = "paper"
    /\ pc' = "noPaper"
    /\ UNCHANGED <<tables, cart, route, sel, locals, receipt>>

DismissNoPaper ==
    /\ pc = "noPaper"
    /\ EndSummary
    /\ UNCHANGED <<tables, cart, receipt>>

Receipt ==
    [ Bill_No  |-> newBillId,
      lines    |-> [p \in Products |-> IF shown[p] = Absent THEN Absent ELSE Tostr(shown[p])],
      gross    |-> Tostr(gBillAmt),
      discount |-> Tostr(add_less_amt),
      total    |-> Tostr(gBillAmt + add_less_amt) ]

\* The receipt is composed and written; what the printer answers is ignored,
\* and the cart is emptied whether or not a receipt came out.
PrintBill ==
    /\ pc = "paper"
    /\ receipt' \in {receipt, Receipt}
    /\ gBillData' = NoBill
    /\ gBillAmt' = 0
    /\ EndSummary
    /\ UNCHANGED tables

-----------------------------------------------------------------------------
(* Administrator: DeleteBill and ClearBill *)

\* DeleteBill lists the bills not yet cancelled and one is picked.
PickBill ==
    /\ pc = "admin"
    /\ sel' \in {b \in Ids : ~bill[b].is_deleted}
    /\ pc' = "confirm"
    /\ UNCHANGED <<tables, cart, route, locals, receipt>>

\* Mutant: the row is deleted instead of marked.
RemoveBill ==
    /\ pc = "confirm"
    /\ bill' = [bill EXCEPT ![sel] = None]
    /\ sel' = None
    /\ pc' = "admin"
    /\ UNCHANGED <<item, seq, cart, route, locals, receipt>>

\* F2: MarkBillAsDeleted.  The row stays, with Is_Deleted = 1.
MarkBillAsDeleted ==
    /\ pc = "confirm"
    /\ bill' = [bill EXCEPT ![sel].is_deleted = TRUE]
    /\ sel' = None
    /\ pc' = "admin"
    /\ UNCHANGED <<item, seq, cart, route, locals, receipt>>

\* Any other key, or the update throws.
DeclineDelete ==
    /\ pc = "confirm"
    /\ sel' = None
    /\ pc' = "admin"
    /\ UNCHANGED <<tables, cart, route, locals, receipt>>

\* ENTER on ClearBill.
ConfirmClear ==
    /\ pc = "admin"
    /\ pc' = "clearItems"
    /\ UNCHANGED <<tables, cart, route, sel, locals, receipt>>

\* Mutant: only the headers are deleted.
SkipItems ==
    /\ pc = "clearItems"
    /\ receipt' = None
    /\ pc' = "clearBills"
    /\ UNCHANGED <<bill, item, seq, cart, route, sel, locals>>

\* PosBillItem::DeleteAllFromTable.  Receipts handed out so far no longer
\* have a counterpart.
ClearItems ==
    /\ pc = "clearItems"
    /\ item' = <<>>
    /\ receipt' = None
    /\ pc' = "clearBills"
    /\ UNCHANGED <<bill, seq, cart, route, sel, locals>>

\* PosBillHeader::DeleteAllFromTable, first statement ...
ClearBills ==
    /\ pc = "clearBills"
    /\ bill' = [b \in BillIds |-> None]
    /\ pc' = "clearSeq"
    /\ UNCHANGED <<item, seq, cart, route, sel, locals, receipt>>

\* ... and second statement: ids start from 1 again.
ClearSeq ==
    /\ pc = "clearSeq"
    /\ seq' = 0
    /\ pc' = "admin"
    /\ UNCHANGED <<bill, item, cart, route, sel, locals, receipt>>

\* Mutant: a failed deletion is tried again.
ClearRetries ==
    /\ pc \in {"clearItems", "clearBills", "clearSeq"}
    /\ "write" \in Faults
    /\ pc' = "clearItems"
    /\ UNCHANGED <<tables, cart, route, sel, locals, receipt>>

\* One of the three throws: the statements after it are not run.
ClearFails ==
    /\ pc \in {"clearItems", "clearBills", "clearSeq"}
    /\ "write" \in Faults
    /\ pc' = "admin"
    /\ UNCHANGED <<tables, cart, route, sel, locals, receipt>>

-----------------------------------------------------------------------------
\* Power off and on, and a new login: only the tables (and the paper) survive.
PowerCut ==
    /\ "power" \in Faults
    /\ pc' = "main"
    /\ route' = "none"
    /\ sel' = None
    /\ ClearLocals
    /\ gBillData' = NoBill
    /\ gBillAmt' = 0
    /\ UNCHANGED <<tables, receipt>>

User ==
    \/ OpenBilling \/ OpenAdmin \/ OpenPos \/ ChooseScreen \/ LeaveMenu
    \/ PickProduct \/ EnterQuantity \/ SkipQuantity
    \/ OpenSummary \/ PickLine \/ EditLine \/ RemoveLine
    \/ LeaveSummary \/ ProceedToBill \/ EnterDiscount \/ DismissNoPaper
    \/ PickBill \/ MarkBillAsDeleted \/ DeclineDelete \/ ConfirmClear

\* What the program does by itself, without waiting for a key.
Program ==
    \/ InsertHeader \/ InsertHeaderFails
    \/ GetLastBillID \/ GetLastBillIDFails
    \/ InsertItem \/ InsertItemFails
    \/ NoPaper \/ PrintBill
    \/ ClearItems \/ ClearBills \/ ClearSeq \/ ClearFails

Next == User \/ Program \/ PowerCut

Spec == Init /\ [][Next]_vars

\* The program, unlike the user, does not stop between two statements.
FairSpec == Spec /\ WF_vars(Program)

-----------------------------------------------------------------------------
(* Properties *)

Screens  == {"main", "billing", "choice", "pick", "quantity", "summary", "edit",
             "discount", "noPaper", "admin", "confirm"}
Saving   == {"header", "lastId", "items", "paper"}
Clearing == {"clearItems", "clearBills", "clearSeq"}

\* The type of every variable.
TypeOK ==
    /\ bill \in [BillIds -> Headers \cup {None}]
    /\ item \in Seq(Items)
    /\ seq \in 0..MaxBillId
    /\ gBillData \in Bills /\ InBill(gBillData) \subseteq Priced
    /\ gBillAmt \in Totals
    /\ pc \in Screens \cup Saving \cup Clearing
    /\ route \in {"none", "code", "list", "search"}
    /\ sel \in Products \cup BillIds \cup {None}
    /\ shown \in Bills
    /\ fresh \in BOOLEAN
    /\ add_less_amt \in Adjustments
    /\ newBillId \in BillIds \cup {None}
    /\ todo \subseteq Products
    /\ receipt \in Receipts \cup {None}

\* The rows of pos_bill_item that belong to bill b.
RowsOf(b) == {i \in DOMAIN item : item[i].Bill_ID = b}

\* Every product the header counts has its row.
Complete(b) == Cardinality(RowsOf(b)) = bill[b].unique_items

Abs(x) == IF x < 0 THEN -x ELSE x

\* x is y, to the six digits tostr keeps.
Near(x, y) == 2 * Abs(x - y) <= Unit(Abs(y))

\* The foreign key of pos_bill_item, which SQLite is never told to enforce:
\* an item belongs to a bill that exists, whatever fails or loses power while
\* bills are saved or cleared.
ItemsHaveHeader == \A i \in DOMAIN item : item[i].Bill_ID \in Ids

\* No bill lists a product twice, although pos_bill_item has no key and ids
\* are handed out again after ClearBill.
NoProductTwice ==
    \A i, j \in DOMAIN item :
        /\ item[i].Bill_ID = item[j].Bill_ID
        /\ item[i].Product_ID = item[j].Product_ID
        => i = j

\* A bill never has more rows than its header counts: Unique_Items is written
\* before the items, from a cart that edits may have emptied in between.
NoExtraItems == \A b \in Ids : Cardinality(RowsOf(b)) <= bill[b].unique_items

\* The amounts on a header are those of its rows: gross is the sum of the
\* lines and net is gross with the discount, up to the digits tostr drops.
BillBalances ==
    \A b \in Ids : Complete(b) =>
        LET lines == SumFunction([i \in RowsOf(b) |-> item[i].Quantity * item[i].Net_Amt])
        IN  /\ Near(bill[b].gross_amt, lines)
            /\ Near(bill[b].net_amt, lines + bill[b].add_less)

\* What a customer was handed stays true in the tables: the bill of that
\* number still has the printed amounts, and exactly the printed lines (the
\* printed ones among others, if a product could not be read back for the
\* summary).  The receipt is printed from productDisplayList and gBillAmt, the
\* rows are written from gBillData.
ReceiptStands ==
    receipt # None =>
        LET b       == receipt.Bill_No
            printed == {<<p, receipt.lines[p]>> : p \in InBill(receipt.lines)}
            saved   == {<<item[i].Product_ID, item[i].Quantity>> : i \in RowsOf(b)}
        IN  /\ b \in Ids
            /\ bill[b].gross_amt = receipt.gross
            /\ bill[b].add_less = receipt.discount
            /\ bill[b].net_amt = receipt.total
            /\ Complete(b)
            /\ printed \subseteq saved
            /\ "read" \notin Faults => printed = saved

\* The code never says it, but its callers rely on it: when nothing fails,
\* every bill the reports can see has all its rows, after any mix of paper-outs,
\* edits, cancelled summaries, cancelled bills and clears.
EveryBillComplete ==
    pc \notin Saving \cup Clearing => \A b \in Ids : Complete(b)

\* "Total Amt" on a product screen is the total of a cart that is not empty:
\* gBillAmt is recomputed along every path back to the screen.
TotalShown ==
    pc = "pick" /\ InBill(gBillData) # {} => gBillAmt = BillTotal(gBillData)

\* "Total Amt" on a product screen is the total of the cart, empty or not.
TotalAmtIsTotal == pc = "pick" => gBillAmt = BillTotal(gBillData)

\* Books are kept in ink: saving a bill never disturbs one saved before, a bill
\* changes only by being cancelled, a cancelled bill stays so, and rows are
\* removed only all together, with the items gone before any header.
BooksInInk ==
    [][ /\ \A b \in Ids :
             \/ bill'[b] \in {bill[b], [bill[b] EXCEPT !.is_deleted = TRUE]}
             \/ bill'[b] = None /\ item = <<>>
        /\ IsPrefix(item, item') \/ item' = <<>>
      ]_<<bill, item>>

\* A new bill starts with no rows, and with a number above every number that
\* is in the tables or on a receipt still standing.
FreshIds ==
    [][ \A n \in Ids' \ Ids :
            /\ RowsOf(n) = {}
            /\ \A b \in Ids : b < n
            /\ receipt # None => receipt.Bill_No < n
      ]_bill

\* Once it starts saving or clearing, the program comes back to a screen,
\* whatever fails.
ReturnsToScreen == pc \notin Screens ~> pc \in Screens

-----------------------------------------------------------------------------
(* The inductive invariant *)

\* AUTOINCREMENT never falls behind the ids in the table.
SeqCovers == \A b \in Ids : b <= seq

\* What is selected fits the question asked.
SelectionOK ==
    /\ pc = "quantity" => sel \in Products
    /\ pc = "edit"     => sel \in InBill(gBillData)
    /\ pc = "confirm"  => sel \in Ids
    /\ pc = "summary"  => InBill(shown) \subseteq InBill(gBillData)

\* The bill being saved: its header is the last one and has no row yet; then
\* the products with a row are not among those to do; then it is printed.
SavingOK ==
    /\ pc = "lastId" => \A n \in Ids : IsLastId(n) => RowsOf(n) = {}
    /\ pc = "items"  => /\ newBillId \in Ids
                        /\ todo \subseteq InBill(gBillData)
                        /\ \A i \in RowsOf(newBillId) : item[i].Product_ID \notin todo
    /\ pc = "paper"  => newBillId \in Ids

\* Between its statements, ClearBill has left no item and no valid receipt,
\* then no bill.
ClearingOK ==
    /\ pc \in {"clearBills", "clearSeq"} => item = <<>> /\ receipt = None
    /\ pc = "clearSeq" => Ids = {}

ReceiptHasBill == receipt # None => receipt.Bill_No \in Ids

\* What every step preserves: it makes ItemsHaveHeader and NoProductTwice hold
\* after saves interrupted at any statement.
IInv ==
    /\ TypeOK
    /\ SeqCovers
    /\ SelectionOK
    /\ SavingOK
    /\ ClearingOK
    /\ ReceiptHasBill
    /\ ItemsHaveHeader
    /\ NoProductTwice

\* Rows of the bill being saved and products to do add up to what its header
\* counts.
CountOK ==
    /\ pc = "lastId" => \A n \in Ids : IsLastId(n) =>
                          bill[n].unique_items = Cardinality(InBill(gBillData))
    /\ pc = "items"  => Cardinality(RowsOf(newBillId)) + Cardinality(todo)
                          = bill[newBillId].unique_items
    /\ pc = "paper"  => Complete(newBillId)

\* When nothing fails, only the bill being saved misses rows.
Whole ==
    Faults = {} => \A b \in Ids :
        \/ Complete(b)
        \/ pc = "lastId" /\ IsLastId(b)
        \/ pc = "items" /\ b = newBillId
        \/ pc = "clearBills"

\* When nothing fails, the summary lists the cart and its total is right.
TotalOK ==
    Faults = {} =>
        /\ pc \in {"summary", "edit"} => shown = gBillData
        /\ InBill(gBillData) # {} => gBillAmt = BillTotal(gBillData)

-----------------------------------------------------------------------------
(* The tables as a book of bills *)

Status(b) ==
    CASE b \notin Ids                               -> "none"
      [] b \in Ids /\ bill[b].is_deleted            -> "cancelled"
      [] b \in Ids /\ ~bill[b].is_deleted           ->
            IF pc \in {"lastId", "items"} /\ IsLastId(b) THEN "open"
            ELSE IF Complete(b) THEN "live"
            ELSE "torn"

Book == INSTANCE BillBook WITH
    Numbers <- BillIds,
    Nets    <- NetAmounts,
    NoNet   <- None,
    status  <- [b \in BillIds |-> Status(b)],
    net     <- [b \in BillIds |-> IF b \in Ids THEN bill[b].net_amt ELSE None]

\* Whatever fails, the tables behave as a book of bills: see BillBook.
ImplementsBillBook == Book!BookFairSpec
=============================================================================
