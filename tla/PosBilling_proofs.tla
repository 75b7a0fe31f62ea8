-------------------------- MODULE PosBilling_proofs --------------------------
(***************************************************************************)
(* For every set of products, rates, quantities and adjustments, every     *)
(* bound on the ids and every choice of faults: the tables of PosBilling   *)
(* keep their foreign key, no bill lists a product twice or has more rows  *)
(* than its header counts, and a new bill gets a number never in use.      *)
(***************************************************************************)
EXTENDS PosBilling, SumTheorems

USE DEF BillIds, Line, Bills

-----------------------------------------------------------------------------
(* The values the actions build have the type of the variable they go to. *)

\* A cart of priced products has a total in Totals.
LEMMA TotalType ==
    ASSUME NEW b \in Bills, InBill(b) \subseteq Priced
    PROVE  BillTotal(b) \in Totals
  BY DEF Totals

\* The header built from such a total is a row of pos_bill_header.
LEMMA HeaderType ==
    ASSUME NEW t \in Totals, NEW a \in Adjustments, NEW b \in Bills
    PROVE  Header(t, a, Cardinality(InBill(b))) \in Headers
<1>1. /\ Cardinality(InBill(b)) \in Nat
      /\ Cardinality(Products) \in Nat
      /\ Cardinality(InBill(b)) <= Cardinality(Products)
  BY ProductsAssumption, FS_Subset, FS_CardinalityType DEF InBill
<1>2. Cardinality(InBill(b)) \in 0..Cardinality(Products)
  BY <1>1
<1> HIDE DEF InBill
<1>3. QED
  BY <1>2 DEF Header, Headers, GrossAmounts, Discounts, NetAmounts

\* Cancelling a bill leaves a row of the table.
LEMMA CancelledType ==
    ASSUME NEW h \in Headers
    PROVE  [h EXCEPT !.is_deleted = TRUE] \in Headers
  BY DEF Headers

\* The item built for a priced product is a row of pos_bill_item.
LEMMA ItemType ==
    ASSUME NEW b \in BillIds, NEW p \in Priced, NEW q \in Quantities
    PROVE  Item(b, p, q) \in Items
  BY RatesAssumption DEF Item, Items

\* Changing the quantity of a priced product leaves a cart of priced products.
LEMMA CartType ==
    ASSUME NEW b \in Bills, InBill(b) \subseteq Priced,
           NEW p \in Priced, NEW q \in Line
    PROVE  /\ [b EXCEPT ![p] = q] \in Bills
           /\ InBill([b EXCEPT ![p] = q]) \subseteq Priced
  BY RatesAssumption DEF InBill

\* addItemToBill leaves a cart of priced products.
LEMMA AddItemType ==
    ASSUME NEW b \in Bills, InBill(b) \subseteq Priced,
           NEW p \in Products, NEW q \in Quantities
    PROVE  /\ AddItem(b, p, q) \in Bills
           /\ InBill(AddItem(b, p, q)) \subseteq Priced
  BY CartType DEF AddItem, InBill

\* The summary lists products of the cart only.
LEMMA ListingType ==
    ASSUME NEW b \in Bills, NEW s \in Listings(b)
    PROVE  /\ s \in Bills
           /\ InBill(s) \subseteq InBill(b)
<1>1. PICK S \in SUBSET InBill(b) :
          s = [p \in Products |-> IF p \in S THEN b[p] ELSE Absent]
  BY DEF Listings
<1>2. QED
  BY <1>1 DEF InBill

\* An empty cart is a cart, without a product in it.
LEMMA NoBillType == NoBill \in Bills /\ InBill(NoBill) = {}
  BY DEF NoBill, InBill

-----------------------------------------------------------------------------
(* Ids *)

\* AUTOINCREMENT: a new id is above every id in the table.
LEMMA NextIdIsFresh ==
    ASSUME TypeOK, SeqCovers, NEW n \in BillIds, IsNextId(n)
    PROVE  n \notin Ids /\ (\A b \in Ids : b < n) /\ seq < n
  BY DEF IsNextId, SeqCovers, Ids, TypeOK

\* An id's rows, when every row belongs to a bill and the id is not in use.
LEMMA FreshIdHasNoRows ==
    ASSUME ItemsHaveHeader, NEW n, n \notin Ids
    PROVE  RowsOf(n) = {}
  BY DEF ItemsHaveHeader, RowsOf

-----------------------------------------------------------------------------
(* IInv is inductive.                                                      *)

\* IInv holds when the terminal is switched on with empty tables.
THEOREM InitEstablishes == Init => IInv
<1> SUFFICES ASSUME Init PROVE IInv
  OBVIOUS
<1>1. TypeOK
  <2>1. item \in Seq(Items) /\ gBillData \in Bills /\ shown \in Bills
        /\ InBill(gBillData) \subseteq Priced
    BY NoBillType DEF Init
  <2>2. bill \in [BillIds -> Headers \cup {None}] /\ seq \in 0..MaxBillId
    BY BoundAssumption DEF Init
  <2>3. gBillAmt \in Totals /\ add_less_amt \in Adjustments
    BY AdjustmentsAssumption DEF Init, Totals
  <2>4. QED
    BY <2>1, <2>2, <2>3 DEF Init, TypeOK, Screens
<1>2. ItemsHaveHeader /\ NoProductTwice
  BY DEF Init, ItemsHaveHeader, NoProductTwice
<1>3. QED
  BY <1>1, <1>2 DEF Init, IInv, SeqCovers, SelectionOK, SavingOK, ClearingOK,
                    ReceiptHasBill, Ids

\* What concerns the tables and the receipt alone survives a step that leaves
\* them alone.
Stored == SeqCovers /\ ReceiptHasBill /\ ItemsHaveHeader /\ NoProductTwice

\* It holds as long as the tables and the receipt stay as they are.
LEMMA StoredKept ==
    ASSUME IInv, UNCHANGED <<tables, receipt>>
    PROVE  Stored'
  BY DEF IInv, Stored, SeqCovers, ReceiptHasBill, ItemsHaveHeader, NoProductTwice,
         Ids, tables

\* Away from the summary and the statements, the parts of IInv about them
\* hold.
LEMMA IdleOK ==
    ASSUME pc \in {"main", "billing", "choice", "pick", "discount", "header",
                   "noPaper", "admin", "clearItems"}
    PROVE  SelectionOK /\ SavingOK /\ ClearingOK
  BY DEF SelectionOK, SavingOK, ClearingOK

\* Returning to the product screens resets what the summary kept.
LEMMA EndSummaryOK ==
    ASSUME TypeOK, EndSummary,
           gBillData' \in Bills, InBill(gBillData') \subseteq Priced, gBillAmt' \in Totals,
           UNCHANGED tables, receipt' \in Receipts \cup {None}
    PROVE  TypeOK' /\ SelectionOK' /\ SavingOK' /\ ClearingOK'
<1>1. pc' \in {"pick", "choice"} /\ route' \in {"none", "list"}
      /\ sel' = None /\ shown' = NoBill /\ fresh' = FALSE /\ add_less_amt' = 0
      /\ newBillId' = None /\ todo' = {}
  BY DEF EndSummary, ToScreen, ClearLocals
<1>2. TypeOK'
  BY <1>1, NoBillType, AdjustmentsAssumption DEF TypeOK, tables, Screens
<1>3. QED
  BY <1>1, <1>2 DEF SelectionOK, SavingOK, ClearingOK

\* A turn of the summary loop, on a cart of priced products.
LEMMA ShowSummaryOK ==
    ASSUME NEW b \in Bills, InBill(b) \subseteq Priced, ShowSummary(b)
    PROVE  /\ gBillData' = b /\ gBillAmt' \in Totals
           /\ shown' \in Bills /\ InBill(shown') \subseteq InBill(gBillData')
           /\ pc' = "summary"
  BY TotalType, ListingType DEF ShowSummary

\* Every action of the program, and every fault, keeps IInv.
THEOREM StepPreserves == IInv /\ [Next]_vars => IInv'
<1> SUFFICES ASSUME IInv, [Next]_vars PROVE IInv'
  OBVIOUS
<1> USE DEF IInv
<1>1. ASSUME UNCHANGED vars PROVE IInv'
  BY <1>1 DEF vars, tables, cart, locals, TypeOK, SeqCovers, SelectionOK, SavingOK,
              ClearingOK, ReceiptHasBill, ItemsHaveHeader, NoProductTwice, Ids,
              IsLastId, RowsOf
<1>2. CASE OpenBilling
  <2>1. TypeOK'
    BY <1>2, NoBillType DEF OpenBilling, TypeOK, Totals, Screens, tables, locals
  <2>2. QED
    BY <1>2, <2>1, StoredKept, IdleOK
    DEF OpenBilling, Stored, SelectionOK, SavingOK, ClearingOK
<1>3. CASE OpenAdmin \/ OpenPos \/ ChooseScreen \/ LeaveMenu
  <2>1. TypeOK'
    BY <1>3 DEF OpenAdmin, OpenPos, ChooseScreen, LeaveMenu, TypeOK, Screens,
                tables, cart, locals
  <2>2. QED
    BY <1>3, <2>1, StoredKept
    DEF OpenAdmin, OpenPos, ChooseScreen, LeaveMenu, Stored,
        SelectionOK, SavingOK, ClearingOK
<1>4. CASE PickProduct
  <2>1. TypeOK'
    BY <1>4 DEF PickProduct, TypeOK, Screens, tables, cart, locals
  <2>2. QED
    BY <1>4, <2>1, StoredKept
    DEF PickProduct, Stored, SelectionOK, SavingOK, ClearingOK
<1>5. CASE EnterQuantity
  <2>1. PICK q \in Quantities : gBillData' = AddItem(gBillData, sel, q)
    BY <1>5 DEF EnterQuantity
  <2>2. sel \in Products
    BY <1>5 DEF EnterQuantity, SelectionOK
  <2>3. gBillData' \in Bills /\ InBill(gBillData') \subseteq Priced
    BY <2>1, <2>2, AddItemType DEF TypeOK
  <2>4. gBillAmt' \in Totals
    BY <1>5, <2>3, TotalType DEF EnterQuantity
  <2>5. TypeOK'
    BY <1>5, <2>3, <2>4 DEF EnterQuantity, ToScreen, TypeOK, Screens, tables, locals
  <2>6. QED
    BY <1>5, <2>5, StoredKept
    DEF EnterQuantity, ToScreen, Stored, SelectionOK, SavingOK, ClearingOK
<1>6. CASE SkipQuantity
  <2>1. TypeOK'
    BY <1>6 DEF SkipQuantity, ToScreen, TypeOK, Screens, tables, cart, locals
  <2>2. QED
    BY <1>6, <2>1, StoredKept
    DEF SkipQuantity, ToScreen, Stored, SelectionOK, SavingOK, ClearingOK
<1>7. CASE OpenSummary
  <2>1. /\ gBillData' = gBillData /\ gBillAmt' \in Totals
        /\ shown' \in Bills /\ InBill(shown') \subseteq InBill(gBillData')
        /\ pc' = "summary"
    BY <1>7, ShowSummaryOK DEF OpenSummary, TypeOK
  <2>2. TypeOK'
    BY <1>7, <2>1 DEF OpenSummary, TypeOK, Screens, tables
  <2>3. QED
    BY <1>7, <2>1, <2>2, StoredKept
    DEF OpenSummary, Stored, SelectionOK, SavingOK, ClearingOK
<1>8. CASE PickLine
  <2>1. TypeOK'
    BY <1>8 DEF PickLine, TypeOK, Screens, tables, cart, InBill
  <2>2. sel' \in InBill(gBillData')
    BY <1>8 DEF PickLine, SelectionOK, cart
  <2>3. QED
    BY <1>8, <2>1, <2>2, StoredKept
    DEF PickLine, Stored, SelectionOK, SavingOK, ClearingOK
<1>9. CASE EditLine
  <2>1. sel \in Priced
    BY <1>9 DEF EditLine, SelectionOK, TypeOK
  <2>2. PICK b \in Bills : InBill(b) \subseteq Priced /\ ShowSummary(b)
    BY <1>9, <2>1, CartType DEF EditLine, TypeOK
  <2>3. /\ gBillData' = b /\ gBillAmt' \in Totals
        /\ shown' \in Bills /\ InBill(shown') \subseteq InBill(gBillData')
        /\ pc' = "summary"
    BY <2>2, ShowSummaryOK
  <2>4. TypeOK'
    BY <1>9, <2>2, <2>3 DEF EditLine, TypeOK, Screens, tables
  <2>5. QED
    BY <1>9, <2>3, <2>4, StoredKept
    DEF EditLine, Stored, SelectionOK, SavingOK, ClearingOK
<1>10. CASE RemoveLine
  <2> DEFINE left == [gBillData EXCEPT ![sel] = Absent]
  <2>1. left \in Bills /\ InBill(left) \subseteq Priced
    BY <1>10, CartType DEF RemoveLine, SelectionOK, TypeOK
  <2>2. CASE /\ ShowSummary(left)
             /\ sel' = None
             /\ UNCHANGED <<route, fresh, add_less_amt, newBillId, todo>>
    <3> HIDE DEF left
    <3>1. /\ gBillData' = left /\ gBillAmt' \in Totals
          /\ shown' \in Bills /\ InBill(shown') \subseteq InBill(gBillData')
          /\ pc' = "summary"
      BY <2>1, <2>2, ShowSummaryOK
    <3>2. TypeOK'
      BY <1>10, <2>1, <2>2, <3>1 DEF RemoveLine, TypeOK, Screens, tables
    <3>3. QED
      BY <1>10, <2>2, <3>1, <3>2, StoredKept
      DEF RemoveLine, Stored, SelectionOK, SavingOK, ClearingOK
  <2>3. CASE gBillData' = left /\ gBillAmt' = gBillAmt /\ EndSummary
    <3> HIDE DEF left
    <3>1. TypeOK' /\ SelectionOK' /\ SavingOK' /\ ClearingOK'
      BY <1>10, <2>1, <2>3, EndSummaryOK DEF RemoveLine, TypeOK
    <3>2. QED
      BY <1>10, <3>1, StoredKept DEF RemoveLine, Stored
  <2>4. QED
    BY <1>10, <2>2, <2>3 DEF RemoveLine
<1>11. CASE LeaveSummary \/ InsertHeaderFails \/ GetLastBillIDFails
            \/ InsertItemFails \/ DismissNoPaper
  <2>1. EndSummary /\ UNCHANGED <<tables, cart, receipt>>
    BY <1>11 DEF LeaveSummary, InsertHeaderFails, GetLastBillIDFails,
                 InsertItemFails, DismissNoPaper
  <2>2. TypeOK' /\ SelectionOK' /\ SavingOK' /\ ClearingOK'
    BY <2>1, EndSummaryOK DEF TypeOK, cart
  <2>3. QED
    BY <2>1, <2>2, StoredKept DEF Stored
<1>12. CASE ProceedToBill \/ NoPaper
  <2>1. TypeOK'
    BY <1>12 DEF ProceedToBill, NoPaper, TypeOK, Screens, tables, cart, locals
  <2>2. QED
    BY <1>12, <2>1, StoredKept
    DEF ProceedToBill, NoPaper, Stored, SelectionOK, SavingOK, ClearingOK
<1>13. CASE EnterDiscount
  <2>1. gBillAmt' \in Totals
    BY <1>13, TotalType DEF EnterDiscount, TypeOK
  <2>2. TypeOK'
    BY <1>13, <2>1 DEF EnterDiscount, TypeOK, Saving, tables
  <2>3. QED
    BY <1>13, <2>2, StoredKept
    DEF EnterDiscount, Stored, SelectionOK, SavingOK, ClearingOK
<1>14. CASE InsertHeader
  <2> DEFINE row == Header(gBillAmt, add_less_amt, Cardinality(InBill(gBillData)))
  <2>1. row \in Headers
    BY HeaderType DEF TypeOK
  <2>2. PICK n \in BillIds : IsNextId(n) /\ bill' = [bill EXCEPT ![n] = row] /\ seq' = n
    BY <1>14 DEF InsertHeader
  <2>3. n \notin Ids /\ (\A b \in Ids : b < n) /\ seq < n
    BY <2>2, NextIdIsFresh
  <2> HIDE DEF row
  <2>4. Ids' = Ids \cup {n}
    BY <2>1, <2>2, RowsAssumption DEF Ids, TypeOK
  <2>5. TypeOK'
    BY <1>14, <2>1, <2>2, BoundAssumption DEF InsertHeader, TypeOK, Saving, cart, locals
  <2>6. Stored'
    <3>1. SeqCovers'
      <4>1. \A b \in Ids' : b \in Int /\ b <= n
        BY <2>2, <2>3, <2>4, BoundAssumption DEF Ids
      <4>2. QED
        BY <2>2, <4>1 DEF SeqCovers
    <3>2. ReceiptHasBill' /\ ItemsHaveHeader' /\ NoProductTwice'
      BY <1>14, <2>4 DEF InsertHeader, ReceiptHasBill, ItemsHaveHeader, NoProductTwice
    <3>3. QED
      BY <3>1, <3>2 DEF Stored
  <2>7. \A m \in Ids' : IsLastId(m)' => m = n
    BY <2>3, <2>4 DEF IsLastId, Ids
  <2>8. RowsOf(n)' = {}
    BY <1>14, <2>3, FreshIdHasNoRows DEF InsertHeader, RowsOf
  <2>9. SavingOK'
    BY <1>14, <2>7, <2>8 DEF InsertHeader, SavingOK
  <2>10. QED
    BY <1>14, <2>5, <2>6, <2>9 DEF InsertHeader, Stored, SelectionOK, ClearingOK
<1>15. CASE GetLastBillID
  <2>1. newBillId' \in Ids /\ RowsOf(newBillId') = {} /\ newBillId' \in BillIds
    BY <1>15 DEF GetLastBillID, SavingOK, IsLastId
  <2>2. TypeOK'
    BY <1>15, <2>1 DEF GetLastBillID, TypeOK, Saving, tables, cart, InBill
  <2>3. SavingOK'
    BY <1>15, <2>1 DEF GetLastBillID, SavingOK, tables, cart, Ids, RowsOf
  <2>4. QED
    BY <1>15, <2>2, <2>3, StoredKept
    DEF GetLastBillID, Stored, SelectionOK, ClearingOK
<1>16. CASE InsertItem
  <2>1. PICK p \in todo : /\ item' = Append(item, Item(newBillId, p, gBillData[p]))
                          /\ todo' = todo \ {p}
    BY <1>16 DEF InsertItem
  <2> DEFINE row == Item(newBillId, p, gBillData[p])
  <2>2. newBillId \in Ids /\ newBillId \in BillIds
    BY <1>16 DEF InsertItem, SavingOK, Ids
  <2>3. p \in Priced /\ gBillData[p] \in Quantities
    BY <1>16 DEF InsertItem, SavingOK, TypeOK, InBill
  <2>4. row \in Items /\ row.Bill_ID = newBillId /\ row.Product_ID = p
    BY <2>2, <2>3, ItemType DEF Item
  <2> HIDE DEF row
  <2>5. /\ Len(item') = Len(item) + 1 /\ Len(item) \in Nat
        /\ DOMAIN item = 1..Len(item) /\ DOMAIN item' = 1..(Len(item) + 1)
        /\ \A i \in DOMAIN item : item'[i] = item[i]
        /\ item'[Len(item) + 1] = row
        /\ item' \in Seq(Items)
    BY <2>1, <2>4 DEF TypeOK, row
  <2>6. TypeOK'
    BY <1>16, <2>1, <2>5 DEF InsertItem, TypeOK, Saving, cart
  <2>7. Ids' = Ids
    BY <1>16 DEF InsertItem, Ids
  <2>8. ItemsHaveHeader'
    BY <2>2, <2>4, <2>5, <2>7 DEF ItemsHaveHeader
  <2>9. \A i \in DOMAIN item : item[i].Bill_ID = newBillId => item[i].Product_ID # p
    BY <1>16 DEF InsertItem, SavingOK, RowsOf
  <2>10. NoProductTwice'
    BY <2>4, <2>5, <2>9 DEF NoProductTwice
  <2>11. SavingOK'
    BY <1>16, <2>1, <2>2, <2>4, <2>5, <2>7 DEF InsertItem, SavingOK, RowsOf, cart
  <2>12. QED
    BY <1>16, <2>6, <2>7, <2>8, <2>10, <2>11
    DEF InsertItem, SeqCovers, SelectionOK, ClearingOK, ReceiptHasBill
<1>17. CASE PrintBill
  <2>1. newBillId \in Ids /\ newBillId \in BillIds
    BY <1>17 DEF PrintBill, SavingOK, Ids
  <2>2. Receipt \in Receipts
    BY <2>1 DEF Receipt, Receipts, GrossAmounts, Discounts, NetAmounts, TypeOK
  <2>3. receipt' \in Receipts \cup {None}
    BY <1>17, <2>2 DEF PrintBill, TypeOK
  <2>4. TypeOK' /\ SelectionOK' /\ SavingOK' /\ ClearingOK'
    BY <1>17, <2>3, NoBillType, EndSummaryOK DEF PrintBill, Totals
  <2>5. ReceiptHasBill'
    BY <1>17, <2>1 DEF PrintBill, ReceiptHasBill, Receipt, Ids, tables
  <2>6. SeqCovers' /\ ItemsHaveHeader' /\ NoProductTwice'
    BY <1>17 DEF PrintBill, SeqCovers, ItemsHaveHeader, NoProductTwice, Ids, tables
  <2>7. QED
    BY <2>4, <2>5, <2>6
<1>18. CASE PickBill \/ DeclineDelete \/ ConfirmClear
  <2>1. TypeOK'
    BY <1>18 DEF PickBill, DeclineDelete, ConfirmClear, TypeOK, Screens, Clearing,
                 Ids, tables, cart, locals
  <2>2. SelectionOK'
    BY <1>18 DEF PickBill, DeclineDelete, ConfirmClear, SelectionOK, Ids, tables
  <2>3. QED
    BY <1>18, <2>1, <2>2, StoredKept
    DEF PickBill, DeclineDelete, ConfirmClear, Stored, SavingOK, ClearingOK
<1>19. CASE MarkBillAsDeleted
  <2>1. sel \in BillIds /\ bill[sel] \in Headers /\ sel \in Ids
    BY <1>19 DEF MarkBillAsDeleted, SelectionOK, Ids, TypeOK
  <2> DEFINE row == [bill[sel] EXCEPT !.is_deleted = TRUE]
  <2>2. row \in Headers
    BY <2>1, CancelledType
  <2>3. bill' = [bill EXCEPT ![sel] = row]
    BY <1>19, <2>1 DEF MarkBillAsDeleted, TypeOK
  <2> HIDE DEF row
  <2>4. Ids' = Ids
    BY <2>1, <2>2, <2>3, RowsAssumption DEF Ids, TypeOK
  <2>5. TypeOK'
    BY <1>19, <2>1, <2>2, <2>3 DEF MarkBillAsDeleted, TypeOK, Screens, cart, locals
  <2>6. Stored'
    BY <1>19, <2>4 DEF MarkBillAsDeleted, Stored, SeqCovers, ReceiptHasBill,
                       ItemsHaveHeader, NoProductTwice
  <2>7. QED
    BY <1>19, <2>5, <2>6
    DEF MarkBillAsDeleted, Stored, SelectionOK, SavingOK, ClearingOK
<1>20. CASE ClearItems
  <2>1. TypeOK'
    BY <1>20 DEF ClearItems, TypeOK, Clearing, cart, locals
  <2>2. Stored'
    BY <1>20 DEF ClearItems, Stored, SeqCovers, ReceiptHasBill, ItemsHaveHeader,
                 NoProductTwice, Ids
  <2>3. QED
    BY <1>20, <2>1, <2>2
    DEF ClearItems, Stored, SelectionOK, SavingOK, ClearingOK
<1>21. CASE ClearBills
  <2>1. TypeOK'
    BY <1>21 DEF ClearBills, TypeOK, Clearing, cart, locals
  <2>2. item' = <<>> /\ receipt' = None /\ Ids' = {}
    BY <1>21 DEF ClearBills, ClearingOK, Ids
  <2>3. Stored'
    BY <2>2 DEF Stored, SeqCovers, ReceiptHasBill, ItemsHaveHeader, NoProductTwice
  <2>4. QED
    BY <1>21, <2>1, <2>2, <2>3
    DEF ClearBills, Stored, SelectionOK, SavingOK, ClearingOK
<1>22. CASE ClearSeq
  <2>1. TypeOK'
    BY <1>22, BoundAssumption DEF ClearSeq, TypeOK, Screens, cart, locals
  <2>2. Ids' = {}
    BY <1>22 DEF ClearSeq, ClearingOK, Ids
  <2>3. Stored'
    BY <1>22, <2>2 DEF ClearSeq, ClearingOK, Stored, SeqCovers, ReceiptHasBill,
                       ItemsHaveHeader, NoProductTwice
  <2>4. QED
    BY <1>22, <2>1, <2>3 DEF ClearSeq, Stored, SelectionOK, SavingOK, ClearingOK
<1>23. CASE ClearFails
  <2>1. TypeOK'
    BY <1>23 DEF ClearFails, TypeOK, Screens, tables, cart, locals
  <2>2. QED
    BY <1>23, <2>1, StoredKept DEF ClearFails, Stored, SelectionOK, SavingOK, ClearingOK
<1>24. CASE PowerCut
  <2>1. TypeOK'
    BY <1>24, NoBillType, AdjustmentsAssumption
    DEF PowerCut, ClearLocals, TypeOK, Totals, Screens, tables
  <2>2. QED
    BY <1>24, <2>1, StoredKept DEF PowerCut, Stored, SelectionOK, SavingOK, ClearingOK
<1>25. QED
  BY <1>1, <1>2, <1>3, <1>4, <1>5, <1>6, <1>7, <1>8, <1>9, <1>10, <1>11, <1>12,
     <1>13, <1>14, <1>15, <1>16, <1>17, <1>18, <1>19, <1>20, <1>21, <1>22, <1>23,
     <1>24 DEF Next, User, Program

\* IInv holds throughout: the inductive invariant that the theorems below
\* rest on.
THEOREM Invariance == Spec => []IInv
<1>1. QED
  BY InitEstablishes, StepPreserves, PTL DEF Spec

\* Every variable keeps its type: in particular what the two tables hold is
\* always built from a cart of priced products.
THEOREM TypeCorrect == Spec => []TypeOK
<1>1. IInv => TypeOK
  BY DEF IInv
<1>2. QED
  BY <1>1, Invariance, PTL

\* The foreign key that SQLite is not asked to enforce (POSDS.cpp:1357) holds
\* after any sequence of saves, failures, power cuts, cancellations and clears.
THEOREM ForeignKey == Spec => []ItemsHaveHeader
<1>1. IInv => ItemsHaveHeader
  BY DEF IInv
<1>2. QED
  BY <1>1, Invariance, PTL

\* No bill ever has two rows for a product, although ids are handed out again
\* after Clear Bill.
THEOREM OneRowPerProduct == Spec => []NoProductTwice
<1>1. IInv => NoProductTwice
  BY DEF IInv
<1>2. QED
  BY <1>1, Invariance, PTL

-----------------------------------------------------------------------------
(* Action properties *)

\* A bill is given a number above all those in use, on a standing receipt
\* included, and starts without rows.
THEOREM NewBillIsFresh == Spec => FreshIds
<1> DEFINE A == \A n \in Ids' \ Ids :
                    /\ RowsOf(n) = {}
                    /\ \A b \in Ids : b < n
                    /\ receipt # None => receipt.Bill_No < n
<1>1. ASSUME IInv, [Next]_vars PROVE A
  <2>1. CASE InsertHeader
    <3>1. PICK n \in BillIds : IsNextId(n) /\ \A m \in BillIds : m # n => bill'[m] = bill[m]
      BY <1>1, <2>1 DEF InsertHeader, IInv, TypeOK
    <3>2. n \notin Ids /\ \A b \in Ids : b < n
      BY <1>1, <3>1, NextIdIsFresh DEF IInv
    <3>3. RowsOf(n) = {}
      BY <1>1, <3>2, FreshIdHasNoRows DEF IInv
    <3>4. Ids' \ Ids \subseteq {n}
      BY <3>1 DEF Ids
    <3>5. QED
      BY <1>1, <3>2, <3>3, <3>4 DEF IInv, ReceiptHasBill
  <2>2. CASE MarkBillAsDeleted
    <3>1. Ids' \subseteq Ids
      BY <1>1, <2>2 DEF MarkBillAsDeleted, IInv, SelectionOK, Ids, TypeOK
    <3>2. QED
      BY <3>1
  <2>3. CASE ClearBills
    <3>1. Ids' = {}
      BY <2>3 DEF ClearBills, Ids
    <3>2. QED
      BY <3>1
  <2>4. CASE UNCHANGED bill
    <3>1. Ids' = Ids
      BY <2>4 DEF Ids
    <3>2. QED
      BY <3>1
  <2>5. QED
    BY <1>1, <2>1, <2>2, <2>3, <2>4
    DEF Next, User, Program, vars, tables,
        OpenBilling, OpenAdmin, OpenPos, ChooseScreen, LeaveMenu, PickProduct,
        EnterQuantity, SkipQuantity, OpenSummary, PickLine, EditLine, RemoveLine,
        LeaveSummary, ProceedToBill, EnterDiscount, DismissNoPaper, PickBill,
        DeclineDelete, ConfirmClear, InsertHeaderFails, GetLastBillID,
        GetLastBillIDFails, InsertItem, InsertItemFails, NoPaper, PrintBill,
        ClearItems, ClearSeq, ClearFails, PowerCut
<1>2. QED
  BY <1>1, Invariance, PTL DEF Spec, FreshIds

\* A saved bill changes only by being cancelled, rows are only added, and
\* nothing is removed but all together, items first.
THEOREM SavedIsSaved == Spec => BooksInInk
<1> DEFINE Row(b) == \/ bill'[b] \in {bill[b], [bill[b] EXCEPT !.is_deleted = TRUE]}
                     \/ bill'[b] = None /\ item = <<>>
           A == /\ \A b \in Ids : Row(b)
                /\ IsPrefix(item, item') \/ item' = <<>>
<1>1. ASSUME IInv, [Next]_vars PROVE A
  <2>1. item \in Seq(Items) /\ bill \in [BillIds -> Headers \cup {None}]
    BY <1>1 DEF IInv, TypeOK
  <2>2. IsPrefix(item, item)
    BY <2>1 DEF IsPrefix
  <2>3. CASE InsertHeader
    <3>1. PICK n \in BillIds : IsNextId(n) /\ \A m \in BillIds : m # n => bill'[m] = bill[m]
      BY <2>1, <2>3 DEF InsertHeader
    <3>2. n \notin Ids
      BY <1>1, <3>1, NextIdIsFresh DEF IInv
    <3>3. QED
      BY <2>2, <2>3, <3>1, <3>2 DEF InsertHeader, Ids
  <2>4. CASE MarkBillAsDeleted
    BY <2>1, <2>2, <2>4 DEF MarkBillAsDeleted, Ids
  <2>5. CASE ClearBills
    BY <1>1, <2>2, <2>5 DEF ClearBills, IInv, ClearingOK, Ids
  <2>6. CASE InsertItem
    <3>1. PICK r : item' = Append(item, r)
      BY <2>6 DEF InsertItem
    <3>2. IsPrefix(item, item')
      BY <2>1, <3>1 DEF IsPrefix
    <3>3. QED
      BY <2>6, <3>2 DEF InsertItem
  <2>7. CASE UNCHANGED bill /\ (UNCHANGED item \/ item' = <<>>)
    BY <2>2, <2>7
  <2>8. QED
    BY <1>1, <2>3, <2>4, <2>5, <2>6, <2>7
    DEF Next, User, Program, vars, tables,
        OpenBilling, OpenAdmin, OpenPos, ChooseScreen, LeaveMenu, PickProduct,
        EnterQuantity, SkipQuantity, OpenSummary, PickLine, EditLine, RemoveLine,
        LeaveSummary, ProceedToBill, EnterDiscount, DismissNoPaper, PickBill,
        DeclineDelete, ConfirmClear, InsertHeaderFails, GetLastBillID,
        GetLastBillIDFails, InsertItemFails, NoPaper, PrintBill,
        ClearItems, ClearSeq, ClearFails, PowerCut
<1>2. QED
  BY <1>1, Invariance, PTL DEF Spec, BooksInInk

-----------------------------------------------------------------------------
(* How many rows a bill has: whatever fails, never more than its header    *)
(* counts; when nothing fails, exactly as many as soon as the program is   *)
(* back at a screen.                                                       *)

\* The rows of a bill are finitely many.
LEMMA RowsFinite ==
    ASSUME TypeOK, NEW b
    PROVE  IsFiniteSet(RowsOf(b)) /\ Cardinality(RowsOf(b)) \in Nat
<1>1. RowsOf(b) \subseteq 1..Len(item) /\ Len(item) \in Nat
  BY DEF RowsOf, TypeOK
<1>2. IsFiniteSet(1..Len(item))
  BY <1>1, FS_Interval
<1>3. QED
  BY <1>1, <1>2, FS_Subset, FS_CardinalityType

\* The counter of a header is a number.
LEMMA CountedType ==
    ASSUME TypeOK, NEW b \in Ids
    PROVE  bill[b] \in Headers /\ bill[b].unique_items \in Nat
<1>1. Cardinality(Products) \in Nat
  BY ProductsAssumption, FS_CardinalityType
<1>2. bill[b] \in Headers
  BY DEF TypeOK, Ids
<1>3. bill[b].unique_items \in 0..Cardinality(Products)
  BY <1>2 DEF Headers
<1>4. QED
  BY <1>1, <1>2, <1>3

\* A set of products of a cart is finite.
LEMMA ProductSetFinite ==
    ASSUME NEW S \in SUBSET Products
    PROVE  IsFiniteSet(S) /\ Cardinality(S) \in Nat /\ (Cardinality(S) = 0 <=> S = {})
  BY ProductsAssumption, FS_Subset, FS_CardinalityType, FS_EmptySet

\* AUTOINCREMENT numbers bills with positive integers.
LEMMA IdsAreNumbers == Ids \subseteq Nat
  BY BoundAssumption DEF Ids

\* There is one last id at most.
LEMMA LastIdUnique ==
    ASSUME NEW m, NEW n, IsLastId(m), IsLastId(n)
    PROVE  m = n
<1>1. m \in Nat /\ n \in Nat /\ m <= n /\ n <= m
  BY IdsAreNumbers DEF IsLastId
<1>2. QED
  BY <1>1

CInv == NoExtraItems /\ CountOK /\ Whole

\* A step that leaves the tables alone and is neither at nor before a statement
\* of the saving sequence changes nothing about the counts.
LEMMA CountsKept ==
    ASSUME CInv, UNCHANGED <<bill, item>>,
           pc' \notin {"lastId", "items", "paper"},
           \/ pc \notin {"lastId", "items", "clearBills"}
           \/ Faults # {}
           \/ Ids = {}
    PROVE  CInv'
<1>1. Ids' = Ids /\ \A b : RowsOf(b)' = RowsOf(b) /\ (Complete(b)' <=> Complete(b))
  BY DEF Ids, RowsOf, Complete
<1>2. NoExtraItems'
  BY <1>1 DEF CInv, NoExtraItems
<1>3. QED
  BY <1>1, <1>2 DEF CInv, CountOK, Whole

\* Empty tables count right.
THEOREM CountsInit == Init => CInv
  BY DEF Init, CInv, NoExtraItems, CountOK, Whole, Ids

\* Every action keeps the number of rows that a header counts an upper bound, and
\* when nothing fails exact.
THEOREM CountsStep == IInv /\ CInv /\ [Next]_vars => CInv'
<1> SUFFICES ASSUME IInv, CInv, [Next]_vars PROVE CInv'
  OBVIOUS
<1>t. TypeOK
  BY DEF IInv
<1>1. CASE UNCHANGED vars
  BY <1>1 DEF vars, tables, cart, locals, CInv, NoExtraItems, CountOK, Whole, Ids,
              RowsOf, Complete, IsLastId
<1>2. CASE \/ OpenBilling \/ OpenAdmin \/ OpenPos \/ ChooseScreen \/ LeaveMenu
           \/ PickProduct \/ EnterQuantity \/ SkipQuantity
           \/ OpenSummary \/ PickLine \/ EditLine \/ RemoveLine
           \/ LeaveSummary \/ ProceedToBill \/ EnterDiscount \/ DismissNoPaper
           \/ PickBill \/ DeclineDelete \/ ConfirmClear
           \/ InsertHeaderFails \/ NoPaper \/ PrintBill
  <2>1. /\ UNCHANGED <<bill, item>>
        /\ pc \notin {"lastId", "items", "clearBills"}
        /\ pc' \notin {"lastId", "items", "paper"}
    BY <1>2
    DEF OpenBilling, OpenAdmin, OpenPos, ChooseScreen, LeaveMenu, PickProduct,
        EnterQuantity, SkipQuantity, OpenSummary, PickLine, EditLine, RemoveLine,
        LeaveSummary, ProceedToBill, EnterDiscount, DismissNoPaper, PickBill,
        DeclineDelete, ConfirmClear, InsertHeaderFails, NoPaper, PrintBill,
        ShowSummary, ToScreen, EndSummary, tables
  <2>2. QED
    BY <2>1, CountsKept
<1>3. CASE GetLastBillIDFails \/ InsertItemFails \/ ClearFails \/ PowerCut
  <2>1. /\ UNCHANGED <<bill, item>>
        /\ Faults # {} \/ Ids = {}
        /\ pc' \notin {"lastId", "items", "paper"}
    BY <1>3 DEF GetLastBillIDFails, InsertItemFails, ClearFails, PowerCut, EndSummary,
                ToScreen, tables
  <2>2. QED
    BY <2>1, CountsKept
<1>4. CASE InsertHeader
  <2> DEFINE count == Cardinality(InBill(gBillData))
             row == Header(gBillAmt, add_less_amt, count)
  <2>1. PICK n \in BillIds : IsNextId(n) /\ bill' = [bill EXCEPT ![n] = row]
    BY <1>4 DEF InsertHeader
  <2>2. n \notin Ids /\ (\A b \in Ids : b < n) /\ RowsOf(n) = {}
    BY <2>1, NextIdIsFresh, FreshIdHasNoRows DEF IInv
  <2>3. count \in Nat /\ row.unique_items = count
    BY ProductSetFinite DEF InBill, Header
  <2> HIDE DEF count, row
  <2>r. row \in Headers
    BY <1>t, HeaderType DEF TypeOK, row, count
  <2>4. /\ Ids' = Ids \cup {n}
        /\ bill'[n] = row
        /\ \A b \in Ids : bill'[b] = bill[b]
    BY <2>1, <2>2, <2>r, <1>t, RowsAssumption DEF Ids, TypeOK
  <2>5. \A b : RowsOf(b)' = RowsOf(b)
    BY <1>4 DEF InsertHeader, RowsOf
  <2>6. Cardinality(RowsOf(n)) = 0
    BY <2>2, FS_EmptySet
  <2>7. NoExtraItems'
    BY <2>3, <2>4, <2>5, <2>6 DEF CInv, NoExtraItems
  <2>8. \A m \in Ids' : IsLastId(m)' => m = n
    <3>1. \A m \in Ids : ~(n <= m)
      BY <2>2, IdsAreNumbers, BoundAssumption
    <3>2. QED
      BY <2>4, <3>1 DEF IsLastId
  <2>9. CountOK'
    BY <1>4, <2>3, <2>4, <2>8 DEF InsertHeader, CountOK, cart, count
  <2>10. Whole'
    <3> SUFFICES ASSUME Faults = {}, NEW b \in Ids'
                 PROVE  Complete(b)' \/ IsLastId(b)'
      BY <1>4 DEF Whole, InsertHeader
    <3>1. CASE b = n
      <4>1. n \in Nat /\ \A c \in Ids : c \in Nat /\ c < n
        BY <2>2, IdsAreNumbers, BoundAssumption
      <4>2. n <= n /\ \A c \in Ids : c <= n
        BY <4>1
      <4>3. QED
        BY <2>4, <3>1, <4>2 DEF IsLastId
    <3>2. CASE b \in Ids
      BY <1>4, <2>4, <2>5, <3>2 DEF InsertHeader, CInv, Whole, Complete
    <3>3. QED
      BY <2>4, <3>1, <3>2
  <2>11. QED
    BY <2>7, <2>9, <2>10 DEF CInv
<1>5. CASE GetLastBillID
  <2>1. newBillId' \in Ids /\ IsLastId(newBillId') /\ RowsOf(newBillId') = {}
    BY <1>5 DEF GetLastBillID, IInv, SavingOK, IsLastId
  <2>2. /\ Ids' = Ids /\ \A b : RowsOf(b)' = RowsOf(b) /\ (Complete(b)' <=> Complete(b))
        /\ UNCHANGED bill
    BY <1>5 DEF GetLastBillID, Ids, RowsOf, Complete, tables
  <2>3. NoExtraItems'
    BY <2>2 DEF CInv, NoExtraItems
  <2>4. bill[newBillId'].unique_items = Cardinality(todo')
    BY <1>5, <2>1 DEF GetLastBillID, CInv, CountOK
  <2>5. Cardinality(RowsOf(newBillId')) = 0 /\ todo' \subseteq Products
    BY <1>5, <2>1, FS_EmptySet DEF GetLastBillID, InBill
  <2>6. Cardinality(todo') \in Nat /\ (Cardinality(todo') = 0 <=> todo' = {})
    BY <2>5, ProductSetFinite
  <2>7. todo' = {} => Complete(newBillId')
    BY <2>4, <2>5, <2>6 DEF Complete
  <2>8. CountOK'
    BY <1>5, <2>2, <2>4, <2>5, <2>6, <2>7 DEF GetLastBillID, CountOK
  <2>9. Whole'
    <3> SUFFICES ASSUME Faults = {}, NEW b \in Ids
                 PROVE  Complete(b) \/ (pc' = "items" /\ b = newBillId')
      BY <2>2 DEF Whole
    <3>1. Complete(b) \/ IsLastId(b)
      BY <1>5 DEF GetLastBillID, CInv, Whole
    <3>2. IsLastId(b) => b = newBillId'
      BY <2>1, LastIdUnique
    <3>3. QED
      BY <1>5, <2>7, <3>1, <3>2 DEF GetLastBillID
  <2>10. QED
    BY <2>3, <2>8, <2>9 DEF CInv
<1>6. CASE InsertItem
  <2>1. PICK p \in todo : /\ item' = Append(item, Item(newBillId, p, gBillData[p]))
                          /\ todo' = todo \ {p}
    BY <1>6 DEF InsertItem
  <2> DEFINE row == Item(newBillId, p, gBillData[p])
             new == Len(item) + 1
  <2>2. newBillId \in Ids /\ todo \subseteq Products
    BY <1>6, <1>t DEF InsertItem, IInv, SavingOK, TypeOK
  <2>3. row.Bill_ID = newBillId
    BY DEF Item
  <2>4. /\ Len(item) \in Nat /\ DOMAIN item = 1..Len(item) /\ DOMAIN item' = 1..new
        /\ \A i \in DOMAIN item : item'[i] = item[i]
        /\ item'[new] = row
    BY <2>1, <1>t DEF TypeOK
  <2> HIDE DEF row
  <2>5. RowsOf(newBillId)' = RowsOf(newBillId) \cup {new} /\ new \notin RowsOf(newBillId)
    BY <1>6, <2>3, <2>4 DEF InsertItem, RowsOf
  <2>6. \A b : b # newBillId => RowsOf(b)' = RowsOf(b)
    BY <2>3, <2>4 DEF RowsOf
  <2>7. Cardinality(RowsOf(newBillId)') = Cardinality(RowsOf(newBillId)) + 1
        /\ Cardinality(RowsOf(newBillId)) \in Nat
    BY <2>5, <1>t, RowsFinite, FS_AddElement
  <2>8. /\ Cardinality(todo') = Cardinality(todo) - 1
        /\ Cardinality(todo') \in Nat /\ (Cardinality(todo') = 0 <=> todo' = {})
        /\ Cardinality(todo) \in Nat
    BY <2>1, <2>2, ProductSetFinite, FS_RemoveElement
  <2>9. Cardinality(RowsOf(newBillId)) + Cardinality(todo) = bill[newBillId].unique_items
    BY <1>6 DEF InsertItem, CInv, CountOK
  <2>10. Ids' = Ids /\ UNCHANGED <<bill, newBillId>>
    BY <1>6 DEF InsertItem, Ids
  <2>11. Cardinality(RowsOf(newBillId)') + Cardinality(todo') = bill[newBillId].unique_items
    BY <2>7, <2>8, <2>9
  <2>12. Cardinality(RowsOf(newBillId)') <= bill[newBillId].unique_items
    BY <2>7, <2>8, <2>11
  <2>13. NoExtraItems'
    <3> SUFFICES ASSUME NEW b \in Ids
                 PROVE  Cardinality(RowsOf(b)') <= bill[b].unique_items
      BY <2>10 DEF NoExtraItems
    <3>1. CASE b = newBillId
      BY <2>10, <2>12, <3>1
    <3>2. CASE b # newBillId
      BY <2>6, <3>2 DEF CInv, NoExtraItems
    <3>3. QED
      BY <3>1, <3>2
  <2>14. todo' = {} => Complete(newBillId)'
    BY <2>7, <2>8, <2>10, <2>11 DEF Complete
  <2>15. CountOK'
    BY <1>6, <2>10, <2>11, <2>14 DEF InsertItem, CountOK
  <2>16. Whole'
    <3> SUFFICES ASSUME Faults = {}, NEW b \in Ids
                 PROVE  Complete(b)' \/ (pc' = "items" /\ b = newBillId)
      BY <2>10 DEF Whole
    <3>1. CASE b = newBillId
      BY <1>6, <2>14, <3>1 DEF InsertItem
    <3>2. CASE b # newBillId
      BY <1>6, <2>6, <2>10, <3>2 DEF InsertItem, CInv, Whole, Complete
    <3>3. QED
      BY <3>1, <3>2
  <2>17. QED
    BY <2>13, <2>15, <2>16 DEF CInv
<1>7. CASE MarkBillAsDeleted
  <2>1. sel \in BillIds /\ sel \in Ids /\ bill[sel] \in Headers
    BY <1>7, <1>t DEF MarkBillAsDeleted, IInv, SelectionOK, Ids, TypeOK
  <2>2. \A b \in Ids : bill'[b].unique_items = bill[b].unique_items
    BY <1>7, <1>t, <2>1, CountedType DEF MarkBillAsDeleted, Headers, TypeOK, Ids
  <2>3. Ids' \subseteq Ids
    BY <1>7, <1>t, <2>1 DEF MarkBillAsDeleted, Ids, TypeOK
  <2>4. \A b : RowsOf(b)' = RowsOf(b)
    BY <1>7 DEF MarkBillAsDeleted, RowsOf
  <2>5. QED
    BY <1>7, <2>2, <2>3, <2>4
    DEF MarkBillAsDeleted, CInv, NoExtraItems, CountOK, Whole, Complete
<1>8. CASE ClearItems
  <2>1. Ids' = Ids /\ UNCHANGED bill /\ \A b : RowsOf(b)' = {}
    BY <1>8 DEF ClearItems, Ids, RowsOf
  <2>2. NoExtraItems'
    BY <2>1, <1>t, CountedType, FS_EmptySet DEF NoExtraItems
  <2>3. QED
    BY <1>8, <2>2 DEF ClearItems, CInv, CountOK, Whole
<1>9. CASE ClearBills
  <2>1. Ids' = {}
    BY <1>9 DEF ClearBills, Ids
  <2>2. QED
    BY <1>9, <2>1 DEF ClearBills, CInv, NoExtraItems, CountOK, Whole
<1>10. CASE ClearSeq
  BY <1>10, CountsKept DEF ClearSeq
<1>11. QED
  BY <1>1, <1>2, <1>3, <1>4, <1>5, <1>6, <1>7, <1>8, <1>9, <1>10
  DEF Next, User, Program

\* Whatever fails, a bill never has more rows than its Unique_Items says.
THEOREM RowsWithinCount == Spec => []NoExtraItems
<1>1. CInv => NoExtraItems
  BY DEF CInv
<1>2. QED
  BY <1>1, CountsInit, CountsStep, Invariance, PTL DEF Spec

\* When nothing fails but the paper, every bill has all its rows whenever the
\* program is back at a screen.
THEOREM BillsAreWhole ==
    ASSUME Faults = {}
    PROVE  Spec => []EveryBillComplete
<1>1. CInv => EveryBillComplete
  BY DEF CInv, Whole, EveryBillComplete, Saving, Clearing
<1>2. QED
  BY <1>1, CountsInit, CountsStep, Invariance, PTL DEF Spec

-----------------------------------------------------------------------------
(* The total on the product screens *)

\* A listing that nothing cut short has the whole cart.
LEMMA FullListing ==
    ASSUME Faults = {}, NEW b \in Bills, NEW s \in Listings(b)
    PROVE  s = b
<1>1. s = [p \in Products |-> IF p \in InBill(b) THEN b[p] ELSE Absent]
  BY DEF Listings
<1>2. QED
  BY <1>1 DEF InBill

\* There is no total to show at first.
THEOREM TotalInit == Init => TotalOK
  BY DEF Init, TotalOK, NoBill, InBill

\* Every action keeps the total that is shown that of the cart.
THEOREM TotalStep == IInv /\ TotalOK /\ [Next]_vars => TotalOK'
<1> SUFFICES ASSUME IInv, TotalOK, [Next]_vars, Faults = {}
             PROVE  /\ pc' \in {"summary", "edit"} => shown' = gBillData'
                    /\ InBill(gBillData') # {} => gBillAmt' = BillTotal(gBillData')
  BY DEF TotalOK
<1>1. CASE UNCHANGED vars
  BY <1>1 DEF vars, cart, locals, TotalOK
<1>2. CASE OpenBilling \/ PrintBill
  BY <1>2, NoBillType DEF OpenBilling, PrintBill, EndSummary, ToScreen
<1>3. CASE EnterQuantity \/ EnterDiscount
  BY <1>3 DEF EnterQuantity, EnterDiscount, ToScreen
<1>4. ASSUME NEW b \in Bills, ShowSummary(b)
      PROVE  gBillData' = b /\ shown' = b /\ gBillAmt' = BillTotal(b)
  BY <1>4, FullListing DEF ShowSummary
<1>5. CASE OpenSummary
  BY <1>4, <1>5 DEF OpenSummary, IInv, TypeOK
<1>6. CASE EditLine
  <2>1. sel \in Priced
    BY <1>6 DEF EditLine, IInv, SelectionOK, TypeOK
  <2>2. PICK b \in Bills : ShowSummary(b)
    BY <1>6, <2>1, CartType DEF EditLine, IInv, TypeOK
  <2>3. QED
    BY <1>4, <2>2
<1>7. CASE RemoveLine
  <2> DEFINE left == [gBillData EXCEPT ![sel] = Absent]
  <2>1. left \in Bills /\ shown = gBillData /\ InBill(left) \subseteq InBill(gBillData) \ {sel}
    BY <1>7, CartType DEF RemoveLine, IInv, SelectionOK, TypeOK, TotalOK, InBill
  <2> HIDE DEF left
  <2>2. CASE ShowSummary(left)
    BY <1>4, <2>1, <2>2
  <2>3. CASE InBill(shown) \ {sel} = {} /\ gBillData' = left /\ EndSummary
    BY <2>1, <2>3 DEF EndSummary, ToScreen
  <2>4. QED
    BY <1>7, <2>2, <2>3 DEF RemoveLine, left
<1>8. CASE PickLine
  BY <1>8 DEF PickLine, TotalOK, cart
<1>9. CASE PowerCut
  BY <1>9, FaultsAssumption DEF PowerCut
<1>10. CASE \/ OpenAdmin \/ OpenPos \/ ChooseScreen \/ LeaveMenu \/ PickProduct
            \/ SkipQuantity \/ LeaveSummary \/ ProceedToBill \/ DismissNoPaper
            \/ PickBill \/ MarkBillAsDeleted \/ DeclineDelete \/ ConfirmClear
            \/ InsertHeader \/ InsertHeaderFails \/ GetLastBillID
            \/ GetLastBillIDFails \/ InsertItem \/ InsertItemFails \/ NoPaper
            \/ ClearItems \/ ClearBills \/ ClearSeq \/ ClearFails
  <2>1. UNCHANGED cart /\ pc' \notin {"summary", "edit"}
    BY <1>10
    DEF OpenAdmin, OpenPos, ChooseScreen, LeaveMenu, PickProduct, SkipQuantity,
        LeaveSummary, ProceedToBill, DismissNoPaper, PickBill, MarkBillAsDeleted,
        DeclineDelete, ConfirmClear, InsertHeader, InsertHeaderFails, GetLastBillID,
        GetLastBillIDFails, InsertItem, InsertItemFails, NoPaper, ClearItems,
        ClearBills, ClearSeq, ClearFails, EndSummary, ToScreen, cart
  <2>2. QED
    BY <2>1 DEF TotalOK, cart
<1>11. QED
  BY <1>1, <1>2, <1>3, <1>5, <1>6, <1>7, <1>8, <1>9, <1>10 DEF Next, User, Program

\* When nothing fails but the paper, the total on a product screen is the total
\* of the cart, unless the cart is empty.
THEOREM TotalIsShown ==
    ASSUME Faults = {}
    PROVE  Spec => []TotalShown
<1>1. TotalOK => TotalShown
  BY DEF TotalOK, TotalShown
<1>2. QED
  BY <1>1, TotalInit, TotalStep, Invariance, PTL DEF Spec
=============================================================================
