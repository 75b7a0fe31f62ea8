--------------------------- MODULE PosBilling_book ---------------------------
(***************************************************************************)
(* What a saved bill says: a receipt that was handed out stays true, the   *)
(* amounts on a header are those of its rows, and the two bill tables      *)
(* implement BillBook: every step of PosBilling is a step of the book, or  *)
(* leaves it as it is.                                                     *)
(***************************************************************************)
EXTENDS PosBilling_proofs

USE DEF BillIds, Line, Bills

-----------------------------------------------------------------------------
(* Receipts: what one says is what the tables say, whatever fails, although *)
(* it is composed from the list of the summary, the rows from the cart, the *)
(* header from a total computed before both.                                *)

\* Product and quantity of the rows of bill b, and of the lines of the cart.
RowPairs(b)  == {<<item[i].Product_ID, item[i].Quantity>> : i \in RowsOf(b)}
CartPairs(S) == {<<p, Tostr(gBillData[p])>> : p \in S}

\* The header of b has the amounts that are about to be printed.
HasAmounts(b) ==
    /\ bill[b].gross_amt = Tostr(gBillAmt)
    /\ bill[b].add_less = Tostr(add_less_amt)
    /\ bill[b].net_amt = Tostr(gBillAmt + add_less_amt)

\* From the summary to the receipt, the list shows lines of the cart, and all of
\* them if nothing failed to be read.
ListedOK ==
    pc \in {"summary", "edit", "discount"} \cup Saving =>
        /\ \A p \in InBill(shown) : p \in InBill(gBillData) /\ shown[p] = gBillData[p]
        /\ "read" \notin Faults => shown = gBillData

NotOnReceipt(b) == receipt # None => receipt.Bill_No # b

\* The bill being saved has the amounts of the cart, and rows for the lines that
\* are not to do; the receipt is of another bill.
WrittenOK ==
    /\ pc = "lastId" => \A n \in Ids : IsLastId(n) => HasAmounts(n) /\ NotOnReceipt(n)
    /\ pc \in {"items", "paper"} => HasAmounts(newBillId) /\ NotOnReceipt(newBillId)
    /\ pc = "items" => RowPairs(newBillId) = CartPairs(InBill(gBillData) \ todo)
    /\ pc = "paper" => RowPairs(newBillId) = CartPairs(InBill(gBillData))

RInv == ListedOK /\ WrittenOK /\ ReceiptStands

\* What ReceiptStands says of one receipt.
Stands(r) ==
    LET printed == {<<p, r.lines[p]>> : p \in InBill(r.lines)}
    IN  /\ r.Bill_No \in Ids
        /\ bill[r.Bill_No].gross_amt = r.gross
        /\ bill[r.Bill_No].add_less = r.discount
        /\ bill[r.Bill_No].net_amt = r.total
        /\ Complete(r.Bill_No)
        /\ printed \subseteq RowPairs(r.Bill_No)
        /\ "read" \notin Faults => printed = RowPairs(r.Bill_No)

\* A quantity is printed as a number.
LEMMA TostrNat == \A q \in Nat : Tostr(q) \in Nat
<1> TAKE q \in Nat
<1>1. PICK u \in {1, 10, 100} : u = Unit(q)
  BY DEF Unit
<1>2. q \div u \in Nat
  BY <1>1
<1> DEFINE d == q \div u
           n == IF 2 * (q % u) > u \/ (2 * (q % u) = u /\ d % 2 = 1) THEN d + 1 ELSE d
<1>3. n \in Nat
  <2> HIDE DEF d
  <2> QED BY <1>2 DEF d
<1>4. u * n \in Nat
  <2> HIDE DEF n
  <2> QED BY <1>1, <1>3
<1> QED BY <1>1, <1>4 DEF Tostr, Rounded

\* The invariant says it with Stands ...
LEMMA ReceiptStandsIs == ReceiptStands <=> (receipt # None => Stands(receipt))
  BY DEF ReceiptStands, Stands, RowPairs

\* ... also after a step.
LEMMA ReceiptStandsNext == ReceiptStands' <=> (receipt' # None => Stands(receipt)')
  BY DEF ReceiptStands, Stands, RowPairs

\* A receipt stands as long as its bill keeps its rows and amounts.
LEMMA StandsKept ==
    ASSUME RInv, receipt' = receipt,
           receipt # None =>
               LET b == receipt.Bill_No
               IN  /\ b \in Ids'
                   /\ \/ bill'[b] = bill[b]
                      \/ /\ bill'[b].gross_amt = bill[b].gross_amt
                         /\ bill'[b].add_less = bill[b].add_less
                         /\ bill'[b].net_amt = bill[b].net_amt
                         /\ bill'[b].unique_items = bill[b].unique_items
                   /\ RowsOf(b)' = RowsOf(b)
                   /\ \A i \in RowsOf(b) : item'[i] = item[i]
    PROVE  ReceiptStands'
<1> SUFFICES ASSUME receipt # None PROVE Stands(receipt)'
  BY ReceiptStandsNext
<1> DEFINE b == receipt.Bill_No
<1>1. Stands(receipt)
  BY ReceiptStandsIs DEF RInv
<1>2. RowPairs(b)' = RowPairs(b)
  BY DEF RowPairs
<1>3. Complete(b)' <=> Complete(b)
  BY DEF Complete
<1>4. /\ bill'[b].gross_amt = bill[b].gross_amt
      /\ bill'[b].add_less = bill[b].add_less
      /\ bill'[b].net_amt = bill[b].net_amt
  OBVIOUS
<1>5. InBill(receipt.lines)' = InBill(receipt.lines)
  BY DEF InBill
<1> QED BY <1>1, <1>2, <1>3, <1>4, <1>5 DEF Stands

\* A receipt stands as long as nothing touches the tables.
LEMMA TablesKept ==
    ASSUME IInv, RInv, UNCHANGED <<bill, item, receipt>>
    PROVE  ReceiptStands'
<1>1. receipt # None => receipt.Bill_No \in Ids
  BY DEF IInv, ReceiptHasBill
<1>2. Ids' = Ids /\ \A b : RowsOf(b)' = RowsOf(b)
  BY DEF Ids, RowsOf
<1> QED BY <1>1, <1>2, StandsKept

\* What the summary lists.
LEMMA ListedFromCart ==
    ASSUME NEW b \in Bills, ShowSummary(b)
    PROVE  /\ gBillData' = b /\ shown' \in Bills
           /\ \A p \in InBill(shown') : p \in InBill(b) /\ shown'[p] = b[p]
           /\ "read" \notin Faults => shown' = b
<1>1. PICK S \in SUBSET InBill(b) :
          /\ shown' = [p \in Products |-> IF p \in S THEN b[p] ELSE Absent]
          /\ "read" \notin Faults => S = InBill(b)
  BY DEF ShowSummary, Listings
<1>2. "read" \notin Faults => shown' = b
  BY <1>1 DEF InBill
<1> QED BY <1>1, <1>2 DEF InBill, ShowSummary

\* Showing the summary, again or for the first time, touches nothing of that.
LEMMA ShownKeeps ==
    ASSUME IInv, RInv, NEW b \in Bills, ShowSummary(b), UNCHANGED <<bill, item, receipt>>
    PROVE  RInv'
<1>1. ListedOK'
  BY ListedFromCart DEF ListedOK
<1>2. WrittenOK'
  BY DEF WrittenOK, ShowSummary
<1> QED BY <1>1, <1>2, TablesKept DEF RInv

\* No receipt was handed out at first.
THEOREM ReceiptsInit == Init => RInv
  BY DEF Init, RInv, ListedOK, WrittenOK, ReceiptStands, Saving

\* A step away from the summary and the statements of saving, which leaves the
\* tables and the receipt alone.
LEMMA Elsewhere ==
    ASSUME IInv, RInv, UNCHANGED <<bill, item, receipt>>,
           pc' \notin {"summary", "edit", "discount"} \cup Saving
    PROVE  RInv'
  BY TablesKept DEF RInv, ListedOK, WrittenOK, Saving

\* Every action keeps what receipts and a summary say what the tables say or will say.
THEOREM ReceiptsStep == IInv /\ CInv /\ RInv /\ [Next]_vars => RInv'
<1> SUFFICES ASSUME IInv, CInv, RInv, [Next]_vars PROVE RInv'
  OBVIOUS
<1>t. TypeOK
  BY DEF IInv
<1>1. CASE UNCHANGED vars
  <2>1. ReceiptStands'
    BY <1>1, TablesKept DEF vars, tables
  <2>2. ListedOK'
    BY <1>1 DEF vars, cart, locals, RInv, ListedOK
  <2>3. WrittenOK'
    BY <1>1 DEF vars, tables, cart, locals, RInv, WrittenOK, HasAmounts, NotOnReceipt, RowPairs,
                CartPairs, RowsOf, IsLastId, Ids
  <2> QED BY <2>1, <2>2, <2>3 DEF RInv
<1>2. CASE \/ OpenBilling \/ OpenAdmin \/ OpenPos \/ ChooseScreen \/ LeaveMenu
           \/ PickProduct \/ EnterQuantity \/ SkipQuantity \/ LeaveSummary
           \/ InsertHeaderFails \/ GetLastBillIDFails \/ InsertItemFails
           \/ NoPaper \/ DismissNoPaper
           \/ PickBill \/ DeclineDelete \/ ConfirmClear \/ ClearSeq \/ ClearFails \/ PowerCut
  <2>1. UNCHANGED <<bill, item, receipt>> /\ pc' \notin {"summary", "edit", "discount"} \cup Saving
    BY <1>2
    DEF OpenBilling, OpenAdmin, OpenPos, ChooseScreen, LeaveMenu, PickProduct,
        EnterQuantity, SkipQuantity, LeaveSummary, InsertHeaderFails, GetLastBillIDFails,
        InsertItemFails, NoPaper, DismissNoPaper, PickBill, DeclineDelete, ConfirmClear,
        ClearSeq, ClearFails, PowerCut, EndSummary, ToScreen, tables, Saving
  <2> QED BY <2>1, Elsewhere
<1>3. CASE OpenSummary
  <2>1. gBillData \in Bills
    BY <1>t DEF TypeOK
  <2> QED BY <1>3, <2>1, ShownKeeps DEF OpenSummary, tables
<1>4. CASE PickLine \/ ProceedToBill \/ EnterDiscount
  <2>1. /\ UNCHANGED <<bill, item, receipt, gBillData, shown>>
        /\ pc \in {"summary", "discount"} /\ pc' \notin {"lastId", "items", "paper"}
    BY <1>4 DEF PickLine, ProceedToBill, EnterDiscount, tables, cart, locals
  <2>2. ListedOK'
    BY <2>1 DEF RInv, ListedOK
  <2> QED BY <2>1, <2>2, TablesKept DEF RInv, WrittenOK
<1>5. CASE EditLine
  <2>1. sel \in Priced /\ UNCHANGED <<bill, item, receipt>>
    BY <1>5 DEF EditLine, IInv, SelectionOK, TypeOK, tables
  <2>2. PICK b \in Bills : ShowSummary(b)
    BY <1>5, <1>t, <2>1, CartType DEF EditLine, TypeOK
  <2> QED BY <2>1, <2>2, ShownKeeps
<1>6. CASE RemoveLine
  <2> DEFINE left == [gBillData EXCEPT ![sel] = Absent]
  <2>1. left \in Bills /\ UNCHANGED <<bill, item, receipt>>
    BY <1>6, CartType DEF RemoveLine, IInv, SelectionOK, TypeOK, InBill, tables
  <2> HIDE DEF left
  <2>2. CASE ShowSummary(left)
    BY <2>1, <2>2, ShownKeeps
  <2>3. CASE EndSummary
    BY <2>1, <2>3, Elsewhere DEF EndSummary, ToScreen, Saving
  <2> QED BY <1>6, <2>2, <2>3 DEF RemoveLine, left
<1>7. CASE InsertHeader
  <2> DEFINE row == Header(gBillAmt, add_less_amt, Cardinality(InBill(gBillData)))
  <2>1. PICK n \in BillIds : IsNextId(n) /\ bill' = [bill EXCEPT ![n] = row]
    BY <1>7 DEF InsertHeader
  <2>2. n \notin Ids /\ \A b \in Ids : b < n
    BY <2>1, NextIdIsFresh DEF IInv
  <2>3. /\ row \in Headers
        /\ row.gross_amt = Tostr(gBillAmt) /\ row.add_less = Tostr(add_less_amt)
        /\ row.net_amt = Tostr(gBillAmt + add_less_amt)
    BY <1>t, HeaderType DEF TypeOK, Header
  <2> HIDE DEF row
  <2>4. Ids' = Ids \cup {n} /\ bill'[n] = row /\ \A b \in Ids : bill'[b] = bill[b]
    BY <2>1, <2>2, <2>3, <1>t, RowsAssumption DEF Ids, TypeOK
  <2>5. UNCHANGED <<item, receipt, gBillData, gBillAmt, add_less_amt, shown>> /\ pc = "header" /\ pc' = "lastId"
    BY <1>7 DEF InsertHeader, cart, locals
  <2>6. receipt # None => receipt.Bill_No \in Ids
    BY DEF IInv, ReceiptHasBill
  <2>7. \A b : RowsOf(b)' = RowsOf(b)
    BY <2>5 DEF RowsOf
  <2>8. ReceiptStands'
    BY <2>4, <2>5, <2>6, <2>7, StandsKept
  <2>9. ListedOK'
    BY <2>5 DEF RInv, ListedOK, Saving
  <2>10. \A m \in Ids' : IsLastId(m)' => m = n
    <3>1. \A m \in Ids : ~(n <= m)
      BY <2>2, IdsAreNumbers, BoundAssumption
    <3> QED BY <2>4, <3>1 DEF IsLastId
  <2>11. HasAmounts(n)' /\ NotOnReceipt(n)'
    BY <2>2, <2>3, <2>4, <2>5, <2>6 DEF HasAmounts, NotOnReceipt
  <2>12. WrittenOK'
    BY <2>5, <2>10, <2>11 DEF WrittenOK
  <2> QED BY <2>8, <2>9, <2>12 DEF RInv
<1>8. CASE GetLastBillID
  <2> DEFINE n == newBillId'
  <2>1. n \in Ids /\ IsLastId(n) /\ RowsOf(n) = {} /\ HasAmounts(n) /\ NotOnReceipt(n)
    BY <1>8 DEF GetLastBillID, IInv, SavingOK, IsLastId, RInv, WrittenOK
  <2>2. /\ UNCHANGED <<bill, item, receipt, gBillData, gBillAmt, add_less_amt, shown>>
        /\ pc = "lastId" /\ todo' = InBill(gBillData)
        /\ pc' = IF todo' = {} THEN "paper" ELSE "items"
    BY <1>8 DEF GetLastBillID, tables, cart
  <2>3. ListedOK'
    BY <2>2 DEF RInv, ListedOK, Saving
  <2>4. HasAmounts(newBillId)' /\ NotOnReceipt(newBillId)'
    BY <2>1, <2>2 DEF HasAmounts, NotOnReceipt
  <2>5. RowPairs(newBillId)' = {}
    BY <2>1, <2>2 DEF RowPairs, RowsOf
  <2>6. CartPairs(InBill(gBillData) \ todo)' = {}
    BY <2>2 DEF CartPairs, InBill
  <2>7. todo' = {} => CartPairs(InBill(gBillData))' = {}
    BY <2>2 DEF CartPairs, InBill
  <2>8. WrittenOK'
    BY <2>2, <2>4, <2>5, <2>6, <2>7 DEF WrittenOK
  <2> QED BY <2>2, <2>3, <2>8, TablesKept DEF RInv
<1>9. CASE InsertItem
  <2>1. PICK p \in todo : /\ item' = Append(item, Item(newBillId, p, gBillData[p]))
                          /\ todo' = todo \ {p}
    BY <1>9 DEF InsertItem
  <2> DEFINE row == Item(newBillId, p, gBillData[p])
             new == Len(item) + 1
  <2>2. /\ UNCHANGED <<bill, receipt, gBillData, gBillAmt, add_less_amt, shown, newBillId>>
        /\ pc = "items" /\ pc' = IF todo' = {} THEN "paper" ELSE "items"
    BY <1>9 DEF InsertItem, cart
  <2>3. p \in InBill(gBillData) /\ todo \subseteq InBill(gBillData)
    BY <2>1, <2>2 DEF IInv, SavingOK
  <2>4. row.Bill_ID = newBillId /\ row.Product_ID = p /\ row.Quantity = Tostr(gBillData[p])
    BY DEF Item
  <2>5. /\ Len(item) \in Nat /\ DOMAIN item = 1..Len(item) /\ DOMAIN item' = 1..new
        /\ \A i \in DOMAIN item : item'[i] = item[i]
        /\ item'[new] = row
    BY <2>1, <1>t DEF TypeOK
  <2> HIDE DEF row
  <2>6. /\ RowsOf(newBillId)' = RowsOf(newBillId) \cup {new} /\ new \notin RowsOf(newBillId)
        /\ \A b : b # newBillId => RowsOf(b)' = RowsOf(b)
    BY <2>2, <2>4, <2>5 DEF RowsOf
  <2>7. RowPairs(newBillId)' = RowPairs(newBillId) \cup {<<p, Tostr(gBillData[p])>>}
    <3>1. \A i \in RowsOf(newBillId) : item'[i] = item[i]
      BY <2>5 DEF RowsOf
    <3> QED BY <2>2, <2>4, <2>5, <2>6, <3>1 DEF RowPairs
  <2>8. /\ CartPairs(InBill(gBillData) \ todo)'
             = CartPairs(InBill(gBillData) \ todo) \cup {<<p, Tostr(gBillData[p])>>}
        /\ todo' = {} => CartPairs(InBill(gBillData))' = CartPairs(InBill(gBillData) \ todo)'
    <3>1. InBill(gBillData)' = InBill(gBillData)
      BY <2>2
    <3>2. InBill(gBillData) \ todo' = (InBill(gBillData) \ todo) \cup {p}
      BY <2>1, <2>3
    <3> QED BY <2>2, <3>1, <3>2 DEF CartPairs
  <2>9. RowPairs(newBillId) = CartPairs(InBill(gBillData) \ todo)
        /\ HasAmounts(newBillId) /\ NotOnReceipt(newBillId)
    BY <2>2 DEF RInv, WrittenOK
  <2>10. HasAmounts(newBillId)' /\ NotOnReceipt(newBillId)'
    BY <2>2, <2>9 DEF HasAmounts, NotOnReceipt
  <2>11. WrittenOK'
    BY <2>2, <2>7, <2>8, <2>9, <2>10 DEF WrittenOK
  <2>12. ListedOK'
    BY <2>2 DEF RInv, ListedOK, Saving
  <2>13. ReceiptStands'
    <3>1. receipt # None => receipt.Bill_No \in Ids /\ receipt.Bill_No # newBillId
      BY <2>9 DEF IInv, ReceiptHasBill, NotOnReceipt
    <3>2. Ids' = Ids
      BY <2>2 DEF Ids
    <3>3. \A b : \A i \in RowsOf(b) : item'[i] = item[i]
      BY <2>5 DEF RowsOf
    <3> QED BY <2>2, <2>6, <3>1, <3>2, <3>3, StandsKept
  <2> QED BY <2>11, <2>12, <2>13 DEF RInv
<1>10. CASE PrintBill
  <2>1. /\ UNCHANGED <<bill, item>> /\ pc = "paper" /\ receipt' \in {receipt, Receipt}
        /\ pc' \notin {"summary", "edit", "discount"} \cup Saving
    BY <1>10 DEF PrintBill, EndSummary, ToScreen, tables, Saving
  <2>2. ListedOK' /\ WrittenOK'
    BY <2>1 DEF ListedOK, WrittenOK, Saving
  <2>3. CASE receipt' = receipt
    BY <2>1, <2>2, <2>3, TablesKept DEF RInv
  <2>4. CASE receipt' = Receipt
    <3>1. /\ newBillId \in Ids /\ Complete(newBillId) /\ HasAmounts(newBillId)
          /\ RowPairs(newBillId) = CartPairs(InBill(gBillData))
      BY <2>1 DEF IInv, SavingOK, CInv, CountOK, RInv, WrittenOK
    <3>2. /\ \A p \in InBill(shown) : p \in InBill(gBillData) /\ shown[p] = gBillData[p]
          /\ "read" \notin Faults => shown = gBillData
      BY <2>1 DEF RInv, ListedOK, Saving
    <3>3. /\ Receipt.Bill_No = newBillId
          /\ Receipt.lines = [p \in Products |-> IF shown[p] = Absent THEN Absent ELSE Tostr(shown[p])]
          /\ Receipt.gross = Tostr(gBillAmt) /\ Receipt.discount = Tostr(add_less_amt)
          /\ Receipt.total = Tostr(gBillAmt + add_less_amt)
      BY DEF Receipt
    <3>4. InBill(Receipt.lines) \subseteq InBill(shown)
          /\ \A p \in InBill(Receipt.lines) : Receipt.lines[p] = Tostr(shown[p])
      BY <3>3 DEF InBill
    <3>5. "read" \notin Faults => InBill(Receipt.lines) = InBill(gBillData)
      <4>1. \A p \in InBill(gBillData) : Tostr(gBillData[p]) # Absent
        BY <1>t, TostrNat, QuantitiesAssumption, AbsentAssumption DEF TypeOK, InBill
      <4> QED BY <3>2, <3>3, <4>1 DEF InBill
    <3>6. {<<p, Receipt.lines[p]>> : p \in InBill(Receipt.lines)} \subseteq CartPairs(InBill(gBillData))
      BY <3>2, <3>4 DEF CartPairs
    <3>7. "read" \notin Faults =>
            {<<p, Receipt.lines[p]>> : p \in InBill(Receipt.lines)} = CartPairs(InBill(gBillData))
      BY <3>2, <3>4, <3>5 DEF CartPairs
    <3>8. Stands(Receipt)
      BY <3>1, <3>3, <3>6, <3>7 DEF Stands, HasAmounts
    <3>9. Stands(receipt)'
      <4>1. Ids' = Ids /\ (\A b : RowPairs(b)' = RowPairs(b) /\ (Complete(b)' <=> Complete(b)))
        BY <2>1 DEF Ids, RowPairs, RowsOf, Complete
      <4> DEFINE r == Receipt
      <4>2. Stands(r)
        BY <3>8
      <4>3. receipt' = r
        BY <2>4
      <4> HIDE DEF r
      <4> QED BY <2>1, <4>1, <4>2, <4>3 DEF Stands, InBill
    <3> QED BY <2>2, <3>9, ReceiptStandsNext DEF RInv
  <2> QED BY <2>1, <2>3, <2>4
<1>11. CASE MarkBillAsDeleted
  <2>1. sel \in BillIds /\ sel \in Ids /\ bill[sel] \in Headers
    BY <1>11, <1>t DEF MarkBillAsDeleted, IInv, SelectionOK, Ids, TypeOK
  <2>2. /\ UNCHANGED <<item, receipt>> /\ pc' = "admin"
        /\ bill' = [bill EXCEPT ![sel].is_deleted = TRUE]
    BY <1>11 DEF MarkBillAsDeleted
  <2>3. \A b \in Ids : /\ bill'[b].gross_amt = bill[b].gross_amt
                       /\ bill'[b].add_less = bill[b].add_less
                       /\ bill'[b].net_amt = bill[b].net_amt
                       /\ bill'[b].unique_items = bill[b].unique_items
    BY <2>1, <2>2, <1>t DEF Headers, TypeOK, Ids
  <2>4. Ids \subseteq Ids'
    BY <2>1, <2>2, <1>t, CancelledType, RowsAssumption DEF Ids, TypeOK
  <2>5. receipt # None => receipt.Bill_No \in Ids
    BY DEF IInv, ReceiptHasBill
  <2>6. \A b : RowsOf(b)' = RowsOf(b)
    BY <2>2 DEF RowsOf
  <2>7. ReceiptStands'
    BY <2>2, <2>3, <2>4, <2>5, <2>6, StandsKept
  <2> QED BY <2>2, <2>7 DEF RInv, ListedOK, WrittenOK, Saving
<1>12. CASE ClearItems
  BY <1>12 DEF ClearItems, RInv, ListedOK, WrittenOK, ReceiptStands, Saving
<1>13. CASE ClearBills
  <2>1. receipt' = None /\ pc' = "clearSeq"
    BY <1>13 DEF ClearBills, IInv, ClearingOK
  <2> QED BY <2>1 DEF RInv, ListedOK, WrittenOK, ReceiptStands, Saving
<1> QED
  BY <1>1, <1>2, <1>3, <1>4, <1>5, <1>6, <1>7, <1>8, <1>9, <1>10, <1>11, <1>12, <1>13
  DEF Next, User, Program

\* What a customer was handed stays true in the tables, whatever fails later.
THEOREM ReceiptsStand == Spec => []ReceiptStands
<1>1. RInv => ReceiptStands
  BY DEF RInv
<1> QED
  BY <1>1, ReceiptsInit, ReceiptsStep, CountsInit, CountsStep, Invariance, PTL DEF Spec

-----------------------------------------------------------------------------
(* Amounts: a header is written before the rows, from a total that the      *)
(* summary added up; the rows come one by one from the cart.  What is still *)
(* to be inserted is counted with what is there.                            *)

\* Nothing that is typed or imported has more digits than tostr prints.
Exact ==
    /\ \A p \in Priced : Tostr(Rate[p]) = Rate[p]
    /\ \A q \in Quantities : Tostr(q) = q
    /\ \A a \in Adjustments : Tostr(a) = a

\* The rows of bill b as amounts, and the lines of the cart.
RowAmount(b) == [i \in RowsOf(b) |-> item[i].Quantity * item[i].Net_Amt]
LineAmount   == [p \in InBill(gBillData) |-> Rate[p] * gBillData[p]]

\* The header of b was written for a total of t and a discount of a; the rows
\* that b has, and those still to be inserted, add up to t; no rows ever add
\* up to more.
Booked(b, t, a) ==
    /\ bill[b].gross_amt = Tostr(t)
    /\ bill[b].add_less = a
    /\ bill[b].net_amt = Tostr(t + a)
    /\ bill[b].unique_items = 0 => t = 0
    /\ Complete(b) => SumFunction(RowAmount(b)) = t
    /\ SumFunction(RowAmount(b)) <= t
    /\ pc = "lastId" /\ IsLastId(b) => t = BillTotal(gBillData)
    /\ pc = "items" /\ b = newBillId =>
          SumFunction(RowAmount(b)) + SumFunctionOnSet(LineAmount, todo) = t

BalInv ==
    /\ pc = "header" => gBillAmt = BillTotal(gBillData)
    /\ \A b \in Ids : \E t \in Totals, a \in Adjustments : Booked(b, t, a)

\* What tostr prints is within half a unit of the sixth digit.
LEMMA TostrNear == \A x \in Int : Tostr(x) \in Int /\ Near(Tostr(x), x)
<1>1. ASSUME NEW x \in Nat
      PROVE  Rounded(x) \in Nat /\ 2 * Abs(Rounded(x) - x) <= Unit(x) /\ 2 * Abs(x - Rounded(x)) <= Unit(x)
  <2>1. PICK u \in {1, 10, 100} : u = Unit(x)
    BY DEF Unit
  <2>2. PICK q \in Nat, r \in 0..(u - 1) : q = x \div u /\ r = x % u /\ x = u * q + r
    <3>1. CASE u = 1
      BY <3>1
    <3>2. CASE u = 10
      BY <3>2
    <3>3. CASE u = 100
      BY <3>3
    <3> QED BY <2>1, <3>1, <3>2, <3>3
  <2>3. PICK m \in Nat : m = u * q /\ u * (q + 1) = m + u /\ x = m + r
    <3>1. CASE u = 1
      BY <2>2, <3>1
    <3>2. CASE u = 10
      BY <2>2, <3>2
    <3>3. CASE u = 100
      BY <2>2, <3>3
    <3> QED BY <2>1, <3>1, <3>2, <3>3
  <2>4. Rounded(x) = u * (IF 2 * r > u \/ (2 * r = u /\ q % 2 = 1) THEN q + 1 ELSE q)
    BY <2>1, <2>2 DEF Rounded
  <2>r. u \in Nat /\ r \in Nat /\ r < u
    <3>1. u \in Nat
      OBVIOUS
    <3>2. r \in 0..(u - 1)
      OBVIOUS
    <3> QED BY <3>1, <3>2
  <2>5. \/ Rounded(x) = m + u /\ 2 * r >= u
        \/ Rounded(x) = m /\ 2 * r <= u
    <3>1. CASE 2 * r > u \/ (2 * r = u /\ q % 2 = 1)
      BY <2>3, <2>4, <2>r, <3>1
    <3>2. CASE ~(2 * r > u \/ (2 * r = u /\ q % 2 = 1))
      BY <2>3, <2>4, <2>r, <3>2
    <3> QED BY <3>1, <3>2
  <2> DEFINE v == Rounded(x)
  <2>6. \/ v = m + u /\ 2 * r >= u
        \/ v = m /\ 2 * r <= u
    BY <2>5
  <2> HIDE DEF v
  <2>7. v \in Nat /\ 2 * Abs(v - x) <= u /\ 2 * Abs(x - v) <= u
    <3>1. u \in Nat /\ r \in Nat /\ r < u
      BY <2>r
    <3>2. CASE v = m + u /\ 2 * r >= u
      <4>1. v - x = u - r /\ x - v = r - u
        BY <2>3, <3>1, <3>2
      <4> QED BY <3>1, <3>2, <4>1 DEF Abs
    <3>3. CASE v = m /\ 2 * r <= u
      <4>1. v - x = -r /\ x - v = r
        BY <2>3, <3>1, <3>3
      <4> QED BY <3>1, <3>3, <4>1 DEF Abs
    <3> QED BY <2>6, <3>2, <3>3
  <2> QED BY <2>1, <2>7 DEF v
<1> TAKE x \in Int
<1>2. CASE x >= 0
  BY <1>1, <1>2 DEF Tostr, Near, Abs
<1>3. CASE x < 0
  <2>1. -x \in Nat /\ Tostr(x) = -Rounded(-x) /\ Abs(x) = -x
    BY <1>3 DEF Tostr, Abs
  <2>2. Rounded(-x) \in Nat /\ 2 * Abs(Rounded(-x) - (-x)) <= Unit(-x) /\ 2 * Abs((-x) - Rounded(-x)) <= Unit(-x)
    BY <1>1, <2>1
  <2>3. Tostr(x) - x = (-x) - Rounded(-x)
    BY <2>1, <2>2
  <2> QED BY <2>1, <2>2, <2>3 DEF Near
<1> QED BY <1>2, <1>3

\* Nothing is lost of what has six digits: its unit is 1.
LEMMA TostrExact == \A x \in Int : Unit(Abs(x)) = 1 => Tostr(x) = x
<1>1. ASSUME NEW x \in Nat, Unit(x) = 1 PROVE Rounded(x) = x
  BY <1>1 DEF Rounded
<1>2. \A x \in Int : x < 0 => -x \in Nat /\ -(-x) = x /\ Abs(x) = -x
  BY DEF Abs
<1>3. \A x \in Int : x >= 0 => x \in Nat /\ Abs(x) = x
  BY DEF Abs
<1> QED BY <1>1, <1>2, <1>3 DEF Tostr

\* The amounts that are added up are integers.
LEMMA AmountTypes ==
    ASSUME TypeOK
    PROVE  /\ \A b : \A i \in RowsOf(b) : RowAmount(b)[i] \in Nat
           /\ \A p \in InBill(gBillData) : LineAmount[p] \in Nat
<1>1. \A i \in DOMAIN item : item[i].Quantity \in Nat /\ item[i].Net_Amt \in Nat
  <2>1. \A r \in Items : r.Quantity \in Nat /\ r.Net_Amt \in Nat
    <3>1. \A q \in Quantities : Tostr(q) \in Nat
      BY TostrNat, QuantitiesAssumption
    <3>2. \A p \in Priced : Tostr(Rate[p]) \in Nat
      BY TostrNat, RatesAssumption
    <3> QED BY <3>1, <3>2 DEF Items
  <2>2. \A i \in DOMAIN item : item[i] \in Items
    BY DEF TypeOK
  <2> QED BY <2>1, <2>2
<1>2. \A m, n \in Nat : m * n \in Nat
  OBVIOUS
<1>3. \A b : \A i \in RowsOf(b) : RowAmount(b)[i] \in Nat
  BY <1>1, <1>2 DEF RowAmount, RowsOf
<1>4. \A p \in InBill(gBillData) : Rate[p] \in Nat /\ gBillData[p] \in Nat
  BY RatesAssumption, QuantitiesAssumption DEF TypeOK, InBill
<1> QED BY <1>2, <1>3, <1>4 DEF LineAmount

\* The total of the cart is the sum of its lines.
LEMMA TotalIsSum == BillTotal(gBillData) = SumFunctionOnSet(LineAmount, InBill(gBillData))
  BY DEF BillTotal, SumFunction, LineAmount

\* Rates and quantities are not negative, and neither are totals.
LEMMA TotalsAreNat == Totals \subseteq Nat
<1>1. ASSUME NEW b \in Bills, InBill(b) \subseteq Priced PROVE BillTotal(b) \in Nat
  <2> DEFINE f == [p \in InBill(b) |-> Rate[p] * b[p]]
  <2>1. IsFiniteSet(InBill(b))
    BY ProductSetFinite DEF InBill
  <2>2. \A p \in InBill(b) : Rate[p] \in Nat /\ b[p] \in Nat
    BY <1>1, RatesAssumption, QuantitiesAssumption DEF InBill
  <2>3. \A p \in InBill(b) : f[p] \in Nat
    <3>1. \A m, n \in Nat : m * n \in Nat
      OBVIOUS
    <3> QED BY <2>2, <3>1
  <2>4. DOMAIN f = InBill(b) /\ BillTotal(b) = SumFunction(f)
    BY DEF BillTotal
  <2> HIDE DEF f
  <2> QED BY <2>1, <2>3, <2>4, SumIsNat DEF SumFunction
<1> QED BY <1>1 DEF Totals

\* What was booked stays so while neither the bill nor its rows change.
LEMMA BookedKept ==
    ASSUME NEW b, NEW t, NEW a, Booked(b, t, a),
           bill'[b].gross_amt = bill[b].gross_amt, bill'[b].add_less = bill[b].add_less,
           bill'[b].net_amt = bill[b].net_amt, bill'[b].unique_items = bill[b].unique_items,
           UNCHANGED item,
           ~(pc' = "lastId" /\ IsLastId(b)'), ~(pc' = "items" /\ b = newBillId')
    PROVE  Booked(b, t, a)'
<1>1. RowsOf(b)' = RowsOf(b)
  BY DEF RowsOf
<1>2. RowAmount(b)' = RowAmount(b) /\ (Complete(b)' <=> Complete(b))
  BY <1>1 DEF RowAmount, Complete
<1> QED BY <1>2 DEF Booked

\* Balances stay as they are between the statements that write amounts.
LEMMA BalancesKept ==
    ASSUME BalInv, UNCHANGED <<bill, item>>, pc' \notin {"lastId", "items"},
           pc' = "header" => gBillAmt' = BillTotal(gBillData')
    PROVE  BalInv'
<1>1. Ids' = Ids
  BY DEF Ids
<1>2. ASSUME NEW b \in Ids PROVE \E t \in Totals, a \in Adjustments : Booked(b, t, a)'
  <2>1. PICK t \in Totals, a \in Adjustments : Booked(b, t, a)
    BY <1>2 DEF BalInv
  <2>2. Booked(b, t, a)'
    BY <2>1, BookedKept
  <2> QED BY <2>2
<1> QED BY <1>1, <1>2 DEF BalInv

\* A bill without rows.
LEMMA NoRowsNoAmount ==
    ASSUME NEW b, RowsOf(b) = {}
    PROVE  SumFunction(RowAmount(b)) = 0 /\ (Complete(b) <=> bill[b].unique_items = 0)
<1>1. DOMAIN RowAmount(b) = {}
  BY DEF RowAmount
<1>2. Cardinality(RowsOf(b)) = 0
  BY FS_EmptySet
<1> QED BY <1>1, <1>2, SumOfNothing DEF SumFunction, Complete

\* A row that is added adds its amount.
LEMMA RowAdded ==
    ASSUME IInv, pc = "items", NEW p \in todo, NEW CONSTANT n, n = newBillId,
           item' = Append(item, Item(newBillId, p, gBillData[p])), UNCHANGED newBillId, Exact
    PROVE  /\ SumFunction(RowAmount(n)') = SumFunction(RowAmount(n)) + LineAmount[p]
           /\ SumFunction(RowAmount(n)) \in Int
           /\ Cardinality(RowsOf(n)') \in Nat
           /\ \A b : b # n => RowsOf(b)' = RowsOf(b) /\ RowAmount(b)' = RowAmount(b)
<1> DEFINE row == Item(n, p, gBillData[p])
           new == Len(item) + 1
           R   == RowsOf(n)
           f   == RowAmount(n)
<1>t. TypeOK /\ p \in InBill(gBillData)
  BY DEF IInv, SavingOK
<1>1. /\ Len(item) \in Nat /\ DOMAIN item = 1..Len(item) /\ DOMAIN item' = 1..new
      /\ \A i \in DOMAIN item : item'[i] = item[i]
      /\ item'[new] = row
  BY <1>t DEF TypeOK
<1>2. row.Bill_ID = n /\ row.Quantity * row.Net_Amt = LineAmount[p]
  <2>1. p \in Priced /\ gBillData[p] \in Quantities /\ Rate[p] \in Nat /\ gBillData[p] \in Nat
    BY <1>t, RatesAssumption, QuantitiesAssumption DEF TypeOK, InBill
  <2>2. row.Quantity = gBillData[p] /\ row.Net_Amt = Rate[p] /\ row.Bill_ID = n
    BY <2>1 DEF Item, Exact
  <2>3. \A x, y \in Nat : x * y = y * x
    OBVIOUS
  <2> QED BY <1>t, <2>1, <2>2, <2>3 DEF LineAmount
<1> HIDE DEF row
<1>3. RowsOf(n)' = R \cup {new} /\ new \notin R /\ R \subseteq DOMAIN item
  BY <1>1, <1>2 DEF RowsOf
<1>4. \A b : b # n => RowsOf(b)' = RowsOf(b)
  BY <1>1, <1>2 DEF RowsOf
<1>5. \A b : b # n => RowAmount(b)' = RowAmount(b)
  <2> SUFFICES ASSUME NEW b, b # n PROVE RowAmount(b)' = RowAmount(b)
    OBVIOUS
  <2>1. \A i \in RowsOf(b) : i \in DOMAIN item /\ item'[i] = item[i]
    BY <1>1 DEF RowsOf
  <2>2. RowAmount(b)' = [i \in RowsOf(b) |-> item'[i].Quantity * item'[i].Net_Amt]
    BY <1>4 DEF RowAmount
  <2> QED BY <2>1, <2>2 DEF RowAmount
<1> DEFINE g == [i \in R \cup {new} |-> item'[i].Quantity * item'[i].Net_Amt]
<1>6. RowAmount(n)' = g
  BY <1>3 DEF RowAmount
<1>7. IsFiniteSet(R) /\ \A i \in R : f[i] \in Int /\ g[i] = f[i]
  <2>1. \A i \in R : item'[i] = item[i]
    BY <1>1, <1>3
  <2>2. IsFiniteSet(R) /\ \A i \in R : f[i] \in Nat
    BY <1>t, RowsFinite, AmountTypes
  <2>3. \A i \in R : f[i] = item[i].Quantity * item[i].Net_Amt
    BY DEF RowAmount
  <2> HIDE DEF R, f
  <2>4. \A i \in R : g[i] = item'[i].Quantity * item'[i].Net_Amt
    OBVIOUS
  <2>5. \A i \in R : g[i] = f[i]
    BY <2>1, <2>3, <2>4
  <2> HIDE DEF g
  <2> QED BY <2>2, <2>5
<1>8. g[new] = LineAmount[p] /\ LineAmount[p] \in Int
  BY <1>t, <1>1, <1>2, AmountTypes
<1>9. DOMAIN g = R \cup {new} /\ DOMAIN f = R
  BY DEF RowAmount
<1> HIDE DEF g, f, R, new
<1>10. SumFunctionOnSet(g, R \cup {new}) = g[new] + SumFunctionOnSet(g, R)
  BY <1>3, <1>7, <1>8, SumAdd DEF R
<1>11. SumFunctionOnSet(f, R) = SumFunctionOnSet(g, R)
  BY <1>7, SumEqual
<1>12. SumFunctionOnSet(f, R) \in Int
  BY <1>7, SumIsInt
<1>13. SumFunction(RowAmount(n)') = g[new] + SumFunctionOnSet(f, R)
  BY <1>6, <1>9, <1>10, <1>11 DEF SumFunction
<1>14. SumFunction(RowAmount(n)) = SumFunctionOnSet(f, R)
  BY <1>9 DEF SumFunction, f
<1>15. Cardinality(R \cup {new}) \in Nat
  BY <1>7, FS_AddElement, FS_CardinalityType
<1> QED BY <1>3, <1>4, <1>5, <1>8, <1>12, <1>13, <1>14, <1>15 DEF R, new

\* Every action keeps the amounts of headers and rows in step.
LEMMA BalancesStep == Exact /\ IInv /\ CInv /\ CInv' /\ BalInv /\ [Next]_vars => BalInv'
<1> SUFFICES ASSUME Exact, IInv, CInv, CInv', BalInv, [Next]_vars PROVE BalInv'
  OBVIOUS
<1>t. TypeOK
  BY DEF IInv
<1>1. CASE UNCHANGED vars
  <2>1. UNCHANGED <<bill, item, gBillData, gBillAmt, pc, newBillId, todo>>
    BY <1>1 DEF vars, tables, cart, locals
  <2>2. Ids' = Ids /\ LineAmount' = LineAmount /\ \A b : RowsOf(b)' = RowsOf(b)
    BY <2>1 DEF Ids, LineAmount, RowsOf
  <2>3. \A b : RowAmount(b)' = RowAmount(b) /\ (Complete(b)' <=> Complete(b)) /\ (IsLastId(b)' <=> IsLastId(b))
    BY <2>1, <2>2 DEF RowAmount, Complete, IsLastId
  <2>4. \A b, t, a : Booked(b, t, a)' <=> Booked(b, t, a)
    BY <2>1, <2>2, <2>3 DEF Booked
  <2> QED BY <2>1, <2>2, <2>4 DEF BalInv
<1>2. CASE \/ OpenBilling \/ OpenAdmin \/ OpenPos \/ ChooseScreen \/ LeaveMenu
           \/ PickProduct \/ EnterQuantity \/ SkipQuantity
           \/ OpenSummary \/ PickLine \/ EditLine \/ RemoveLine
           \/ LeaveSummary \/ ProceedToBill \/ EnterDiscount \/ DismissNoPaper
           \/ PickBill \/ DeclineDelete \/ ConfirmClear
           \/ InsertHeaderFails \/ NoPaper \/ PrintBill
           \/ GetLastBillIDFails \/ InsertItemFails \/ ClearFails \/ PowerCut \/ ClearSeq
  <2>1. UNCHANGED <<bill, item>> /\ pc' \notin {"lastId", "items"}
        /\ (pc' = "header" => gBillAmt' = BillTotal(gBillData) /\ gBillData' = gBillData)
    BY <1>2
    DEF OpenBilling, OpenAdmin, OpenPos, ChooseScreen, LeaveMenu, PickProduct,
        EnterQuantity, SkipQuantity, OpenSummary, PickLine, EditLine, RemoveLine,
        LeaveSummary, ProceedToBill, EnterDiscount, DismissNoPaper, PickBill,
        DeclineDelete, ConfirmClear, InsertHeaderFails, NoPaper, PrintBill,
        GetLastBillIDFails, InsertItemFails, ClearFails, PowerCut, ClearSeq,
        ShowSummary, ToScreen, EndSummary, tables
  <2> QED BY <2>1, BalancesKept
<1>3. CASE InsertHeader
  <2> DEFINE count == Cardinality(InBill(gBillData))
             row == Header(gBillAmt, add_less_amt, count)
  <2>1. PICK n \in BillIds : IsNextId(n) /\ bill' = [bill EXCEPT ![n] = row]
    BY <1>3 DEF InsertHeader
  <2>2. n \notin Ids /\ (\A b \in Ids : b < n) /\ RowsOf(n) = {}
    BY <2>1, NextIdIsFresh, FreshIdHasNoRows DEF IInv
  <2>3. count \in Nat /\ (count = 0 => BillTotal(gBillData) = 0)
    <3>1. count \in Nat /\ (count = 0 => InBill(gBillData) = {})
      BY ProductSetFinite DEF InBill
    <3> QED BY <3>1, TotalIsSum, SumOfNothing
  <2>4. /\ row.gross_amt = Tostr(gBillAmt) /\ row.add_less = add_less_amt
        /\ row.net_amt = Tostr(gBillAmt + add_less_amt) /\ row.unique_items = count
    BY <1>t DEF Header, Exact, TypeOK
  <2>r. row \in Headers
    BY <1>t, HeaderType DEF TypeOK
  <2> HIDE DEF count, row
  <2>5. /\ Ids' = Ids \cup {n} /\ bill'[n] = row /\ \A b \in Ids : bill'[b] = bill[b]
    BY <2>1, <2>2, <2>r, <1>t, RowsAssumption DEF Ids, TypeOK
  <2>6. UNCHANGED <<item, gBillData>> /\ pc' = "lastId" /\ pc = "header"
    BY <1>3 DEF InsertHeader, cart
  <2>7. gBillAmt = BillTotal(gBillData) /\ gBillAmt \in Totals /\ add_less_amt \in Adjustments
    BY <1>t, <2>6 DEF BalInv, TypeOK
  <2>8. Booked(n, gBillAmt, add_less_amt)'
    <3> DEFINE t == gBillAmt
               a == add_less_amt
    <3>1. RowsOf(n)' = {}
      BY <2>2, <2>6 DEF RowsOf
    <3>2. SumFunction(RowAmount(n)') = 0 /\ (Complete(n)' <=> bill'[n].unique_items = 0)
      <4>1. DOMAIN RowAmount(n)' = {}
        BY <3>1 DEF RowAmount
      <4>2. Cardinality(RowsOf(n)') = 0
        BY <3>1, FS_EmptySet
      <4> QED BY <4>1, <4>2, SumOfNothing DEF SumFunction, Complete
    <3>3. gBillAmt' = gBillAmt /\ add_less_amt' = add_less_amt
      BY <1>3 DEF InsertHeader, cart, locals
    <3>4. 0 <= gBillAmt
      BY <2>7, TotalsAreNat
    <3> QED BY <2>3, <2>4, <2>5, <2>6, <2>7, <3>2, <3>3, <3>4 DEF Booked
  <2>9. ASSUME NEW b \in Ids PROVE \E t \in Totals, a \in Adjustments : Booked(b, t, a)'
    <3>1. PICK t \in Totals, a \in Adjustments : Booked(b, t, a)
      BY DEF BalInv
    <3>2. ~IsLastId(b)'
      <4>1. b \in Nat /\ n \in Nat /\ ~(n <= b) /\ n \in Ids'
        BY <2>2, <2>5, IdsAreNumbers, BoundAssumption
      <4> QED BY <4>1 DEF IsLastId
    <3>3. Booked(b, t, a)'
      BY <2>5, <2>6, <3>1, <3>2, BookedKept
    <3> QED BY <3>3
  <2>10. gBillAmt' \in Totals /\ add_less_amt' \in Adjustments
    BY <1>3, <2>7 DEF InsertHeader, cart, locals
  <2> QED BY <2>5, <2>6, <2>8, <2>9, <2>10 DEF BalInv
<1>4. CASE GetLastBillID
  <2>1. /\ IsLastId(newBillId') /\ newBillId' \in Ids /\ todo' = InBill(gBillData)
        /\ pc = "lastId" /\ pc' \in {"items", "paper"} /\ UNCHANGED <<bill, item, gBillData>>
    BY <1>4 DEF GetLastBillID, IsLastId, tables, cart
  <2>2. RowsOf(newBillId') = {}
    BY <2>1 DEF IInv, SavingOK
  <2>3. Ids' = Ids
    BY <2>1 DEF Ids
  <2>4. ASSUME NEW b \in Ids PROVE \E t \in Totals, a \in Adjustments : Booked(b, t, a)'
    <3>1. PICK t \in Totals, a \in Adjustments : Booked(b, t, a)
      BY DEF BalInv
    <3>2. CASE b # newBillId'
      <4>1. Booked(b, t, a)'
        BY <2>1, <3>1, <3>2, BookedKept
      <4> QED BY <4>1
    <3>3. CASE b = newBillId'
      <4>1. t = BillTotal(gBillData) /\ t \in Int
        BY <2>1, <3>1, <3>3, TotalsAreNat DEF Booked
      <4>2. SumFunction(RowAmount(b)) = 0 /\ (Complete(b) <=> bill[b].unique_items = 0)
        BY <2>2, <3>3, NoRowsNoAmount
      <4>3. RowAmount(b)' = RowAmount(b) /\ (Complete(b)' <=> Complete(b)) /\ LineAmount' = LineAmount
        BY <2>1 DEF RowAmount, RowsOf, Complete, LineAmount
      <4>4. SumFunctionOnSet(LineAmount', todo') = t
        BY <2>1, <4>1, <4>3, TotalIsSum
      <4>5. Booked(b, t, a)'
        BY <2>1, <3>1, <4>1, <4>2, <4>3, <4>4 DEF Booked
      <4> QED BY <4>5
    <3> QED BY <3>2, <3>3
  <2> QED BY <2>1, <2>3, <2>4 DEF BalInv
<1>5. CASE InsertItem
  <2>1. PICK p \in todo : item' = Append(item, Item(newBillId, p, gBillData[p])) /\ todo' = todo \ {p}
    BY <1>5 DEF InsertItem
  <2>2. /\ pc = "items" /\ UNCHANGED <<bill, newBillId, gBillData>>
        /\ pc' = IF todo' = {} THEN "paper" ELSE "items"
    BY <1>5 DEF InsertItem, cart
  <2>3. Ids' = Ids /\ LineAmount' = LineAmount /\ newBillId \in Ids
    BY <2>2 DEF Ids, LineAmount, IInv, SavingOK
  <2>n. PICK n \in Ids : n = newBillId
    BY <2>3
  <2>4. /\ SumFunction(RowAmount(n)') = SumFunction(RowAmount(n)) + LineAmount[p]
        /\ SumFunction(RowAmount(n)) \in Int
        /\ Cardinality(RowsOf(n)') \in Nat
        /\ \A b : b # n => RowsOf(b)' = RowsOf(b) /\ RowAmount(b)' = RowAmount(b)
    BY <2>1, <2>2, <2>n, RowAdded
  <2>5. /\ SumFunctionOnSet(LineAmount, todo) = LineAmount[p] + SumFunctionOnSet(LineAmount, todo')
        /\ SumFunctionOnSet(LineAmount, todo') \in Nat /\ LineAmount[p] \in Nat
    <3>1. todo \subseteq InBill(gBillData)
      BY <2>2 DEF IInv, SavingOK
    <3>2. IsFiniteSet(todo) /\ IsFiniteSet(todo') /\ \A x \in todo : LineAmount[x] \in Nat
      BY <1>t, <2>1, <3>1, ProductSetFinite, AmountTypes, FS_Subset DEF InBill
    <3>3. \A x \in todo' : LineAmount[x] \in Nat
      BY <2>1, <3>2
    <3>4. SumFunctionOnSet(LineAmount, todo') \in Nat
      BY <3>2, <3>3, SumIsNat
    <3>5. PICK S, T : S = todo /\ T = todo' /\ T = S \ {p} /\ p \in S
      BY <2>1
    <3>6. IsFiniteSet(S) /\ \A x \in S : LineAmount[x] \in Int
      BY <3>2, <3>5
    <3>7. SumFunctionOnSet(LineAmount, S) = LineAmount[p] + SumFunctionOnSet(LineAmount, S \ {p})
      BY <3>5, <3>6, SumRemove
    <3> QED BY <2>1, <3>2, <3>4, <3>5, <3>7
  <2>6. ASSUME NEW b \in Ids PROVE \E t \in Totals, a \in Adjustments : Booked(b, t, a)'
    <3>1. PICK t \in Totals, a \in Adjustments : Booked(b, t, a)
      BY DEF BalInv
    <3>2. CASE b # n
      <4>1. RowAmount(b)' = RowAmount(b) /\ (Complete(b)' <=> Complete(b))
        BY <2>2, <2>n, <2>4, <3>2 DEF Complete
      <4>2. Booked(b, t, a)'
        BY <2>2, <2>n, <3>1, <3>2, <4>1 DEF Booked
      <4> QED BY <4>2
    <3>3. CASE b = n
      <4>1. SumFunction(RowAmount(b)) + SumFunctionOnSet(LineAmount, todo) = t
        BY <2>2, <2>n, <3>1, <3>3 DEF Booked
      <4>2. SumFunction(RowAmount(b)') + SumFunctionOnSet(LineAmount, todo') = t
        BY <2>4, <2>5, <3>3, <4>1
      <4>3. Complete(b)' => SumFunction(RowAmount(b)') = t
        <5>1. CASE todo' = {}
          <6>1. SumFunctionOnSet(LineAmount, todo') = 0
            BY <5>1, SumOfNothing
          <6>2. SumFunction(RowAmount(b)') \in Int
            BY <2>4, <2>5, <3>3
          <6> QED BY <4>2, <6>1, <6>2
        <5>2. CASE todo' # {}
          <6>1. Cardinality(RowsOf(b)') + Cardinality(todo') = bill'[b].unique_items
            BY <2>2, <2>n, <3>3, <5>2 DEF CInv, CountOK
          <6>2. todo' \subseteq Products
            BY <1>t, <2>1 DEF TypeOK
          <6>3. Cardinality(todo') \in Nat /\ Cardinality(todo') # 0
            BY <5>2, <6>2, ProductSetFinite
          <6>4. Cardinality(RowsOf(b)') \in Nat
            BY <2>4, <3>3
          <6> QED BY <6>1, <6>3, <6>4 DEF Complete
        <5> QED BY <5>1, <5>2
      <4>4. SumFunction(RowAmount(b)') <= t
        BY <2>4, <2>5, <3>3, <4>2
      <4>5. Booked(b, t, a)'
        BY <2>2, <2>3, <2>n, <3>1, <3>3, <4>2, <4>3, <4>4 DEF Booked
      <4> QED BY <4>5
    <3> QED BY <3>2, <3>3
  <2> QED BY <2>2, <2>3, <2>6 DEF BalInv
<1>6. CASE MarkBillAsDeleted
  <2>1. sel \in BillIds /\ sel \in Ids /\ bill[sel] \in Headers
    BY <1>6, <1>t DEF MarkBillAsDeleted, IInv, SelectionOK, Ids, TypeOK
  <2>2. \A b \in Ids : /\ bill'[b].gross_amt = bill[b].gross_amt /\ bill'[b].add_less = bill[b].add_less
                       /\ bill'[b].net_amt = bill[b].net_amt /\ bill'[b].unique_items = bill[b].unique_items
    BY <1>6, <1>t, <2>1, CountedType DEF MarkBillAsDeleted, Headers, TypeOK, Ids
  <2>3. Ids' \subseteq Ids /\ UNCHANGED item /\ pc' = "admin"
    BY <1>6, <1>t, <2>1 DEF MarkBillAsDeleted, Ids, TypeOK
  <2>4. ASSUME NEW b \in Ids PROVE \E t \in Totals, a \in Adjustments : Booked(b, t, a)'
    <3>1. PICK t \in Totals, a \in Adjustments : Booked(b, t, a)
      BY DEF BalInv
    <3>2. Booked(b, t, a)'
      BY <2>2, <2>3, <3>1, BookedKept
    <3> QED BY <3>2
  <2> QED BY <2>3, <2>4 DEF BalInv
<1>7. CASE ClearItems
  <2>1. Ids' = Ids /\ UNCHANGED bill /\ pc' = "clearBills" /\ \A b : RowsOf(b)' = {}
    BY <1>7 DEF ClearItems, Ids, RowsOf
  <2>2. ASSUME NEW b \in Ids PROVE \E t \in Totals, a \in Adjustments : Booked(b, t, a)'
    <3>1. PICK t \in Totals, a \in Adjustments : Booked(b, t, a)
      BY DEF BalInv
    <3>2. DOMAIN RowAmount(b)' = {} /\ Cardinality(RowsOf(b)') = 0
      BY <2>1, FS_EmptySet DEF RowAmount
    <3>3. SumFunction(RowAmount(b)') = 0 /\ (Complete(b)' <=> bill[b].unique_items = 0)
      BY <2>1, <3>2, SumOfNothing DEF SumFunction, Complete
    <3>4. 0 <= t
      BY TotalsAreNat
    <3>5. Booked(b, t, a)'
      BY <2>1, <3>1, <3>3, <3>4 DEF Booked
    <3> QED BY <3>5
  <2> QED BY <2>1, <2>2 DEF BalInv
<1>8. CASE ClearBills
  BY <1>8 DEF ClearBills, BalInv, Ids
<1> QED BY <1>1, <1>2, <1>3, <1>4, <1>5, <1>6, <1>7, <1>8 DEF Next, User, Program

\* Whatever fails, each header was written for one total: the rows of the bill
\* never add up to more, and to exactly that once all are there, if nothing
\* that was typed has more digits than tostr prints.
THEOREM AmountsAreBooked ==
    ASSUME Exact
    PROVE  Spec => []BalInv
<1>1. Init => BalInv
  BY DEF Init, BalInv, Ids
<1> QED BY <1>1, BalancesStep, CountsInit, CountsStep, Invariance, PTL DEF Spec

\* A row is of a product with a price, and has that price.
PricedRows ==
    \A i \in DOMAIN item : /\ item[i].Product_ID \in Priced
                           /\ item[i].Net_Amt = Tostr(Rate[item[i].Product_ID])

\* Only products with a price get into the cart, and from there into the rows.
THEOREM RowsArePriced == Spec => []PricedRows
<1>1. Init => PricedRows
  BY DEF Init, PricedRows
<1>2. ASSUME IInv, PricedRows, [Next]_vars PROVE PricedRows'
  <2>1. \/ UNCHANGED item
        \/ item' = <<>>
        \/ InsertItem
    BY <1>2
    DEF Next, User, Program, vars, tables,
        OpenBilling, OpenAdmin, OpenPos, ChooseScreen, LeaveMenu, PickProduct,
        EnterQuantity, SkipQuantity, OpenSummary, PickLine, EditLine, RemoveLine,
        LeaveSummary, ProceedToBill, EnterDiscount, DismissNoPaper, PickBill,
        DeclineDelete, ConfirmClear, InsertHeader, InsertHeaderFails, GetLastBillID,
        GetLastBillIDFails, InsertItemFails, NoPaper, PrintBill, MarkBillAsDeleted,
        ClearItems, ClearBills, ClearSeq, ClearFails, PowerCut
  <2>2. CASE UNCHANGED item
    BY <1>2, <2>2 DEF PricedRows
  <2>3. CASE item' = <<>>
    BY <2>3 DEF PricedRows
  <2>4. CASE InsertItem
    <3>1. PICK p \in todo : item' = Append(item, Item(newBillId, p, gBillData[p]))
      BY <2>4 DEF InsertItem
    <3>2. p \in Priced
      BY <1>2, <2>4 DEF InsertItem, IInv, SavingOK, TypeOK
    <3> DEFINE row == Item(newBillId, p, gBillData[p])
    <3>3. row.Product_ID = p /\ row.Net_Amt = Tostr(Rate[p])
      BY DEF Item
    <3> HIDE DEF row
    <3>4. item \in Seq(Items)
      BY <1>2 DEF IInv, TypeOK
    <3>5. /\ DOMAIN item' = DOMAIN item \cup {Len(item) + 1}
          /\ item'[Len(item) + 1] = row
          /\ \A i \in DOMAIN item : item'[i] = item[i]
      BY <3>1, <3>4 DEF row
    <3> QED BY <1>2, <3>2, <3>3, <3>5 DEF PricedRows
  <2> QED BY <2>1, <2>2, <2>3, <2>4
<1> QED BY <1>1, <1>2, Invariance, PTL DEF Spec

\* The amounts on a header are those of the bill's rows: gross the sum of the
\* lines, net with the discount.
THEOREM BillsBalance ==
    ASSUME Exact
    PROVE  Spec => []BillBalances
<1>1. TypeOK /\ BalInv => BillBalances
  <2> SUFFICES ASSUME TypeOK, BalInv, NEW b \in Ids, Complete(b)
               PROVE  LET lines == SumFunction([i \in RowsOf(b) |-> item[i].Quantity * item[i].Net_Amt])
                      IN  /\ Near(bill[b].gross_amt, lines)
                          /\ Near(bill[b].net_amt, lines + bill[b].add_less)
    BY DEF BillBalances
  <2>1. PICK t \in Totals, a \in Adjustments : Booked(b, t, a)
    BY DEF BalInv
  <2>2. t \in Int /\ a \in Int /\ t + a \in Int
    BY TotalsAreNat, AdjustmentsAssumption
  <2>3. /\ SumFunction([i \in RowsOf(b) |-> item[i].Quantity * item[i].Net_Amt]) = t
        /\ bill[b].gross_amt = Tostr(t) /\ bill[b].net_amt = Tostr(t + a) /\ bill[b].add_less = a
    BY <2>1 DEF Booked, RowAmount
  <2> QED BY <2>2, <2>3, TostrNear
<1> QED BY <1>1, AmountsAreBooked, TypeCorrect, PTL

-----------------------------------------------------------------------------
(* The tables as a book of bills *)

St == [b \in BillIds |-> Status(b)]
Nt == [b \in BillIds |-> IF b \in Ids THEN bill[b].net_amt ELSE None]

Writing == pc \in {"lastId", "items"}

\* While items are inserted, the bill they go to is the last one.
LastOK == pc = "items" => IsLastId(newBillId)

\* Every action keeps it so: nothing else inserts a header before the last item is in.
THEOREM LastOKStep == IInv /\ LastOK /\ [Next]_vars => LastOK'
<1> SUFFICES ASSUME IInv, LastOK, [Next]_vars, pc' = "items"
             PROVE  IsLastId(newBillId)'
  BY DEF LastOK
<1>1. CASE GetLastBillID
  BY <1>1 DEF GetLastBillID, IsLastId, Ids, tables
<1>2. CASE InsertItem
  BY <1>2 DEF InsertItem, LastOK, IsLastId, Ids
<1>3. CASE UNCHANGED vars
  BY <1>3 DEF vars, tables, locals, LastOK, IsLastId, Ids
<1>4. QED
  BY <1>1, <1>2, <1>3
  DEF Next, User, Program, OpenBilling, OpenAdmin, OpenPos, ChooseScreen, LeaveMenu,
      PickProduct, EnterQuantity, SkipQuantity, OpenSummary, PickLine, EditLine,
      RemoveLine, LeaveSummary, ProceedToBill, EnterDiscount, DismissNoPaper,
      PickBill, MarkBillAsDeleted, DeclineDelete, ConfirmClear, InsertHeader,
      InsertHeaderFails, GetLastBillIDFails, InsertItemFails, NoPaper, PrintBill,
      ClearItems, ClearBills, ClearSeq, ClearFails, PowerCut,
      ShowSummary, EndSummary, ToScreen

\* What is computed from a bill no step touches stays as it is.
LEMMA BillKept ==
    ASSUME UNCHANGED bill
    PROVE  Ids' = Ids /\ Nt' = Nt /\ \A b : IsLastId(b)' <=> IsLastId(b)
  BY DEF Ids, Nt, IsLastId

\* A step that leaves the tables alone and does not end the writing of a bill
\* leaves the book alone.
LEMMA BookKept ==
    ASSUME UNCHANGED <<bill, item>>, Writing' <=> Writing
    PROVE  UNCHANGED Book!book
<1>1. Ids' = Ids /\ Nt' = Nt /\ \A b : (IsLastId(b)' <=> IsLastId(b))
                                       /\ (Complete(b)' <=> Complete(b))
  BY BillKept DEF Complete, RowsOf
<1>2. \A b : Status(b)' = Status(b)
  BY <1>1 DEF Status, Writing
<1>3. QED
  BY <1>1, <1>2 DEF Book!book, Nt

\* The book's step when the writing of a bill ends: the open bill, if any, is
\* closed or torn.
LEMMA WritingEnds ==
    ASSUME TypeOK, UNCHANGED bill, Writing, ~Writing',
           \A b \in Ids : IsLastId(b) \/ (Complete(b)' <=> Complete(b))
    PROVE  [Book!BookNext]_(Book!book)
<1>1. Ids' = Ids /\ Nt' = Nt /\ \A b : IsLastId(b)' <=> IsLastId(b)
  BY BillKept
<1>2. CASE \E b \in BillIds : Status(b) = "open"
  <2>1. PICK b \in BillIds : Status(b) = "open"
    BY <1>2
  <2>2. b \in Ids /\ ~bill[b].is_deleted /\ IsLastId(b)
    BY <2>1 DEF Status
  <2>3. \A c \in BillIds : c # b => Status(c)' = Status(c)
    BY <1>1, <2>2, LastIdUnique DEF Status, Writing
  <2>4. Status(b)' \in {"live", "torn"}
    BY <1>1, <2>2 DEF Status, Writing
  <2>5. \/ St' = [St EXCEPT ![b] = "live"]
        \/ St' = [St EXCEPT ![b] = "torn"]
    BY <2>3, <2>4 DEF St
  <2>6. Book!Close(b) \/ Book!Tear(b)
    BY <1>1, <2>1, <2>5 DEF Book!Close, Book!Tear, St, Nt
  <2>7. QED
    BY <2>6 DEF Book!BookNext
<1>3. CASE \A b \in BillIds : Status(b) # "open"
  <2>1. \A b \in BillIds : Status(b)' = Status(b)
    BY <1>1, <1>3 DEF Status, Writing
  <2>2. QED
    BY <1>1, <2>1 DEF Book!book, Nt
<1>4. QED
  BY <1>2, <1>3

\* The tables start as an empty book.
THEOREM BookInitially == Init => Book!BookInit
  BY DEF Init, Book!BookInit, Status, Ids

\* Every step is one of the book, or leaves it as it is.
THEOREM BookStep ==
    IInv /\ CInv /\ LastOK /\ [Next]_vars => [Book!BookNext]_(Book!book)
<1> SUFFICES ASSUME IInv, CInv, LastOK, [Next]_vars
             PROVE  [Book!BookNext]_(Book!book)
  OBVIOUS
<1>t. TypeOK
  BY DEF IInv
<1>1. CASE UNCHANGED vars
  BY <1>1, BookKept DEF vars, tables, Writing
<1>2. CASE \/ OpenBilling \/ OpenAdmin \/ OpenPos \/ ChooseScreen \/ LeaveMenu
           \/ PickProduct \/ EnterQuantity \/ SkipQuantity
           \/ OpenSummary \/ PickLine \/ EditLine \/ RemoveLine
           \/ LeaveSummary \/ ProceedToBill \/ EnterDiscount \/ DismissNoPaper
           \/ PickBill \/ DeclineDelete \/ ConfirmClear
           \/ InsertHeaderFails \/ NoPaper \/ PrintBill \/ ClearSeq \/ ClearFails
  <2>1. UNCHANGED <<bill, item>> /\ ~Writing /\ ~Writing'
    BY <1>2
    DEF OpenBilling, OpenAdmin, OpenPos, ChooseScreen, LeaveMenu, PickProduct,
        EnterQuantity, SkipQuantity, OpenSummary, PickLine, EditLine, RemoveLine,
        LeaveSummary, ProceedToBill, EnterDiscount, DismissNoPaper, PickBill,
        DeclineDelete, ConfirmClear, InsertHeaderFails, NoPaper, PrintBill,
        ClearSeq, ClearFails, ShowSummary, ToScreen, EndSummary, tables, Writing
  <2>2. QED
    BY <2>1, BookKept
<1>3. CASE GetLastBillID \/ GetLastBillIDFails \/ InsertItemFails \/ PowerCut
  <2>1. UNCHANGED <<bill, item>> /\ (Writing' => Writing)
    BY <1>3 DEF GetLastBillID, GetLastBillIDFails, InsertItemFails, PowerCut,
                EndSummary, ToScreen, tables, Writing
  <2>2. \A b : Complete(b)' <=> Complete(b)
    BY <2>1 DEF Complete, RowsOf
  <2>3. QED
    BY <2>1, <2>2, <1>t, BookKept, WritingEnds
<1>4. CASE InsertHeader
  <2> DEFINE row == Header(gBillAmt, add_less_amt, Cardinality(InBill(gBillData)))
  <2>1. PICK n \in BillIds : IsNextId(n) /\ bill' = [bill EXCEPT ![n] = row]
    BY <1>4 DEF InsertHeader
  <2>2. n \notin Ids /\ (\A b \in Ids : b < n)
    BY <2>1, NextIdIsFresh DEF IInv
  <2>3. row \in Headers /\ row.is_deleted = FALSE /\ row.net_amt \in NetAmounts
    <3>1. row \in Headers /\ row.is_deleted = FALSE
      BY <1>t, HeaderType DEF TypeOK, Header
    <3>2. QED
      BY <3>1 DEF Headers
  <2> HIDE DEF row
  <2>4. /\ Ids' = Ids \cup {n} /\ bill'[n] = row
        /\ \A b \in BillIds : b # n => bill'[b] = bill[b]
    BY <2>1, <2>3, <1>t, RowsAssumption DEF Ids, TypeOK
  <2>5. \A b \in Ids : b \in Nat /\ ~(n <= b) /\ b <= n /\ n <= n
    BY <2>2, IdsAreNumbers, BoundAssumption
  <2>6. IsLastId(n)'
    <3>1. n <= n
      BY BoundAssumption
    <3>2. QED
      BY <2>4, <2>5, <3>1 DEF IsLastId
  <2>7. \A b \in Ids : ~IsLastId(b)'
    BY <2>4, <2>5 DEF IsLastId
  <2>8. \A b : RowsOf(b)' = RowsOf(b)
    BY <1>4 DEF InsertHeader, RowsOf
  <2>9. Status(n)' = "open" /\ Status(n) = "none"
    BY <1>4, <2>2, <2>3, <2>4, <2>6 DEF InsertHeader, Status
  <2>10. \A b \in BillIds : b # n => Status(b)' = Status(b) /\ Status(b) # "open"
    BY <1>4, <2>4, <2>7, <2>8 DEF InsertHeader, Status, Complete, Ids
  <2>11. St' = [St EXCEPT ![n] = "open"] /\ \A b \in BillIds : St[b] # "open"
    BY <2>9, <2>10 DEF St
  <2>12. Nt' = [Nt EXCEPT ![n] = row.net_amt]
    BY <2>4 DEF Nt, Ids
  <2>13. {b \in BillIds : St[b] # "none"} \subseteq Ids
    BY DEF St, Status
  <2>14. Book!Open(n)
    BY <2>2, <2>3, <2>11, <2>12, <2>13 DEF Book!Open, Book!Used, St, Nt
  <2>15. QED
    BY <2>14 DEF Book!BookNext
<1>5. CASE InsertItem
  <2>1. UNCHANGED bill /\ Writing /\ IsLastId(newBillId)
    BY <1>5 DEF InsertItem, Writing, LastOK
  <2>2. \A b : b # newBillId => (Complete(b)' <=> Complete(b))
    <3>1. PICK p \in todo : item' = Append(item, Item(newBillId, p, gBillData[p]))
      BY <1>5 DEF InsertItem
    <3>2. \A b : b # newBillId => RowsOf(b)' = RowsOf(b)
      BY <3>1, <1>t DEF RowsOf, Item, TypeOK
    <3>3. QED
      BY <2>1, <3>2 DEF Complete
  <2>3. CASE ~Writing'
    BY <2>1, <2>2, <2>3, <1>t, WritingEnds
  <2>4. CASE Writing'
    <3>1. Ids' = Ids /\ Nt' = Nt /\ \A b : IsLastId(b)' <=> IsLastId(b)
      BY <2>1, BillKept
    <3>2. \A b \in BillIds : Status(b)' = Status(b)
      BY <2>1, <2>2, <2>4, <3>1 DEF Status, Writing
    <3>3. QED
      BY <3>1, <3>2 DEF Book!book, Nt
  <2>5. QED
    BY <2>3, <2>4
<1>6. CASE MarkBillAsDeleted
  <2>p. PICK n : n = sel
    OBVIOUS
  <2>1. n \in BillIds /\ n \in Ids /\ bill[n] \in Headers
    BY <1>6, <1>t, <2>p DEF MarkBillAsDeleted, IInv, SelectionOK, Ids, TypeOK
  <2> DEFINE row == [bill[n] EXCEPT !.is_deleted = TRUE]
  <2>2. row \in Headers /\ row.is_deleted /\ row.net_amt = bill[n].net_amt
    BY <2>1, CancelledType DEF Headers
  <2>3. bill' = [bill EXCEPT ![n] = row]
    BY <1>6, <2>1, <2>p, <1>t DEF MarkBillAsDeleted, TypeOK
  <2> HIDE DEF row
  <2>4. Ids' = Ids /\ bill'[n] = row /\ \A b \in BillIds : b # n => bill'[b] = bill[b]
    BY <2>1, <2>2, <2>3, <1>t, RowsAssumption DEF Ids, TypeOK
  <2>5. ~Writing /\ ~Writing' /\ \A b : RowsOf(b)' = RowsOf(b)
    BY <1>6 DEF MarkBillAsDeleted, Writing, RowsOf
  <2>6. Nt' = Nt
    BY <2>2, <2>4 DEF Nt
  <2>7. Status(n)' = "cancelled"
    BY <2>1, <2>2, <2>4 DEF Status
  <2>8. \A b \in BillIds : b # n => Status(b)' = Status(b)
    BY <2>4, <2>5 DEF Status, Complete, Writing
  <2>9. Status(n) \in {"live", "torn", "cancelled"}
    BY <2>1, <2>5 DEF Status, Writing
  <2>10. CASE Status(n) = "cancelled"
    BY <2>6, <2>7, <2>8, <2>10 DEF Book!book, Nt
  <2>11. CASE Status(n) \in {"live", "torn"}
    <3>1. St' = [St EXCEPT ![n] = "cancelled"]
      BY <2>7, <2>8 DEF St
    <3>2. Book!Cancel(n)
      BY <2>1, <2>6, <2>11, <3>1 DEF Book!Cancel, Book!Written, St, Nt
    <3>3. QED
      BY <2>1, <3>2 DEF Book!BookNext
  <2>12. QED
    BY <2>9, <2>10, <2>11
<1>7. CASE ClearItems
  <2>1. UNCHANGED bill /\ ~Writing /\ ~Writing' /\ \A b : RowsOf(b)' = {}
    BY <1>7 DEF ClearItems, Writing, RowsOf
  <2>2. Ids' = Ids /\ Nt' = Nt
    BY <2>1, BillKept
  <2>3. \A b \in BillIds : Status(b) # "open"
    BY <2>1 DEF Status, Writing
  <2>4. \A b \in BillIds : \/ Status(b)' = Status(b)
                           \/ Status(b) = "live" /\ Status(b)' = "torn"
    <3> SUFFICES ASSUME NEW b \in Ids, ~bill[b].is_deleted
                 PROVE  Complete(b)' => Complete(b)
      BY <2>1, <2>2 DEF Status, Writing
    <3>1. Cardinality(RowsOf(b)) \in Nat /\ Cardinality(RowsOf(b)) <= bill[b].unique_items
      BY <1>t, RowsFinite DEF CInv, NoExtraItems
    <3>2. Cardinality(RowsOf(b)') = 0
      BY <2>1, FS_EmptySet
    <3>3. QED
      BY <2>1, <3>1, <3>2 DEF Complete
  <2> DEFINE S == {b \in BillIds : St[b] = "live" /\ St'[b] = "torn"}
  <2>5. St' = [b \in BillIds |-> IF b \in S THEN "torn" ELSE St[b]]
    BY <2>4 DEF St
  <2>6. S \in SUBSET {b \in BillIds : St[b] = "live"}
    OBVIOUS
  <2> HIDE DEF S
  <2>7. Book!Strip
    BY <2>2, <2>3, <2>5, <2>6 DEF Book!Strip, St, Nt
  <2>8. QED
    BY <2>7 DEF Book!BookNext
<1>8. CASE ClearBills
  <2>1. Ids' = {} /\ ~Writing
    BY <1>8 DEF ClearBills, Ids, Writing
  <2>2. \A b \in BillIds : Status(b)' = "none" /\ Status(b) # "open"
    BY <2>1 DEF Status, Writing
  <2>3. Book!Discard
    BY <2>1, <2>2 DEF Book!Discard
  <2>4. QED
    BY <2>3 DEF Book!BookNext
<1>9. QED
  BY <1>1, <1>2, <1>3, <1>4, <1>5, <1>6, <1>7, <1>8 DEF Next, User, Program

\* The safety part of ImplementsBillBook: whatever fails, the bill tables
\* behave as a book of bills.
THEOREM TablesAreABook == Spec => Book!BookSpec
<1>1. Init => LastOK
  BY DEF Init, LastOK
<1>2. QED
  BY <1>1, LastOKStep, CountsInit, CountsStep, Invariance, BookInitially, BookStep, PTL
  DEF Spec, Book!BookSpec
=============================================================================
