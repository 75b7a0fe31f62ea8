------------------------- MODULE PayCollection_proofs -------------------------
(***************************************************************************)
(* Proofs about PayCollection, for every set of customers and users, all   *)
(* amounts and bounds, whatever fails: balances are the opening ones and   *)
(* the rows that reached them, each once, except where an insert failed,   *)
(* and when nothing fails all rows.                                        *)
(***************************************************************************)
EXTENDS PayCollection, SumTheorems

USE IdsAssumption, OpeningAssumption, DeliveredAssumption, EnteredAssumption,
    NoneAssumption

\* atoi keeps a balance within a unit of what it was.
LEMMA AtoiInt ==
    ASSUME NEW x \in Int
    PROVE  Atoi(x) \in Int /\ x - Atoi(x) \in -99..99
<1>1. CASE x >= 0
  BY <1>1 DEF Atoi
<1>2. CASE x < 0
  <2>1. -x \in Nat /\ (-x) \div 100 \in Int
    BY <1>2
  <2>2. 100 * ((-x) \div 100) <= -x /\ -x < 100 * ((-x) \div 100) + 100
    BY <1>2
  <2>3. Atoi(x) = -100 * ((-x) \div 100)
    BY <1>2 DEF Atoi
  <2>4. QED
    BY <2>1, <2>2, <2>3
<1>3. QED
  BY <1>1, <1>2

\* A new row keeps the type of the table, the order of its numbers and the
\* rows that were there.
LEMMA AppendRow ==
    ASSUME NEW s \in Seq(Transactions), NEW r \in Transactions, Increasing(s),
           r.Trans_No = IF s = <<>> THEN 1 ELSE s[Len(s)].Trans_No + 1
    PROVE  /\ Append(s, r) \in Seq(Transactions)
           /\ Increasing(Append(s, r))
           /\ \A i \in DOMAIN s : s[i].Trans_No < r.Trans_No
<1>1. \A i \in DOMAIN s : s[i].Trans_No \in Nat
  <2>1. \A i \in DOMAIN s : s[i] \in Transactions
    OBVIOUS
  <2>2. \A t \in Transactions : t.Trans_No \in Nat
    BY DEF Transactions, TransNos
  <2>3. QED
    BY <2>1, <2>2
<1>2. \A i \in DOMAIN s : s[i].Trans_No < r.Trans_No
  <2> SUFFICES ASSUME NEW i \in DOMAIN s PROVE s[i].Trans_No < r.Trans_No
    OBVIOUS
  <2>1. s # <<>> /\ Len(s) \in DOMAIN s /\ i \in 1..Len(s)
    OBVIOUS
  <2>2. i = Len(s) \/ s[i].Trans_No < s[Len(s)].Trans_No
    BY <2>1 DEF Increasing
  <2>3. QED
    BY <1>1, <2>1, <2>2
<1>3. Increasing(Append(s, r))
  BY <1>2 DEF Increasing
<1>4. QED
  BY <1>2, <1>3

-----------------------------------------------------------------------------
(* The inductive invariant *)

\* It holds when the terminal is switched on for the first time.
LEMMA InitIInv == Init => IInv
  BY DEF Init, IInv, TypeOK, LoggedIn, ListIsFresh, PickedOK, NumberOK, ConfirmOK,
         BalanceIsFresh, ReceiptHasRow, NumbersIncrease, Picked, Owing

\* What the row to insert is made of.
LEMMA TransactionType ==
    ASSUME IInv, pc = "insert"
    PROVE  /\ Transaction \in Transactions
           /\ NextTransNo \in TransNos
           /\ Transaction.Trans_No = NextTransNo
<1>1. NextTransNo \in TransNos
  <2>1. trans \in Seq(Transactions)
    BY DEF IInv, TypeOK
  <2>2. trans # <<>> => trans[Len(trans)] \in Transactions
    BY <2>1
  <2>3. \A t \in Transactions : t.Trans_No + 1 \in TransNos
    BY DEF Transactions, TransNos
  <2>4. QED
    BY <2>2, <2>3 DEF NextTransNo, TransNos
<1>2. /\ gCustomerId \in Customers /\ gUserId \in Users
      /\ principleAmt \in Nat /\ addLess \in Int /\ netAmt \in Int
  BY DEF IInv, TypeOK, LoggedIn, PickedOK, Picked, Listed, netAmt
<1>3. QED
  BY <1>1, <1>2 DEF Transaction, Transactions

\* Before the update, what is written is a number.
LEMMA NewBalanceType ==
    ASSUME IInv, Picked
    PROVE  /\ gCustomerId \in Customers
           /\ gCustomerBalance = cust[gCustomerId] /\ gCustomerBalance \in Int
           /\ netAmt \in Int /\ NewBalance \in Int
<1>1. /\ gCustomerId \in Customers /\ gCustomerBalance = cust[gCustomerId]
      /\ gCustomerBalance \in Int /\ netAmt \in Int
  <2>1. gCustomerId \in Customers
    BY DEF IInv, PickedOK, Listed
  <2>2. gCustomerBalance = cust[gCustomerId] /\ cust \in [Customers -> Int]
    BY DEF IInv, TypeOK, BalanceIsFresh
  <2>3. netAmt \in Int
    BY DEF IInv, TypeOK, netAmt
  <2>4. QED
    BY <2>1, <2>2, <2>3
<1>2. Atoi(gCustomerBalance) \in Int
  BY <1>1, AtoiInt
<1>3. QED
  BY <1>1, <1>2 DEF NewBalance

\* The number shown is a number.
LEMMA NextIDsType == TypeOK => \A u : NextIDs(u) \subseteq Nat
<1> SUFFICES ASSUME TypeOK, NEW u PROVE NextIDs(u) \subseteq Nat
  OBVIOUS
<1>1. \A i \in DOMAIN trans : trans[i] \in Transactions
  BY DEF TypeOK
<1>2. \A t \in Transactions : t.Trans_No \in Nat
  BY DEF Transactions, TransNos
<1>3. NumbersOf(u) \subseteq Nat
  BY <1>1, <1>2 DEF NumbersOf
<1>4. QED
  BY <1>3 DEF NextIDs

\* The type invariant is kept: the types of the numbers typed, of the row and
\* of the receipt carry the argument.
LEMMA TypeStep == IInv /\ [Next]_vars => TypeOK'
<1> SUFFICES ASSUME IInv, [Next]_vars PROVE TypeOK'
  OBVIOUS
<1> USE DEF IInv, TypeOK, ClearLocals, Return, tables, globals, locals, history
<1>1. CASE Login
  BY <1>1 DEF Login
<1>2. CASE OpenCollection
  <2>1. NextIDs(gUserId) \subseteq Nat
    BY NextIDsType
  <2>2. allCustomers' \in [Listed -> Int]
    BY <1>2 DEF OpenCollection, Listed
  <2>3. QED
    BY <1>2, <2>1, <2>2 DEF OpenCollection
<1>3. CASE OpenFails
  <2>1. NextIDs(gUserId) \subseteq Nat
    BY NextIDsType
  <2>2. QED
    BY <1>3, <2>1 DEF OpenFails
<1>4. CASE PickCustomer
  <2>1. allCustomers \in [Listed -> Int]
    BY <1>4 DEF PickCustomer, ListIsFresh, Listed
  <2>2. gCustomerId' \in Customers /\ gCustomerBalance' \in Int
    BY <1>4, <2>1 DEF PickCustomer, Listed
  <2>3. QED
    BY <1>4, <2>2 DEF PickCustomer
<1>5. CASE LeaveCustomers \/ LeaveAddLess \/ DismissWrong
  BY <1>5
  DEF LeaveCustomers, LeaveAddLess, DismissWrong
<1>6. CASE EnterGross \/ SkipAddLess \/ EnterAddLess
  <2>1. principleAmt' \in Nat
    BY <1>6 DEF EnterGross, SkipAddLess, EnterAddLess
  <2>2. addLess' \in Int
    BY <1>6 DEF EnterGross, SkipAddLess, EnterAddLess
  <2>3. QED
    BY <1>6, <2>1, <2>2 DEF EnterGross, SkipAddLess, EnterAddLess
<1>7. CASE ChooseAddLess \/ EnterWrong
  BY <1>7 DEF ChooseAddLess, EnterWrong
<1>8. CASE InsertIntoTable
  BY <1>8, TransactionType DEF InsertIntoTable
<1>9. CASE InsertFails
  <2>1. gCustomerId \in Customers
    BY <1>9 DEF InsertFails, PickedOK, Picked, Listed
  <2>2. QED
    BY <1>9, <2>1 DEF InsertFails
<1>10. CASE PrintReceipt
  <2>1. Receipt \in Receipts
    BY <1>10, NewBalanceType
    DEF PrintReceipt, Receipt, Receipts, Picked, Owing, LoggedIn, ConfirmOK
  <2>2. QED
    BY <1>10, <2>1 DEF PrintReceipt
<1>11. CASE UpdateCustomerBalance
  <2>1. cust' \in [Customers -> Int]
    BY <1>11, NewBalanceType DEF UpdateCustomerBalance, Picked, Owing
  <2>2. QED
    BY <1>11, <2>1 DEF UpdateCustomerBalance
<1>12. CASE UpdateFails
  BY <1>12 DEF UpdateFails
<1>13. CASE SwitchOff
  BY <1>13 DEF SwitchOff
<1>14. CASE SkipPrint \/ NoPaper \/ DismissNoPaper
  BY <1>14 DEF SkipPrint, NoPaper, DismissNoPaper
<1>15. CASE UNCHANGED vars
  BY <1>15 DEF vars
<1>16. QED
  BY <1>1, <1>2, <1>3, <1>4, <1>5, <1>6, <1>7, <1>8, <1>9, <1>10, <1>11, <1>12,
     <1>13, <1>14, <1>15 DEF Next, User, Answer, Program

\* The steps that leave the table of transactions and the receipt alone keep
\* what is known of them.
LEMMA RowsKept ==
    ASSUME IInv, UNCHANGED <<trans, receipt>>
    PROVE  ReceiptHasRow' /\ NumbersIncrease'
  BY DEF IInv, ReceiptHasRow, NumbersIncrease

\* The row that InsertIntoTable adds is the one that was confirmed, and has the
\* highest number.
LEMMA InsertStep ==
    ASSUME IInv, InsertIntoTable
    PROVE  ConfirmOK' /\ ReceiptHasRow' /\ NumbersIncrease'
<1>1. trans \in Seq(Transactions) /\ Increasing(trans) /\ pc = "insert"
  BY DEF IInv, TypeOK, NumbersIncrease, InsertIntoTable
<1>2. /\ Transaction \in Transactions
      /\ Transaction.Trans_No = IF trans = <<>> THEN 1 ELSE trans[Len(trans)].Trans_No + 1
  BY <1>1, TransactionType DEF NextTransNo
<1>3. trans' = Append(trans, Transaction) /\ Increasing(trans')
  BY <1>1, <1>2, AppendRow DEF InsertIntoTable
<1>4. \A i \in DOMAIN trans : i \in DOMAIN trans' /\ trans'[i] = trans[i]
  BY <1>1, <1>3
<1>5. trans' # <<>> /\ trans'[Len(trans')] = Transaction
  BY <1>1, <1>2, <1>3
<1>6. ConfirmOK'
  BY <1>1, <1>5
  DEF ConfirmOK, Transaction, netAmt, InsertIntoTable, globals, locals, history, IInv, NumberOK
<1>7. ReceiptHasRow'
  BY <1>4 DEF IInv, ReceiptHasRow, InsertIntoTable, history
<1>8. QED
  BY <1>3, <1>6, <1>7 DEF NumbersIncrease

\* A receipt is printed for the last row, which ConfirmOK says is the right
\* one.
LEMMA PrintStep ==
    ASSUME IInv, PrintReceipt
    PROVE  ReceiptHasRow' /\ NumbersIncrease'
<1>1. receipt' = Receipt /\ UNCHANGED trans /\ trans \in Seq(Transactions) /\ trans # <<>>
  BY DEF PrintReceipt, tables, IInv, TypeOK, ConfirmOK
<1>2. Len(trans) \in DOMAIN trans
  BY <1>1
<1>3. ReceiptHasRow'
  BY <1>1, <1>2 DEF ReceiptHasRow, Receipt, PrintReceipt, IInv, ConfirmOK
<1>4. QED
  BY <1>1, <1>3 DEF IInv, NumbersIncrease

\* The invariant is inductive.  Only the insert and the receipt touch what
\* is known of the rows; only the update touches a balance, and returns.
LEMMA StepIInv == IInv /\ [Next]_vars => IInv'
<1> SUFFICES ASSUME IInv, [Next]_vars PROVE IInv'
  OBVIOUS
<1>1. TypeOK'
  BY TypeStep
<1> USE DEF LoggedIn, ListIsFresh, PickedOK, NumberOK, ConfirmOK, BalanceIsFresh,
            Picked, Owing, ClearLocals, Return, tables, globals, locals, history
<1>2. CASE Login
  BY <1>1, <1>2, RowsKept DEF Login, IInv
<1>3. CASE OpenCollection
  <2>1. gTransId' \in Nat
    BY <1>3, NextIDsType DEF OpenCollection, IInv
  <2>2. QED
    BY <1>1, <1>3, <2>1, RowsKept DEF OpenCollection, IInv
<1>4. CASE OpenFails
  BY <1>1, <1>4, RowsKept DEF OpenFails, IInv
<1>5. CASE PickCustomer
  BY <1>1, <1>5, RowsKept DEF PickCustomer, IInv
<1>6. CASE LeaveCustomers \/ LeaveAddLess \/ DismissWrong
  BY <1>1, <1>6, RowsKept DEF LeaveCustomers, LeaveAddLess, DismissWrong, IInv
<1>7. CASE EnterGross \/ SkipAddLess \/ EnterAddLess
  <2>1. /\ UNCHANGED <<tables, globals, receipt>>
        /\ pc \in {"gross", "addless", "add", "less"}
        /\ pc' \in {"addless", "insert"}
    BY <1>7 DEF EnterGross, SkipAddLess, EnterAddLess
  <2>2. QED
    BY <1>1, <2>1, RowsKept DEF IInv
<1>8. CASE ChooseAddLess \/ EnterWrong
  BY <1>1, <1>8, RowsKept DEF ChooseAddLess, EnterWrong, IInv
<1>9. CASE InsertIntoTable
  <2>1. ConfirmOK' /\ ReceiptHasRow' /\ NumbersIncrease'
    BY <1>9, InsertStep
  <2>2. QED
    BY <1>1, <1>9, <2>1 DEF InsertIntoTable, IInv
<1>10. CASE InsertFails \/ SkipPrint \/ NoPaper \/ DismissNoPaper
  BY <1>1, <1>10, RowsKept DEF InsertFails, SkipPrint, NoPaper, DismissNoPaper, IInv
<1>11. CASE PrintReceipt
  BY <1>1, <1>11, PrintStep DEF PrintReceipt, IInv
<1>12. CASE UpdateCustomerBalance
  BY <1>1, <1>12, RowsKept DEF UpdateCustomerBalance, IInv
<1>13. CASE UpdateFails
  BY <1>1, <1>13, RowsKept DEF UpdateFails, IInv
<1>14. CASE SwitchOff
  BY <1>1, <1>14, RowsKept DEF SwitchOff, IInv
<1>15. CASE UNCHANGED vars
  BY <1>1, <1>15, RowsKept DEF vars, IInv, netAmt
<1>16. QED
  BY <1>2, <1>3, <1>4, <1>5, <1>6, <1>7, <1>8, <1>9, <1>10, <1>11, <1>12,
     <1>13, <1>14, <1>15 DEF Next, User, Answer, Program

\* Every reachable state of every instance satisfies the invariant.
THEOREM Invariance == Spec => []IInv
<1>1. Init => IInv
  BY InitIInv
<1>2. IInv /\ [Next]_vars => IInv'
  BY StepIInv
<1>3. QED
  BY <1>1, <1>2, PTL DEF Spec

\* Every variable keeps its type: no number that is shown or printed is ever
\* the empty string.
THEOREM TypeCorrect == Spec => []TypeOK
<1>1. IInv => TypeOK
  BY DEF IInv
<1>2. QED
  BY <1>1, Invariance, PTL

\* A receipt stands for a transaction of the table, with its customer, user
\* and amounts, whatever fails.
THEOREM ReceiptsAreRecorded == Spec => []ReceiptHasRow
<1>1. IInv => ReceiptHasRow
  BY DEF IInv
<1>2. QED
  BY <1>1, Invariance, PTL

-----------------------------------------------------------------------------
(* Balances *)

\* Only the update writes a balance, and what it starts from is fresh.
LEMMA MoveStep ==
    ASSUME IInv, [Next]_vars, NEW c \in Customers, cust'[c] # cust[c]
    PROVE  c = gCustomerId /\ cust'[c] = Atoi(cust[c]) + netAmt
<1>1. UpdateCustomerBalance
  BY DEF Next, User, Answer, Program, Login, OpenCollection, OpenFails, PickCustomer,
         LeaveCustomers, EnterGross, ChooseAddLess, SkipAddLess, LeaveAddLess,
         EnterAddLess, EnterWrong, DismissWrong, InsertIntoTable, InsertFails,
         PrintReceipt, SkipPrint, NoPaper, DismissNoPaper, UpdateFails, SwitchOff,
         vars, tables
<1>2. cust' = [cust EXCEPT ![gCustomerId] = NewBalance] /\ cust \in [Customers -> Int]
  BY <1>1 DEF UpdateCustomerBalance, IInv, TypeOK
<1>3. c = gCustomerId /\ cust'[c] = NewBalance
  BY <1>2
<1>4. gCustomerBalance = cust[gCustomerId]
  BY <1>1 DEF IInv, BalanceIsFresh, Picked, Owing, UpdateCustomerBalance
<1>5. QED
  BY <1>3, <1>4 DEF NewBalance

\* No collection undoes or repeats another: a balance moves only for the
\* customer picked, from its value at that moment.
THEOREM BalancesMoveSafely == Spec => BalanceMoves
<1>1. IInv /\ [Next]_vars =>
        [\A c \in Customers :
            cust'[c] # cust[c] => c = gCustomerId /\ cust'[c] = Atoi(cust[c]) + netAmt]_vars
  BY MoveStep
<1>2. QED
  BY <1>1, Invariance, PTL DEF Spec, BalanceMoves

-----------------------------------------------------------------------------
(* Refinement of CollectionLedger *)

\* Every step is one posting of the ledger, or leaves it as it is.
LEMMA LedgerStep ==
    ASSUME Faults = {}, IInv, [Next]_vars
    PROVE  [Ledger!Post]_(Ledger!ledger)
<1> USE DEF Owing
<1>1. CASE InsertIntoTable
  <2> DEFINE f == cust[gCustomerId] - Atoi(cust[gCustomerId])
  <2>1. /\ trans \in Seq(Transactions) /\ Increasing(trans) /\ pc = "insert"
        /\ Transaction \in Transactions
        /\ Transaction.Trans_No = IF trans = <<>> THEN 1 ELSE trans[Len(trans)].Trans_No + 1
    BY <1>1, TransactionType DEF InsertIntoTable, IInv, TypeOK, NumbersIncrease, NextTransNo
  <2>2. /\ trans' = Append(trans, Transaction)
        /\ trans'[Len(trans')] = Transaction
        /\ \A i \in DOMAIN trans : trans[i].Trans_No < Transaction.Trans_No
    BY <1>1, <2>1, AppendRow DEF InsertIntoTable
  <2>3. /\ gCustomerId \in Customers /\ gCustomerBalance = cust[gCustomerId]
        /\ cust[gCustomerId] \in Int /\ netAmt \in Int
        /\ NewBalance' = NewBalance /\ NewBalance = Atoi(cust[gCustomerId]) + netAmt
    BY <1>1, NewBalanceType DEF Picked, InsertIntoTable, NewBalance, netAmt, globals, locals
  <2>4. f \in Ledger!Fractions /\ NewBalance = cust[gCustomerId] - f + netAmt
    <3>1. \A x \in Int : Atoi(x) \in Int /\ x - Atoi(x) \in -99..99
      BY AtoiInt
    <3>2. Atoi(cust[gCustomerId]) \in Int /\ f \in -99..99
      BY <2>3, <3>1
    <3>3. \A x, a, n \in Int : a + n = x - (x - a) + n
      OBVIOUS
    <3>4. QED
      BY <2>3, <3>2, <3>3 DEF Ledger!Fractions
  <2>5. Balances = cust /\ Balances' = [cust EXCEPT ![gCustomerId] = NewBalance]
    BY <1>1, <2>3 DEF Balances, InsertIntoTable, globals
  <2>6. Transaction.Cust_ID = gCustomerId /\ Transaction.Net_Amt = netAmt
    BY DEF Transaction
  <2>7. \E g \in Ledger!Fractions :
          Balances' = [Balances EXCEPT ![Transaction.Cust_ID] = @ - g + Transaction.Net_Amt]
    BY <2>4, <2>5, <2>6
  <2>8. QED
    BY <2>1, <2>2, <2>7 DEF Ledger!Post
<1>2. CASE UpdateCustomerBalance
  BY <1>2 DEF UpdateCustomerBalance, Balances, Return, Ledger!ledger
<1>3. CASE PrintReceipt \/ SkipPrint \/ NoPaper \/ DismissNoPaper
  BY <1>3 DEF PrintReceipt, SkipPrint, NoPaper, DismissNoPaper, Balances, NewBalance,
              netAmt, tables, globals, locals, Ledger!ledger
<1>4. CASE UNCHANGED vars
  BY <1>4 DEF vars, tables, globals, locals, Balances, NewBalance, netAmt, Ledger!ledger
<1>5. CASE User \/ SwitchOff
  <2>1. ~Owing /\ ~Owing' /\ UNCHANGED tables
    BY <1>5 DEF User, Login, OpenCollection, OpenFails, PickCustomer, LeaveCustomers,
                EnterGross, ChooseAddLess, SkipAddLess, LeaveAddLess, EnterAddLess,
                EnterWrong, DismissWrong, SwitchOff, Return
  <2>2. QED
    BY <2>1 DEF Balances, tables, Ledger!ledger
<1>6. QED
  BY <1>1, <1>2, <1>3, <1>4, <1>5
  DEF Next, Answer, Program, InsertFails, UpdateFails

\* When nothing fails, a collection is one step of the ledger: its row and its
\* balance count together, at the moment the row is inserted.
THEOREM CollectionsAreALedger == Spec /\ Faults = {} => ImplementsLedger
<1>1. Init => Ledger!LedgerInit
  BY DEF Init, Ledger!LedgerInit, Balances, Owing
<1>2. Faults = {} /\ IInv /\ [Next]_vars => [Ledger!Post]_(Ledger!ledger)
  BY LedgerStep
<1>3. Faults = {} /\ [Next]_vars => (Faults = {})'
  BY DEF Next, User, Answer, Program, vars
<1>4. QED
  BY <1>1, <1>2, <1>3, Invariance, PTL DEF Spec, ImplementsLedger, Ledger!LedgerSpec

-----------------------------------------------------------------------------
(* What the rows come to: the recursive function of the model, by induction *)
(* over the rows.                                                           *)

HIDE NoneAssumption
HIDE EnteredAssumption
HIDE DeliveredAssumption
HIDE OpeningAssumption
HIDE IdsAssumption

\* atoi of a balance is a balance.
LEMMA AtoiType == \A x \in Int : Atoi(x) \in Int
BY AtoiInt

\* What Posted is after row n, from what it is before.
PostedRow(G, rows, c, S, n) ==
    IF n = 0 THEN Opening[c]
    ELSE IF n \in S /\ rows[n].Cust_ID = c
         THEN Atoi(G[n - 1]) + rows[n].Net_Amt
         ELSE G[n - 1]

IsPosted(G, rows, c, S) ==
    /\ G \in [0..Len(rows) -> Int]
    /\ \A n \in 0..Len(rows) : G[n] = PostedRow(G, rows, c, S, n)

\* Posted satisfies its recursive definition, and is a balance at each row.
LEMMA PostedIs ==
    ASSUME NEW rows \in Seq(Transactions), NEW c \in Customers, NEW S
    PROVE  IsPosted(Posted(rows, c, S), rows, c, S)
<1> DEFINE Up(G, k) == G \in [0..k -> Int] /\ \A n \in 0..k : G[n] = PostedRow(G, rows, c, S, n)
           Good == {k \in Nat : k <= Len(rows) => \E G : Up(G, k)}
<1>l. Len(rows) \in Nat
  OBVIOUS
<1>1. ASSUME NEW n \in Nat, n + 1 <= Len(rows), NEW G, G[n] \in Int
      PROVE  PostedRow(G, rows, c, S, n + 1) \in Int
  <2>1. rows[n + 1].Net_Amt \in Int
    <3>1. n + 1 \in 1..Len(rows)
      BY <1>1
    <3>2. rows[n + 1] \in Transactions
      BY <3>1
    <3> QED BY <3>2 DEF Transactions
  <2>2. Atoi(G[n]) \in Int
    BY <1>1, AtoiType
  <2>3. n + 1 # 0 /\ (n + 1) - 1 = n
    OBVIOUS
  <2> QED BY <1>1, <2>1, <2>2, <2>3 DEF PostedRow
<1>2. 0 \in Good
  <2> DEFINE G == [n \in 0..0 |-> Opening[c]]
  <2>1. Up(G, 0)
    BY OpeningAssumption DEF PostedRow
  <2> QED BY <2>1
<1>3. ASSUME NEW k \in Nat, k \in Good PROVE k + 1 \in Good
  <2> SUFFICES ASSUME k + 1 <= Len(rows) PROVE \E G : Up(G, k + 1)
    OBVIOUS
  <2>1. PICK G : Up(G, k)
    BY <1>3, <1>l
  <2> DEFINE H == [n \in 0..(k + 1) |-> IF n = k + 1 THEN PostedRow(G, rows, c, S, k + 1) ELSE G[n]]
  <2>2. G[k] \in Int
    BY <2>1
  <2>3. PostedRow(G, rows, c, S, k + 1) \in Int
    BY <1>1, <2>2
  <2>4. H \in [0..(k + 1) -> Int]
    BY <2>1, <2>3
  <2>5. \A n \in 0..k : H[n] = G[n]
    OBVIOUS
  <2>6. H[k + 1] = PostedRow(G, rows, c, S, k + 1)
    OBVIOUS
  <2> HIDE DEF H
  <2>7. \A n \in 0..(k + 1) : PostedRow(H, rows, c, S, n) = PostedRow(G, rows, c, S, n)
    BY <2>5 DEF PostedRow
  <2>8. \A n \in 0..(k + 1) : H[n] = PostedRow(H, rows, c, S, n)
    BY <2>1, <2>5, <2>6, <2>7
  <2> QED BY <2>4, <2>8
<1>4. \E G : Up(G, Len(rows))
  <2> HIDE DEF Good
  <2>1. Nat \subseteq Good
    BY <1>2, <1>3, InductionOnNat
  <2> QED BY <1>l, <2>1 DEF Good
<1>5. PICK G : Up(G, Len(rows))
  BY <1>4
<1>6. G = [n \in 0..Len(rows) |-> PostedRow(G, rows, c, S, n)]
  BY <1>5
<1> DEFINE P == Posted(rows, c, S)
<1>7. P = CHOOSE H : H = [n \in 0..Len(rows) |-> PostedRow(H, rows, c, S, n)]
  BY DEF Posted, PostedRow
<1>8. P = [n \in 0..Len(rows) |-> PostedRow(P, rows, c, S, n)]
  <2> HIDE DEF P
  <2> QED BY <1>6, <1>7
<1> HIDE DEF P
<1>9. \A n \in 0..Len(rows) : P[n] = PostedRow(P, rows, c, S, n)
  BY <1>8
<1> DEFINE Whole == {k \in Nat : k <= Len(rows) => P[k] \in Int}
<1>10. 0 \in Whole
  BY <1>9, <1>l, OpeningAssumption DEF PostedRow
<1>11. ASSUME NEW k \in Nat, k \in Whole PROVE k + 1 \in Whole
  <2> SUFFICES ASSUME k + 1 <= Len(rows) PROVE P[k + 1] \in Int
    OBVIOUS
  <2>1. P[k] \in Int /\ k + 1 \in 0..Len(rows)
    BY <1>11, <1>l
  <2> QED BY <1>1, <1>9, <2>1
<1>12. \A k \in 0..Len(rows) : P[k] \in Int
  <2> HIDE DEF Whole
  <2>1. Nat \subseteq Whole
    BY <1>10, <1>11, InductionOnNat
  <2> QED BY <1>l, <2>1 DEF Whole
<1>13. P \in [0..Len(rows) -> Int]
  BY <1>8, <1>12
<1> QED BY <1>9, <1>13 DEF IsPosted, P

\* Only the first k rows, and which of them count, matter after row k.
LEMMA PostedSame ==
    ASSUME NEW rows \in Seq(Transactions), NEW more \in Seq(Transactions), NEW c \in Customers,
           NEW S, NEW T, NEW k \in Nat, k <= Len(rows), k <= Len(more),
           \A n \in 1..k : rows[n] = more[n] /\ (n \in S <=> n \in T)
    PROVE  Posted(rows, c, S)[k] = Posted(more, c, T)[k]
<1> DEFINE P == Posted(rows, c, S)
           Q == Posted(more, c, T)
           Good == {n \in Nat : n <= k => P[n] = Q[n]}
<1>1. \A n \in 0..Len(rows) : P[n] = PostedRow(P, rows, c, S, n)
  BY PostedIs DEF IsPosted
<1>2. \A n \in 0..Len(more) : Q[n] = PostedRow(Q, more, c, T, n)
  BY PostedIs DEF IsPosted
<1>l. Len(rows) \in Nat /\ Len(more) \in Nat
  OBVIOUS
<1> HIDE DEF P, Q
<1>3. 0 \in Good
  BY <1>1, <1>2, <1>l DEF PostedRow
<1>4. ASSUME NEW n \in Nat, n \in Good PROVE n + 1 \in Good
  <2> SUFFICES ASSUME n + 1 <= k PROVE P[n + 1] = Q[n + 1]
    OBVIOUS
  <2>1. P[n] = Q[n] /\ n + 1 \in 1..k /\ n + 1 \in 0..Len(rows) /\ n + 1 \in 0..Len(more)
        /\ n + 1 # 0 /\ (n + 1) - 1 = n
    BY <1>4, <1>l
  <2>2. rows[n + 1] = more[n + 1] /\ (n + 1 \in S <=> n + 1 \in T)
    BY <2>1
  <2>3. P[n + 1] = PostedRow(P, rows, c, S, n + 1) /\ Q[n + 1] = PostedRow(Q, more, c, T, n + 1)
    BY <1>1, <1>2, <2>1
  <2> QED BY <2>1, <2>2, <2>3 DEF PostedRow
<1> HIDE DEF Good
<1>5. Nat \subseteq Good
  BY <1>3, <1>4, InductionOnNat
<1> QED BY <1>5 DEF Good, P, Q

\* Rows that do not count change nothing.
LEMMA PostedStays ==
    ASSUME NEW rows \in Seq(Transactions), NEW c \in Customers, NEW S,
           NEW k \in Nat, NEW m \in Nat, k <= m, m <= Len(rows),
           \A n \in (k + 1)..m : n \notin S
    PROVE  Posted(rows, c, S)[m] = Posted(rows, c, S)[k]
<1> DEFINE P == Posted(rows, c, S)
           Good == {n \in Nat : k <= n /\ n <= m => P[n] = P[k]}
<1>1. \A n \in 0..Len(rows) : P[n] = PostedRow(P, rows, c, S, n)
  BY PostedIs DEF IsPosted
<1>l. Len(rows) \in Nat
  OBVIOUS
<1> HIDE DEF P
<1>2. 0 \in Good
  OBVIOUS
<1>3. ASSUME NEW n \in Nat, n \in Good PROVE n + 1 \in Good
  <2> SUFFICES ASSUME k <= n + 1, n + 1 <= m PROVE P[n + 1] = P[k]
    OBVIOUS
  <2>1. CASE k = n + 1
    BY <2>1
  <2>2. CASE k # n + 1
    <3>1. P[n] = P[k] /\ n + 1 \in (k + 1)..m /\ n + 1 \in 0..Len(rows) /\ n + 1 # 0 /\ (n + 1) - 1 = n
      BY <1>3, <1>l, <2>2
    <3>2. P[n + 1] = PostedRow(P, rows, c, S, n + 1) /\ n + 1 \notin S
      BY <1>1, <3>1
    <3> QED BY <3>1, <3>2 DEF PostedRow
  <2> QED BY <2>1, <2>2
<1> HIDE DEF Good
<1>4. Nat \subseteq Good
  BY <1>2, <1>3, InductionOnNat
<1> QED BY <1>4 DEF Good, P

\* The rows S and one more.
With(S, L) == S \cup {L}

\* The last row is added to the balance left by the others.
LEMMA PostedLast ==
    ASSUME NEW rows \in Seq(Transactions), NEW c \in Customers, NEW S, NEW L \in Nat \ {0},
           Len(rows) = L, L \notin S
    PROVE  Posted(rows, c, With(S, L))[L] = IF rows[L].Cust_ID = c
                                            THEN Atoi(Posted(rows, c, S)[L]) + rows[L].Net_Amt
                                            ELSE Posted(rows, c, S)[L]
<1>1. PICK k \in Nat : L = k + 1
  <2>1. L - 1 \in Nat /\ L = (L - 1) + 1
    OBVIOUS
  <2> QED BY <2>1
<1> DEFINE T == S \cup {k + 1}
           P == Posted(rows, c, S)
           Q == Posted(rows, c, T)
<1>2. Q[k + 1] = PostedRow(Q, rows, c, T, k + 1)
  BY <1>1, PostedIs DEF IsPosted
<1>3. Q[k] = P[k]
  <2>1. \A n \in 1..k : n \in S <=> n \in T
    OBVIOUS
  <2> HIDE DEF T
  <2> QED BY <1>1, <2>1, PostedSame
<1>4. P[k + 1] = P[k]
  <2>1. \A n \in (k + 1)..(k + 1) : n \notin S
    BY <1>1
  <2> QED BY <1>1, <2>1, PostedStays
<1>5. k + 1 \in T /\ k + 1 # 0 /\ (k + 1) - 1 = k
  OBVIOUS
<1> HIDE DEF P, Q, T
<1>6. Q[k + 1] = IF rows[k + 1].Cust_ID = c THEN Atoi(P[k + 1]) + rows[k + 1].Net_Amt ELSE P[k + 1]
  BY <1>2, <1>3, <1>4, <1>5 DEF PostedRow
<1> QED BY <1>1, <1>6 DEF P, Q, T, With

\* The last row counts when it is the customer's.
LEMMA LastCounts ==
    ASSUME NEW rows \in Seq(Transactions), rows = trans, NEW c \in Customers, NEW S,
           NEW L \in Nat \ {0}, Len(rows) = L, L \notin S, rows[L].Cust_ID = c
    PROVE  After(c, With(S, L)) = Atoi(After(c, S)) + rows[L].Net_Amt
<1>1. Posted(rows, c, With(S, L))[L] = IF rows[L].Cust_ID = c
                                      THEN Atoi(Posted(rows, c, S)[L]) + rows[L].Net_Amt
                                      ELSE Posted(rows, c, S)[L]
  BY PostedLast
<1> QED BY <1>1 DEF After

\* A row that is added does not count for what the others come to.
LEMMA AfterAppended ==
    ASSUME TypeOK, NEW t \in Transactions, trans' = Append(trans, t),
           NEW CONSTANT c \in Customers, NEW CONSTANT S, S \subseteq 1..Len(trans)
    PROVE  After(c, S)' = After(c, S)
<1>1. PICK k \in Nat : Len(trans) = k /\ trans \in Seq(Transactions)
  BY DEF TypeOK
<1>2. PICK more \in Seq(Transactions) : more = trans'
  BY <1>1
<1>3. Len(more) = k + 1 /\ \A n \in 1..k : trans[n] = more[n]
  BY <1>1, <1>2
<1>4. Posted(trans, c, S)[k] = Posted(more, c, S)[k]
  <2>1. trans \in Seq(Transactions) /\ more \in Seq(Transactions) /\ k <= Len(trans) /\ k <= Len(more)
    BY <1>1, <1>3
  <2>2. \A n \in 1..k : trans[n] = more[n] /\ (n \in S <=> n \in S)
    BY <1>3
  <2> QED BY <2>1, <2>2, PostedSame
<1>5. Posted(more, c, S)[k + 1] = Posted(more, c, S)[k]
  <2>1. \A n \in (k + 1)..(k + 1) : n \notin S
    BY <1>1
  <2> QED BY <1>3, <2>1, PostedStays
<1> QED BY <1>1, <1>2, <1>3, <1>4, <1>5 DEF After

\* Without rows that count, the balance is the one delivered.
LEMMA AfterNothing ==
    ASSUME TypeOK, NEW c \in Customers
    PROVE  After(c, {}) = Opening[c]
<1>1. PICK k \in Nat : Len(trans) = k /\ trans \in Seq(Transactions)
  BY DEF TypeOK
<1>2. Posted(trans, c, {})[k] = Posted(trans, c, {})[0]
  BY <1>1, PostedStays
<1>3. Posted(trans, c, {})[0] = Opening[c]
  BY <1>1, PostedIs DEF IsPosted, PostedRow
<1> QED BY <1>1, <1>2, <1>3 DEF After


-----------------------------------------------------------------------------
(* Balances and rows: each row counts once, whenever its balance is written. *)

\* No row is ever deleted.
Grown == Len(Delivered) <= Len(trans)

\* Between the insert and the update, the last row is the one that does not
\* count yet, unless its insert failed.
RowOK ==
    Owing /\ gCustomerId \notin unbooked =>
        /\ Len(trans) \in NewRows
        /\ trans[Len(trans)].Cust_ID = gCustomerId
        /\ trans[Len(trans)].Net_Amt = netAmt

\* The rows that count for customer c when nothing fails.
Counted(c) == IF Owing /\ c = gCustomerId THEN NewRows \ {Len(trans)} ELSE NewRows

SomePosted ==
    \A c \in Customers \ unbooked : \E S \in SUBSET NewRows :
        (Owing /\ c = gCustomerId => Len(trans) \notin S) /\ cust[c] = After(c, S)

AllPosted == \A c \in Customers : cust[c] = After(c, Counted(c))

CountInv ==
    /\ Grown
    /\ "write" \notin Faults => unbooked = {}
    /\ RowOK
    /\ SomePosted
    /\ Faults = {} => AllPosted

\* What a step can do to the tables.
LEMMA StepKinds ==
    ASSUME [Next]_vars
    PROVE  /\ Faults' = Faults
           /\ \/ InsertIntoTable /\ UNCHANGED unbooked
              \/ UpdateCustomerBalance /\ UNCHANGED unbooked
              \/ /\ UNCHANGED <<tables, gCustomerId, unbooked>>
                 /\ netAmt' = netAmt /\ (Owing' <=> Owing)
              \/ UNCHANGED <<tables, unbooked>> /\ ~Owing' /\ (Owing => Faults # {})
              \/ /\ UNCHANGED <<tables, gCustomerId>> /\ "write" \in Faults
                 /\ unbooked' = unbooked \cup {gCustomerId}
<1> USE DEF Owing, tables, globals, locals, history, Return, ClearLocals
<1>1. CASE UNCHANGED vars
  BY <1>1 DEF vars, netAmt
<1>2. CASE User
  BY <1>2 DEF User, Login, OpenCollection, OpenFails, PickCustomer, LeaveCustomers,
              EnterGross, ChooseAddLess, SkipAddLess, LeaveAddLess, EnterAddLess,
              EnterWrong, DismissWrong
<1>3. CASE Answer
  BY <1>3 DEF Answer, PrintReceipt, SkipPrint, NoPaper, DismissNoPaper, netAmt
<1>4. CASE Program
  BY <1>4 DEF Program, InsertIntoTable, InsertFails, UpdateCustomerBalance, UpdateFails
<1>5. CASE SwitchOff /\ UNCHANGED Faults
  BY <1>5 DEF SwitchOff
<1> QED BY <1>1, <1>2, <1>3, <1>4, <1>5 DEF Next

\* What the insert does to the rows that count.
LEMMA RowsInserted ==
    ASSUME IInv, Grown, InsertIntoTable
    PROVE  \E N, L : /\ N = NewRows /\ L = Len(trans) + 1 /\ L = Len(trans') /\ L \in Nat \ {0}
                     /\ NewRows' = N \cup {L} /\ L \notin N /\ N \subseteq 1..Len(trans)
                     /\ trans' \in Seq(Transactions) /\ trans' = Append(trans, Transaction)
                     /\ trans'[L] = Transaction /\ Transaction \in Transactions
                     /\ UNCHANGED <<cust, gCustomerId, receipt>> /\ netAmt' = netAmt
                     /\ ~Owing /\ Owing'
<1>1. trans \in Seq(Transactions) /\ Transaction \in Transactions /\ trans' = Append(trans, Transaction)
  BY TransactionType DEF IInv, TypeOK, InsertIntoTable
<1>2. Len(trans) \in Nat /\ Len(trans') = Len(trans) + 1 /\ trans' \in Seq(Transactions)
      /\ trans'[Len(trans) + 1] = Transaction
  BY <1>1
<1>3. Len(Delivered) \in Nat /\ Len(Delivered) <= Len(trans)
  BY DEF Grown
<1>4. NewRows' = NewRows \cup {Len(trans) + 1} /\ Len(trans) + 1 \notin NewRows
      /\ NewRows \subseteq 1..Len(trans)
  BY <1>2, <1>3 DEF NewRows
<1>5. UNCHANGED <<cust, gCustomerId, receipt>> /\ netAmt' = netAmt
  BY DEF InsertIntoTable, netAmt, globals, locals, history
<1>6. ~Owing /\ Owing'
  BY DEF InsertIntoTable, Owing
<1>7. PICK L : L = Len(trans) + 1
  OBVIOUS
<1>8. /\ L = Len(trans') /\ L \in Nat \ {0} /\ NewRows' = NewRows \cup {L} /\ L \notin NewRows
      /\ trans'[L] = Transaction
  BY <1>2, <1>4, <1>7
<1> QED BY <1>1, <1>2, <1>4, <1>5, <1>6, <1>7, <1>8

\* What the update does to the balances.
LEMMA BalanceUpdated ==
    ASSUME IInv, UpdateCustomerBalance
    PROVE  /\ UNCHANGED <<trans, receipt>> /\ Owing /\ ~Owing' /\ gCustomerId \in Customers
           /\ \A c \in Customers : cust'[c] = IF c = gCustomerId THEN Atoi(cust[c]) + netAmt ELSE cust[c]
<1>1. pc = "update" /\ cust' = [cust EXCEPT ![gCustomerId] = NewBalance] /\ UNCHANGED <<trans, receipt>>
      /\ pc' = "main"
  BY DEF UpdateCustomerBalance, Return, history
<1>2. gCustomerId \in Customers /\ gCustomerBalance = cust[gCustomerId]
  BY <1>1, NewBalanceType DEF Picked, Owing
<1>3. cust \in [Customers -> Int]
  BY DEF IInv, TypeOK
<1> QED BY <1>1, <1>2, <1>3 DEF Owing, NewBalance

\* The rows of the collection under way are in the table.
LEMMA RowOKStep ==
    ASSUME IInv, CountInv, [Next]_vars
    PROVE  Grown' /\ RowOK'
<1>1. CASE InsertIntoTable
  <2>1. PICK N, L : /\ N = NewRows /\ L = Len(trans) + 1 /\ L = Len(trans') /\ L \in Nat \ {0}
                    /\ NewRows' = N \cup {L} /\ trans'[L] = Transaction
                    /\ UNCHANGED gCustomerId /\ netAmt' = netAmt
    BY <1>1, RowsInserted DEF CountInv
  <2>2. Transaction.Cust_ID = gCustomerId /\ Transaction.Net_Amt = netAmt
    BY DEF Transaction
  <2>3. RowOK'
    BY <2>1, <2>2 DEF RowOK
  <2>4. Len(trans) \in Nat /\ Len(Delivered) \in Nat
    BY DEF IInv, TypeOK
  <2>5. Grown'
    BY <2>1, <2>4 DEF CountInv, Grown
  <2> QED BY <2>3, <2>5
<1>2. CASE UpdateCustomerBalance
  BY <1>2, BalanceUpdated DEF CountInv, Grown, RowOK
<1>3. CASE UNCHANGED <<tables, gCustomerId, unbooked>> /\ netAmt' = netAmt /\ (Owing' <=> Owing)
  BY <1>3 DEF CountInv, Grown, RowOK, NewRows, tables
<1>4. CASE UNCHANGED tables /\ ~Owing'
  BY <1>4 DEF CountInv, Grown, RowOK, tables
<1>5. CASE UNCHANGED <<tables, gCustomerId>> /\ unbooked' = unbooked \cup {gCustomerId}
  BY <1>5 DEF CountInv, Grown, RowOK, tables
<1> QED BY <1>1, <1>2, <1>3, <1>4, <1>5, StepKinds

\* What the rows come to only changes with the rows.
LEMMA AfterKept ==
    ASSUME UNCHANGED trans, NEW CONSTANT c, NEW CONSTANT S
    PROVE  After(c, S)' = After(c, S)
  BY DEF After

\* A collection counts once or not at all.
LEMMA SomeStep ==
    ASSUME IInv, CountInv, [Next]_vars
    PROVE  SomePosted'
<1> SUFFICES ASSUME NEW CONSTANT c \in Customers, c \notin unbooked'
             PROVE  \E S \in SUBSET NewRows' :
                        (Owing' /\ c = gCustomerId' => Len(trans') \notin S) /\ cust'[c] = After(c, S)'
  BY DEF SomePosted
<1>u. c \notin unbooked
  BY StepKinds
<1>1. PICK S \in SUBSET NewRows :
         (Owing /\ c = gCustomerId => Len(trans) \notin S) /\ cust[c] = After(c, S)
  BY <1>u DEF CountInv, SomePosted
<1>2. CASE InsertIntoTable
  <2>1. PICK N, L : /\ N = NewRows /\ L = Len(trans') /\ NewRows' = N \cup {L} /\ L \notin N
                    /\ N \subseteq 1..Len(trans) /\ trans' = Append(trans, Transaction)
                    /\ Transaction \in Transactions /\ UNCHANGED cust
    BY <1>2, RowsInserted DEF CountInv
  <2>2. After(c, S)' = After(c, S)
    BY <1>1, <2>1, AfterAppended DEF IInv
  <2> QED BY <1>1, <2>1, <2>2
<1>3. CASE UpdateCustomerBalance
  <2>1. /\ UNCHANGED trans /\ Owing /\ ~Owing'
        /\ cust'[c] = IF c = gCustomerId THEN Atoi(cust[c]) + netAmt ELSE cust[c]
    BY <1>3, BalanceUpdated
  <2>2. NewRows' = NewRows
    BY <2>1 DEF NewRows
  <2>3. CASE c # gCustomerId
    <3>1. After(c, S)' = After(c, S)
      BY <2>1, AfterKept
    <3> QED BY <1>1, <2>1, <2>2, <2>3, <3>1
  <2>4. CASE c = gCustomerId
    <3>1. PICK L \in NewRows : L = Len(trans) /\ trans[L].Cust_ID = c /\ trans[L].Net_Amt = netAmt
      BY <1>u, <2>1, <2>4 DEF CountInv, RowOK
    <3>2. L \in Nat \ {0} /\ L \notin S /\ trans \in Seq(Transactions)
      BY <1>1, <2>1, <2>4, <3>1 DEF IInv, TypeOK, NewRows
    <3>3. After(c, With(S, L)) = Atoi(After(c, S)) + netAmt
      <4>1. PICK rows \in Seq(Transactions) : rows = trans
        BY <3>2
      <4>2. Len(rows) = L /\ rows[L].Cust_ID = c /\ rows[L].Net_Amt = netAmt
        BY <3>1, <4>1
      <4> QED BY <3>2, <4>1, <4>2, LastCounts
    <3>4. After(c, With(S, L))' = After(c, With(S, L))
      BY <2>1, AfterKept
    <3>5. With(S, L) \in SUBSET NewRows'
      BY <1>1, <2>2, <3>1 DEF With
    <3> QED BY <1>1, <2>1, <2>4, <3>3, <3>4, <3>5
  <2> QED BY <2>3, <2>4
<1>4. CASE UNCHANGED tables /\ (Owing' /\ c = gCustomerId' => Owing /\ c = gCustomerId)
  <2>1. After(c, S)' = After(c, S)
    BY <1>4, AfterKept DEF tables
  <2> QED BY <1>1, <1>4, <2>1 DEF tables, NewRows
<1>5. CASE UNCHANGED <<tables, gCustomerId>> /\ unbooked' = unbooked \cup {gCustomerId}
  <2>1. c # gCustomerId'
    BY <1>5
  <2> QED BY <1>4, <1>5, <2>1
<1> QED BY <1>2, <1>3, <1>4, <1>5, StepKinds

\* When nothing fails, every collection counts.
LEMMA AllStep ==
    ASSUME IInv, CountInv, Faults = {}, [Next]_vars
    PROVE  AllPosted'
<1> SUFFICES ASSUME NEW CONSTANT c \in Customers PROVE cust'[c] = After(c, Counted(c))'
  BY DEF AllPosted
<1>u. unbooked = {}
  BY DEF CountInv
<1>1. PICK S : S = Counted(c) /\ cust[c] = After(c, S)
  BY DEF CountInv, AllPosted
<1>2. CASE InsertIntoTable
  <2>1. PICK N, L : /\ N = NewRows /\ L = Len(trans') /\ L \in Nat \ {0} /\ NewRows' = N \cup {L} /\ L \notin N
                    /\ N \subseteq 1..Len(trans) /\ trans' = Append(trans, Transaction)
                    /\ trans' \in Seq(Transactions) /\ trans'[L] = Transaction
                    /\ Transaction \in Transactions /\ UNCHANGED <<cust, gCustomerId>> /\ ~Owing /\ Owing'
    BY <1>2, RowsInserted DEF CountInv
  <2>2. S = N
    BY <1>1, <2>1 DEF Counted
  <2>3. After(c, S)' = After(c, S)
    BY <2>1, <2>2, AfterAppended DEF IInv
  <2>4. CASE c = gCustomerId
    <3>1. Counted(c)' = S
      BY <2>1, <2>2, <2>4 DEF Counted
    <3>2. After(c, Counted(c))' = After(c, S)'
      BY <3>1 DEF After
    <3> QED BY <1>1, <2>1, <2>3, <3>2
  <2>5. CASE c # gCustomerId
    <3>1. PICK rows \in Seq(Transactions) : rows = trans'
      BY <2>1
    <3>2. rows[L].Cust_ID # c
      BY <2>1, <2>5, <3>1 DEF Transaction
    <3>3. Posted(rows, c, S \cup {L})[L] = Posted(rows, c, S)[L]
      <4>1. Len(rows) = L /\ L \in Nat \ {0} /\ L \notin S
        BY <2>1, <2>2, <3>1
      <4>2. Posted(rows, c, S \cup {L})[L] = IF rows[L].Cust_ID = c
                                             THEN Atoi(Posted(rows, c, S)[L]) + rows[L].Net_Amt
                                             ELSE Posted(rows, c, S)[L]
        BY <4>1, PostedLast DEF With
      <4> QED BY <3>2, <4>2
    <3>4. Counted(c)' = S \cup {L}
      BY <2>1, <2>2, <2>5 DEF Counted
    <3>5. After(c, Counted(c))' = After(c, S)'
      BY <2>1, <3>1, <3>3, <3>4 DEF After
    <3> QED BY <1>1, <2>1, <2>3, <3>5
  <2> QED BY <2>4, <2>5
<1>3. CASE UpdateCustomerBalance
  <2>1. /\ UNCHANGED trans /\ Owing /\ ~Owing'
        /\ cust'[c] = IF c = gCustomerId THEN Atoi(cust[c]) + netAmt ELSE cust[c]
    BY <1>3, BalanceUpdated
  <2>2. NewRows' = NewRows /\ Counted(c)' = NewRows
    BY <2>1 DEF NewRows, Counted
  <2>3. CASE c # gCustomerId
    <3>1. Counted(c)' = S
      BY <1>1, <2>2, <2>3 DEF Counted
    <3>2. After(c, Counted(c))' = After(c, S)
      BY <2>1, <3>1 DEF After
    <3> QED BY <1>1, <2>1, <2>3, <3>2
  <2>4. CASE c = gCustomerId
    <3>1. PICK L \in NewRows : L = Len(trans) /\ trans[L].Cust_ID = c /\ trans[L].Net_Amt = netAmt
      BY <1>u, <2>1, <2>4 DEF CountInv, RowOK
    <3>2. L \in Nat \ {0} /\ L \notin S /\ trans \in Seq(Transactions) /\ Counted(c)' = With(S, L)
      BY <1>1, <2>1, <2>2, <2>4, <3>1 DEF IInv, TypeOK, NewRows, Counted, With
    <3>3. After(c, With(S, L)) = Atoi(After(c, S)) + netAmt
      <4>1. PICK rows \in Seq(Transactions) : rows = trans
        BY <3>2
      <4>2. Len(rows) = L /\ rows[L].Cust_ID = c /\ rows[L].Net_Amt = netAmt
        BY <3>1, <4>1
      <4> QED BY <3>2, <4>1, <4>2, LastCounts
    <3>4. After(c, Counted(c))' = After(c, With(S, L))
      BY <2>1, <3>2 DEF After
    <3> QED BY <1>1, <2>1, <2>4, <3>3, <3>4
  <2> QED BY <2>3, <2>4
<1>4. CASE UNCHANGED tables /\ ((UNCHANGED gCustomerId /\ (Owing' <=> Owing)) \/ (~Owing /\ ~Owing'))
  <2>1. Counted(c)' = S
    BY <1>1, <1>4 DEF Counted, NewRows, tables
  <2>2. After(c, Counted(c))' = After(c, S)
    BY <1>4, <2>1 DEF After, tables
  <2> QED BY <1>1, <1>4, <2>2 DEF tables
<1> QED BY <1>2, <1>3, <1>4, StepKinds

\* The balances and the rows go together, but for customers whose insert failed.
THEOREM RowsAreCounted == Spec => []CountInv
<1>1. ASSUME Init PROVE CountInv
  <2>1. cust = Opening /\ trans = Delivered /\ ~Owing /\ TypeOK /\ unbooked = {}
    BY <1>1, InitIInv DEF Init, Owing, IInv
  <2>2. NewRows = {}
    BY <2>1 DEF NewRows
  <2>3. \A c \in Customers : cust[c] = After(c, {})
    BY <2>1, AfterNothing
  <2>4. \A c \in Customers : Counted(c) = {}
    BY <2>1, <2>2 DEF Counted
  <2>5. Grown
    BY <2>1 DEF Grown
  <2> QED BY <2>1, <2>2, <2>3, <2>4, <2>5 DEF CountInv, RowOK, SomePosted, AllPosted
<1>2. ASSUME IInv, CountInv, [Next]_vars PROVE CountInv'
  <2>1. Faults' = Faults /\ ("write" \notin Faults => unbooked' = unbooked)
    BY StepKinds, <1>2
  <2> QED BY <1>2, <2>1, RowOKStep, SomeStep, AllStep DEF CountInv
<1> QED BY <1>1, <1>2, Invariance, PTL DEF Spec

\* Wherever the power is cut and whichever update fails, a collection counts
\* once or not at all: a balance comes from some of its customer's rows, each
\* once, unless one of his collections was never inserted.
THEOREM CountedOnce == Spec => []BalanceFromRows
<1>1. CountInv => BalanceFromRows
  BY DEF CountInv, SomePosted, BalanceFromRows
<1> QED BY <1>1, RowsAreCounted, PTL

\* When nothing fails, every balance comes from all of the customer's
\* transactions, except the one the program is still asking about.
THEOREM AllAreCounted == Spec /\ Faults = {} => []BalanceAgrees
<1>1. Faults = {} /\ CountInv => BalanceAgrees
  BY DEF CountInv, AllPosted, BalanceAgrees, Counted
<1>2. Faults = {} /\ [Next]_vars => (Faults = {})'
  BY StepKinds
<1> QED BY <1>1, <1>2, RowsAreCounted, PTL DEF Spec


-----------------------------------------------------------------------------
(* Receipts: the number and the balance on one are computed before the      *)
(* insert.                                                                  *)

\* All transactions the terminal is delivered with are of one user: nobody
\* else is given a number to collect with.
OneUser == \E u \in Users : \A i \in DOMAIN Delivered : Delivered[i].User_ID = u

\* Where gTransId is the number of the row that is still to be inserted.
Numbered == pc \in {"customers", "gross", "addless", "add", "less", "wrong", "insert"}

NumberInv(u) ==
    /\ \A i \in DOMAIN trans : trans[i].User_ID = u
    /\ Numbered => gUserId = u /\ gTransId = NextTransNo
    /\ pc = "confirm" => gTransId = trans[Len(trans)].Trans_No
    /\ BillNoIsTransNo

\* The number computed for the user is the next one, if all rows are his.
LEMMA OnlyNextID ==
    ASSUME IInv, NEW u, \A i \in DOMAIN trans : trans[i].User_ID = u, NEW v, NEW n \in NextIDs(v)
    PROVE  v = u /\ n = NextTransNo
<1>1. trans \in Seq(Transactions) /\ \A i \in DOMAIN trans : trans[i].Trans_No \in Nat
  <2>1. \A t \in Transactions : t.Trans_No \in Nat
    BY DEF Transactions, TransNos
  <2> QED BY <2>1 DEF IInv, TypeOK
<1>2. PICK m \in NumbersOf(v) : n = m + 1 /\ \A k \in NumbersOf(v) : k <= m
  BY DEF NextIDs
<1>3. PICK i \in DOMAIN trans : trans[i].User_ID = v /\ m = trans[i].Trans_No
  BY <1>2 DEF NumbersOf
<1>4. v = u /\ NumbersOf(v) = {trans[j].Trans_No : j \in DOMAIN trans}
  BY <1>3 DEF NumbersOf
<1>5. trans # <<>> /\ Len(trans) \in DOMAIN trans /\ i \in 1..Len(trans)
  BY <1>1, <1>3
<1>6. trans[Len(trans)].Trans_No <= m
  BY <1>2, <1>4, <1>5
<1>7. i = Len(trans) \/ trans[i].Trans_No < trans[Len(trans)].Trans_No
  BY <1>5 DEF IInv, NumbersIncrease, Increasing
<1>8. m = trans[Len(trans)].Trans_No
  BY <1>1, <1>3, <1>5, <1>6, <1>7
<1> QED BY <1>2, <1>4, <1>5, <1>8 DEF NextTransNo

\* A step that leaves the rows and the receipt alone.
LEMMA NumberKept ==
    ASSUME NEW u, NumberInv(u), UNCHANGED <<trans, receipt>>,
           Numbered' => gUserId' = u /\ gTransId' = NextTransNo,
           pc' = "confirm" => gTransId' = trans[Len(trans)].Trans_No
    PROVE  NumberInv(u)'
  BY DEF NumberInv, NextTransNo, BillNoIsTransNo

\* Every step keeps the number in gTransId that of the next row.
LEMMA NumberStep ==
    ASSUME NEW CONSTANT u, IInv, NumberInv(u), [Next]_vars
    PROVE  NumberInv(u)'
<1> USE DEF tables, globals, locals, history, Return, ClearLocals
<1>1. CASE OpenCollection
  <2>1. gTransId' = NextTransNo /\ gUserId = u
    BY <1>1, OnlyNextID DEF OpenCollection, NumberInv
  <2> QED BY <1>1, <2>1, NumberKept DEF OpenCollection
<1>2. CASE InsertIntoTable
  <2>1. /\ trans \in Seq(Transactions) /\ trans' = Append(trans, Transaction)
        /\ Transaction \in Transactions /\ Transaction.Trans_No = NextTransNo
    BY <1>2, TransactionType DEF IInv, TypeOK, InsertIntoTable
  <2>2. Transaction.User_ID = u /\ gTransId' = NextTransNo
    BY <1>2 DEF InsertIntoTable, NumberInv, Numbered, Transaction
  <2>3. /\ DOMAIN trans' = DOMAIN trans \cup {Len(trans')}
        /\ trans'[Len(trans')] = Transaction
        /\ \A i \in DOMAIN trans : trans'[i] = trans[i]
    BY <2>1
  <2>4. \A i \in DOMAIN trans' : trans'[i].User_ID = u
    BY <2>2, <2>3 DEF NumberInv
  <2>5. BillNoIsTransNo'
    BY <1>2, <2>3 DEF InsertIntoTable, IInv, ReceiptHasRow, NumberInv, BillNoIsTransNo
  <2> QED BY <1>2, <2>1, <2>2, <2>3, <2>4, <2>5 DEF InsertIntoTable, NumberInv, Numbered
<1>3. CASE PrintReceipt
  <2>1. receipt' = Receipt /\ UNCHANGED trans /\ pc = "confirm" /\ pc' = "update"
    BY <1>3 DEF PrintReceipt
  <2>2. BillNoIsTransNo'
    BY <2>1 DEF NumberInv, BillNoIsTransNo, Receipt
  <2> QED BY <2>1, <2>2 DEF NumberInv, Numbered
<1>4. CASE \/ Login \/ OpenFails \/ LeaveCustomers \/ LeaveAddLess \/ DismissWrong
           \/ InsertFails \/ SkipPrint \/ NoPaper \/ DismissNoPaper
           \/ UpdateCustomerBalance \/ UpdateFails \/ SwitchOff
  <2>1. UNCHANGED <<trans, receipt>> /\ pc' \in {"main", "update", "noPaper", "login"}
    BY <1>4 DEF Login, OpenFails, LeaveCustomers, LeaveAddLess, DismissWrong, InsertFails,
                SkipPrint, NoPaper, DismissNoPaper, UpdateCustomerBalance, UpdateFails, SwitchOff
  <2> QED BY <2>1, NumberKept DEF Numbered
<1>5. CASE PickCustomer \/ EnterGross \/ ChooseAddLess \/ SkipAddLess \/ EnterAddLess \/ EnterWrong
  <2>1. Numbered /\ UNCHANGED <<trans, receipt, gUserId, gTransId>> /\ pc' # "confirm"
    BY <1>5 DEF PickCustomer, EnterGross, ChooseAddLess, SkipAddLess, EnterAddLess, EnterWrong, Numbered
  <2> QED BY <2>1, NumberKept DEF NumberInv
<1>6. CASE UNCHANGED vars
  BY <1>6, NumberKept DEF vars, NumberInv, Numbered
<1> QED BY <1>1, <1>2, <1>3, <1>4, <1>5, <1>6 DEF Next, User, Answer, Program

\* While only one user collects, the number on a receipt is that of its
\* transaction, whatever fails.
THEOREM NumbersAgree ==
    ASSUME OneUser
    PROVE  Spec => []BillNoIsTransNo
<1>1. PICK u \in Users : \A i \in DOMAIN Delivered : Delivered[i].User_ID = u
  BY DEF OneUser
<1>2. Init => NumberInv(u)
  BY <1>1 DEF Init, NumberInv, Numbered, BillNoIsTransNo
<1>3. IInv /\ NumberInv(u) /\ [Next]_vars => NumberInv(u)'
  BY NumberStep
<1>4. NumberInv(u) => BillNoIsTransNo
  BY DEF NumberInv
<1> QED BY <1>2, <1>3, <1>4, Invariance, PTL DEF Spec

\* The balance on the receipt, for the rows up to its own.
BalanceOnReceipt ==
    receipt # None => receipt.Balance = After(receipt.Customer, NewRows \cap 1..receipt.row)

\* The balance printed counts the row that was just inserted; rows that follow
\* do not change what it was.
LEMMA BalanceStep ==
    ASSUME IInv, CountInv, Faults = {}, BalanceOnReceipt, [Next]_vars
    PROVE  BalanceOnReceipt'
<1>u. unbooked = {}
  BY DEF CountInv
<1>t. trans \in Seq(Transactions) /\ (receipt # None => receipt.row \in 1..Len(trans) /\ receipt.Customer \in Customers)
  BY DEF IInv, TypeOK, ReceiptHasRow, Receipts
<1>1. CASE InsertIntoTable
  <2> SUFFICES ASSUME receipt' # None
               PROVE  receipt'.Balance = After(receipt.Customer, NewRows \cap 1..receipt.row)'
    BY DEF BalanceOnReceipt
  <2>1. PICK N, L : /\ N = NewRows /\ L = Len(trans) + 1 /\ NewRows' = N \cup {L}
                    /\ N \subseteq 1..Len(trans) /\ trans' = Append(trans, Transaction)
                    /\ Transaction \in Transactions /\ UNCHANGED receipt
    BY <1>1, RowsInserted DEF CountInv
  <2>2. PICK c \in Customers, r \in 1..Len(trans), S \in SUBSET (1..Len(trans)) :
           c = receipt.Customer /\ r = receipt.row /\ S = N \cap 1..r
    BY <1>t, <2>1
  <2>3. NewRows' \cap 1..r = S
    BY <1>t, <2>1, <2>2
  <2>4. After(c, S)' = After(c, S)
    BY <2>1, <2>2, AfterAppended DEF IInv
  <2>5. After(receipt.Customer, NewRows \cap 1..receipt.row)' = After(c, S)'
    BY <2>1, <2>2, <2>3 DEF After
  <2> QED BY <2>1, <2>2, <2>4, <2>5 DEF BalanceOnReceipt
<1>2. CASE PrintReceipt
  <2>1. pc = "confirm" /\ receipt' = Receipt /\ UNCHANGED trans
    BY <1>2 DEF PrintReceipt, tables
  <2>2. gCustomerId \in Customers /\ NewBalance = Atoi(cust[gCustomerId]) + netAmt
    BY <2>1, NewBalanceType DEF Picked, Owing, NewBalance
  <2>3. PICK L \in NewRows : L = Len(trans) /\ trans[L].Cust_ID = gCustomerId /\ trans[L].Net_Amt = netAmt
    BY <1>u, <2>1 DEF CountInv, RowOK, Owing
  <2>4. L \in Nat \ {0} /\ NewRows \cap 1..L = NewRows /\ NewRows = (NewRows \ {L}) \cup {L} /\ L \notin NewRows \ {L}
    BY <1>t, <2>3 DEF NewRows
  <2>5. cust[gCustomerId] = After(gCustomerId, NewRows \ {L})
    BY <2>1, <2>2, <2>3 DEF CountInv, AllPosted, Counted, Owing
  <2> DEFINE S == NewRows \ {L}
  <2>6. Posted(trans, gCustomerId, S \cup {L})[L] = Atoi(Posted(trans, gCustomerId, S)[L]) + netAmt
    <3>1. L \notin S
      OBVIOUS
    <3> HIDE DEF S
    <3>2. Len(trans) = L /\ L \in Nat \ {0} /\ trans \in Seq(Transactions) /\ gCustomerId \in Customers
      BY <1>t, <2>2, <2>3, <2>4
    <3>3. Posted(trans, gCustomerId, S \cup {L})[L] =
              IF trans[L].Cust_ID = gCustomerId
              THEN Atoi(Posted(trans, gCustomerId, S)[L]) + trans[L].Net_Amt
              ELSE Posted(trans, gCustomerId, S)[L]
      BY <3>1, <3>2, PostedLast DEF With
    <3> QED BY <2>3, <3>3
  <2>7. NewBalance = After(gCustomerId, NewRows)
    BY <2>2, <2>3, <2>4, <2>5, <2>6 DEF After
  <2>8. PICK c, N : c = gCustomerId /\ N = NewRows
    OBVIOUS
  <2>9. receipt'.Balance = NewBalance /\ receipt'.Customer = c /\ receipt'.row = L
    BY <2>1, <2>3, <2>8 DEF Receipt
  <2>10. NewRows' \cap 1..L = N
    BY <2>1, <2>4, <2>8 DEF NewRows
  <2>11. After(receipt.Customer, NewRows \cap 1..receipt.row)' = After(c, N)
    BY <2>1, <2>9, <2>10 DEF After
  <2> QED BY <2>7, <2>8, <2>9, <2>11 DEF BalanceOnReceipt
<1>3. CASE UNCHANGED <<trans, receipt>>
  BY <1>3 DEF BalanceOnReceipt, After, NewRows
<1>4. InsertIntoTable \/ PrintReceipt \/ UNCHANGED <<trans, receipt>>
  BY DEF Next, User, Answer, Program, Login, OpenCollection, OpenFails, PickCustomer,
         LeaveCustomers, EnterGross, ChooseAddLess, SkipAddLess, LeaveAddLess,
         EnterAddLess, EnterWrong, DismissWrong, InsertFails, SkipPrint, NoPaper,
         DismissNoPaper, UpdateCustomerBalance, UpdateFails, SwitchOff, vars, tables, history
<1> QED BY <1>1, <1>2, <1>3, <1>4

\* When nothing fails and one user collects, the number and the balance on a
\* receipt are those of its transaction.
THEOREM ReceiptsAgree ==
    ASSUME OneUser
    PROVE  Spec /\ Faults = {} => []ReceiptAgrees
<1>1. Init => BalanceOnReceipt
  BY DEF Init, BalanceOnReceipt
<1>2. Faults = {} /\ IInv /\ CountInv /\ BalanceOnReceipt /\ [Next]_vars => BalanceOnReceipt'
  BY BalanceStep
<1>3. Faults = {} /\ [Next]_vars => (Faults = {})'
  BY StepKinds
<1>4. BillNoIsTransNo /\ BalanceOnReceipt => ReceiptAgrees
  BY DEF BillNoIsTransNo, BalanceOnReceipt, ReceiptAgrees
<1> QED BY <1>1, <1>2, <1>3, <1>4, NumbersAgree, RowsAreCounted, Invariance, PTL DEF Spec
=============================================================================
