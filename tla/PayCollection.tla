---------------------------- MODULE PayCollection ----------------------------
(***************************************************************************)
(* Pay collection: a user picks a customer, types what was paid and what   *)
(* to add or take off, and the program inserts a transaction, offers to    *)
(* print it and updates the customer's balance.  Code: src/src/main.cpp,   *)
(* with the statements it runs in src/src/POSDS.cpp.                       *)
(*                                                                         *)
(* As in PosBilling, a step is the code between two points where the       *)
(* program waits for a key or runs a SQL statement, and `pc' names the     *)
(* point.  The insert and the update are two statements, each committed by *)
(* itself, with a wait for a key in between.                               *)
(*                                                                         *)
(* Amounts are in hundredths, the digits "%0.2f" keeps.                    *)
(***************************************************************************)
EXTENDS Integers, Sequences, FiniteSets, FiniteSetsExt, SequencesExt

CONSTANTS
    Customers,      \* Cust_ID of every row of pay_coll_cust
    ListLimit,      \* how many of them PayCollection reads
    Users,          \* User_ID of every row of pay_coll_user
    Opening,        \* the balances the terminal is delivered with
    Delivered,      \* the transactions it is delivered with
    Entered,        \* the amounts a user can type
    MaxTrans,       \* bound: no collection starts with this many transactions
    MaxBalance,     \* bound: nor with a balance above this one
    FaultSets,      \* sets of "read", "write" and "power": what can go wrong together
    None            \* an empty string: nobody, nothing, no number

TransNos == Nat \ {0}

\* A row of pay_coll_trans.
Transactions ==
    [ Trans_No : TransNos, Cust_ID : Customers, User_ID : Users,
      Grs_Amt : Nat, Add_Less : Int, Net_Amt : Int ]

Increasing(rows) ==
    \A i, j \in DOMAIN rows : i < j => rows[i].Trans_No < rows[j].Trans_No

ASSUME IdsAssumption       == Customers \cup Users \subseteq Nat /\ ListLimit \in Nat
ASSUME OpeningAssumption   == Opening \in [Customers -> Int]
ASSUME DeliveredAssumption == Delivered \in Seq(Transactions) /\ Increasing(Delivered)
ASSUME EnteredAssumption   == Entered \subseteq Nat
ASSUME BoundsAssumption    == MaxTrans \in Nat /\ MaxBalance \in Nat
ASSUME FaultsAssumption    == FaultSets \subseteq SUBSET {"read", "write", "power"}
ASSUME NoneAssumption      == None \notin Int
                              /\ None \notin Transactions

\* customerBalance is an array of 10, and a float keeps hundredths below 2^24:
\* "-99999.99" meets both.
ASSUME BalanceFits == \A a, b \in Entered : MaxBalance + a + b < 10000000

-----------------------------------------------------------------------------
VARIABLES
    cust,               \* table pay_coll_cust: Cust_ID -> Cur_Amt
    trans,              \* table pay_coll_trans, in the order of Trans_No
    gUserId,            \* who is logged in
    gTransId,           \* the number shown and printed
    gCustomerId,        \* the customer picked
    gCustomerBalance,   \* his balance when the list was read
    allCustomers,       \* the list that was read
    principleAmt,
    addLess,
    pc,                 \* where the program waits or which statement it runs next
    receipt,            \* history: the last receipt handed out
    unbooked,           \* history: who paid in a collection whose insert failed
    Faults              \* what can go wrong in this behaviour; it never changes

tables  == <<cust, trans>>
globals == <<gUserId, gTransId, gCustomerId, gCustomerBalance>>
locals  == <<allCustomers, principleAmt, addLess>>
history == <<receipt, unbooked>>
vars    == <<tables, globals, locals, pc, history, Faults>>

-----------------------------------------------------------------------------
(* Amounts and numbers *)

\* Mutant: the balance is read in tens of units.
AtoiTens(x) == 1000 * (x \div 1000)

\* atoi on a balance: the fraction is dropped, towards zero.
Atoi(x) == IF x >= 0 THEN 100 * (x \div 100) ELSE -100 * ((-x) \div 100)

netAmt == principleAmt + addLess

\* Mutant: what is added or taken off does not reach the balance.
GrossBalance == Atoi(gCustomerBalance) + principleAmt

NewBalance == Atoi(gCustomerBalance) + netAmt

\* The first ListLimit customers in the order of their ids.
Listed == {c \in Customers : Cardinality({d \in Customers : d < c}) < ListLimit}

\* INTEGER PRIMARY KEY AUTOINCREMENT; no row of this table is ever deleted.
NextTransNo == IF trans = <<>> THEN 1 ELSE trans[Len(trans)].Trans_No + 1

NumbersOf(u) == {trans[i].Trans_No : i \in {j \in DOMAIN trans : trans[j].User_ID = u}}

\* select MAX(Trans_No)+1 as Next_ID from pay_coll_trans where User_ID=?
\* (empty for a user with no transaction).
NextIDs(u) == {m + 1 : m \in {n \in NumbersOf(u) : \A k \in NumbersOf(u) : k <= n}}

Transaction ==
    [ Trans_No |-> NextTransNo, Cust_ID |-> gCustomerId, User_ID |-> gUserId,
      Grs_Amt |-> principleAmt, Add_Less |-> addLess, Net_Amt |-> netAmt ]

\* What insertAndPrint prints, and which row it prints it for.
Receipt ==
    [ Bill_No |-> gTransId, Customer |-> gCustomerId, Username |-> gUserId,
      Gross |-> principleAmt, Add_Less |-> addLess, Cash |-> netAmt,
      Balance |-> NewBalance, row |-> Len(trans) ]

Receipts ==
    [ Bill_No : Nat, Customer : Customers, Username : Users,
      Gross : Nat, Add_Less : Int, Cash : Int, Balance : Int, row : Nat ]

-----------------------------------------------------------------------------
ClearLocals ==
    /\ allCustomers' = None
    /\ principleAmt' = 0
    /\ addLess' = 0

\* PayCollection returns to the Billing menu.
Return == pc' = "main" /\ ClearLocals

Init ==
    /\ cust = Opening
    /\ trans = Delivered
    /\ gUserId = None
    /\ gTransId = None
    /\ gCustomerId = None
    /\ gCustomerBalance = None
    /\ allCustomers = None
    /\ principleAmt = 0
    /\ addLess = 0
    /\ pc = "login"
    /\ receipt = None
    /\ unbooked = {}
    /\ Faults \in FaultSets

\* Login with a name and password that match, and on to the Billing menu.
Login ==
    /\ pc = "login"
    /\ gUserId' \in Users
    /\ pc' = "main"
    /\ UNCHANGED <<tables, gTransId, gCustomerId, gCustomerBalance, locals, history>>

-----------------------------------------------------------------------------
(* PayCollection *)

WithinBounds ==
    /\ Len(trans) < MaxTrans
    /\ \A c \in Customers : -MaxBalance <= cust[c] /\ cust[c] <= MaxBalance

\* Mutant: an empty number is not noticed.
OpenUnnumbered ==
    /\ pc = "main"
    /\ WithinBounds
    /\ gTransId' \in IF NextIDs(gUserId) = {} THEN {None} ELSE NextIDs(gUserId)
    /\ allCustomers' = [c \in Listed |-> cust[c]]
    /\ pc' = "customers"
    /\ UNCHANGED <<tables, gUserId, gCustomerId, gCustomerBalance, principleAmt, addLess, history>>

\* The number, then the list of customers.
OpenCollection ==
    /\ pc = "main"
    /\ WithinBounds
    /\ gTransId' \in NextIDs(gUserId)
    /\ allCustomers' = [c \in Listed |-> cust[c]]
    /\ pc' = "customers"
    /\ UNCHANGED <<tables, gUserId, gCustomerId, gCustomerBalance, principleAmt, addLess, history>>

\* The number is read, the list cannot be.
OpenFails ==
    /\ "read" \in Faults
    /\ pc = "main"
    /\ gTransId' \in NextIDs(gUserId)
    /\ UNCHANGED <<tables, gUserId, gCustomerId, gCustomerBalance, locals, pc, history>>

\* Mutant: the balance is taken from the list only the first time.
PickCustomerOnce ==
    /\ pc = "customers"
    /\ gCustomerId' \in Listed
    /\ gCustomerBalance' = IF gCustomerBalance = None THEN allCustomers[gCustomerId']
                           ELSE gCustomerBalance
    /\ pc' = "gross"
    /\ UNCHANGED <<tables, gUserId, gTransId, locals, history>>

\* ENTER on a customer.
PickCustomer ==
    /\ pc = "customers"
    /\ gCustomerId' \in Listed
    /\ gCustomerBalance' = allCustomers[gCustomerId']
    /\ pc' = "gross"
    /\ UNCHANGED <<tables, gUserId, gTransId, locals, history>>

\* CANCEL or F6 in the list.
LeaveCustomers ==
    /\ pc = "customers"
    /\ Return
    /\ UNCHANGED <<tables, globals, history>>

\* display_customer_details with an amount typed in.
EnterGross ==
    /\ pc = "gross"
    /\ principleAmt' \in Entered
    /\ pc' = "addless"
    /\ UNCHANGED <<tables, globals, allCustomers, addLess, history>>

\* add_less: F2 or F3.
ChooseAddLess ==
    /\ pc = "addless"
    /\ pc' \in {"add", "less"}
    /\ UNCHANGED <<tables, globals, locals, history>>

\* add_less: ENTER.
SkipAddLess ==
    /\ pc = "addless"
    /\ addLess' = 0
    /\ pc' = "insert"
    /\ UNCHANGED <<tables, globals, allCustomers, principleAmt, history>>

\* add_less: any other key.
LeaveAddLess ==
    /\ pc = "addless"
    /\ Return
    /\ UNCHANGED <<tables, globals, history>>

\* add_less with an amount typed in.
EnterAddLess ==
    /\ pc \in {"add", "less"}
    /\ \E a \in Entered : addLess' = IF pc = "add" THEN a ELSE -a
    /\ pc' = "insert"
    /\ UNCHANGED <<tables, globals, allCustomers, principleAmt, history>>

\* No amount typed in: "Enter correct Amt", until a key.
EnterWrong ==
    /\ pc \in {"gross", "add", "less"}
    /\ pc' = "wrong"
    /\ UNCHANGED <<tables, globals, locals, history>>

DismissWrong ==
    /\ pc = "wrong"
    /\ Return
    /\ UNCHANGED <<tables, globals, history>>

-----------------------------------------------------------------------------
(* updateCustomerBalance and insertAndPrint *)

InsertIntoTable ==
    /\ pc = "insert"
    /\ trans' = Append(trans, Transaction)
    /\ pc' = "confirm"
    /\ UNCHANGED <<cust, globals, locals, history>>

\* Mutant: a failed insert is not noticed.
InsertFailsUnnoticed ==
    /\ "write" \in Faults
    /\ pc = "insert"
    /\ unbooked' = unbooked \cup {gCustomerId}
    /\ pc' = "confirm"
    /\ UNCHANGED <<tables, globals, locals, receipt>>

\* A failed insert is logged; the balance is updated all the same.
InsertFails ==
    /\ "write" \in Faults
    /\ pc = "insert"
    /\ unbooked' = unbooked \cup {gCustomerId}
    /\ pc' = "update"
    /\ UNCHANGED <<tables, globals, locals, receipt>>

\* ENTER, with paper.
PrintReceipt ==
    /\ pc = "confirm"
    /\ receipt' = Receipt
    /\ pc' = "update"
    /\ UNCHANGED <<tables, globals, locals, unbooked>>

\* Mutant: without a receipt the function ends here.
LeaveUnprinted ==
    /\ pc = "confirm"
    /\ Return
    /\ UNCHANGED <<tables, globals, history>>

\* Any other key.
SkipPrint ==
    /\ pc = "confirm"
    /\ pc' = "update"
    /\ UNCHANGED <<tables, globals, locals, history>>

\* ENTER, without paper.
NoPaper ==
    /\ pc = "confirm"
    /\ pc' = "noPaper"
    /\ UNCHANGED <<tables, globals, locals, history>>

DismissNoPaper ==
    /\ pc = "noPaper"
    /\ pc' = "update"
    /\ UNCHANGED <<tables, globals, locals, history>>

UpdateCustomerBalance ==
    /\ pc = "update"
    /\ cust' = [cust EXCEPT ![gCustomerId] = NewBalance]
    /\ Return
    /\ UNCHANGED <<trans, globals, history>>

UpdateFails ==
    /\ "write" \in Faults
    /\ pc = "update"
    /\ Return
    /\ UNCHANGED <<tables, globals, history>>

\* The terminal is switched off in a menu or, where power fails, anywhere.
SwitchOff ==
    /\ "power" \in Faults \/ pc \in {"login", "main"}
    /\ pc' = "login"
    /\ gUserId' = None
    /\ gTransId' = None
    /\ gCustomerId' = None
    /\ gCustomerBalance' = None
    /\ ClearLocals
    /\ UNCHANGED <<tables, history>>

-----------------------------------------------------------------------------
\* The answers to the question whether to print.
Answer == (PrintReceipt \/ SkipPrint \/ NoPaper \/ DismissNoPaper) /\ UNCHANGED Faults

User ==
    /\ \/ Login \/ OpenCollection \/ OpenFails \/ PickCustomer \/ LeaveCustomers
       \/ EnterGross \/ ChooseAddLess \/ SkipAddLess \/ LeaveAddLess \/ EnterAddLess
       \/ EnterWrong \/ DismissWrong
    /\ UNCHANGED Faults

\* What the program does by itself, without waiting for a key.
Program ==
    (InsertIntoTable \/ InsertFails \/ UpdateCustomerBalance \/ UpdateFails) /\ UNCHANGED Faults

Next == User \/ Answer \/ Program \/ (SwitchOff /\ UNCHANGED Faults)

Spec == Init /\ [][Next]_vars
-----------------------------------------------------------------------------
(* Properties *)

\* Between the insert and the update: the transaction is there, the balance
\* is not.
Owing   == pc \in {"confirm", "noPaper", "update"}
Picked  == pc \in {"gross", "addless", "add", "less", "wrong", "insert"} \/ Owing

\* The type of every variable.
TypeOK ==
    /\ cust \in [Customers -> Int]
    /\ trans \in Seq(Transactions)
    /\ gUserId \in Users \cup {None}
    /\ gTransId \in Nat \cup {None}
    /\ gCustomerId \in Customers \cup {None}
    /\ gCustomerBalance \in Int \cup {None}
    /\ allCustomers \in [Listed -> Int] \cup {None}
    /\ principleAmt \in Nat
    /\ addLess \in Int
    /\ pc \in {"login", "main", "customers", "gross", "addless", "add", "less", "wrong",
               "insert", "confirm", "noPaper", "update"}
    /\ receipt \in Receipts \cup {None}
    /\ unbooked \subseteq Customers

\* The rows inserted since the terminal was delivered.
NewRows == (Len(Delivered) + 1)..Len(trans)

\* The balance of customer c, before the first of these rows and after each:
\* the rows in S count, each added to the balance left by the one before.
Posted(rows, c, S) ==
    LET after[n \in 0..Len(rows)] ==
            IF n = 0 THEN Opening[c]
            ELSE IF n \in S /\ rows[n].Cust_ID = c
                 THEN Atoi(after[n - 1]) + rows[n].Net_Amt
                 ELSE after[n - 1]
    IN  after

\* The balance of customer c after the collections of the rows in S.
After(c, S) == Posted(trans, c, S)[Len(trans)]

\* The balance a collection starts from is the one in the table, although it
\* was read three screens before, for a list, and is kept in a global that
\* outlives the collection.
BalanceIsFresh == Picked => gCustomerBalance = cust[gCustomerId]

\* A balance is written only for the customer picked, and from the value the
\* table holds at that moment: no collection undoes or repeats another.
BalanceMoves ==
    [][ \A c \in Customers :
            cust'[c] # cust[c] => c = gCustomerId /\ cust'[c] = Atoi(cust[c]) + netAmt
      ]_vars

\* A receipt is only handed out for a transaction that is in the table, with
\* the same customer, user and amounts, whatever fails before or after.
ReceiptHasRow ==
    receipt # None =>
        /\ receipt.row \in DOMAIN trans
        /\ LET t == trans[receipt.row]
           IN  /\ receipt.Customer = t.Cust_ID /\ receipt.Username = t.User_ID
               /\ receipt.Gross = t.Grs_Amt
               /\ receipt.Add_Less = t.Add_Less
               /\ receipt.Cash = t.Net_Amt

\* A collection whose row is in the table counts once or not at all, wherever
\* the power is cut and whichever update fails: the balance comes from some of
\* the customer's transactions, none twice and none of another's.  Only where
\* an insert failed did a balance move without a row.
BalanceFromRows ==
    \A c \in Customers \ unbooked : \E S \in SUBSET NewRows : cust[c] = After(c, S)

\* When nothing fails, every balance comes from all of the customer's
\* transactions, except the one the program is still asking about.
BalanceAgrees ==
    \A c \in Customers :
        \/ Owing /\ c = gCustomerId
        \/ cust[c] = After(c, NewRows)

\* When nothing fails and one user collects, the number and the balance on a
\* receipt, both computed before the insert, are those of its transaction.
ReceiptAgrees ==
    receipt # None =>
        /\ receipt.Bill_No = trans[receipt.row].Trans_No
        /\ receipt.Balance = After(receipt.Customer, NewRows \cap 1..receipt.row)

\* "Bill No" on a receipt is the Next_ID computed for the user: the number of
\* the transaction it is printed for.
BillNoIsTransNo == receipt # None => receipt.Bill_No = trans[receipt.row].Trans_No

\* "User name %s is not available" is not said of the user who is logged in:
\* at the menu there is a number for him.
UserIsAvailable == pc = "main" => NextIDs(gUserId) # {}

-----------------------------------------------------------------------------
(* The inductive invariant *)

LoggedIn == pc # "login" => gUserId \in Users

\* The list shows the balances of the table.
ListIsFresh == pc = "customers" => allCustomers = [c \in Listed |-> cust[c]]

PickedOK == Picked => gCustomerId \in Listed

\* The question whether to print is about the last row.
ConfirmOK ==
    pc = "confirm" =>
        /\ trans # <<>>
        /\ LET t == trans[Len(trans)]
           IN  /\ gCustomerId = t.Cust_ID /\ gUserId = t.User_ID
               /\ gTransId \in Nat
               /\ principleAmt = t.Grs_Amt /\ addLess = t.Add_Less /\ netAmt = t.Net_Amt

\* Numbers of transactions increase, across users.
NumbersIncrease == Increasing(trans)

NumberOK == pc \in {"customers", "gross", "addless", "add", "less", "wrong", "insert"} => gTransId \in Nat

IInv ==
    /\ TypeOK
    /\ LoggedIn
    /\ ListIsFresh
    /\ PickedOK
    /\ NumberOK
    /\ ConfirmOK
    /\ BalanceIsFresh
    /\ ReceiptHasRow
    /\ NumbersIncrease

-----------------------------------------------------------------------------
(* Collections as one step each *)

\* The balances once the collection under way is finished.
Balances == IF Owing THEN [cust EXCEPT ![gCustomerId] = NewBalance] ELSE cust

Ledger == INSTANCE CollectionLedger WITH
    Entries      <- Transactions,
    FirstEntries <- Delivered,
    FirstBalance <- Opening,
    entries      <- trans,
    balance      <- Balances

\* When nothing fails, the two tables behave as a ledger: see CollectionLedger.
ImplementsLedger == Ledger!LedgerSpec
=============================================================================
