# Verification of Klok_POS

Klok_POS is the firmware of a hand-held terminal that bills shop sales and
collects payments from customers. It is one C++ program with one thread: it
draws a screen, waits for a key (`lk_getkey`, `lk_getnumeric`), runs SQL
statements against `/mnt/jffs2/PayCollect.db` and writes to a thermal printer.
Nothing runs concurrently inside it. What makes it hard is what happens
*between* two of its steps: the power can be cut while it waits or between two
statements (each statement commits by itself, the code opens no transaction), a
statement or a shell command can fail, the paper can run out, a USB stick can be
pulled, and results read at one key press are used at a later one.

## Inventory

| Component | Code | State | Operations | What makes it correct | Modules |
|---|---|---|---|---|---|
| Spot billing | `main.cpp` 58-84, 539-1110; `POSDS.cpp` 741-1204 | cart `gBillData`, `gBillAmt`, the summary's locals; tables `pos_bill_header`, `pos_bill_item` | fill the cart by code, list, search; edit; discount; save header, read back its id, save items; print | header, items and receipt tell the same sale; nothing saved before is disturbed; a new number is new | `PosBilling`, `BillBook` |
| Bill administration | `main.cpp` 2514-2575 | the same tables, `sqlite_sequence` | Clear Bill (three deletions), Delete Bill (mark) | no orphaned item; a cancelled bill stays cancelled; reused ids start empty | `PosBilling`; short dates in `Terminal` |
| Pay collection | `main.cpp` 205-522; `POSDS.cpp` 18-380 | `pay_coll_cust`, `pay_coll_trans`, `gTransId`, `gCustomerBalance` | number, customer, amount, add/less, insert, print, update balance | balance and transactions agree; printed number is the row's | `PayCollection`, `CollectionLedger` |
| POS reports | `main.cpp` 1740-2202 | none (reads the tables) | daily, total, stock, cancelled bills | the reports reconcile; cancelled bills are treated as each report says; a past day is final | `PosReports`; printing in `CollectionReport` |
| Collection reports, printing | `main.cpp` 1112-1738; `printer` in `Visiontek.cpp` | the printer's device | by date, month, year, customer; the paper loop | all rows of the period are counted; the paper loop resumes the same report; only what the driver refuses is lost | `CollectionReport` |
| Menus and pagers | `PosDataStructures.hpp` 246-430; `scroll_menu.c` | selection, page, what is lit | up, down, page, enter, cancel, F6 | the highlighted line is the one returned; nothing is left out | `Picker`, `Screen`, `ScrollMenu`, `SubRangeMenu`, `Menus` |
| Session | `main.cpp` 2699-2922 | `gUserId`, `gUserName` | login, menus, administrator check | only an account of the table is logged in | `Terminal` |
| USB copy | `main.cpp` 2266-2510, 2577-2697 | mount table, database file, `POS.cfg` | mount, copy, unmount | what is reported as copied is on its target; nothing stays mounted | `UsbCopy`, `Terminal` |
| Configuration file | `Config.cpp`; `appendToIfFound` | key/value map | parse, compose a heading | each key has its last value | `ConfigFile`, `Terminal` |
| Display, printer wrappers | `Visiontek.cpp` | a buffer | copy and call the driver | none beyond the driver's | `WriteText` in `CollectionReport` |
| Data access: table creation, unused queries | `POSDS.cpp` | | `CreateTable`, queries nobody calls | | not modelled |
| SQLiteCpp, SQLite, drivers, fonts | `lib/` | | vendored | | external |

**Interactions.** Everything is a call. The tables are shared by billing,
administration and reports; the cart by the product screens and the summary; the
printer by billing, collection and both kinds of reports; the display by all
menus and lists; the database and configuration files by everything and by
Import and UploadConfig, which replace them under the running program. The
driver's key functions are the only points where the user acts.

## Modules

### PosBilling — spot billing and bill administration

One step is the code between two points where the outside world can intervene:
a key the program waits for, or one SQL statement. `pc` names the point.

* **Tables.** `bill` is `pos_bill_header` (id to row), `item` is
  `pos_bill_item` in insertion order, `seq` the `sqlite_sequence` entry. Ids come
  from AUTOINCREMENT: above every id in the table and above `seq`. Statements that can fail
  have a failing twin (`InsertHeaderFails`, `InsertItemFails`, ...), enabled when
  `Faults` allows it.
* **Cart.** `gBillData` maps each product to a quantity or `Absent`; the rate in
  a cart entry is the parsed `sales_rate`, which nothing changes while a cart
  exists, so it is the constant `Rate`. Quantity 0 on a product not yet in the
  cart inserts a line of 0 (`addItemToBill`), on one already there it removes the line.
* **Summary.** `ShowSummary` is one turn of the loop of `display_bill_summary`:
  total, `productDisplayList`, menu. A product whose read fails is left out of
  the list but stays in the cart and the total. The uninitialised
  `lastSpecialKey` is the variable `fresh`: with nothing to list on the first
  turn, the menu may or may not look like F6 (`ProceedToBill`, `LeaveSummary`).
* **Saving.** `InsertHeader`, `GetLastBillID`, one `InsertItem` per product in the
  order of the map, the paper check, `PrintBill`. Every early return is an action
  or a disjunct; all of them keep the cart, except after printing. When
  the paper is out the sale is already saved and the cart is kept.
* **Amounts** are whole currency units. `Tostr` is the conversion the code does
  (`ostringstream` with six significant digits, half to even), so large amounts
  are rounded, each on its own. Floats are exact on integers up to 2^24; the
  assumption `FloatExact` says that carts stay below.
* **Power.** `PowerCut` keeps the tables and loses everything else.
* `receipt` is a history variable: one receipt, any one, handed out since the bills were last cleared.

Menus that only lead elsewhere are one action each (`OpenBilling`, `OpenPos`,
`ChooseScreen`, `LeaveMenu`). Reports, pay collection and USB copies are
separate components and do not appear. Import replaces the tables wholesale and
is left to `UsbCopy`; the model starts from empty tables.

### BillBook — what the tables promise

An abstract book of numbered bills. A bill is open while it is written, then
live, or torn if its writing was interrupted; it can be cancelled for good; its
net amount never changes; numbers grow until the whole book is discarded. The
mapping is at the end of `PosBilling`: a bill is torn when its rows are fewer
than its `Unique_Items`. `ImplementsBillBook` checks it with the fairness of the
book; `PosBilling_book` proves its safety part.

### PayCollection — from the customer list to the balance

A step is the code between two keys or statements, as in `PosBilling`.

* **Tables.** `cust` is `pay_coll_cust` (id to `Cur_Amt`), `trans` is
  `pay_coll_trans` in the order of `Trans_No`, which AUTOINCREMENT hands out over
  all users. `Delivered` is what the terminal is shipped with: in the repository's
  `PayCollect.db` user 101011 has a transaction and 101010 has none.
* **Number.** `OpenCollection` takes the next number from `NextIDs`: one above the
  user's own largest, or nothing for a user without transactions, who is refused.
* **Customer.** The list is read once (`allCustomers`, at most `ListLimit`
  rows, ten in the code); the balance of the one picked is copied into the global `gCustomerBalance`.
* **Amounts** are integers in hundredths, what `%0.2f` keeps. `Atoi` drops the
  fraction of the balance before the net amount is added; the amounts typed keep
  theirs. `BalanceFits` is the range in which `customerBalance[10]` and a float hold every hundredth.
* **Statements.** `InsertIntoTable`, then a key (`Answer`: print, no
  paper, or not), then `UpdateCustomerBalance`. A failed insert is logged and the
  balance updated all the same (`InsertFails`): such a balance moves without a
  row, and the history variable `unbooked` has the customers it happened to.
* **Power.** `SwitchOff` is always possible in the menus, and anywhere when
  `Faults` has `"power"`. Login and logout by power switch are how users change.
* **Faults** is a variable that never changes, chosen from `FaultSets` at the
  start, so that one run covers several kinds of failure.
* `receipt` is the last receipt handed out, with the index of the row inserted for it.

### CollectionLedger — what collection promises

A ledger in which a collection is one step: an entry with a new number is added
at the end and the balance of its customer moves by its net amount, give or
take the fraction of a unit that `atoi` drops. The mapping (`Balances`) counts a
row's amount from the moment it is inserted. It holds when nothing fails.

### PosReports — the reports on bills

`EXTENDS PosBilling` and adds the calendar: `today`, and the `Date_Time` of each
header, written with the header (`Bill`, any step of `PosBilling`). A report
changes no table, so what it says is an operator (`DayReport`, `TotalReport`,
`StockReport`, `CancelledBillReport`), evaluated where it can be asked for
(`Asked`: the main menu). `DateLimit`, `DayLimit` and `BillLimit` are the row
limits that the code passes to each query. The three treatments of a cancelled
bill are the code's: day and total report count it, the stock report does not,
the cancelled bill report lists only it. How a report is printed is in
`CollectionReport`.

### CollectionReport — the reports on collections, and printing

The four functions that print (date, month, year, customer) differ in their
query and title, and are one set of actions with `kind`. A step is the code
between two calls of the printer's driver, or up to a key. Receipts and the
reports on bills use the same device and the same paper, so the module has them
too, as texts without their contents. `Paper` is the outside: paper runs out
or is loaded at any point.

* The driver may fail at every call, as `printer.h` says: `prn_open` (`OpenPrinter`),
  `prn_write_text` (`Send`, with paper or without: the battery, the temperature, an error),
  `prn_paperstatus` (`CheckPaper`, `CheckOnce`; of a device that is not open it may
  answer anything, `PaperSeen`) and `prn_close` (`Feed`). The program looks at
  none of these answers but the paper's. A text that is printed in part counts as refused.
* `printer::WriteText` has no return statement, so whether its caller sees "no
  paper" is a free choice after every write (`Returned`).
* `CheckPaper` is the condition of the paper loop, `Retry`, `OtherKey` and
  `Cancel` its keys. `Retry` prints `buff1`: the title and the total again, but
  for a row an empty buffer. `Cancel` returns without closing the printer.
* What is printed without a loop has a kind in `Fixed`, `"bills"` or `"receipt"`:
  the question (`AskToPrint`; `OpenFixed` is its ENTER, or the start of what
  does not ask), one look for paper (`CheckOnce`), six or seven texts
  (`WriteText`, `Texts`), or `GiveUp`, which leaves the device open as
  `Cancel` does. What is in the texts is `PosReports`, `PosBilling` and `PayCollection`.
* Amounts are whole currency units, which a float adds up exactly (`FloatExact`).
  With fractions, TOTAL can be off by the rounding of the sum.
* Dates are sequences of their pieces and `LIKE ? || '%'` is `IsPrefix` on them;
  a date or customer that the list query's pattern does not match is empty.
* `strip`, `refused` and `asked` are history variables: what has been printed of
  this report, what the driver refused of it, and whether the user was asked for paper.

### Menus — the menus and lists on the display

* `Screen` is the display: six lines with an item or nothing, and the set of lit
  lines. `lk_disphlight` toggles a line, which `scroll_menu` relies on.
* `ScrollMenu` is `scroll_menu`. Only its label `begin` redraws the screen
  (`Begin`); a key otherwise changes single lines, and `cnt` and `lastitem` must
  stay in step with `sel` for the highlight to be where it should.
* `SubRangeMenu` is `display_sub_range` and `display_sub_range_with_title`, which
  draw the whole page at every key; they differ in the line of the title and in
  what F6 answers.
* `Menus` puts them on one display: a caller shows a menu, then a list, then the
  menu again, each with whatever the other left behind.
* `Picker` is the abstract specification: some item is marked, the user moves
  the mark, and the answer is the item that was marked or nothing. `Menus`
  implements it twice; `marked` is mapped to what the highlighted line of the
  *display* shows, not to the selection variable.

`acceptKbdEvents` is never set by a caller and is left out.

### ConfigFile, UsbCopy, Terminal — sessions, copies and the files they replace

* `ConfigFile` reads `POS.cfg` line by line (`ParseFromFile`) and puts the values
  found at the head of a bill, key by key (`Heading`). `HeadingOf` says the same
  without a loop: the n-th value is that of the n-th key that is given one.
* `UsbCopy` is Export, Import and UploadConfig. A step is one shell command, or
  the code up to a key: read `/etc/mtab` and ask (`Ask`), mount with one device
  name after another (`Mount`, `MountFails`; Import also tries `sda2`), a key, `cp`
  in two steps (`StartCopy` empties the target, `Copied` or `CopyFails`
  ends it), `umount`. The outside is `Environment`: sticks are inserted and pulled
  at any moment, a mounted stick that is pulled stays in the mount table, and the
  kernel writes cached data back when it likes (`cache`, `WriteBack`).
* A database is what the rest of the program can tell of it: its accounts, how
  often it was changed, whether a bill that is not cancelled has a short
  `Date_Time`, and whether it has the table of items; or it is `Torn`, or `Missing`. A configuration cut short is one of
  its beginnings.
* `Terminal` adds the session around the copies: login, main menu, administrator
  check, and the changes that billing, collection and the administration make to
  the database, each one step (`Save`, `ClearBill`, `DeleteBill`), since their
  own statements are modelled in their own modules. `SwitchOff` is a power cut at any point.
* Two exceptions that nobody catches end the program: `DeleteBillThrows`, when
  `substr(5)` meets a short date, and `TotalSoldThrows`, when `GetTotalSold` prepares its
  statement, outside its `try`, on a database without the table of items. For the tables
  this is a power cut at a screen. The overflow of `customerBalance[10]` is
  undefined and left to `BalanceFits`.
* `imported`, and `pulled` and `refused` of `UsbCopy`, are history variables.

### Definitions named as mutants

Definitions whose comment begins with "Mutant" are not part of the model. Each is a plausible bug in the
definition that follows it; replacing that definition by it must make TLC find
the named property violated, which shows the property is about the code.

## Runs

`MCPosBilling` gives the constants of billing: two products, with rates that bring
totals past six digits and a rounding tie among them, and in `billing_clean` and
`billing_label` a third one with a `sales_rate` that does not parse. `MCPosReports`
keeps amounts within the six digits that `tostr` keeps.

| Run | Faults | What it shows |
|---|---|---|
| `billing_faults` | writes, power | at every statement the two tables agree with each other, with the receipts handed out and with what was saved before; while every bill has its rows, total report less cancelled bill report is what the stock report says was sold, with the discounts; always, the reports show no more goods sold than money taken |
| `billing_clean` | paper only | header amounts match the rows to the digits kept, no bill misses a row, the shown total is right for a cart that is not empty |
| `billing_book` | reads, writes, power | the tables implement `BillBook`; a save or clear always comes back to a screen |
| `billing_label` | paper only | violated: `Total Amt` shows the old total after the last line is removed |
| `reports_days` | paper only | day reports add up to the total report, the latest dates are on offer, a past day's report does not change |
| `collect_faults` | reads, power, with and without writes | receipts have their rows, balances move from their value at that moment; a transaction reaches its balance once or not at all, whichever write fails, and only a failed insert lets a balance move without a row |
| `collect_clean` | paper only | balances, rows and receipts agree; the tables implement `CollectionLedger`, `atoi` costing less than a unit per collection |
| `collect_number` | paper only | violated: with two users `Bill No` is not the number of the row |
| `collect_user` | paper only | violated: a user without transactions is told he is not available |
| `collection_report` | paper at any point, driver at any call | order and total of the printed strip; it lacks only what the driver refused, and has nothing twice but a title or total after the user was asked for paper; the periods add up; a report ends or asks for paper |
| `menus` | none | exactly one line is lit and it shows what ENTER takes; a page misses nothing; both menus implement `Picker` |
| `terminal` | sticks pulled, commands failing, power | a copy reported as done is on its target; nothing stays mounted unless umount was refused; only an Import can take the database away or bring on an exception that ends the program; headings are what the configuration says |

Deadlock is checked in every run: the user always has a key to press.

**Bounds of billing and its reports.** Two ids (`MaxBillId`): one bill saved before,
one being saved, and the failing insert when ids run out. Two is enough for an item to
reach the wrong bill, for an id to be reused after a clear, for an order between bills
to be wrong, for one bill to be cancelled and one not. Two priced products: one item
saved and one not. Quantities 0 and one other: removing and setting a line;
`billing_book` has only 0, since the status of a bill does not depend on quantities.
Adjustments 0, and -1 where amounts matter. `reports_days`: one product, three bills and
three days, of which two are offered: a bill per day and a day that drops off the list.

**Bounds of collection.** `MaxTrans` 4: at least two collections after the
delivered rows, so that one starts from the balance another left, of the same or
of another customer or user. Amounts 0 and 12.50: nothing and a fraction that
`atoi` drops the next time. `MaxBalance` only keeps `BalanceFits` true. Three
customers, of whom two are listed (one with a fraction, one with a balance below zero), and two users.

**Bounds of printing.** Every table of up to three rows of four kinds (two years,
months, days and customers, and a row without a date, as the delivered database
has), limits of two, so that a limit is reached and one row may be beyond it;
`MaxStrip` 5 allows every part of the longest report once and the title or total again.

**Bounds of the menus.** Menus of 2, 3, 5 and 7 entries: fewer than the lines, as
many, and more (Reports has seven). Lists of none to three pages of 4 or 5 rows,
with full and partial last pages. Nothing else is bounded.

**Bounds of the terminal.** Two sticks, one with its file system on its second
partition; one change of the database (`MaxChanges`), enough to tell a copy
from its source; two configurations, with a key given twice, a blank value, a
line without an equals sign and an empty line, and all their beginnings.

**Fairness.** `WF_vars(Program)` in `PosBilling` and `CollectionReport`: between
two statements or driver calls the program waits for nobody, and has no loop but the
ones modelled. No user action is fair: no key wait has a timeout, and the user may
leave any screen open forever. A power cut or a failure may end a save, which then
counts as torn; neither paper nor the driver is fair, so a report that finds no
paper may wait forever, but does not print forever. `PayCollection`, `Menus` and
`Terminal` state no fairness: between an insert and its balance there is a key,
and every step of the other two waits for a key or for a command that may hang with its
stick. Nothing in the code bounds either.

## Proofs

Each theorem holds for every value of the constants, from the named assumptions on
them, unless it says otherwise.

**Sums and loops.** The induction theorems of the library take a predicate, which
the provers cannot instantiate. `SumTheorems` derives them again with a set in
place of the predicate (`InductionOnNat`, `InductionOnSets`), from the
well-foundedness of `<` and of inclusion. From these it proves what the recursive definition
of `SumFunction` is a solution of (`SumEquation`), and the laws the proofs about
amounts use: adding, removing, comparing, renaming, grouping by a key
(`SumByGroup`) and exchanging sums with plus and times. The loops of the model
are recursive functions (`Posted`, `ParseFromFile`, `Heading`): each proof first
shows that the table of the loop exists, then what it holds at each turn.

`PosBilling_proofs` and `PosBilling_book`:

* `Invariance`: `IInv` is inductive. `ItemsHaveHeader` and `NoProductTwice` are
  not inductive alone. An item goes to `newBillId`, so that id must be a row
  (`SavingOK`); no product may be inserted twice, so the rows already there are
  of products not in `todo`, which at the start holds because the last header has no
  row yet, which holds because a fresh id has none: AUTOINCREMENT covers the ids
  (`SeqCovers`) and every row has its header. Clear Bill is safe because items
  are gone before headers (`ClearingOK`).
* `NewBillIsFresh`, `SavedIsSaved`: action properties from the same invariant.
* `RowsWithinCount`, `BillsAreWhole`: rows saved plus products to do equal what
  the header counts (`CountOK`), by cardinality of finite sets. The second is
  for `Faults = {}`; only the bill being saved misses rows (`Whole`).
* `ReceiptsStand`, for all faults: a receipt is composed from the summary's list and the
  header read back, the rows are written from the cart. `RInv` carries through
  the save that the list is part of the cart (`ListedOK`) and that the rows
  written so far are the cart's (`WrittenOK`), so only the receipt can miss a line.
* `TotalIsShown`: for `Faults = {}`, `gBillAmt` is the total of any cart that is
  not empty (`TotalOK`); an empty cart is the exception the `billing_label` run shows.
* `AmountsAreBooked` and `BillsBalance`, for all faults: that the rows of a whole bill add up to
  its total is lost between two inserts, so `BalInv` adds the rows that are there
  to the lines that are still in `todo`: together they are one total `t`, which the
  header was written with (`Booked`). For a save that was interrupted only the
  inequality is left, and that is what the reports rely on. The hypothesis `Exact` says that no
  rate, quantity or adjustment has more digits than `tostr` prints: the items carry the printed
  rate, so with a rate of seven digits their sum is off by the rounding times the
  quantity, and `BillBalances` is not true. Totals may be of any size.
* `TablesAreABook`: every step is a step of `BillBook` or none. The case that
  needs the counts is Clear Bill's first deletion: a torn bill must not become live by losing its rows.

`PosReports_proofs`:

* `BillingAsBefore`: the specification with the calendar implements `PosBilling`'s, so
  the theorems above hold for the runs with reports too.
* `DatesFollowIds`: dates are in the order of ids (`Chronological`). A new header
  has an id above all others, by `SeqCovers`, and the date of today; Clear Bill,
  after which ids start again, leaves no header to compare with.
* `LatestDaysAreOffered`: the query goes by ids, the claim is about dates;
  `Chronological` connects them, and every date has a last bill (`LastOne`,
  by well-foundedness).
* `DaysAreFinal`: a new bill has today's date, and a cancelled one keeps its place and amount.
* `DaysReconcile`: both sides count cancelled bills, as the code does. Every bill has one date, so the total is the sum over the dates (`SumByGroup`).
  Each report prints its own sum with six digits; `SixDigits(Due)` says that the
  amounts of as many bills as there can be fit into them. Without it the day
  reports, rounded one by one, need not add up.
* `SalesAgree` and `NeverMoreThanPaid`: the stock report goes by product, the total
  report by bill, and one sum is turned into the other over the rows. A row
  has the rate of its product (`RowsArePriced`), and a bill's rows are its total or less
  (`BalInv`): equal where all rows are there, at most where a save was interrupted.
  Hypotheses `Exact`, `SixDigits(Due)` and `SixDigits(Quantities)`.

`PayCollection_proofs`:

* `Invariance`: the balance kept in a global is the one in the table while a
  customer is picked (`BalanceIsFresh`). This needs that the list is fresh when
  it is picked from (`ListIsFresh`) and that nothing is written in between. The
  receipt needs `ConfirmOK`: the question is about the last row.
* `BalancesMoveSafely` follows from `BalanceIsFresh`, `ReceiptsAreRecorded` from the
  invariant (with `NumbersIncrease`, a conjunct of it).
* `RowsAreCounted`, `CountedOnce`, `AllAreCounted`: a balance is what posting some of its
  customer's rows in their order gives (`Posted`, with what `atoi` drops at each). `CountInv`
  adds that between insert and update the last row is not among them and is the one the
  program holds in its locals (`RowOK`), so that the update makes it one of them. All this
  is for the customers that are not `unbooked`; the balance of one that is has
  moved without a row, and no row can account for it. The first two are for all faults.
  Without faults they are all rows (`AllPosted`). A row of another customer, or one
  not counted, changes nothing (`AfterNothing`, `AfterKept`).
* `NumbersAgree`, whatever fails, and `ReceiptsAgree`, for `Faults = {}`, are for a terminal
  with one user (`OneUser`): then the user's largest number is the table's. With two
  users the first is violated (`collect_number`).
* `CollectionsAreALedger`: for `Faults = {}`, an insert is a `Post` and every other
  step, the update included, leaves the mapped balances alone.

`CollectionReport_proofs`, whatever the driver does: `StripsAreInOrder` needs to know
where the loop is. The rows were read in the order of the table (`RowsInOrder`), and what has
had its turn (`Past`, with `Done` for the rows or texts so far) is just what was printed
or refused (`StripOK`); where the program is goes with what it prints (`PlaceOK`),
and nothing is left of an earlier report (`CleanStrip`). `OnlyRefusedIsLost` is
`StripOK` at the end, where every text has had its turn. `TotalsAreOfAllRows` carries
the sum through the loop: `parsedNetAmt` is that of the rows up to the current one (`AddedUp`).
`PeriodsReconcile` groups the rows by their keys: the keys of a year
are the months and dates that begin with it, and within the limits nothing is cut off a list.

`Menus_proofs`: `MenuOK` says that the whole display is a function of `sel` and
`cnt`; each key is then a statement about that function, with the window of
entries kept inside the menu. `ListOK` says that the page is the
one of the selection, by division with remainder for every page size (`ASSUME`: 1 to 5).
`SelectionIsMarked`, `PagesAreWhole` and `MenusArePickers` follow.

`Terminal_proofs`: `MountOK` ties `pc` to the mount table (the flag read before
the key is right after it; what is mounted is in the port or was pulled), `CopyOK`
keeps source and target equal from `cp` to `umount`, `SessionOK` keeps the login an
account until an Import starts to write. `SticksAreSafe`, `ImportsAlone` and
`CopiesArrive` follow. `HeadingsAreRead` is about any file a copy can leave: `ParsedData` is the invariant of
the loop over its lines (each key has its last value so far, until an empty
line), `HeadingIs` that of the calls of `appendToIfFound`, and `NthIs` counts the keys that are found.

**Only model-checked.** `ReturnsToScreen`, `EndsOrAsks` and the fairness of `ImplementsBillBook` are liveness, which is out of the prover's
reach. Every invariant and every action property of a passing run is a theorem, those
about amounts under the hypotheses named above, which hold in the instances of
the runs that check them.

**Assumptions.** `FloatExact` (of `PosBilling` and of `CollectionReport`) and `BalanceFits`
keep amounts where floats and `customerBalance[10]` hold them. SQLite runs a statement as a whole or not at all and hands
out ids as AUTOINCREMENT says. A write to the flash is immediate; only a stick
has a cache. The program runs in `/mnt/jffs2`, so the `POS.cfg` it reads is the
file UploadConfig writes, and `/etc/mtab` exists. The clock only moves forward.
`lk_disphlight` toggles.

## What the checks found

Three findings, each the violation of a run: `billing_label`, `collect_number`, `collect_user`.

* `Total Amt` on the product list is stale after the last line is removed
  (`main.cpp:664-665` against the title at `main.cpp:998`).
* Numbers of collections are per user on the receipt, global in the table,
  and a user without transactions can never start.

Behaviours that no text of the repository contradicts, stated in the properties as they are:

* A save interrupted at any statement leaves a live header with fewer rows than it
  counts, and every report totals it in full.
* With the paper out, the bill is saved, the cart kept, and the same sale can be
  saved again under a new number.
* An empty bill can be saved when the uninitialised key byte happens to be F6.
* Each collection drops the fraction of the balance before it; less than a unit, every time.
* A power cut while the program asks whether to print leaves a transaction that no balance counts.
* In a collection report a row that finds no paper is lost even when paper is
  loaded, while the total still counts it (`Retry`, `TotalOfAllRows`).
* A report on bills or a receipt looks for paper once, before its first text; what is lost later is lost silently.
* A low battery, the temperature or an error of the printer loses any text silently, with paper
  there: `WriteText` does not return what the driver answered. Nor does the program look
  at what `prn_open` answers, and writes to a device that is not open.
* CANCEL and "No Paper !", of reports and of receipts, leave the printer open.
* Day and total reports count cancelled bills, and stop silently at their limits.
* A stick that is pulled while mounted stays in the mount table: the next function says
  "Already Mounted" of a stick that is gone.
* After a failed copy the result of `umount` is ignored, and the stick may stay mounted.
* "Copying Successfull" is shown before `umount`: until then an exported database may be in the cache only.
* Import can leave a database nobody can log in with, one with a short
  `Date_Time`, on which Delete Bill ends the program, or one without the table of items,
  on which the stock report and the billing of a product do.

## Not modelled

* SQLite, SQLiteCpp, the drivers and the fonts are vendored or binary, and external.
  They are most of the lines under `src/lib`: `sqlite3.h` (10188 lines) and `X6x8.h`
  (5848) are declarations and font data and have no behaviour to
  model, and the headers and sources of SQLiteCpp pass calls through.
* The `CreateTable` functions and the queries of `POSDS.cpp` that `main.cpp` never calls.
* The wrappers of display and printer, and all texts: formatting of lines and
  the 25000-byte buffer of `WriteText`, which the lines of some 600 bills
  exceed, are hazards in `PROJECT.json` without a property.
* Undefined behaviour that no choice depends on: the display names returned as
  `c_str()` of a destroyed string.

## Plan

1. `PosBilling`, `BillBook` and their proofs: done, `ReceiptStands` included.
2. `PayCollection`, `CollectionLedger` and their proofs: done.
3. `ScrollMenu`, `SubRangeMenu`, `Picker` and their proofs: done.
4. `PosReports`, `CollectionReport`, the sums and their proofs: done.
5. `Terminal` with `UsbCopy` and `ConfigFile`, and their proofs: done.
6. Left: a composition in which a session runs the statements of billing and collection
   instead of one `Save`, so that a stick pulled or an Import between two
   statements meets them; larger instances of billing.
