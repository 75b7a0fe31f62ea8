------------------------------ MODULE Terminal ------------------------------
(***************************************************************************)
(* A session on the terminal, from the login to the administrator's menu,  *)
(* with the copies to and from USB sticks, and the database and the        *)
(* configuration file that they replace under the running program.         *)
(* Code: src/src/main.cpp, from DeleteBill to main.                        *)
(***************************************************************************)
EXTENDS UsbCopy

CONSTANTS
    Administrator,  \* "101010"
    FirstFlash,     \* the files the terminal is delivered with
    FirstMedia      \* the files that may be on the sticks at first

ASSUME UsersAssumption == Administrator \in Users

ASSUME DeliveredAssumption ==
    /\ FirstFlash \in Files /\ FirstFlash.db \in Databases
    /\ ~FirstFlash.db.short /\ FirstFlash.db.items
    /\ FirstMedia \subseteq [Sticks -> Files]

VARIABLES
    user,       \* the name that was typed
    gUserId,    \* the name of who is logged in
    imported    \* history: an Import started to write the database

session == <<user, gUserId>>
vars    == <<usb, session, pc, imported>>

\* Names as they are typed.  User_ID is an integer column: SQLite finds 101010
\* for "0101010" as well.
Names == [id : Users, padded : BOOLEAN]

NameOf(u) == [id |-> u, padded |-> FALSE]

Readable == flash.db \notin {Torn, Missing}
Accounts == IF Readable THEN flash.db.accounts ELSE {}

-----------------------------------------------------------------------------
Init ==
    /\ flash = FirstFlash
    /\ media \in FirstMedia
    /\ UsbInit
    /\ pc = "username"
    /\ user = None
    /\ gUserId = None
    /\ imported = FALSE

\* Mutant: the name is not compared with the row that was found.
EnterAnyUsername(name) ==
    /\ pc = "username"
    /\ name.id \in Accounts
    /\ user' = name
    /\ pc' = "password"
    /\ UNCHANGED <<usb, gUserId, imported>>

\* "Enter Username", with the User_ID of a row, as it is written there.  After
\* any other name, or if the database cannot be read, it is asked for again.
EnterUsername(name) ==
    /\ pc = "username"
    /\ name.id \in Accounts
    /\ name = NameOf(name.id)
    /\ user' = name
    /\ pc' = "password"
    /\ UNCHANGED <<usb, gUserId, imported>>

\* The password of the row that was read.
EnterPassword ==
    /\ pc = "password"
    /\ gUserId' = user
    /\ pc' = "main"
    /\ UNCHANGED <<usb, user, imported>>

\* Another one.  An empty one is asked for again.
EnterWrongPassword ==
    /\ pc = "password"
    /\ pc' = "username"
    /\ user' = None
    /\ UNCHANGED <<usb, gUserId, imported>>

\* The main menu cannot be left.  Settings is for the administrator, or for who
\* knows the administrator's password.
OpenSettings ==
    /\ pc = "main"
    /\ pc' = IF gUserId = NameOf(Administrator) THEN "admin" ELSE "adminPassword"
    /\ UNCHANGED <<usb, session, imported>>

EnterAdminPassword ==
    /\ pc = "adminPassword"
    /\ pc' \in {"admin", "wrongPassword", "main"}     \* right, wrong, CANCEL
    /\ UNCHANGED <<usb, session, imported>>

DismissWrong == pc = "wrongPassword" /\ pc' = "main" /\ UNCHANGED <<usb, session, imported>>

LeaveAdmin == pc = "admin" /\ pc' = "main" /\ UNCHANGED <<usb, session, imported>>

-----------------------------------------------------------------------------
(* Changes of the database *)

Changed(db, short) == [db EXCEPT !.changes = @ + 1, !.short = short]

\* The database is written to.  SQLite does that as a whole or not at all.
Change(short) ==
    /\ Readable
    /\ flash.db.changes < MaxChanges
    /\ flash' = [flash EXCEPT !.db = Changed(@, short)]
    /\ UNCHANGED <<media, port, mounted, cache, op, flag, tries, pulled, refused,
                   session, pc, imported>>

\* A bill or a collection is saved, with a full Date_Time.
Save == pc = "main" /\ Change(flash.db.short)

\* Without the table of items, Clear Bill stops before it clears the bills.
ClearBill == pc = "admin" /\ Change(FALSE) /\ flash.db.items

\* A bill is picked from the list and marked.
DeleteBill == pc = "admin" /\ Change(flash.db.short)

\* A bill with a short Date_Time comes on the display: substr throws, nothing
\* catches it, and the program ends.
DeleteBillThrows ==
    /\ pc = "admin"
    /\ Readable
    /\ flash.db.short
    /\ pc' = "ended"
    /\ UNCHANGED <<usb, session, imported>>

\* The stock report, or a product to bill, asks how much of it was sold: the
\* statement is prepared outside the try, and without its table that throws.
TotalSoldThrows ==
    /\ pc = "main"
    /\ Readable
    /\ ~flash.db.items
    /\ pc' = "ended"
    /\ UNCHANGED <<usb, session, imported>>

-----------------------------------------------------------------------------
\* Any step of a copy; Import is remembered once it writes.
CopyStep ==
    /\ UsbSteps
    /\ imported' = (imported \/ (op = "Import" /\ pc' = "copying"))
    /\ UNCHANGED session

Copying == (\E o \in Operations : Ask(o)) /\ UNCHANGED <<session, imported>>

Surroundings == Environment /\ UNCHANGED <<session, imported>>

\* Off and on again.  The program opens the database without reading it; if the
\* file cannot be opened, it asks to be switched off.
SwitchOff ==
    /\ UsbOff
    /\ pc' \in {"username", "shutdown"}
    /\ user' = None
    /\ gUserId' = None
    /\ UNCHANGED imported

Work ==
    \/ \E name \in Names : EnterUsername(name)
    \/ EnterPassword \/ EnterWrongPassword
    \/ OpenSettings \/ EnterAdminPassword \/ DismissWrong \/ LeaveAdmin
    \/ Save \/ ClearBill \/ DeleteBill \/ DeleteBillThrows \/ TotalSoldThrows

Next == Work \/ Copying \/ CopyStep \/ Surroundings \/ SwitchOff

Spec == Init /\ [][Next]_vars

-----------------------------------------------------------------------------
(* Properties *)

SessionPcs == {"main", "adminPassword", "wrongPassword", "admin", "ended"} \cup UsbPcs

TypeOK ==
    /\ flash \in Files
    /\ media \in [Sticks -> Files]
    /\ {port, mounted} \subseteq Plugged \cup {None}
    /\ cache \in DbFiles \cup {None}
    /\ pc \in SessionPcs \cup {"username", "password", "shutdown"}
    /\ op \in Operations \cup {None}
    /\ {flag, pulled, refused, imported} \subseteq BOOLEAN
    /\ tries \in 1..Len(Devices(op))
    /\ {user, gUserId} \subseteq Names \cup {None}

\* Whenever none of the three functions runs, a stick can be pulled without
\* harm, unless umount was refused: nothing is mounted and nothing is left to
\* be written.  The next function mounts only what is not mounted.
SafeToRemove == pc \notin UsbPcs /\ ~refused => mounted = None /\ cache = None

\* When a copy ends without a message that something failed, source and target
\* are the same: on the stick itself, if it was not pulled since it was mounted.
\* The file was copied before a key, a pause and umount, in two caches.
CopyIsDelivered ==
    [][ pc = "copied" /\ pc' = "admin" /\ ~pulled =>
            LET stick == media'[mounted.stick]
            IN  IF op = "Upload" THEN flash'.cfg = stick.cfg ELSE flash'.db = stick.db ]_vars

\* Only an Import takes away what the terminal was delivered with: until the
\* first one the database can be read, who is logged in has an account in it,
\* and no exception that nobody catches ends the program, wherever the power
\* was cut or a copy failed.  (What the overflow of a balance of a million does
\* is not described: BalanceFits in PayCollection excludes it.)
OnlyImportsHarm ==
    ~imported =>
        /\ Readable
        /\ pc \in SessionPcs => gUserId \in {NameOf(u) : u \in Accounts}
        /\ pc # "ended"

\* What the next bill is headed with is what its configuration says, although a
\* copy of it may have been cut short: of the lines above an empty one, the last
\* value given for each key.
HeadingOK == Heading(ParseFromFile(flash.cfg)) = HeadingOf(flash.cfg)

-----------------------------------------------------------------------------
(* The inductive invariant *)

\* The flag read before the key is right after it; a stick stays mounted only
\* between mount and umount, or after a refusal; and it is the one in the port
\* unless it was pulled.
MountOK ==
    /\ pc \in UsbPcs => op \in Operations
    /\ pc = "insert" => flag = (mounted # None)
    /\ pc = "mount" => mounted = None
    /\ pc \in {"confirm", "copying", "copied", "notCopied"} => mounted # None
    /\ pc \notin {"confirm", "copying", "copied", "notCopied"} /\ mounted # None => refused
    /\ mounted = None => cache = None
    /\ mounted # None => Alive \/ pulled

\* What cp copied is there, in the cache or in the flash.
CopyOK ==
    pc = "copied" /\ ~pulled =>
        CASE op = "Export" -> cache = flash.db
          [] op = "Import" -> flash.db = StickDb
          [] op = "Upload" -> flash.cfg = media[mounted.stick].cfg

\* Until the first Import, the login is one of the database.
SessionOK ==
    ~imported =>
        /\ Readable /\ ~flash.db.short /\ flash.db.items
        /\ pc = "password" => user \in {NameOf(u) : u \in Accounts}
        /\ op = "Import" => pc \notin {"copying", "copied"}

IInv == TypeOK /\ MountOK /\ CopyOK /\ SessionOK /\ SafeToRemove /\ OnlyImportsHarm
=============================================================================
