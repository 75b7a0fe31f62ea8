------------------------------- MODULE Menus -------------------------------
(***************************************************************************)
(* The menus and the lists on the one display of the terminal.  A function *)
(* shows its menu, the entry picked leads to a list or to the menu of      *)
(* another function, and each comes back to a menu that is shown anew.     *)
(***************************************************************************)
EXTENDS ScrollMenu, SubRangeMenu

ASSUME EmptyAssumption == 0 \in ListSizes

menus == <<lcd, waiting, menu, list>>

Init ==
    /\ lcd = Clear
    /\ waiting = "caller"
    /\ MenuInit
    /\ ListInit

Next ==
    \/ MenuNext /\ UNCHANGED list
    \/ ListNext /\ UNCHANGED menu

Spec == Init /\ [][Next]_menus

-----------------------------------------------------------------------------
(* Properties *)

\* The types: lines of the display, positions in menus and lists.
TypeOK ==
    /\ lcd \in [row : [Lines -> Int \cup {Blank}], lit : SUBSET Lines]
    /\ waiting \in {"caller", "menu", "list", "empty"}
    /\ maxEntries \in MenuSizes \cup {0}
    /\ {sel, cnt, lastitem, number} \subseteq Nat
    /\ opt \in {"none", "ENTER", "CANCEL"}
    /\ size \in ListSizes
    /\ MaximumRowsToDisplay \in 1..5
    /\ title \in {0, 1}
    /\ {offset, selected} \subseteq Nat
    /\ res \in [wasCancelled : BOOLEAN, selectedIndex : Nat, lastSpecialKey : {0, KEY_F6}]

\* Where the entries of the menu are: cnt, lastitem and the lines scrolled one
\* by one agree with the selection.
MenuOK ==
    waiting = "menu" =>
        /\ maxEntries \in MenuSizes
        /\ sel \in 0..(maxEntries - 1)
        /\ cnt \in 1..Maxdispcnt /\ lastitem = cnt
        /\ sel - cnt + 1 >= 0 /\ sel - cnt + Maxdispcnt < maxEntries
        /\ number = sel + 1
        /\ lcd = [ row |-> [l \in Lines |-> IF l \in 1..Maxdispcnt THEN sel - cnt + l ELSE Blank],
                   lit |-> {cnt} ]

ListOK ==
    waiting = "list" =>
        /\ selected \in 0..(size - 1)
        /\ MaximumRowsToDisplay <= size
        /\ offset = (selected \div MaximumRowsToDisplay) * MaximumRowsToDisplay
        /\ lcd = Draw(size, MaximumRowsToDisplay, title, offset, selected)

\* The inductive invariant.
IInv == TypeOK /\ MenuOK /\ ListOK

\* Whatever was scrolled, wrapped or paged before, one line is highlighted
\* while the user chooses, and it shows the entry that ENTER will take.
OneIsMarked ==
    /\ waiting = "menu" => \E l \in Lines : lcd.lit = {l} /\ lcd.row[l] = sel
    /\ waiting = "list" => \E l \in Lines : lcd.lit = {l} /\ lcd.row[l] = selected

\* The entries on the lines of a menu, from the first line of entries on.
Window == [l \in 1..Maxdispcnt |-> lcd.row[UprOffset + l]]

\* A menu fills its lines: as many consecutive entries as fit, all of which
\* exist; the number on the title line is the entry's.
MenuIsWhole ==
    /\ \A l \in 1..Maxdispcnt : Window[l] = Window[1] + (l - 1)
    /\ Window[1] >= 0 /\ Window[1] + Maxdispcnt <= maxEntries
    /\ \A l \in Lines \ (1..Maxdispcnt) : lcd.row[l] = Blank
    /\ number = sel + 1

\* A list shows the page of its selection, each item on the line of its own.
ListIsWhole ==
    LET max == MaximumRowsToDisplay
    IN  \A l \in Lines :
            LET i == (selected \div max) * max + l - title
            IN  lcd.row[l] = IF i \in 0..(size - 1) /\ i \div max = selected \div max THEN i ELSE Blank

\* However the selection was reached, by scrolling, wrapping around, paging or
\* coming back from another screen, nothing that could be picked is left out
\* and nothing of an earlier screen is left on the display.
PageIsWhole == (waiting = "menu" => MenuIsWhole) /\ (waiting = "list" => ListIsWhole)

\* What the highlighted line shows.
OnMarkedLine ==
    IF \E l \in Lines : lcd.lit = {l} THEN lcd.row[CHOOSE l \in Lines : lcd.lit = {l}] ELSE Blank

MenuPicker == INSTANCE Picker WITH
    Sizes  <- MenuSizes,
    NoItem <- Blank,
    size   <- maxEntries,
    marked <- IF waiting = "menu" THEN OnMarkedLine ELSE Blank,
    answer <- IF waiting # "menu" /\ opt = "ENTER" THEN sel ELSE Blank

ListPicker == INSTANCE Picker WITH
    Sizes  <- ListSizes,
    NoItem <- Blank,
    size   <- size,
    marked <- IF waiting = "list" THEN OnMarkedLine ELSE Blank,
    answer <- IF waiting # "list" /\ ~res.wasCancelled THEN res.selectedIndex ELSE Blank

\* Menus and lists are pickers: the item the caller gets is the one that was
\* highlighted on the display when the key was pressed, it is an item of the
\* list, and a list left with CANCEL or without items answers none.
ImplementsPicker == MenuPicker!PickerSpec /\ ListPicker!PickerSpec
=============================================================================
