---------------------------- MODULE SubRangeMenu ----------------------------
(***************************************************************************)
(* display_sub_range and display_sub_range_with_title: a list of products, *)
(* customers, bills or dates, shown page by page.  A step is the code      *)
(* between two keys; the display is drawn anew at each.                    *)
(* Code: src/include/PosDataStructures.hpp.                                *)
(***************************************************************************)
EXTENDS Screen

CONSTANTS
    ListSizes,      \* how many items a list may have
    PageSizes       \* how many rows the callers ask for

\* An uint8_t; with a title above them, the rows of a page fit the display.
ASSUME ListsAssumption == ListSizes \subseteq Nat /\ PageSizes \subseteq 1..5

VARIABLES
    size,                   \* all.size()
    MaximumRowsToDisplay,
    title,                  \* the lines of the title: 1 in display_sub_range_with_title, else 0
    offset,                 \* the first item of the page
    selected,
    res                     \* MenuResult, kept by the caller

list == <<size, MaximumRowsToDisplay, title, offset, selected, res>>

\* The line of item i.
LineOf(i, max, t) == (i % max) + t

Page(n, max, off) == {i \in off..(off + max - 1) : i < n}

\* The display with the page of n items that starts at off, and item s on it.
Draw(n, max, t, off, s) ==
    [ row |-> [l \in Lines |->
                  IF \E i \in Page(n, max, off) : LineOf(i, max, t) = l
                  THEN CHOOSE i \in Page(n, max, off) : LineOf(i, max, t) = l
                  ELSE Blank],
      lit |-> {LineOf(i, max, t) : i \in Page(n, max, off) \cap {s}} ]

-----------------------------------------------------------------------------
ListInit ==
    /\ size = 0
    /\ MaximumRowsToDisplay = 1
    /\ title = 0
    /\ offset = 0
    /\ selected = 0
    /\ res = [wasCancelled |-> TRUE, selectedIndex |-> 0, lastSpecialKey |-> 0]

\* A caller shows a list.  It clears wasCancelled before and keeps the rest;
\* the selectedIndex that one caller resets too is read only after a choice.
CallList(n, max, t) ==
    LET rows == IF max > n THEN n ELSE max
    IN  /\ waiting = "caller"
        /\ n > 0
        /\ waiting' = "list"
        /\ size' = n
        /\ MaximumRowsToDisplay' = rows
        /\ title' = t
        /\ offset' = 0
        /\ selected' = 0
        /\ lcd' = Draw(n, rows, t, 0, 0)
        /\ res' = [res EXCEPT !.wasCancelled = FALSE]

\* "No Data!": cancelled, without touching lastSpecialKey.
CallEmpty ==
    /\ waiting = "caller"
    /\ waiting' = "empty"
    /\ size' = 0
    /\ lcd' = Clear
    /\ res' = [res EXCEPT !.wasCancelled = TRUE, !.selectedIndex = 0]
    /\ UNCHANGED <<MaximumRowsToDisplay, title, offset, selected>>

DismissEmpty == waiting = "empty" /\ waiting' = "caller" /\ UNCHANGED <<lcd, list>>

\* Mutant: the page follows only when the selection leaves it downwards.
SelectDown(s) ==
    LET off == IF s >= offset + MaximumRowsToDisplay
               THEN (s \div MaximumRowsToDisplay) * MaximumRowsToDisplay
               ELSE offset
    IN  /\ waiting = "list"
        /\ s \in 0..(size - 1)
        /\ selected' = s
        /\ offset' = off
        /\ lcd' = Draw(size, MaximumRowsToDisplay, title, off, s)
        /\ res' = [res EXCEPT !.lastSpecialKey = 0]
        /\ UNCHANGED <<waiting, size, MaximumRowsToDisplay, title>>

\* F2 and F3, which stop at the ends of the list, and any other key: the
\* selection is s, and the page is the one that has it.
Select(s) ==
    LET off == (s \div MaximumRowsToDisplay) * MaximumRowsToDisplay
    IN  /\ waiting = "list"
        /\ s \in 0..(size - 1)
        /\ selected' = s
        /\ offset' = off
        /\ lcd' = Draw(size, MaximumRowsToDisplay, title, off, s)
        /\ res' = [res EXCEPT !.lastSpecialKey = 0]
        /\ UNCHANGED <<waiting, size, MaximumRowsToDisplay, title>>

\* Mutant: the index answered counts from the page, not from the list.
EndListOnPage(cancelled, special) ==
    /\ waiting = "list"
    /\ waiting' = "caller"
    /\ res' = [wasCancelled |-> cancelled, selectedIndex |-> selected - offset, lastSpecialKey |-> special]
    /\ UNCHANGED <<lcd, size, MaximumRowsToDisplay, title, offset, selected>>

\* ENTER, CANCEL or F6.  F6 answers the selection where there is no title, and
\* counts as cancelled where there is one.
EndList(cancelled, special) ==
    /\ waiting = "list"
    /\ waiting' = "caller"
    /\ res' = [wasCancelled |-> cancelled, selectedIndex |-> selected, lastSpecialKey |-> special]
    /\ UNCHANGED <<lcd, size, MaximumRowsToDisplay, title, offset, selected>>

KEY_F6 == 22

ListNext ==
    \/ \E n \in ListSizes, max \in PageSizes, t \in {0, 1} : CallList(n, max, t)
    \/ CallEmpty
    \/ DismissEmpty
    \/ Select(selected - 1)
    \/ Select(selected + 1)
    \/ Select(selected)
    \/ EndList(FALSE, 0)
    \/ EndList(TRUE, 0)
    \/ EndList(title = 1, KEY_F6)
=============================================================================
