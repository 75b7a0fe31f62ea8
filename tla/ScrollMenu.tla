----------------------------- MODULE ScrollMenu -----------------------------
(***************************************************************************)
(* scroll_menu, the menu of the terminal's functions: entries that scroll  *)
(* over five lines below the title.  A step is the code between two keys.  *)
(* The display is redrawn from the start only by Begin; otherwise single   *)
(* lines change, and cnt and lastitem remember where the highlight is.     *)
(* Code: src/lib/visiontek/src/scroll_menu.c.                              *)
(***************************************************************************)
EXTENDS Screen

CONSTANT MenuSizes      \* how many entries the menus have

ASSUME MenusAssumption == MenuSizes \subseteq Nat \ {0}

RES32     == 5
UprOffset == 0

VARIABLES
    maxEntries,
    sel,        \* the entry selected; kept by the caller between two calls
    cnt,        \* the line that is to be highlighted
    lastitem,   \* the line that was
    number,     \* the number of the entry, on the title line
    opt         \* what the call returned: "ENTER" or "CANCEL", or "none"

menu == <<maxEntries, sel, cnt, lastitem, number, opt>>

Shown(n)   == IF RES32 > n THEN n ELSE RES32
Maxdispcnt == Shown(maxEntries)

\* From the label begin on: everything is drawn anew, with s selected.
Begin(n, s) ==
    LET rowno == IF s < Shown(n) THEN 0 ELSE s - 4
        c     == IF s < Shown(n) THEN s + 1 ELSE Shown(n)
    IN  /\ lcd' = Highlight(Write(Clear, UprOffset + 1, UprOffset + Shown(n), rowno), UprOffset + c)
        /\ sel' = s
        /\ cnt' = c
        /\ lastitem' = c
        /\ number' = s + 1

\* Mutant: the line left is not turned back to normal.
TurnKept(s, c, rowno) ==
    LET drawn == IF c = cnt
                 THEN Write(ClearLines(lcd, 1, Maxdispcnt), 1, Maxdispcnt, rowno)
                 ELSE lcd
    IN  /\ lcd' = Highlight(drawn, UprOffset + c)
        /\ sel' = s /\ cnt' = c /\ lastitem' = c /\ number' = s + 1

\* One entry on or back.  If the highlight cannot move (cnt stays), the entries
\* scroll; the line left is highlighted again, which turns it to normal.
Turn(s, c, rowno) ==
    LET drawn == IF c = cnt
                 THEN Write(ClearLines(lcd, UprOffset + 1, UprOffset + Maxdispcnt),
                            UprOffset + 1, UprOffset + Maxdispcnt, rowno)
                 ELSE lcd
        left  == IF lastitem # c THEN Highlight(drawn, UprOffset + lastitem) ELSE drawn
    IN  /\ lcd' = Highlight(left, UprOffset + c)
        /\ sel' = s
        /\ cnt' = c
        /\ lastitem' = c
        /\ number' = s + 1

-----------------------------------------------------------------------------
MenuInit ==
    /\ maxEntries = 0
    /\ sel = 0
    /\ cnt = 0
    /\ lastitem = 0
    /\ number = 0
    /\ opt = "none"

\* A function calls its menu.  A new menu starts at its first entry; one that is
\* called again, after what its entry led to, where it was left.
CallMenu(n, s) ==
    /\ waiting = "caller"
    /\ waiting' = "menu"
    /\ maxEntries' = n
    /\ opt' = "none"
    /\ Begin(n, s)

MenuKey == waiting = "menu" /\ UNCHANGED <<waiting, maxEntries, opt>>

Home == MenuKey /\ Begin(maxEntries, 0)                 \* F1

End == MenuKey /\ Begin(maxEntries, maxEntries - 1)     \* F4

\* F3
Down ==
    /\ MenuKey
    /\ IF sel + 1 > maxEntries - 1
       THEN Begin(maxEntries, 0)
       ELSE LET rowno == sel + 1 - (Maxdispcnt - 1)
            IN  Turn(sel + 1, IF cnt < Maxdispcnt THEN cnt + 1 ELSE cnt,
                     IF rowno <= 0 THEN 0 ELSE rowno)

\* F2
Up ==
    /\ MenuKey
    /\ IF sel - 1 < 0
       THEN Begin(maxEntries, maxEntries - 1)
       ELSE Turn(sel - 1, IF cnt > 1 THEN cnt - 1 ELSE cnt, sel - 1)

\* ENTER or CANCEL.  The selection is kept in both cases; only ENTER has the
\* caller act on it.
EndMenu(key) ==
    /\ waiting = "menu"
    /\ waiting' = "caller"
    /\ opt' = key
    /\ UNCHANGED <<maxEntries, sel, cnt, lastitem, number, lcd>>

MenuNext ==
    \/ \E n \in MenuSizes : \E s \in 0..(n - 1) : CallMenu(n, s)
    \/ Home
    \/ End
    \/ Down
    \/ Up
    \/ \E key \in {"ENTER", "CANCEL"} : EndMenu(key)
=============================================================================
