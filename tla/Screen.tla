------------------------------- MODULE Screen -------------------------------
(***************************************************************************)
(* The display of the terminal, as the menus in src/ use it: six lines,    *)
(* each of which shows an item or none, and may be highlighted.  The       *)
(* driver is a binary library; lk_disphlight turns a highlighted line back *)
(* to normal, which scroll_menu relies on.                                 *)
(***************************************************************************)
EXTENDS Integers

CONSTANT Blank      \* a line that shows no item

ASSUME BlankAssumption == Blank \notin Int

Lines == 0..5

VARIABLES
    lcd,            \* what is on the display
    waiting         \* who waits for a key: "caller", "menu", "list" or "empty"

\* lk_dispclr
Clear == [row |-> [l \in Lines |-> Blank], lit |-> {}]

\* Items from first on, on the lines from one to other; the rest as on s.
Write(s, one, other, first) ==
    [s EXCEPT !.row = [l \in Lines |-> IF l \in one..other THEN first + (l - one) ELSE s.row[l]]]

\* lk_disphlight
Highlight(s, l) == [s EXCEPT !.lit = (s.lit \ {l}) \cup ({l} \ s.lit)]

\* lk_displineclr of the lines from one to other
ClearLines(s, one, other) ==
    [ row |-> [l \in Lines |-> IF l \in one..other THEN Blank ELSE s.row[l]],
      lit |-> s.lit \ (one..other) ]
=============================================================================
