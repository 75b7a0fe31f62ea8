---------------------------- MODULE Menus_proofs ----------------------------
(***************************************************************************)
(* Proofs about Menus, for menus and lists of every size: the highlighted  *)
(* line shows what will be answered, and both are pickers.                 *)
(***************************************************************************)
EXTENDS Menus, TLAPS

\* A page has its first item at a multiple of its length: positions on it are
\* remainders.
LEMMA PageArithmetic ==
    ASSUME NEW m \in 1..5, NEW k \in Nat, NEW i \in (k * m)..(k * m + m - 1)
    PROVE  i % m = i - k * m /\ i \div m = k
<1> DEFINE r == i - k * m
<1>1. k * m \in Int
  OBVIOUS
<1>2. r \in 0..(m - 1) /\ i = k * m + r
  BY <1>1
<1>3. (k * m + r) % m = r /\ (k * m + r) \div m = k
  <2> HIDE DEF r
  <2> QED BY <1>2, SMTT(30)
<1> QED BY <1>2, <1>3

\* The page of a selection contains it.
LEMMA PageOfSelection ==
    ASSUME NEW m \in 1..5, NEW s \in Nat
    PROVE  /\ s \div m \in Nat
           /\ s \in ((s \div m) * m)..((s \div m) * m + m - 1)
OBVIOUS

\* One line of the display d is highlighted, and it shows item i.
Marks(d, i) == \E l \in Lines : d.lit = {l} /\ d.row[l] = i

\* The page of s marks one line, which shows s.
LEMMA DrawMarksSelection ==
    \A n \in Nat, m \in 1..5, t \in {0, 1} : \A s \in 0..(n - 1) :
        /\ Draw(n, m, t, (s \div m) * m, s) \in [row : [Lines -> Int \cup {Blank}], lit : SUBSET Lines]
        /\ Marks(Draw(n, m, t, (s \div m) * m, s), s)
<1> TAKE n \in Nat, m \in 1..5, t \in {0, 1}
<1> TAKE s \in 0..(n - 1)
<1> DEFINE k == s \div m
           page == Page(n, m, k * m)
           Line(i) == LineOf(i, m, t)
<1>1. k \in Nat /\ s \in page
  BY PageOfSelection DEF Page
<1>2. \A i \in page : i \in Int /\ i % m = i - k * m /\ i - k * m \in 0..(m - 1)
  <2> SUFFICES ASSUME NEW i \in page
               PROVE  i \in Int /\ i % m = i - k * m /\ i - k * m \in 0..(m - 1)
    OBVIOUS
  <2>1. k * m \in Int /\ i \in (k * m)..(k * m + m - 1)
    BY <1>1 DEF Page
  <2>2. i % m = i - k * m
    BY <1>1, <2>1, PageArithmetic
  <2> HIDE DEF k
  <2> QED BY <2>1, <2>2
<1>3. \A i \in page : Line(i) \in Lines /\ (\A j \in page : Line(i) = Line(j) => i = j)
  <2> HIDE DEF k, page
  <2>1. k * m \in Int
    BY <1>1
  <2> QED BY <1>1, <1>2, <2>1 DEF LineOf, Lines
<1>4. (CHOOSE i \in page : Line(i) = Line(s)) = s
  <2> HIDE DEF page
  <2> QED BY <1>1, <1>3
<1>5. \A l \in Lines : (\E i \in page : Line(i) = l) => (CHOOSE i \in page : Line(i) = l) \in Int
  <2> HIDE DEF page
  <2> QED BY <1>2
<1>6. {Line(i) : i \in page \cap {s}} = {Line(s)}
  <2> HIDE DEF page
  <2> QED BY <1>1
<1> HIDE DEF page, k
<1> QED BY <1>1, <1>3, <1>4, <1>5, <1>6 DEF Draw, Marks, page, k

-----------------------------------------------------------------------------
(* The display *)

\* A display on which m entries are written and line c is highlighted.
LEMMA WriteOnClear ==
    ASSUME NEW m, NEW top
    PROVE  Write(Clear, 1, m, top)
             = [ row |-> [l \in Lines |-> IF l \in 1..m THEN top + (l - 1) ELSE Blank], lit |-> {} ]
<1>1. \A l \in Lines : Clear.row[l] = Blank
  BY DEF Clear
<1>2. [l \in Lines |-> IF l \in 1..m THEN top + (l - 1) ELSE Clear.row[l]]
        = [l \in Lines |-> IF l \in 1..m THEN top + (l - 1) ELSE Blank]
  BY <1>1
<1>3. \A g : [Clear EXCEPT !.row = g] = [row |-> g, lit |-> {}]
  BY DEF Clear
<1> HIDE DEF Clear
<1> QED BY <1>2, <1>3, Zenon DEF Write

\* Highlighting a line turns its bar over and leaves what is written there.
LEMMA HighlightOn ==
    ASSUME NEW f, NEW lit, NEW c
    PROVE  Highlight([row |-> f, lit |-> lit], c) = [row |-> f, lit |-> (lit \ {c}) \cup ({c} \ lit)]
<1> DEFINE s == [row |-> f, lit |-> lit]
<1>1. s.lit = lit
  OBVIOUS
<1>2. \A g : [s EXCEPT !.lit = g] = [row |-> f, lit |-> g]
  OBVIOUS
<1> HIDE DEF s
<1>3. Highlight(s, c) = [row |-> f, lit |-> (lit \ {c}) \cup ({c} \ lit)]
  BY <1>1, <1>2, Zenon DEF Highlight
<1> QED BY <1>3 DEF s

-----------------------------------------------------------------------------
(* The scrolling menu *)

\* The fields that a menu leaves alone when it draws.
LEMMA BeginKeepsMenu ==
    ASSUME TypeOK, NEW n \in MenuSizes, NEW s \in 0..(n - 1), Begin(n, s),
           maxEntries' = n, waiting' = "menu", opt' \in {"none", "ENTER", "CANCEL"}, UNCHANGED list
    PROVE  IInv'
<1> DEFINE c == IF s < Shown(n) THEN s + 1 ELSE Shown(n)
           top == IF s < Shown(n) THEN 0 ELSE s - 4
<1>1. n \in Nat \ {0}
  BY MenusAssumption
<1>2. /\ Shown(n) \in 1..5 /\ Shown(n) <= n
      /\ c \in 1..Shown(n) /\ top = s - c + 1 /\ top >= 0 /\ top + Shown(n) <= n
  BY <1>1 DEF Shown, RES32
<1>3. sel' = s /\ cnt' = c /\ lastitem' = c /\ number' = s + 1 /\ Maxdispcnt' = Shown(n)
  BY DEF Begin, Maxdispcnt, Shown
<1>4. lcd' = [ row |-> [l \in Lines |-> IF l \in 1..Shown(n) THEN top + (l - 1) ELSE Blank],
               lit |-> {c} ]
  <2>1. lcd' = Highlight(Write(Clear, 1, Shown(n), top), c)
    BY <1>2 DEF Begin, UprOffset
  <2> HIDE DEF c, top
  <2>2. Write(Clear, 1, Shown(n), top)
          = [row |-> [l \in Lines |-> IF l \in 1..Shown(n) THEN top + (l - 1) ELSE Blank], lit |-> {}]
    BY WriteOnClear, Zenon
  <2>3. lcd' = Highlight([row |-> [l \in Lines |-> IF l \in 1..Shown(n) THEN top + (l - 1) ELSE Blank],
                          lit |-> {}], c)
    BY <2>1, <2>2, Zenon
  <2>4. ({} \ {c}) \cup ({c} \ {}) = {c}
    OBVIOUS
  <2>5. lcd' = [ row |-> [l \in Lines |-> IF l \in 1..Shown(n) THEN top + (l - 1) ELSE Blank],
                 lit |-> ({} \ {c}) \cup ({c} \ {}) ]
    BY <2>3, HighlightOn, Zenon
  <2> QED BY <2>4, <2>5, Zenon
<1>5. [l \in Lines |-> IF l \in 1..Shown(n) THEN top + (l - 1) ELSE Blank]
        = [l \in Lines |-> IF l \in 1..Shown(n) THEN s - c + l ELSE Blank]
  BY <1>2 DEF Lines
<1> HIDE DEF c, top
<1>6. MenuOK'
  <2>1. maxEntries' \in MenuSizes /\ Shown(n)' = Shown(n)
    BY DEF Shown
  <2>2. s - c + 1 >= 0 /\ s - c + Shown(n) < n
    BY <1>1, <1>2
  <2> QED BY <1>2, <1>3, <1>4, <1>5, <2>1, <2>2 DEF MenuOK
<1>7. TypeOK'
  <2>1. lcd' \in [row : [Lines -> Int \cup {Blank}], lit : SUBSET Lines]
    BY <1>2, <1>4 DEF Lines
  <2> QED BY <1>1, <1>2, <1>3, <2>1 DEF TypeOK, list
<1>8. ListOK'
  BY DEF ListOK
<1> QED BY <1>6, <1>7, <1>8 DEF IInv

\* Turning to another page, as UP and DOWN do at the first and the last line,
\* keeps the invariant of scroll_menu.
LEMMA TurnKeepsMenu ==
    ASSUME IInv, waiting = "menu", NEW s \in Int, NEW c \in Int, NEW top \in Int,
           s \in 0..(maxEntries - 1), c \in 1..Maxdispcnt,
           s - c + 1 >= 0, s - c + Maxdispcnt < maxEntries,
           c = cnt => top = s - c + 1,
           c # cnt => s - c = sel - cnt,
           Turn(s, c, top), UNCHANGED <<waiting, maxEntries, opt>>, UNCHANGED list
    PROVE  IInv'
<1>1. /\ maxEntries \in MenuSizes /\ maxEntries \in Nat \ {0} /\ Maxdispcnt \in 1..5
      /\ lastitem = cnt /\ cnt \in 1..Maxdispcnt /\ sel \in Int
      /\ lcd = [ row |-> [l \in Lines |-> IF l \in 1..Maxdispcnt THEN sel - cnt + l ELSE Blank],
                 lit |-> {cnt} ]
  <2>1. MenuOK /\ TypeOK /\ MenusAssumption
    BY MenusAssumption DEF IInv
  <2>2. /\ maxEntries \in MenuSizes /\ lastitem = cnt /\ cnt \in 1..Maxdispcnt
        /\ lcd = [ row |-> [l \in Lines |-> IF l \in 1..Maxdispcnt THEN sel - cnt + l ELSE Blank],
                   lit |-> {cnt} ]
    BY <2>1, Zenon DEF MenuOK
  <2>3. maxEntries \in Nat \ {0} /\ sel \in Int
    BY <2>1, <2>2 DEF MenusAssumption, TypeOK
  <2>4. Maxdispcnt \in 1..5
    BY <2>3 DEF Maxdispcnt, Shown, RES32
  <2> QED BY <2>2, <2>3, <2>4
<1>2. sel' = s /\ cnt' = c /\ lastitem' = c /\ number' = s + 1 /\ Maxdispcnt' = Maxdispcnt
  BY DEF Turn, Maxdispcnt, Shown
<1>3. lcd' = [ row |-> [l \in Lines |-> IF l \in 1..Maxdispcnt THEN s - c + l ELSE Blank],
               lit |-> {c} ]
  <2>1. CASE c = cnt
    <3>1. lcd' = Highlight(Write(ClearLines(lcd, 1, Maxdispcnt), 1, Maxdispcnt, top), c)
      BY <1>1, <2>1 DEF Turn, UprOffset
    <3>2. ClearLines(lcd, 1, Maxdispcnt) = [row |-> [l \in Lines |-> Blank], lit |-> {}]
      BY <1>1 DEF ClearLines, Lines
    <3>3. lcd' = [ row |-> [l \in Lines |-> IF l \in 1..Maxdispcnt THEN top + (l - 1) ELSE Blank],
                   lit |-> {c} ]
      <4>1. lcd' = Highlight([row |-> [l \in Lines |-> IF l \in 1..Maxdispcnt THEN top + (l - 1) ELSE Blank],
                              lit |-> {}], c)
        BY <3>1, <3>2, WriteOnClear, Zenon DEF Clear
      <4>2. ({} \ {c}) \cup ({c} \ {}) = {c}
        OBVIOUS
      <4>3. lcd' = [ row |-> [l \in Lines |-> IF l \in 1..Maxdispcnt THEN top + (l - 1) ELSE Blank],
                     lit |-> ({} \ {c}) \cup ({c} \ {}) ]
        BY <4>1, HighlightOn, Zenon
      <4> QED BY <4>2, <4>3, Zenon
    <3>4. [l \in Lines |-> IF l \in 1..Maxdispcnt THEN top + (l - 1) ELSE Blank]
            = [l \in Lines |-> IF l \in 1..Maxdispcnt THEN s - c + l ELSE Blank]
      BY <1>1, <2>1 DEF Lines
    <3> QED BY <3>3, <3>4
  <2>2. CASE c # cnt
    <3>1. lcd' = Highlight(Highlight(lcd, cnt), c)
      BY <1>1, <2>2 DEF Turn, UprOffset
    <3>2. lcd' = [row |-> lcd.row, lit |-> {c}]
      BY <1>1, <2>2, <3>1 DEF Highlight
    <3> QED BY <1>1, <2>2, <3>2
  <2> QED BY <2>1, <2>2
<1>4. MenuOK'
  BY <1>1, <1>2, <1>3 DEF MenuOK
<1>5. TypeOK'
  <2>1. lcd' \in [row : [Lines -> Int \cup {Blank}], lit : SUBSET Lines]
    BY <1>1, <1>3 DEF Lines
  <2> QED BY <1>1, <1>2, <2>1 DEF IInv, TypeOK, list
<1>6. ListOK'
  BY DEF ListOK
<1> QED BY <1>4, <1>5, <1>6 DEF IInv

\* Every step of scroll_menu keeps the invariant.
LEMMA MenuSteps ==
    ASSUME IInv, MenuNext, UNCHANGED list
    PROVE  IInv'
<1>1. TypeOK /\ MenuOK /\ MenusAssumption
  BY MenusAssumption DEF IInv
<1>2. ASSUME NEW n \in MenuSizes, NEW s \in 0..(n - 1), CallMenu(n, s)
      PROVE  IInv'
  BY <1>1, <1>2, BeginKeepsMenu DEF CallMenu
<1>3. ASSUME MenuKey
      PROVE  /\ waiting = "menu" /\ waiting' = "menu"
             /\ maxEntries \in MenuSizes /\ maxEntries \in Nat \ {0} /\ maxEntries' = maxEntries
             /\ opt' \in {"none", "ENTER", "CANCEL"} /\ UNCHANGED <<waiting, maxEntries, opt>>
             /\ sel \in 0..(maxEntries - 1) /\ Maxdispcnt \in 1..5 /\ Maxdispcnt <= maxEntries
             /\ cnt \in 1..Maxdispcnt
             /\ sel - cnt + 1 >= 0 /\ sel - cnt + Maxdispcnt < maxEntries
  <2>1. /\ waiting = "menu" /\ waiting' = "menu" /\ UNCHANGED <<waiting, maxEntries, opt>>
        /\ maxEntries' = maxEntries
    BY <1>3 DEF MenuKey
  <2>2. /\ maxEntries \in MenuSizes /\ sel \in 0..(maxEntries - 1) /\ cnt \in 1..Maxdispcnt
        /\ sel - cnt + 1 >= 0 /\ sel - cnt + Maxdispcnt < maxEntries
    BY <1>1, <2>1 DEF MenuOK
  <2>3. maxEntries \in Nat \ {0} /\ opt' \in {"none", "ENTER", "CANCEL"}
    BY <1>1, <2>1, <2>2 DEF MenusAssumption, TypeOK
  <2>4. Maxdispcnt \in 1..5 /\ Maxdispcnt <= maxEntries
    BY <2>3 DEF Maxdispcnt, Shown, RES32
  <2> QED BY <2>1, <2>2, <2>3, <2>4
<1>4. ASSUME MenuKey, NEW s \in 0..(maxEntries - 1), Begin(maxEntries, s)
      PROVE  IInv'
  BY <1>1, <1>3, <1>4, BeginKeepsMenu
<1>5. CASE Home
  <2>1. MenuKey /\ Begin(maxEntries, 0) /\ 0 \in 0..(maxEntries - 1)
    BY <1>3, <1>5 DEF Home
  <2> QED BY <1>4, <2>1
<1>6. CASE End
  <2>1. MenuKey /\ Begin(maxEntries, maxEntries - 1) /\ maxEntries - 1 \in 0..(maxEntries - 1)
    BY <1>3, <1>6 DEF End
  <2> QED BY <1>4, <2>1
<1>7. CASE Down
  <2>1. MenuKey
    BY <1>7 DEF Down
  <2>2. CASE sel + 1 > maxEntries - 1
    <3>1. Begin(maxEntries, 0) /\ 0 \in 0..(maxEntries - 1)
      BY <1>3, <1>7, <2>1, <2>2 DEF Down
    <3> QED BY <1>4, <2>1, <3>1
  <2>3. CASE ~(sel + 1 > maxEntries - 1)
    <3> DEFINE rowno == sel + 1 - (Maxdispcnt - 1)
               top == IF rowno <= 0 THEN 0 ELSE rowno
               c == IF cnt < Maxdispcnt THEN cnt + 1 ELSE cnt
    <3>1. Turn(sel + 1, c, top)
      BY <1>7, <2>3 DEF Down
    <3>2. /\ sel + 1 \in Int /\ c \in Int /\ top \in Int
          /\ sel + 1 \in 0..(maxEntries - 1) /\ c \in 1..Maxdispcnt
          /\ sel + 1 - c + 1 >= 0 /\ sel + 1 - c + Maxdispcnt < maxEntries
          /\ c = cnt => top = sel + 1 - c + 1
          /\ c # cnt => sel + 1 - c = sel - cnt
      BY <1>3, <2>1, <2>3
    <3> HIDE DEF c, top
    <3> QED BY <1>3, <2>1, <3>1, <3>2, TurnKeepsMenu
  <2> QED BY <2>2, <2>3
<1>8. CASE Up
  <2>1. MenuKey
    BY <1>8 DEF Up
  <2>2. CASE sel - 1 < 0
    <3>1. Begin(maxEntries, maxEntries - 1) /\ maxEntries - 1 \in 0..(maxEntries - 1)
      BY <1>3, <1>8, <2>1, <2>2 DEF Up
    <3> QED BY <1>4, <2>1, <3>1
  <2>3. CASE ~(sel - 1 < 0)
    <3> DEFINE c == IF cnt > 1 THEN cnt - 1 ELSE cnt
    <3>1. Turn(sel - 1, c, sel - 1)
      BY <1>8, <2>3 DEF Up
    <3>2. /\ sel - 1 \in Int /\ c \in Int
          /\ sel - 1 \in 0..(maxEntries - 1) /\ c \in 1..Maxdispcnt
          /\ sel - 1 - c + 1 >= 0 /\ sel - 1 - c + Maxdispcnt < maxEntries
          /\ c = cnt => sel - 1 = sel - 1 - c + 1
          /\ c # cnt => sel - 1 - c = sel - cnt
      BY <1>3, <2>1, <2>3
    <3> HIDE DEF c
    <3> QED BY <1>3, <2>1, <3>1, <3>2, TurnKeepsMenu
  <2> QED BY <2>2, <2>3
<1>9. ASSUME NEW key \in {"ENTER", "CANCEL"}, EndMenu(key)
      PROVE  IInv'
  <2>1. TypeOK'
    BY <1>1, <1>9 DEF EndMenu, TypeOK, list
  <2>2. MenuOK' /\ ListOK'
    BY <1>9 DEF EndMenu, MenuOK, ListOK
  <2> QED BY <2>1, <2>2 DEF IInv
<1> QED BY <1>2, <1>5, <1>6, <1>7, <1>8, <1>9 DEF MenuNext

-----------------------------------------------------------------------------
(* The list *)

\* Drawing the page of s in a list keeps the invariant.
LEMMA DrawKeepsList ==
    ASSUME TypeOK, UNCHANGED menu, waiting' = "list",
           NEW n \in ListSizes, NEW m \in 1..5, NEW t \in {0, 1}, NEW s \in 0..(n - 1), m <= n,
           size' = n, MaximumRowsToDisplay' = m, title' = t,
           selected' = s, offset' = (s \div m) * m,
           lcd' = Draw(n, m, t, (s \div m) * m, s),
           res' \in [wasCancelled : BOOLEAN, selectedIndex : Nat, lastSpecialKey : {0, KEY_F6}]
    PROVE  IInv'
<1>1. n \in Nat /\ s \in Nat
  BY ListsAssumption
<1>2. (s \div m) * m \in Nat
  <2> DEFINE k == s \div m
  <2>1. k \in Nat
    BY <1>1, PageOfSelection
  <2> HIDE DEF k
  <2>2. k * m \in Nat
    BY <2>1
  <2> QED BY <2>2 DEF k
<1>3. lcd' \in [row : [Lines -> Int \cup {Blank}], lit : SUBSET Lines]
  BY <1>1, DrawMarksSelection
<1>4. TypeOK'
  <2>1. offset' \in Nat /\ selected' \in Nat
    BY <1>1, <1>2
  <2> HIDE DEF KEY_F6
  <2> QED BY <1>3, <2>1 DEF TypeOK, menu
<1>5. ListOK' /\ MenuOK'
  <2>1. ListOK'
    BY Zenon DEF ListOK
  <2>2. MenuOK'
    BY DEF MenuOK
  <2> QED BY <2>1, <2>2
<1> QED BY <1>4, <1>5 DEF IInv

\* Every step of display_sub_range keeps the invariant.
LEMMA ListSteps ==
    ASSUME IInv, ListNext, UNCHANGED menu
    PROVE  IInv'
<1>1. TypeOK /\ ListOK
  BY DEF IInv
<1>2. ASSUME NEW n \in ListSizes, NEW max \in PageSizes, NEW t \in {0, 1}, CallList(n, max, t)
      PROVE  IInv'
  <2> DEFINE m == IF max > n THEN n ELSE max
  <2>1. n \in Nat \ {0} /\ m \in 1..5 /\ m <= n /\ 0 \in 0..(n - 1)
    BY <1>2, ListsAssumption DEF CallList
  <2>2. /\ waiting' = "list" /\ size' = n /\ MaximumRowsToDisplay' = m /\ title' = t
        /\ selected' = 0 /\ offset' = 0 /\ lcd' = Draw(n, m, t, 0, 0)
        /\ res' = [res EXCEPT !.wasCancelled = FALSE]
    BY <1>2 DEF CallList
  <2>3. res' \in [wasCancelled : BOOLEAN, selectedIndex : Nat, lastSpecialKey : {0, KEY_F6}]
    BY <1>1, <2>2 DEF TypeOK
  <2> HIDE DEF m
  <2>4. (0 \div m) * m = 0
    BY <2>1
  <2>5. offset' = (0 \div m) * m /\ lcd' = Draw(n, m, t, (0 \div m) * m, 0)
    BY <2>2, <2>4
  <2> QED BY <1>1, <2>1, <2>2, <2>3, <2>5, DrawKeepsList
<1>3. CASE CallEmpty
  <2>1. Clear \in [row : [Lines -> Int \cup {Blank}], lit : SUBSET Lines]
    BY DEF Clear
  <2>2. res' \in [wasCancelled : BOOLEAN, selectedIndex : Nat, lastSpecialKey : {0, KEY_F6}]
    BY <1>1, <1>3 DEF TypeOK, CallEmpty
  <2>3. TypeOK'
    BY <1>1, <1>3, <2>1, <2>2, EmptyAssumption DEF TypeOK, CallEmpty, menu
  <2> QED BY <1>3, <2>3 DEF IInv, CallEmpty, MenuOK, ListOK
<1>4. CASE DismissEmpty
  <2>1. TypeOK'
    BY <1>1, <1>4 DEF TypeOK, DismissEmpty, list, menu
  <2> QED BY <1>4, <2>1 DEF IInv, DismissEmpty, MenuOK, ListOK
<1>5. ASSUME NEW s \in Int, Select(s)
      PROVE  IInv'
  <2> DEFINE m == MaximumRowsToDisplay
  <2>1. /\ waiting = "list" /\ waiting' = "list" /\ s \in 0..(size - 1)
        /\ size' = size /\ m' = m /\ title' = title /\ selected' = s
        /\ offset' = (s \div m) * m /\ lcd' = Draw(size, m, title, (s \div m) * m, s)
        /\ res' = [res EXCEPT !.lastSpecialKey = 0]
    BY <1>5 DEF Select
  <2>2. size \in ListSizes /\ m \in 1..5 /\ title \in {0, 1} /\ m <= size
    BY <1>1, <2>1 DEF TypeOK, ListOK
  <2>3. res' \in [wasCancelled : BOOLEAN, selectedIndex : Nat, lastSpecialKey : {0, KEY_F6}]
    BY <1>1, <2>1 DEF TypeOK
  <2> QED BY <1>1, <2>1, <2>2, <2>3, DrawKeepsList
<1>6. selected - 1 \in Int /\ selected + 1 \in Int /\ selected \in Int
  BY <1>1 DEF TypeOK
<1>7. ASSUME NEW c \in BOOLEAN, NEW k \in {0, KEY_F6}, EndList(c, k)
      PROVE  IInv'
  <2>1. TypeOK'
    BY <1>1, <1>7 DEF TypeOK, EndList, menu
  <2> QED BY <1>7, <2>1 DEF IInv, EndList, MenuOK, ListOK
<1>8. title \in {0, 1}
  BY <1>1 DEF TypeOK
<1> QED BY <1>2, <1>3, <1>4, <1>5, <1>6, <1>7, <1>8 DEF ListNext

-----------------------------------------------------------------------------
(* The invariant holds in every behaviour. *)
THEOREM Invariance == Spec => []IInv
<1>1. Init => IInv
  <2> SUFFICES ASSUME Init PROVE IInv
    OBVIOUS
  <2>1. TypeOK
    <3>1. lcd \in [row : [Lines -> Int \cup {Blank}], lit : SUBSET Lines]
      BY DEF Init, Clear
    <3>2. res \in [wasCancelled : BOOLEAN, selectedIndex : Nat, lastSpecialKey : {0, KEY_F6}]
      BY DEF Init, ListInit
    <3>3. MaximumRowsToDisplay \in 1..5 /\ title \in {0, 1} /\ size \in ListSizes
      <4>1. MaximumRowsToDisplay = 1 /\ title = 0 /\ size = 0
        BY DEF Init, ListInit
      <4>2. title \in {0, 1}
        BY <4>1, Zenon
      <4> QED BY <4>1, <4>2, EmptyAssumption DEF EmptyAssumption
    <3> QED BY <3>1, <3>2, <3>3 DEF Init, MenuInit, ListInit, TypeOK
  <2> QED BY <2>1 DEF IInv, Init, MenuOK, ListOK
<1>2. IInv /\ [Next]_menus => IInv'
  <2> SUFFICES ASSUME IInv, [Next]_menus PROVE IInv'
    OBVIOUS
  <2>1. CASE MenuNext /\ UNCHANGED list
    BY <2>1, MenuSteps
  <2>2. CASE ListNext /\ UNCHANGED menu
    BY <2>2, ListSteps
  <2>3. CASE UNCHANGED menus
    <3>1. TypeOK' /\ MenuOK' /\ ListOK'
      BY <2>3 DEF IInv, TypeOK, MenuOK, ListOK, Maxdispcnt, Shown, menus, menu, list
    <3> QED BY <3>1 DEF IInv
  <2> QED BY <2>1, <2>2, <2>3 DEF Next
<1> QED BY <1>1, <1>2, PTL DEF Spec

\* On every display one line is highlighted, and it shows what ENTER takes.
LEMMA MarkedFromInvariant == IInv => OneIsMarked
<1> SUFFICES ASSUME IInv PROVE OneIsMarked
  OBVIOUS
<1>1. CASE waiting = "menu"
  <2>1. /\ cnt \in 1..Maxdispcnt /\ sel \in Int /\ maxEntries \in Nat \ {0}
        /\ lcd = [ row |-> [l \in Lines |-> IF l \in 1..Maxdispcnt THEN sel - cnt + l ELSE Blank],
                   lit |-> {cnt} ]
    <3>1. /\ cnt \in 1..Maxdispcnt /\ sel \in 0..(maxEntries - 1) /\ maxEntries \in MenuSizes
          /\ lcd = [ row |-> [l \in Lines |-> IF l \in 1..Maxdispcnt THEN sel - cnt + l ELSE Blank],
                     lit |-> {cnt} ]
      BY <1>1, Zenon DEF IInv, MenuOK
    <3> QED BY <3>1, MenusAssumption
  <2>2. cnt \in Int /\ cnt \in Lines
    BY <2>1 DEF Maxdispcnt, Shown, RES32, Lines
  <2>3. lcd.lit = {cnt} /\ lcd.row[cnt] = sel
    BY <2>1, <2>2
  <2> QED BY <1>1, <2>2, <2>3 DEF OneIsMarked
<1>2. CASE waiting = "list"
  <2>1. /\ selected \in 0..(size - 1) /\ offset = (selected \div MaximumRowsToDisplay) * MaximumRowsToDisplay
        /\ lcd = Draw(size, MaximumRowsToDisplay, title, offset, selected)
    BY <1>2, Zenon DEF IInv, ListOK
  <2>2. size \in Nat /\ MaximumRowsToDisplay \in 1..5 /\ title \in {0, 1}
    BY ListsAssumption DEF IInv, TypeOK
  <2>3. Marks(Draw(size, MaximumRowsToDisplay, title, offset, selected), selected)
    BY <2>1, <2>2, DrawMarksSelection
  <2>4. Marks(lcd, selected)
    BY <2>1, <2>3, Zenon
  <2> QED BY <1>2, <2>4 DEF OneIsMarked, Marks
<1> QED BY <1>1, <1>2 DEF OneIsMarked

\* OneIsMarked: while either menu waits for a key, one line is highlighted, and it
\* is the one that ENTER would answer (scroll_menu, display_sub_range).
THEOREM SelectionIsMarked == Spec => []OneIsMarked
BY Invariance, MarkedFromInvariant, PTL

-----------------------------------------------------------------------------
(* Nothing is left out *)

\* The display d shows the items of the page of s, each on its line.
ShowsPage(d, n, m, t, s) ==
    \A l \in Lines :
        LET i == (s \div m) * m + l - t
        IN  d.row[l] = IF i \in 0..(n - 1) /\ i \div m = s \div m THEN i ELSE Blank

\* Drawing a page writes all of its items, each on its line.
LEMMA DrawIsWhole ==
    \A n \in Nat, m \in 1..5, t \in {0, 1} : \A s \in 0..(n - 1) :
        ShowsPage(Draw(n, m, t, (s \div m) * m, s), n, m, t, s)
<1> TAKE n \in Nat, m \in 1..5, t \in {0, 1}
<1> TAKE s \in 0..(n - 1)
<1> SUFFICES ASSUME NEW l \in Lines
             PROVE  LET i == (s \div m) * m + l - t
                    IN  Draw(n, m, t, (s \div m) * m, s).row[l]
                          = IF i \in 0..(n - 1) /\ i \div m = s \div m THEN i ELSE Blank
  BY DEF ShowsPage
<1> DEFINE k == s \div m
           i == k * m + l - t
           page == Page(n, m, k * m)
<1>1. k \in Nat /\ k * m \in Nat /\ i \in Int
  <2>1. k \in Nat
    BY PageOfSelection
  <2> HIDE DEF k
  <2>2. k * m \in Nat
    BY <2>1
  <2> QED BY <2>1, <2>2 DEF Lines
<1>2. \A j \in page : j \in Int /\ (LineOf(j, m, t) = l <=> j = i)
  <2> SUFFICES ASSUME NEW j \in page PROVE j \in Int /\ (LineOf(j, m, t) = l <=> j = i)
    OBVIOUS
  <2>1. j \in (k * m)..(k * m + m - 1)
    BY <1>1 DEF Page
  <2>2. j % m = j - k * m
    BY <1>1, <2>1, PageArithmetic
  <2> HIDE DEF k
  <2>3. k * m \in Int /\ j \in Int
    BY <1>1, <2>1
  <2> QED BY <2>2, <2>3 DEF LineOf, Lines
<1>3. i \in page <=> i \in 0..(n - 1) /\ i \div m = k
  <2>1. ASSUME i \in page PROVE i \in 0..(n - 1) /\ i \div m = k
    <3>1. i \in (k * m)..(k * m + m - 1) /\ i < n
      BY <1>1, <2>1 DEF Page
    <3>2. i \div m = k
      BY <1>1, <3>1, PageArithmetic
    <3> HIDE DEF k, i
    <3> QED BY <1>1, <3>1, <3>2
  <2>2. ASSUME i \in 0..(n - 1), i \div m = k PROVE i \in page
    <3> HIDE DEF i
    <3>1. i \in Nat
      BY <2>2
    <3>2. i \in ((i \div m) * m)..((i \div m) * m + m - 1)
      BY <3>1, PageOfSelection
    <3> HIDE DEF k
    <3> QED BY <2>2, <3>2 DEF Page
  <2> QED BY <2>1, <2>2
<1>4. Draw(n, m, t, k * m, s).row[l]
        = IF \E j \in page : LineOf(j, m, t) = l
          THEN CHOOSE j \in page : LineOf(j, m, t) = l ELSE Blank
  BY DEF Draw
<1> HIDE DEF page, i, k
<1>5. CASE i \in page
  <2>1. (CHOOSE j \in page : LineOf(j, m, t) = l) = i
    BY <1>2, <1>5
  <2> QED BY <1>2, <1>3, <1>4, <1>5, <2>1 DEF i, k
<1>6. CASE i \notin page
  <2>1. ~ \E j \in page : LineOf(j, m, t) = l
    BY <1>2, <1>6
  <2> QED BY <1>3, <1>4, <1>6, <2>1 DEF i, k
<1> QED BY <1>5, <1>6

\* That no line is missing is a consequence of the invariant.
LEMMA WholeFromInvariant == IInv => PageIsWhole
<1> SUFFICES ASSUME IInv PROVE PageIsWhole
  OBVIOUS
<1>1. ASSUME waiting = "menu" PROVE MenuIsWhole
  <2>1. /\ cnt \in 1..Maxdispcnt /\ sel \in 0..(maxEntries - 1) /\ maxEntries \in Nat \ {0}
        /\ number = sel + 1 /\ sel - cnt + 1 >= 0 /\ sel - cnt + Maxdispcnt < maxEntries
        /\ lcd = [ row |-> [l \in Lines |-> IF l \in 1..Maxdispcnt THEN sel - cnt + l ELSE Blank],
                   lit |-> {cnt} ]
    <3>1. /\ cnt \in 1..Maxdispcnt /\ sel \in 0..(maxEntries - 1) /\ maxEntries \in MenuSizes
          /\ number = sel + 1 /\ sel - cnt + 1 >= 0 /\ sel - cnt + Maxdispcnt < maxEntries
          /\ lcd = [ row |-> [l \in Lines |-> IF l \in 1..Maxdispcnt THEN sel - cnt + l ELSE Blank],
                     lit |-> {cnt} ]
      BY <1>1, Zenon DEF IInv, MenuOK
    <3> QED BY <3>1, MenusAssumption
  <2>2. Maxdispcnt \in 1..5 /\ 1..Maxdispcnt \subseteq Lines
    BY <2>1 DEF Maxdispcnt, Shown, RES32, Lines
  <2>3. \A l \in Lines : lcd.row[l] = IF l \in 1..Maxdispcnt THEN sel - cnt + l ELSE Blank
    BY <2>1
  <2>4. \A l \in 1..Maxdispcnt : Window[l] = sel - cnt + l
    BY <2>2, <2>3 DEF Window, UprOffset
  <2>5. Window[1] = sel - cnt + 1
    BY <2>2, <2>4
  <2> QED BY <2>1, <2>2, <2>3, <2>4, <2>5 DEF MenuIsWhole
<1>2. ASSUME waiting = "list" PROVE ListIsWhole
  <2> DEFINE m == MaximumRowsToDisplay
  <2>1. /\ selected \in 0..(size - 1) /\ offset = (selected \div m) * m
        /\ lcd = Draw(size, m, title, offset, selected)
    BY <1>2, Zenon DEF IInv, ListOK
  <2>2. size \in Nat /\ m \in 1..5 /\ title \in {0, 1}
    BY ListsAssumption DEF IInv, TypeOK
  <2> HIDE DEF m
  <2>3. lcd = Draw(size, m, title, (selected \div m) * m, selected)
    BY <2>1, Zenon
  <2>4. ShowsPage(lcd, size, m, title, selected)
    <3>1. ShowsPage(Draw(size, m, title, (selected \div m) * m, selected), size, m, title, selected)
      BY <2>1, <2>2, DrawIsWhole
    <3> QED BY <2>3, <3>1, Zenon
  <2> QED BY <2>4 DEF ListIsWhole, ShowsPage, m
<1> QED BY <1>1, <1>2 DEF PageIsWhole

\* On every display everything that can be picked is shown, and nothing else.
THEOREM PagesAreWhole == Spec => []PageIsWhole
BY Invariance, WholeFromInvariant, PTL

-----------------------------------------------------------------------------
(* Menus and lists are pickers *)

\* What Picker sees: which item is marked and which was answered.
MenuMarked == IF waiting = "menu" THEN sel ELSE Blank
ListMarked == IF waiting = "list" THEN selected ELSE Blank
MenuAnswer == IF waiting # "menu" /\ opt = "ENTER" THEN sel ELSE Blank
ListAnswer == IF waiting # "list" /\ ~res.wasCancelled THEN res.selectedIndex ELSE Blank

\* What the abstract picker calls marked is the highlighted line, while its menu waits.
LEMMA MarkedLine ==
    IInv => /\ MenuMarked = IF waiting = "menu" THEN OnMarkedLine ELSE Blank
            /\ ListMarked = IF waiting = "list" THEN OnMarkedLine ELSE Blank
<1> SUFFICES ASSUME IInv
             PROVE  /\ waiting = "menu" => OnMarkedLine = sel
                    /\ waiting = "list" => OnMarkedLine = selected
  BY DEF MenuMarked, ListMarked
<1>1. OneIsMarked
  BY MarkedFromInvariant
<1>2. ASSUME NEW i, NEW l \in Lines, lcd.lit = {l}, lcd.row[l] = i
      PROVE  OnMarkedLine = i
  <2>1. \A k \in Lines : lcd.lit = {k} <=> k = l
    BY <1>2
  <2>2. (CHOOSE k \in Lines : lcd.lit = {k}) = l
    BY <2>1
  <2> QED BY <1>2, <2>2 DEF OnMarkedLine
<1> QED BY <1>1, <1>2 DEF OneIsMarked

\* The steps of a picker with values before and after.
LEMMA MenuRefines ==
    ASSUME IInv, IInv', [Next]_menus
    PROVE  [MenuPicker!PickerNext]_(MenuPicker!picker)
<1>1. /\ MenuMarked  = IF waiting = "menu" THEN OnMarkedLine ELSE Blank
      /\ MenuMarked' = IF waiting' = "menu" THEN OnMarkedLine' ELSE Blank
  <2>1. (MenuMarked = IF waiting = "menu" THEN OnMarkedLine ELSE Blank)'
    BY MarkedLine, PTL
  <2> QED BY MarkedLine, <2>1
<1>2. /\ maxEntries \in Nat /\ sel \in Nat /\ sel' \in Nat
      /\ waiting = "menu" => sel \in 0..(maxEntries - 1)
      /\ waiting' = "menu" => sel' \in 0..(maxEntries' - 1)
      /\ Blank \notin Int
  BY BlankAssumption, MenusAssumption DEF IInv, TypeOK, MenuOK
<1> SUFFICES
       \/ \E n \in MenuSizes : /\ MenuMarked = Blank /\ maxEntries' = n
                                 /\ MenuMarked' \in 0..(n - 1) /\ MenuAnswer' = Blank
       \/ /\ MenuMarked # Blank /\ MenuMarked' \in 0..(maxEntries - 1)
          /\ maxEntries' = maxEntries /\ MenuAnswer' = MenuAnswer
       \/ /\ MenuMarked # Blank /\ MenuAnswer' = MenuMarked /\ MenuMarked' = Blank
          /\ maxEntries' = maxEntries
       \/ /\ MenuMarked # Blank /\ MenuAnswer' = Blank /\ MenuMarked' = Blank
          /\ maxEntries' = maxEntries
       \/ MenuMarked' = MenuMarked /\ MenuAnswer' = MenuAnswer /\ maxEntries' = maxEntries
  BY <1>1 DEF MenuAnswer, MenuPicker!PickerNext, MenuPicker!Offer, MenuPicker!Move, MenuPicker!Pick,
              MenuPicker!Leave, MenuPicker!picker
<1>3. ASSUME NEW n \in MenuSizes, NEW s \in 0..(n - 1), CallMenu(n, s)
      PROVE  /\ MenuMarked = Blank /\ maxEntries' = n
             /\ MenuMarked' \in 0..(n - 1) /\ MenuAnswer' = Blank
  BY <1>2, <1>3 DEF CallMenu, MenuMarked, MenuAnswer
<1>4. ASSUME MenuKey
      PROVE  /\ MenuMarked # Blank /\ MenuMarked' \in 0..(maxEntries - 1)
             /\ maxEntries' = maxEntries /\ MenuAnswer' = MenuAnswer
  BY <1>2, <1>4 DEF MenuKey, MenuMarked, MenuAnswer
<1>5. ASSUME EndMenu("ENTER")
      PROVE  MenuMarked # Blank /\ MenuAnswer' = MenuMarked /\ MenuMarked' = Blank /\ maxEntries' = maxEntries
  BY <1>2, <1>5 DEF EndMenu, MenuMarked, MenuAnswer
<1>6. ASSUME EndMenu("CANCEL")
      PROVE  MenuMarked # Blank /\ MenuAnswer' = Blank /\ MenuMarked' = Blank /\ maxEntries' = maxEntries
  BY <1>2, <1>6 DEF EndMenu, MenuMarked, MenuAnswer
<1>7. ASSUME ListNext \/ UNCHANGED waiting, UNCHANGED menu
      PROVE  MenuMarked' = MenuMarked /\ MenuAnswer' = MenuAnswer /\ maxEntries' = maxEntries
  <2>1. (waiting = "menu") = (waiting' = "menu")
    BY <1>7 DEF ListNext, CallList, CallEmpty, DismissEmpty, Select, EndList
  <2> QED BY <1>7, <2>1 DEF menu, MenuMarked, MenuAnswer
<1>8. CASE MenuNext
  BY <1>3, <1>4, <1>5, <1>6, <1>8 DEF MenuNext, Home, End, Down, Up
<1>9. CASE ListNext /\ UNCHANGED menu
  BY <1>7, <1>9
<1>10. CASE UNCHANGED menus
  BY <1>7, <1>10 DEF menus
<1> QED BY <1>8, <1>9, <1>10 DEF Next

\* Every step of display_sub_range, seen from the line it marks and what it
\* answers, is a step of Picker.
LEMMA ListRefines ==
    ASSUME IInv, IInv', [Next]_menus
    PROVE  [ListPicker!PickerNext]_(ListPicker!picker)
<1>1. /\ ListMarked  = IF waiting = "list" THEN OnMarkedLine ELSE Blank
      /\ ListMarked' = IF waiting' = "list" THEN OnMarkedLine' ELSE Blank
  <2>1. (ListMarked = IF waiting = "list" THEN OnMarkedLine ELSE Blank)'
    BY MarkedLine, PTL
  <2> QED BY MarkedLine, <2>1
<1>2. /\ size \in Nat /\ selected \in Nat /\ selected' \in Nat
      /\ waiting = "list" => selected \in 0..(size - 1)
      /\ waiting' = "list" => selected' \in 0..(size' - 1)
      /\ res \in [wasCancelled : BOOLEAN, selectedIndex : Nat, lastSpecialKey : {0, KEY_F6}]
      /\ Blank \notin Int
  BY BlankAssumption, ListsAssumption DEF IInv, TypeOK, ListOK
<1> SUFFICES
       \/ \E n \in ListSizes : /\ ListMarked = Blank /\ size' = n
                                 /\ ListMarked' \in 0..(n - 1) /\ ListAnswer' = Blank
       \/ ListMarked = Blank /\ size' = 0 /\ ListAnswer' = Blank /\ ListMarked' = ListMarked
       \/ /\ ListMarked # Blank /\ ListMarked' \in 0..(size - 1)
          /\ size' = size /\ ListAnswer' = ListAnswer
       \/ /\ ListMarked # Blank /\ ListAnswer' = ListMarked /\ ListMarked' = Blank
          /\ size' = size
       \/ /\ ListMarked # Blank /\ ListAnswer' = Blank /\ ListMarked' = Blank
          /\ size' = size
       \/ ListMarked' = ListMarked /\ ListAnswer' = ListAnswer /\ size' = size
  BY <1>1 DEF ListAnswer, ListPicker!PickerNext, ListPicker!Offer, ListPicker!OfferNothing, ListPicker!Move,
              ListPicker!Pick, ListPicker!Leave, ListPicker!picker
<1>3. ASSUME NEW n \in ListSizes, NEW max \in PageSizes, NEW t \in {0, 1}, CallList(n, max, t)
      PROVE  /\ ListMarked = Blank /\ size' = n
             /\ ListMarked' \in 0..(n - 1) /\ ListAnswer' = Blank
  BY <1>2, <1>3 DEF CallList, ListMarked, ListAnswer
<1>4. ASSUME CallEmpty
      PROVE  ListMarked = Blank /\ size' = 0 /\ ListAnswer' = Blank /\ ListMarked' = ListMarked
  <2>1. res'.wasCancelled = TRUE
    BY <1>2, <1>4 DEF CallEmpty
  <2> QED BY <1>4, <2>1 DEF CallEmpty, ListMarked, ListAnswer
<1>5. ASSUME NEW s, Select(s)
      PROVE  /\ ListMarked # Blank /\ ListMarked' \in 0..(size - 1)
             /\ size' = size /\ ListAnswer' = ListAnswer
  BY <1>2, <1>5 DEF Select, ListMarked, ListAnswer
<1>6. ASSUME NEW c \in BOOLEAN, NEW k, EndList(c, k)
      PROVE  /\ ListMarked # Blank /\ ListMarked' = Blank /\ size' = size
             /\ ListAnswer' = IF c THEN Blank ELSE ListMarked
  BY <1>2, <1>6 DEF EndList, ListMarked, ListAnswer
<1>7. ASSUME waiting' # "list", waiting # "list", UNCHANGED list
      PROVE  ListMarked' = ListMarked /\ ListAnswer' = ListAnswer /\ size' = size
  BY <1>7 DEF list, ListMarked, ListAnswer
<1>8. CASE MenuNext /\ UNCHANGED list
  <2>1. waiting # "list" /\ waiting' # "list"
    BY <1>8 DEF MenuNext, CallMenu, Home, End, Down, Up, EndMenu, MenuKey
  <2> QED BY <1>7, <1>8, <2>1
<1>9. CASE ListNext
  <2>1. CASE DismissEmpty
    BY <1>7, <2>1 DEF DismissEmpty
  <2>2. CASE \E c \in BOOLEAN, k \in {0, KEY_F6} : EndList(c, k)
    BY <1>6, <2>2
  <2>3. CASE \E s \in Int : Select(s)
    BY <1>5, <2>3
  <2>4. (title = 1) \in BOOLEAN /\ selected - 1 \in Int /\ selected + 1 \in Int /\ selected \in Int
    BY <1>2
  <2> HIDE DEF KEY_F6
  <2> QED BY <1>3, <1>4, <1>9, <2>1, <2>2, <2>3, <2>4 DEF ListNext
<1>10. CASE UNCHANGED menus
  BY <1>10 DEF menus, list, ListMarked, ListAnswer
<1> QED BY <1>8, <1>9, <1>10 DEF Next

\* What the caller of a menu or a list gets is what was highlighted when the key
\* was pressed, for all sizes.
THEOREM MenusArePickers == Spec => ImplementsPicker
<1>1. Init => MenuPicker!PickerInit /\ ListPicker!PickerInit
  BY DEF Init, MenuInit, ListInit, MenuPicker!PickerInit, ListPicker!PickerInit
<1>2. IInv /\ IInv' /\ [Next]_menus => [MenuPicker!PickerNext]_(MenuPicker!picker)
  BY MenuRefines
<1>3. IInv /\ IInv' /\ [Next]_menus => [ListPicker!PickerNext]_(ListPicker!picker)
  BY ListRefines
<1> QED BY <1>1, <1>2, <1>3, Invariance, PTL
        DEF Spec, ImplementsPicker, MenuPicker!PickerSpec, ListPicker!PickerSpec
=============================================================================
