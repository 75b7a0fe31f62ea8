\* Menus and lists on one display.
SPECIFICATION Spec
CONSTANTS
    MenuSizes <- MCMenuSizes
    ListSizes <- MCListSizes
    PageSizes <- MCPageSizes
    Blank = Blank
INVARIANTS
    OneIsMarked
    PageIsWhole
PROPERTIES
    ImplementsPicker
