------------------------------ MODULE MCMenus ------------------------------
(***************************************************************************)
(* Menus with the sizes the terminal has: fewer entries than lines, as     *)
(* many, and more (Reports has seven); and lists from none to three pages. *)
(***************************************************************************)
EXTENDS Menus

MCMenuSizes == {2, 3, 5, 7}
MCListSizes == {0, 1, 3, 4, 5, 6, 11}
MCPageSizes == {4, 5}
=============================================================================
