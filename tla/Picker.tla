------------------------------- MODULE Picker -------------------------------
(***************************************************************************)
(* What every menu and list of the terminal promises its caller: as long   *)
(* as it is open, one of its items is marked; the user may have any other  *)
(* marked instead; and the item answered is the one that was marked.       *)
(***************************************************************************)
EXTENDS Naturals

CONSTANTS
    Sizes,      \* how many items there may be
    NoItem

VARIABLES
    size,       \* how many items are offered
    marked,     \* the item that is marked; NoItem: nothing is offered
    answer      \* the item last answered; NoItem: it was left without one

picker == <<size, marked, answer>>

PickerInit == size = 0 /\ marked = NoItem /\ answer = NoItem

\* Some item of n is marked at first.
Offer(n) ==
    /\ marked = NoItem
    /\ n \in Sizes
    /\ size' = n
    /\ marked' \in 0..(n - 1)
    /\ answer' = NoItem

\* There is nothing to offer.
OfferNothing == marked = NoItem /\ size' = 0 /\ answer' = NoItem /\ UNCHANGED marked

Move ==
    /\ marked # NoItem
    /\ marked' \in 0..(size - 1)
    /\ UNCHANGED <<size, answer>>

Pick == marked # NoItem /\ answer' = marked /\ marked' = NoItem /\ UNCHANGED size

Leave == marked # NoItem /\ answer' = NoItem /\ marked' = NoItem /\ UNCHANGED size

PickerNext == (\E n \in Sizes : Offer(n)) \/ OfferNothing \/ Move \/ Pick \/ Leave

PickerSpec == PickerInit /\ [][PickerNext]_picker
=============================================================================
