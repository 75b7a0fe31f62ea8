------------------------------ MODULE BillBook ------------------------------
(***************************************************************************)
(* What the two bill tables promise the reports that read them: a book of  *)
(* numbered bills.  One bill at most is being written; a bill once written *)
(* is live, or torn if its writing was interrupted; it can be cancelled    *)
(* and is then never live again; its net amount never changes; numbers     *)
(* grow until the whole book is discarded.                                 *)
(***************************************************************************)
EXTENDS Naturals

CONSTANTS Numbers, Nets, NoNet

VARIABLES status, net
book == <<status, net>>

Written == {"live", "torn"}
Used    == {b \in Numbers : status[b] # "none"}

BookInit ==
    /\ status = [b \in Numbers |-> "none"]
    /\ net = [b \in Numbers |-> NoNet]

\* A new number, above all those in use, with its net amount.
Open(b) ==
    /\ \A c \in Used : c < b /\ status[c] # "open"
    /\ status' = [status EXCEPT ![b] = "open"]
    /\ \E n \in Nets : net' = [net EXCEPT ![b] = n]

\* All the lines of the open bill are in.
Close(b) ==
    /\ status[b] = "open"
    /\ status' = [status EXCEPT ![b] = "live"]
    /\ UNCHANGED net

\* The writing of the open bill is given up.
Tear(b) ==
    /\ status[b] = "open"
    /\ status' = [status EXCEPT ![b] = "torn"]
    /\ UNCHANGED net

Cancel(b) ==
    /\ status[b] \in Written
    /\ status' = [status EXCEPT ![b] = "cancelled"]
    /\ UNCHANGED net

\* The lines of all bills are thrown away, in preparation of Discard: bills
\* that have lines are torn from here on.
Strip ==
    /\ \A b \in Numbers : status[b] # "open"
    /\ \E S \in SUBSET {b \in Numbers : status[b] = "live"} :
          status' = [b \in Numbers |-> IF b \in S THEN "torn" ELSE status[b]]
    /\ UNCHANGED net

Discard ==
    /\ \A b \in Numbers : status[b] # "open"
    /\ status' = [b \in Numbers |-> "none"]
    /\ net' = [b \in Numbers |-> NoNet]

BookNext ==
    \/ \E b \in Numbers : Open(b) \/ Close(b) \/ Tear(b) \/ Cancel(b)
    \/ Strip
    \/ Discard

BookSpec == BookInit /\ [][BookNext]_book

\* An open bill does not stay open.
BookFairSpec ==
    BookSpec /\ WF_book(\E b \in Numbers : Close(b) \/ Tear(b))
=============================================================================
