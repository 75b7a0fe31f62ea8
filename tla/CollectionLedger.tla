--------------------------- MODULE CollectionLedger ---------------------------
(***************************************************************************)
(* What pay collection promises when nothing fails: a ledger in which each *)
(* collection is one step.  An entry is added at the end, and the balance  *)
(* of its customer, and of no other, moves by the net amount of the entry, *)
(* give or take the fraction of a unit.                                    *)
(***************************************************************************)
EXTENDS Integers, Sequences

CONSTANTS Entries, FirstEntries, FirstBalance

VARIABLES entries, balance
ledger == <<entries, balance>>

\* A unit is a hundred hundredths.
Fractions == -99..99

LedgerInit ==
    /\ entries = FirstEntries
    /\ balance = FirstBalance

\* The entry is the one that is last afterwards.
Post ==
    LET e == entries'[Len(entries')]
    IN  /\ e \in Entries
        /\ \A i \in DOMAIN entries : entries[i].Trans_No < e.Trans_No
        /\ entries' = Append(entries, e)
        /\ \E f \in Fractions :
              balance' = [balance EXCEPT ![e.Cust_ID] = @ - f + e.Net_Amt]

LedgerSpec == LedgerInit /\ [][Post]_ledger
=============================================================================
