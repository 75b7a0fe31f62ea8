--------------------------- MODULE MCPayCollection ---------------------------
(***************************************************************************)
(* PayCollection on a terminal with three customers, of which it lists two *)
(* (in hundredths, one balance with a fraction and one below zero), and    *)
(* with transactions of one of two users, as the repository's database     *)
(* has, or of both.                                                        *)
(***************************************************************************)
EXTENDS PayCollection

MCCustomers == {1, 2, 3}
MCOpening   == <<2050, -1275, 0>>

Sold(n, c, u) ==
    [ Trans_No |-> n, Cust_ID |-> c, User_ID |-> u,
      Grs_Amt |-> 3000, Add_Less |-> -500, Net_Amt |-> 2500 ]

AlexOnly == << Sold(2, 2, 101011) >>
Both     == << Sold(2, 2, 101011), Sold(3, 1, 101010) >>
=============================================================================
