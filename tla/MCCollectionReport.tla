------------------------- MODULE MCCollectionReport -------------------------
(***************************************************************************)
(* CollectionReport on small tables: two years, months and days, two       *)
(* customers, and a row as the repository's database has, without a date   *)
(* and with a customer of one digit.                                       *)
(***************************************************************************)
EXTENDS CollectionReport

Row(date, cust, net) == [Date_Time |-> date, Cust_ID |-> cust, Net_Amt |-> net]

Rows == { Row(<<>>, <<>>, 0), Row(<<16, 10, 5>>, <<101002>>, 2500), Row(<<16, 12, 5>>, <<101001>>, -10),
          Row(<<17, 1, 1>>, <<101001>>, 100) }

MCTables == UNION {[1..n -> Rows] : n \in 0..3}
=============================================================================
