---------------------------- MODULE MCPosBilling ----------------------------
(***************************************************************************)
(* PosBilling on a small shop.  Product 3 has a sales_rate that does not   *)
(* parse.  The rates bring totals past the six digits that tostr keeps,    *)
(* with a tie (1600005) among them.                                        *)
(***************************************************************************)
EXTENDS PosBilling

MCProducts == {1, 2, 3}
MCPriced   == {1, 2}
MCAdjustments == {0, -1}
MCRate     == 1 :> 600000 @@ 2 :> 200003
=============================================================================
