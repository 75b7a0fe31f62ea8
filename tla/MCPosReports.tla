---------------------------- MODULE MCPosReports ----------------------------
(***************************************************************************)
(* PosReports on a shop with two products whose amounts stay within the    *)
(* six digits that tostr keeps.                                            *)
(***************************************************************************)
EXTENDS PosReports

MCRate        == 1 :> 50 @@ 2 :> 20
OneRate       == 1 :> 50
MCAdjustments == {0, -1}
=============================================================================
