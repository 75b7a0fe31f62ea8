----------------------------- MODULE MCTerminal -----------------------------
(***************************************************************************)
(* Two sticks, one of which has its files on its second partition.  One    *)
(* has a database with another account, a short date and no table of items;*)
(* configurations give a key twice, or a blank value, and have all lines.  *)
(***************************************************************************)
EXTENDS Terminal

CONSTANTS s1, s2

MCSticks      == {s1, s2}
MCPartitionOf == s1 :> 1 @@ s2 :> 2
MCUsers       == {101010, 101011}
MCHeadingKeys == <<"Company_Title_L1", "Company_Addr_L1">>
MCKeys        == {"Company_Title_L1", "Company_Addr_L1"}

Entry(k, v) == [key |-> k, value |-> v]

Config1 ==
    << Entry("Company_Addr_L1", "Kochi"), Entry("Company_Title_L1", "Klok"), EmptyLine,
       Entry("Company_Title_L1", "none") >>
Config2 ==
    << Entry("Company_Title_L1", "Klok"), Entry(NoKey, Blank), Entry("Company_Title_L1", "Innovations"),
       Entry("Company_Title_L1", Blank) >>

Parts(c)  == {SubSeq(c, 1, n) : n \in 0..Len(c)}
MCConfigs == Parts(Config1) \cup Parts(Config2)

\* A database that was delivered, or one that came from elsewhere.
Db(users, ours) == [accounts |-> users, changes |-> 0, short |-> ~ours, items |-> ours]

MCFirstFlash == [db |-> Db(MCUsers, TRUE), cfg |-> Config1]
MCFirstMedia == { s1 :> [db |-> Missing, cfg |-> Config2] @@ s2 :> [db |-> Db({101010}, FALSE), cfg |-> Missing] }
=============================================================================
