---------------------------- MODULE MCPriceCache ----------------------------
(***************************************************************************)
(* An instance of PriceCache: two runs, interchangeable, one token and two *)
(* days, the first with a NULL an older build left.  Points come out late, *)
(* so that a run's chart can lack a day that another's has.                *)
(***************************************************************************)
EXTENDS PriceCache, TLC

CONSTANTS listed, p1, p2

OneToken == {listed}
TwoRuns == {p1, p2}
Interchangeable == Permutations(Runs)

EveryDay == [k \in Tokens |-> Days]
LastDayOnly == [k \in Tokens |-> {LastDay}]

OldPoison == {<<listed, 0>>}
=============================================================================
