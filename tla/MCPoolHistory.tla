---------------------------- MODULE MCPoolHistory ----------------------------
(***************************************************************************)
(* Instances of PoolHistory: epochs 0 to LastWeek, a history of two or     *)
(* three epochs, so that a pool can fall out of the cache and come back.   *)
(***************************************************************************)
EXTENDS PoolHistory, TLC

CONSTANTS dashboard, cli, old

OneScanner == {dashboard}
TwoScanners == {dashboard, cli}
OnePool == {old}

AllOld == [p \in Pools |-> 0]
=============================================================================
