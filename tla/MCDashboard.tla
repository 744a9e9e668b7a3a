---------------------------- MODULE MCDashboard ----------------------------
(***************************************************************************)
(* Instances of Dashboard: the refresh button pressed by two requests,     *)
(* and one scan (the two scans share no state).  A tick stands for about a *)
(* minute: a lock is stale after two, the shortest startup delay falls     *)
(* inside that, the longest outside.                                       *)
(***************************************************************************)
EXTENDS Dashboard, TLC

TwoClicks == {"click", "again"}
VotesOnly == {"votes"}

Startup == {1, 3}
Cadence == {2, 3}
=============================================================================
