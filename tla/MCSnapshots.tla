---------------------------- MODULE MCSnapshots ----------------------------
(***************************************************************************)
(* Instances of Snapshots: two processes of the same program that open a   *)
(* ledger of any earlier version, and sync.                                *)
(***************************************************************************)
EXTENDS Snapshots, TLC

CONSTANTS p, q, x

TwoRuns == {p, q}
\* Without 40acres, whose group is written like Morpho's.
ThreeGroups == <<"balances", "aerodrome", "morpho">>

OnePool == {x}

\* The runs differ in nothing but their names.
SameRuns == Permutations(TwoRuns)

\* SCHEMA_MIGRATIONS, each run of like statements as one or two.
ShortScripts ==
  << <<"create", "create">>, <<"create">>, <<"create">>, <<"ensure">>,
     <<"create", "create">>, <<"create", "fill", "ensure">> >>

Latest == [o \in TwoRuns |-> Len(ShortScripts)]
=============================================================================
