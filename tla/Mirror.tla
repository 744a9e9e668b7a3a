------------------------------- MODULE Mirror -------------------------------
(***************************************************************************)
(* What the ledger promises about a growing chain: a permanent record of   *)
(* legs (one transfer seen by one wallet), and for each cell (a wallet's   *)
(* stream) a frontier below which the record is complete, but for legs     *)
(* that were skipped and legs that another's record hides.  The sync may   *)
(* record in any order, and set a frontier back, but never over a leg that *)
(* is missing for any other reason.                                        *)
(***************************************************************************)
EXTENDS Integers

CONSTANTS
  Legs,     \* the legs the chain will ever hold
  Cells,    \* the frontiers' owners
  Cell,     \* leg |-> the cell it belongs to
  Height,   \* leg |-> the block it is in
  Rival,    \* leg |-> the legs whose record keeps it out
  Late      \* the legs that may be skipped

VARIABLES
  top,       \* the latest block
  recorded,  \* the legs on record
  skipped,   \* the legs a reader passed over
  frontier   \* per cell: the first block not vouched for

mirrorVars == <<top, recorded, skipped, frontier>>

Init ==
  /\ top = 0
  /\ recorded = {}
  /\ skipped = {}
  /\ frontier = [c \in Cells |-> 0]

\* The chain grows.
Grow ==
  /\ top' = top + 1
  /\ UNCHANGED <<recorded, skipped, frontier>>

\* Some legs the chain already holds are put on record, together.
Record ==
  /\ \E new \in SUBSET {l \in Legs : Height[l] <= top} : recorded' = recorded \cup new
  /\ UNCHANGED <<top, skipped, frontier>>

\* Some legs that came late are passed over.
Skip ==
  /\ \E late \in SUBSET {l \in Legs \cap Late : Height[l] <= top} : skipped' = skipped \cup late
  /\ UNCHANGED <<top, recorded, frontier>>

\* A leg is accounted for.
Settled(l) == l \in recorded \cup skipped \/ Rival[l] \cap recorded # {}

\* One frontier is set, over nothing that is not accounted for.
Vouch ==
  /\ \E c \in Cells, n \in 0..(top + 1) :
       /\ \A l \in Legs : Cell[l] = c /\ Height[l] < n => Settled(l)
       /\ frontier' = [frontier EXCEPT ![c] = n]
  /\ UNCHANGED <<top, recorded, skipped>>

Next == Grow \/ Record \/ Skip \/ Vouch

Spec == Init /\ [][Next]_mirrorVars

\* Below every frontier all is accounted for.
Complete == \A l \in Legs : Height[l] < frontier[Cell[l]] => Settled(l)
=============================================================================
