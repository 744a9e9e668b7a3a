------------------------------- MODULE Lease --------------------------------
(***************************************************************************)
(* What a lock with a timeout promises: at most one asker is inside, the   *)
(* record says so as long as one is, and a record that nobody renews is    *)
(* given to the next asker once it has been silent for too long, but never *)
(* while somebody is still inside.                                         *)
(***************************************************************************)
EXTENDS Integers

CONSTANTS
  Askers,    \* who may ask for the lease
  Patience   \* how long a silent record is believed

VARIABLES
  inside,    \* the askers who act under the lease
  held,      \* is there a record of a holder?
  silence    \* how long the record has not been renewed

leaseVars == <<inside, held, silence>>

Init ==
  /\ inside = {}
  /\ held = FALSE
  /\ silence = 0

\* Somebody gets in: nobody is, and nobody is believed to be.
Take ==
  /\ inside = {}
  /\ held => silence > Patience
  /\ \E a \in Askers : inside' = {a}
  /\ held' = TRUE
  /\ silence' \in 0..Patience

\* Whoever was inside is not any more; the record goes with it, later, or never.
Leave ==
  /\ inside' = {}
  /\ \/ UNCHANGED <<held, silence>>
     \/ held' = FALSE /\ silence' = 0

\* The record is renewed, perhaps late, for one who has left.
Renew ==
  /\ held
  /\ silence' = 0
  /\ UNCHANGED <<inside, held>>

\* Time passes, but whoever is inside does not stay silent for too long.
Age ==
  /\ held
  /\ silence' = silence + 1
  /\ inside # {} => silence' <= Patience
  /\ UNCHANGED <<inside, held>>

Next == Take \/ Leave \/ Renew \/ Age

Spec == Init /\ [][Next]_leaseVars
=============================================================================
