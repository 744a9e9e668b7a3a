----------------------------- MODULE MCSyncLock -----------------------------
(***************************************************************************)
(* Small instances of SyncLock.  Runs are interchangeable, so the safety   *)
(* runs use their symmetry; the liveness run does not.                     *)
(***************************************************************************)
EXTENDS SyncLock, TLC

CONSTANTS r1, r2, r3

Two == {r1, r2}
Three == {r1, r2, r3}

Interchangeable == Permutations(Runs)
=============================================================================
