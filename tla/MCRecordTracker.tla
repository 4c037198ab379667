-------------------------- MODULE MCRecordTracker --------------------------
(* A record and its fee bump, and two follows at once.                     *)
EXTENDS RecordTracker, TLC

CONSTANTS a, b, f, g

Symmetry == Permutations(Followers)
============================================================================
