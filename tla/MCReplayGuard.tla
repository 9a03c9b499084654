--------------------------- MODULE MCReplayGuard ---------------------------
(* Model values for checking ReplayGuard: receivers are interchangeable.   *)
EXTENDS ReplayGuard, TLC

Symmetry == Permutations(Receiver)
=============================================================================
