---------------------------- MODULE MCHandshake ----------------------------
(* Model values for checking Handshake.  MaxAge and MarkTTL keep the ratio *)
(* of the code's 30 s and 90 s.                                            *)
EXTENDS Handshake, TLC

Offset == {-3, 0, 3, 4}

Symmetry == Permutations(Worker) \cup Permutations(Caller)
=============================================================================
