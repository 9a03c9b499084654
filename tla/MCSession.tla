----------------------------- MODULE MCSession -----------------------------
(* Model values and symmetry for checking Session.                         *)
EXTENDS Session, TLC

ThreadSymmetry == Permutations(Thread)

(* Damage that shows one of the first numbers, in or out of turn.          *)
FirstSeqs == 0 .. 2

(* Damage that shows an early number, or one far beyond the window.        *)
NearAndFar == {1, MaxMessages + Window + 1}
=============================================================================
