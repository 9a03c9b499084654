---------------------------- MODULE MCWebSocket ----------------------------
(* Model values for checking WebSocket.                                    *)
EXTENDS WebSocket, TLC

Symmetry == Permutations(Sid)
=============================================================================
