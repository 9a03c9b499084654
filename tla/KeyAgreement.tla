---------------------------- MODULE KeyAgreement ----------------------------
(***************************************************************************)
(* What the handshake promises: of every handshake the responder makes at  *)
(* most one session, the initiator at most one and only after it, and both *)
(* hold the same key.  Keys of different sessions differ.                  *)
(***************************************************************************)
CONSTANTS Handshake, Key

VARIABLES
  responder, \* responder[h]: the keys of the sessions the responder made of h
  initiator  \* initiator[h]: the keys of the sessions the initiator made of h

vars == <<responder, initiator>>

Init ==
  /\ responder = [h \in Handshake |-> {}]
  /\ initiator = [h \in Handshake |-> {}]

Respond(h, k) ==
  /\ responder[h] = {}
  /\ \A g \in Handshake : k \notin responder[g]
  /\ responder' = [responder EXCEPT ![h] = {k}]
  /\ UNCHANGED initiator

Complete(h) ==
  /\ initiator[h] = {}
  /\ responder[h] # {}
  /\ initiator' = [initiator EXCEPT ![h] = responder[h]]
  /\ UNCHANGED responder

Next ==
  \E h \in Handshake :
    \/ Complete(h)
    \/ \E k \in responder'[h] \cap Key : Respond(h, k)

Spec == Init /\ [][Next]_vars
=============================================================================
