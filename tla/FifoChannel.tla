---------------------------- MODULE FifoChannel ----------------------------
(***************************************************************************)
(* What an ordered session promises its application: towards each peer the *)
(* numbered messages offered to the transport are delivered in the order   *)
(* of their numbers, each once and none skipped, while the session is open *)
(* at that peer.  A session opens once and closes for good; the call that  *)
(* sends or delivers the last message may close it in the same step.       *)
(***************************************************************************)
EXTENDS Naturals, Sequences

CONSTANTS
  Peer,
  Number    \* the numbers a session may give to its messages

VARIABLES
  phase,     \* phase[p]: "new", "open" or "closed"
  offered,   \* offered[p]: the numbers of the messages sent towards p
  delivered  \* delivered[p]: what p's application was given, in order

vars == <<phase, offered, delivered>>

Init ==
  /\ phase = [p \in Peer |-> "new"]
  /\ offered = [p \in Peer |-> {}]
  /\ delivered = [p \in Peer |-> << >>]

Onward(before) ==
  CASE before = "new" -> {"new", "open", "closed"}
    [] before = "open" -> {"open", "closed"}
    [] OTHER -> {"closed"}

Lifecycle ==
  /\ phase' \in [Peer -> {"new", "open", "closed"}]
  /\ \A p \in Peer : phase'[p] \in Onward(phase[p])

Offer(p) ==
  /\ \E n \in Number \ offered[p] : offered' = [offered EXCEPT ![p] = @ \cup {n}]
  /\ UNCHANGED delivered

Deliver(p) ==
  /\ phase[p] = "open"
  /\ Len(delivered[p]) \in offered[p]
  /\ delivered' = [delivered EXCEPT ![p] = Append(@, Len(@))]
  /\ UNCHANGED offered

Next ==
  /\ Lifecycle
  /\ \/ \E p \in Peer : Offer(p) \/ Deliver(p)
     \/ UNCHANGED <<offered, delivered>>

Spec == Init /\ [][Next]_vars
=============================================================================
