------------------------------ MODULE Session ------------------------------
(***************************************************************************)
(* Two uxsp.core.session.Session objects, one at each end of a handshake,  *)
(* joined by a transport that may lose, duplicate, reorder and damage      *)
(* payloads.  Definitions named Bad... are plausible faults that stand in  *)
(* for the definition after them when a property is tested for strength.   *)
(*                                                                         *)
(* encrypt() is two steps, as in the code: the sequence number is taken    *)
(* under self._lock, the AEAD runs after the lock is released, so the      *)
(* threads of a peer, and revoke(), interleave between them.  decrypt()    *)
(* holds the lock from the state check to the rollback and is one step.    *)
(* The _evaluate_expiry() that ends a call is part of its last step.       *)
(***************************************************************************)
EXTENDS Integers, Sequences, FiniteSets

CONSTANTS
  Initiator, Responder, \* the two ends of the session
  Thread,               \* the threads of a peer that call encrypt()
  Ordered,              \* SessionConfig.enforce_ordering
  Window,               \* Session._WINDOW_SIZE
  MaxMessages,          \* SessionConfig.max_messages
  DamagedSeq            \* seq fields that a damaged payload may show

ASSUME PeersAssumption == Initiator # Responder
ASSUME ConfigAssumption ==
  /\ Ordered \in BOOLEAN
  /\ Window \in Nat \ {0}
  /\ MaxMessages \in Nat \ {0}
ASSUME DamagedSeqAssumption == DamagedSeq \subseteq Nat

Peer == {Initiator, Responder}

Other(p) == IF p = Initiator THEN Responder ELSE Initiator

States == {"PENDING", "ACTIVE", "EXPIRED", "REVOKED"}

(* The AEAD key of a payload: the derived key of its direction, or the 32  *)
(* zero bytes that revoke() leaves in the key buffer.                      *)
Keys == {"derived", "zeroed"}

Payload == [to : Peer, seq : Nat, key : Keys]

(* pending[p][t] when thread t of p is not inside encrypt().               *)
NoSeq == -1

VARIABLES
  state,      \* _state
  aged,       \* time.time() - _created_at > max_lifetime_seconds
  sendSeq,    \* _send_seq
  recvSeq,    \* _recv_seq (ordered mode)
  seenSeqs,   \* _seen_seqs (window mode)
  maxSeenSeq, \* _max_seen_seq (window mode)
  recvCount,  \* _recv_count (window mode)
  pending,    \* the local variable seq of every encrypt() call under way
  net,        \* every payload encrypt() has returned
  delivered,  \* history: the seqs whose plaintext decrypt() returned
  rolledBack  \* history: decrypt() has rolled back a window at this peer

lifeVars == <<state, aged>>
recvVars == <<recvSeq, seenSeqs, maxSeenSeq, recvCount, delivered, rolledBack>>
sendVars == <<sendSeq, pending, net>>
vars == <<lifeVars, recvVars, sendVars>>

-----------------------------------------------------------------------------
(* Lifecycle *)

RecvTotal(p) == IF Ordered THEN recvSeq[p] ELSE recvCount[p]

Exhausted(p) == aged[p] \/ sendSeq[p] + RecvTotal(p) >= MaxMessages

(* Fault: the state is read without evaluating the expiry.                 *)
BadCheckActive(p) == state[p] = "ACTIVE"

(* _check_active_unlocked() returns: it evaluates the expiry first.        *)
CheckActive(p) == state[p] = "ACTIVE" /\ ~Exhausted(p)

(* _evaluate_expiry_unlocked() on the counters as the step leaves them.    *)
AfterExpiry(p, total) ==
  IF state[p] = "ACTIVE" /\ (aged[p] \/ total >= MaxMessages)
  THEN "EXPIRED" ELSE state[p]

(* Every way into the lifecycle that changes nothing else: is_active,      *)
(* remaining_messages, and encrypt() or decrypt() refused as expired.      *)
EvaluateExpiry(p) ==
  /\ state[p] = "ACTIVE"
  /\ Exhausted(p)
  /\ state' = [state EXCEPT ![p] = "EXPIRED"]
  /\ UNCHANGED <<aged, recvVars, sendVars>>

Activate(p) ==
  /\ state[p] = "PENDING"
  /\ state' = [state EXCEPT ![p] = "ACTIVE"]
  /\ UNCHANGED <<aged, recvVars, sendVars>>

Age(p) ==
  /\ ~aged[p]
  /\ aged' = [aged EXCEPT ![p] = TRUE]
  /\ UNCHANGED <<state, recvVars, sendVars>>

(* revoke() from any state; that the keys are now zero shows in SendKey.   *)
Revoke(p) ==
  /\ state[p] # "REVOKED"
  /\ state' = [state EXCEPT ![p] = "REVOKED"]
  /\ UNCHANGED <<aged, recvVars, sendVars>>

-----------------------------------------------------------------------------
(* encrypt() *)

(* Fault: the number is read before the lock is taken.                     *)
BadBeginEncrypt(p, t) ==
  /\ pending[p][t] = NoSeq
  /\ CheckActive(p)
  /\ \E seq \in ({sendSeq[p]} \cup {pending[p][u] : u \in Thread}) \ {NoSeq} :
       /\ pending' = [pending EXCEPT ![p][t] = seq]
       /\ sendSeq' = [sendSeq EXCEPT ![p] = seq + 1]
  /\ UNCHANGED <<lifeVars, recvVars, net>>

BeginEncrypt(p, t) ==
  /\ pending[p][t] = NoSeq
  /\ CheckActive(p)
  /\ pending' = [pending EXCEPT ![p][t] = sendSeq[p]]
  /\ sendSeq' = [sendSeq EXCEPT ![p] = @ + 1]
  /\ UNCHANGED <<lifeVars, recvVars, net>>

SendKey(p) == IF state[p] = "REVOKED" THEN "zeroed" ELSE "derived"

FinishEncrypt(p, t) ==
  /\ pending[p][t] # NoSeq
  /\ net' = net \cup {[to |-> Other(p), seq |-> pending[p][t], key |-> SendKey(p)]}
  /\ pending' = [pending EXCEPT ![p][t] = NoSeq]
  /\ state' = [state EXCEPT ![p] = AfterExpiry(p, sendSeq[p] + RecvTotal(p))]
  /\ UNCHANGED <<aged, recvVars, sendSeq>>

-----------------------------------------------------------------------------
(* decrypt(), ordered mode: _recv_seq moves before the AEAD call and moves *)
(* back when that call fails.                                              *)

(* Faults: no rollback; one step too far back.                             *)
BadNoRollback(advanced, seq) == advanced
BadRollback(advanced, seq) == seq - 1

RollbackOrdered(advanced, seq) == IF advanced = seq + 1 THEN seq ELSE advanced

(* Fault: only numbers below the expected one are refused.                 *)
BadDecryptOrdered(p, seq, authentic) ==
  /\ seq >= recvSeq[p]
  /\ authentic
  /\ recvSeq' = [recvSeq EXCEPT ![p] = @ + 1]
  /\ delivered' = [delivered EXCEPT ![p] = Append(@, seq)]
  /\ state' = [state EXCEPT ![p] = AfterExpiry(p, sendSeq[p] + recvSeq[p] + 1)]
  /\ UNCHANGED <<aged, seenSeqs, maxSeenSeq, recvCount, rolledBack, sendVars>>

DecryptOrdered(p, seq, authentic) ==
  /\ seq = recvSeq[p]
  /\ IF authentic
     THEN /\ recvSeq' = [recvSeq EXCEPT ![p] = @ + 1]
          /\ delivered' = [delivered EXCEPT ![p] = Append(@, seq)]
          /\ state' = [state EXCEPT ![p] = AfterExpiry(p, sendSeq[p] + recvSeq[p] + 1)]
     ELSE /\ recvSeq' = [recvSeq EXCEPT ![p] = RollbackOrdered(@ + 1, seq)]
          /\ UNCHANGED <<state, delivered>>
  /\ UNCHANGED <<aged, seenSeqs, maxSeenSeq, recvCount, rolledBack, sendVars>>

-----------------------------------------------------------------------------
(* decrypt(), window mode *)

WindowFloor(p) ==
  IF maxSeenSeq[p] >= Window THEN maxSeenSeq[p] - Window + 1 ELSE 0

(* Faults: only one of the two checks is made.                             *)
BadSeenOnly(p, seq) == seq \notin seenSeqs[p]
BadFloorOnly(p, seq) == maxSeenSeq[p] >= 0 => seq >= WindowFloor(p)

InWindow(p, seq) ==
  /\ seq \notin seenSeqs[p]
  /\ maxSeenSeq[p] >= 0 => seq >= WindowFloor(p)

Raised(p, seq) == IF seq > maxSeenSeq[p] THEN seq ELSE maxSeenSeq[p]

(* Fault: the set is never pruned.                                         *)
BadPruned(seen, max) == seen

(* The set is pruned to the window once it holds more than two windows.    *)
Pruned(seen, max) ==
  IF Cardinality(seen) > 2 * Window THEN {n \in seen : n >= max - Window + 1} ELSE seen

(* max(self._seen_seqs, default=-1)                                        *)
Highest(seen) ==
  IF seen = {} THEN -1 ELSE CHOOSE n \in seen : \A k \in seen : k <= n

(* The set as the AEAD call finds it.                                      *)
Remembered(p, seq) == Pruned(seenSeqs[p] \cup {seq}, Raised(p, seq))

Accept(p, seq) ==
  /\ seenSeqs' = [seenSeqs EXCEPT ![p] = Remembered(p, seq)]
  /\ maxSeenSeq' = [maxSeenSeq EXCEPT ![p] = Raised(p, seq)]
  /\ recvCount' = [recvCount EXCEPT ![p] = @ + 1]
  /\ delivered' = [delivered EXCEPT ![p] = Append(@, seq)]
  /\ state' = [state EXCEPT ![p] = AfterExpiry(p, sendSeq[p] + recvCount[p] + 1)]
  /\ UNCHANGED rolledBack

(* Faults: the number stays in the set; the count is not given back.       *)
BadRollbackKeepsSeq(p, seq) ==
  /\ seenSeqs' = [seenSeqs EXCEPT ![p] = Remembered(p, seq)]
  /\ maxSeenSeq' = [maxSeenSeq EXCEPT ![p] = Raised(p, seq)]
  /\ rolledBack' = [rolledBack EXCEPT ![p] = TRUE]
  /\ UNCHANGED <<recvCount, delivered, state>>
BadRollbackKeepsCount(p, seq) ==
  /\ seenSeqs' = [seenSeqs EXCEPT ![p] = Remembered(p, seq) \ {seq}]
  /\ maxSeenSeq' = [maxSeenSeq EXCEPT ![p] = Highest(seenSeqs'[p])]
  /\ recvCount' = [recvCount EXCEPT ![p] = @ + 1]
  /\ rolledBack' = [rolledBack EXCEPT ![p] = TRUE]
  /\ UNCHANGED <<delivered, state>>

(* The rollback takes seq out again, but does not put back what the        *)
(* pruning removed.                                                        *)
MaxAfterRollback(p, seq) ==
  IF seq = Raised(p, seq) THEN Highest(Remembered(p, seq) \ {seq}) ELSE Raised(p, seq)

RollbackWindow(p, seq) ==
  /\ seenSeqs' = [seenSeqs EXCEPT ![p] = Remembered(p, seq) \ {seq}]
  /\ maxSeenSeq' = [maxSeenSeq EXCEPT ![p] = MaxAfterRollback(p, seq)]
  /\ rolledBack' = [rolledBack EXCEPT ![p] = TRUE]
  /\ UNCHANGED <<recvCount, delivered, state>>

DecryptWindow(p, seq, authentic) ==
  /\ InWindow(p, seq)
  /\ IF authentic THEN Accept(p, seq) ELSE RollbackWindow(p, seq)
  /\ UNCHANGED <<aged, recvSeq, sendVars>>

Decrypt(p, seq, authentic) ==
  /\ CheckActive(p)
  /\ \/ Ordered /\ DecryptOrdered(p, seq, authentic)
     \/ ~Ordered /\ DecryptWindow(p, seq, authentic)

(* A payload of the peer, fresh or again; a receiver that is still active  *)
(* holds the derived key, so one sealed with zeroed keys fails.            *)
Receive(p) == \E m \in net : m.to = p /\ Decrypt(p, m.seq, m.key = "derived")

(* A payload damaged on its way: seq is bound to it as associated data.    *)
ReceiveDamaged(p) == \E seq \in DamagedSeq : Decrypt(p, seq, FALSE)

-----------------------------------------------------------------------------
Init ==
  /\ state = [p \in Peer |-> "PENDING"]
  /\ aged = [p \in Peer |-> FALSE]
  /\ sendSeq = [p \in Peer |-> 0]
  /\ recvSeq = [p \in Peer |-> 0]
  /\ seenSeqs = [p \in Peer |-> {}]
  /\ maxSeenSeq = [p \in Peer |-> -1]
  /\ recvCount = [p \in Peer |-> 0]
  /\ pending = [p \in Peer |-> [t \in Thread |-> NoSeq]]
  /\ net = {}
  /\ delivered = [p \in Peer |-> << >>]
  /\ rolledBack = [p \in Peer |-> FALSE]

PeerStep(p) ==
  \/ Activate(p)
  \/ Age(p)
  \/ EvaluateExpiry(p)
  \/ Revoke(p)
  \/ \E t \in Thread : BeginEncrypt(p, t)
  \/ \E t \in Thread : FinishEncrypt(p, t)
  \/ Receive(p)
  \/ ReceiveDamaged(p)

Next == \E p \in Peer : PeerStep(p)

Spec == Init /\ [][Next]_vars

(* A thread inside encrypt() is scheduled until it returns, the handshake  *)
(* activates what it creates, and the transport hands over every payload   *)
(* that is next in order: a stream transport that loses nothing.           *)
ReceiveNext(p) ==
  Receive(p) /\ delivered'[p] # delivered[p]

Fairness ==
  \A p \in Peer :
    /\ WF_vars(Activate(p))
    /\ WF_vars(ReceiveNext(p))
    /\ \A t \in Thread : WF_vars(FinishEncrypt(p, t))

FairSpec == Spec /\ Fairness

-----------------------------------------------------------------------------
(* Type invariant *)

TypeOK ==
  /\ state \in [Peer -> States]
  /\ aged \in [Peer -> BOOLEAN]
  /\ sendSeq \in [Peer -> Nat]
  /\ recvSeq \in [Peer -> Nat]
  /\ seenSeqs \in [Peer -> SUBSET Nat]
  /\ maxSeenSeq \in [Peer -> Nat \cup {-1}]
  /\ recvCount \in [Peer -> Nat]
  /\ pending \in [Peer -> [Thread -> Nat \cup {NoSeq}]]
  /\ net \subseteq Payload
  /\ delivered \in [Peer -> Seq(Nat)]
  /\ rolledBack \in [Peer -> BOOLEAN]

(* No two calls of encrypt() at one peer seal under the same sequence      *)
(* number, whatever its threads do: the number goes into the associated    *)
(* data that makes a payload unique in its direction.                      *)
SeqUsedOnce ==
  \A p \in Peer, t \in Thread :
    pending[p][t] # NoSeq =>
      /\ \A u \in Thread \ {t} : pending[p][u] # pending[p][t]
      /\ \A m \in net : m.to = Other(p) => m.seq # pending[p][t]

(* The combined cap max_messages bounds what a peer sent and received,     *)
(* counting every plaintext decrypt() returned and none that it refused:   *)
(* the rollback gives the cap back what a damaged payload took.            *)
WithinCap ==
  \A p \in Peer : sendSeq[p] + Len(delivered[p]) <= MaxMessages

CountsDelivered == \A p \in Peer : RecvTotal(p) = Len(delivered[p])

(* decrypt() in window mode returns the plaintext of a sequence number     *)
(* once: replayed payloads raise SessionReorderError.                      *)
ReplayedAt(p) ==
  \E i, j \in DOMAIN delivered[p] : i # j /\ delivered[p][i] = delivered[p][j]

NoReplay == \A p \in Peer : ~ReplayedAt(p)

(* ... which the code keeps up as long as no decrypt() has failed its      *)
(* authentication, however often the set was pruned.                       *)
NoReplayBeforeRollback == \A p \in Peer : ~rolledBack[p] => ~ReplayedAt(p)

(* A payload whose authentication failed leaves no trace that a genuine    *)
(* one could trip over: every number in the window was delivered, and the  *)
(* floor of the window is set by a delivered number.                       *)
SeenWasDelivered ==
  \A p \in Peer : \A n \in seenSeqs[p] :
    \E i \in DOMAIN delivered[p] : delivered[p][i] = n

WindowJustified ==
  SeenWasDelivered /\ \A p \in Peer : maxSeenSeq[p] = Highest(seenSeqs[p])

(* The window's memory is bounded, whatever sequence numbers arrive.       *)
WindowBounded == \A p \in Peer : Cardinality(seenSeqs[p]) <= 2 * Window

(* Every payload is sealed under the derived key of its direction, the     *)
(* only one its receiver can open.                                         *)
SealedUnderDerivedKey == \A m \in net : m.key = "derived"

(* EXPIRED and REVOKED are one-way: once a session has left ACTIVE, and    *)
(* from the moment its lifetime is over even before anyone notices, no     *)
(* number is handed out and nothing is delivered.                          *)
Closed(p) == aged[p] \/ state[p] \in {"EXPIRED", "REVOKED"}

ClosedForGood ==
  [][\A p \in Peer : Closed(p) =>
       /\ sendSeq'[p] = sendSeq[p]
       /\ delivered'[p] = delivered[p]
       /\ Closed(p)']_vars

(* With nothing lost, a payload sealed in an ordered session reaches the   *)
(* application, unless a session at either end closes first.               *)
SealedGetsThrough ==
  \A p \in Peer : \A n \in 0 .. MaxMessages - 1 :
    (\E m \in net : m.to = p /\ m.seq = n) ~>
      \/ \E i \in DOMAIN delivered[p] : delivered[p][i] = n
      \/ state[p] \in {"EXPIRED", "REVOKED"}
      \/ Exhausted(p)
      \/ state[Other(p)] = "REVOKED"

-----------------------------------------------------------------------------
(* Inductive invariant: what the counters, the calls under way, the        *)
(* payloads and the window have to do with each other.                     *)

(* Numbers in use were handed out.                                         *)
SealedBelowSendSeq ==
  /\ \A p \in Peer, t \in Thread : pending[p][t] < sendSeq[p]
  /\ \A p \in Peer, m \in net : m.to = Other(p) => m.seq < sendSeq[p]

MaxIsHighest ==
  \A p \in Peer :
    /\ \A n \in seenSeqs[p] : n <= maxSeenSeq[p]
    /\ maxSeenSeq[p] = -1 \/ maxSeenSeq[p] \in seenSeqs[p]

DeliveredInOrder ==
  \A p \in Peer : \A i \in DOMAIN delivered[p] : delivered[p][i] = i - 1

(* Until a rollback, what the window forgot lies below its floor.          *)
ForgottenBelowFloor ==
  \A p \in Peer : ~rolledBack[p] =>
    \A i \in DOMAIN delivered[p] :
      delivered[p][i] \in seenSeqs[p] \/ delivered[p][i] < WindowFloor(p)

(* A session too short to fill two windows forgets nothing.                *)
ShortSession == MaxMessages <= 2 * Window

NothingForgotten ==
  \A p \in Peer :
    /\ Cardinality(seenSeqs[p]) <= recvCount[p]
    /\ \A i \in DOMAIN delivered[p] : delivered[p][i] \in seenSeqs[p]

SessionInv ==
  /\ TypeOK
  /\ MaxIsHighest
  /\ WithinCap
  /\ CountsDelivered
  /\ SealedBelowSendSeq
  /\ SeqUsedOnce
  /\ SeenWasDelivered
  /\ WindowBounded
  /\ Ordered => DeliveredInOrder
  /\ ~Ordered => ForgottenBelowFloor /\ NoReplayBeforeRollback
  /\ ~Ordered /\ ShortSession => NothingForgotten /\ NoReplay

-----------------------------------------------------------------------------
(* In ordered mode the session implements a channel that delivers what was *)
(* sealed exactly once and in order, and nothing once it is closed.        *)

Phase(p) ==
  CASE state[p] = "PENDING" -> "new"
    [] state[p] = "ACTIVE" -> "open"
    [] OTHER -> "closed"

Channel == INSTANCE FifoChannel WITH
  Number <- 0 .. MaxMessages - 1,
  phase <- [p \in Peer |-> Phase(p)],
  offered <- [p \in Peer |-> {m.seq : m \in {x \in net : x.to = p /\ x.key = "derived"}}]

ImplementsFifoChannel == Channel!Spec
=============================================================================
