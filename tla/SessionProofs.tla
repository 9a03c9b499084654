--------------------------- MODULE SessionProofs ---------------------------
(***************************************************************************)
(* Proofs about Session for any threads, any window, any cap and any       *)
(* damage.  Each theorem adds one conjunct to the inductive invariant      *)
(* SessionInv and uses the ones before it.                                 *)
(***************************************************************************)
EXTENDS Session, TLAPS, FiniteSetTheorems, WellFoundedInduction

USE PeersAssumption, ConfigAssumption, DamagedSeqAssumption

-----------------------------------------------------------------------------
(* A bounded set of numbers has a highest one, which is the one max()      *)
(* returns in the rollback of decrypt().                                   *)
LEMMA HighestOfBounded ==
  ASSUME NEW S \in SUBSET Nat, NEW B \in Nat, \A n \in S : n <= B
  PROVE  /\ S = {} => Highest(S) = -1
         /\ S # {} => Highest(S) \in S
         /\ \A n \in S : n <= Highest(S)
<1>1. CASE S = {}
  BY <1>1 DEF Highest
<1>2. CASE S # {}
  <2> DEFINE T == {k \in Nat : \E n \in S : k = B - n}
  <2>1. T \subseteq Nat /\ T # {}
    <3>1. PICK n \in S : TRUE
      BY <1>2
    <3>2. B - n \in T
      BY <3>1
    <3> QED
      BY <3>2
  <2>2. \E x \in T : \A y \in T : ~(<<y, x>> \in OpToRel(<, Nat))
    <3> HIDE DEF T
    <3> QED
      BY <2>1, WFMin, NatLessThanWellFounded
  <2>3. PICK x \in T : \A y \in T : ~(y < x)
    BY <2>1, <2>2 DEF OpToRel
  <2>4. PICK m \in S : x = B - m
    BY <2>3
  <2>5. \A k \in S : k <= m
    <3> TAKE k \in S
    <3>1. B - k \in T
      OBVIOUS
    <3>2. ~(B - k < B - m)
      BY <2>3, <2>4, <3>1
    <3> QED
      BY <3>2
  <2> QED
    BY <1>2, <2>5 DEF Highest
<1> QED
  BY <1>1, <1>2

(* Pruning drops only what lies below the window, and leaves at most two   *)
(* windows of numbers.                                                     *)
LEMMA PrunedFacts ==
  ASSUME NEW S \in SUBSET Nat, NEW max \in Nat, \A n \in S : n <= max
  PROVE  /\ Pruned(S, max) \subseteq S
         /\ \A n \in S : n >= max - Window + 1 => n \in Pruned(S, max)
         /\ IsFiniteSet(Pruned(S, max))
         /\ Cardinality(Pruned(S, max)) <= 2 * Window
<1>1. IsFiniteSet(S)
  BY FS_BoundedSetOfNaturals
<1>2. Pruned(S, max) \subseteq S /\ IsFiniteSet(Pruned(S, max))
  BY <1>1, FS_Subset DEF Pruned
<1>3. \A n \in S : n >= max - Window + 1 => n \in Pruned(S, max)
  BY DEF Pruned
<1>4. CASE Cardinality(S) > 2 * Window
  <2> DEFINE low == max - Window + 1
  <2>1. Pruned(S, max) \in SUBSET (low .. max)
    <3>1. \A n \in Pruned(S, max) : n \in S /\ n >= low
      BY <1>4 DEF Pruned
    <3>2. \A n \in Pruned(S, max) : n \in Int /\ low <= n /\ n <= max
      <4> HIDE DEF low
      <4> TAKE n \in Pruned(S, max)
      <4>1. n \in S /\ n >= low
        BY <3>1
      <4>2. n \in Nat /\ low \in Int
        BY <4>1 DEF low
      <4> QED
        BY <4>1, <4>2
    <3>3. low \in Int /\ max \in Int
      OBVIOUS
    <3> QED
      BY <3>2, <3>3
  <2>2. IsFiniteSet(low .. max) /\ Cardinality(low .. max) = Window
    BY FS_Interval
  <2>3. Cardinality(Pruned(S, max)) <= Window
    <3> HIDE DEF low
    <3> QED
      BY <2>1, <2>2, FS_Subset
  <2>4. Cardinality(Pruned(S, max)) \in Nat
    BY <1>2, FS_CardinalityType
  <2> QED
    BY <1>2, <1>3, <2>3, <2>4
<1>5. CASE ~(Cardinality(S) > 2 * Window)
  <2>1. Cardinality(S) \in Nat
    BY <1>1, FS_CardinalityType
  <2> QED
    BY <1>2, <1>3, <1>5, <2>1 DEF Pruned
<1> QED
  BY <1>4, <1>5

-----------------------------------------------------------------------------
(* Type correctness, with the highest number of the window.                *)
TypeInv == TypeOK /\ MaxIsHighest

(* What decrypt() in window mode makes of the set before the AEAD call.    *)
LEMMA WindowAfterAdding ==
  ASSUME TypeInv, NEW p \in Peer, NEW seq \in Nat
  PROVE  /\ Raised(p, seq) \in Nat
         /\ Raised(p, seq) >= maxSeenSeq[p] /\ Raised(p, seq) >= seq
         /\ Remembered(p, seq) \subseteq seenSeqs[p] \cup {seq}
         /\ \A n \in Remembered(p, seq) : n \in Nat /\ n <= Raised(p, seq)
         /\ \A n \in seenSeqs[p] \cup {seq} :
              n >= Raised(p, seq) - Window + 1 => n \in Remembered(p, seq)
         /\ Raised(p, seq) \in Remembered(p, seq)
         /\ IsFiniteSet(Remembered(p, seq))
         /\ Cardinality(Remembered(p, seq)) <= 2 * Window
<1> DEFINE S == seenSeqs[p] \cup {seq}
           max == Raised(p, seq)
<1>1. seenSeqs[p] \in SUBSET Nat /\ maxSeenSeq[p] \in Nat \cup {-1}
  BY DEF TypeInv, TypeOK
<1>2. /\ max \in Nat /\ max >= maxSeenSeq[p] /\ max >= seq
      /\ max = seq \/ max = maxSeenSeq[p]
  BY <1>1 DEF Raised
<1>3. S \in SUBSET Nat /\ max \in S
  BY <1>1, <1>2 DEF TypeInv, MaxIsHighest
<1>4. \A n \in S : n <= max
  <2> TAKE n \in S
  <2>1. CASE n = seq
    BY <2>1, <1>2
  <2>2. CASE n \in seenSeqs[p]
    <3>1. n <= maxSeenSeq[p]
      BY <2>2 DEF TypeInv, MaxIsHighest
    <3> QED
      BY <3>1, <2>2, <1>1, <1>2
  <2> QED
    BY <2>1, <2>2
<1>5. Remembered(p, seq) = Pruned(S, max)
  BY DEF Remembered
<1> HIDE DEF S, max
<1>6. /\ Pruned(S, max) \subseteq S
      /\ \A n \in S : n >= max - Window + 1 => n \in Pruned(S, max)
      /\ IsFiniteSet(Pruned(S, max)) /\ Cardinality(Pruned(S, max)) <= 2 * Window
  BY <1>2, <1>3, <1>4, PrunedFacts
<1>7. max >= max - Window + 1
  BY <1>2
<1> QED
  BY <1>2, <1>3, <1>4, <1>5, <1>6, <1>7 DEF S, max

LEMMA WindowAfterRollback ==
  ASSUME TypeInv, NEW p \in Peer, NEW seq \in Nat
  PROVE  LET low == Remembered(p, seq) \ {seq}
             max == MaxAfterRollback(p, seq)
         IN  /\ max \in Nat \cup {-1}
             /\ max = -1 \/ max \in low
             /\ \A n \in low : n \in Nat /\ n <= max
<1> DEFINE low == Remembered(p, seq) \ {seq}
           max == Raised(p, seq)
<1>1. /\ max \in Nat /\ max \in Remembered(p, seq)
      /\ \A n \in Remembered(p, seq) : n \in Nat /\ n <= max
  BY WindowAfterAdding
<1>2. low \in SUBSET Nat /\ \A n \in low : n <= max
  BY <1>1
<1>3. /\ low = {} => Highest(low) = -1
      /\ low # {} => Highest(low) \in low
      /\ \A n \in low : n <= Highest(low)
  <2> HIDE DEF low, max
  <2> QED
    BY <1>1, <1>2, HighestOfBounded
<1>4. MaxAfterRollback(p, seq) = IF seq = max THEN Highest(low) ELSE max
  BY DEF MaxAfterRollback
<1>5. seq # max => max \in low
  BY <1>1
<1> HIDE DEF max, low
<1>6. /\ MaxAfterRollback(p, seq) \in Nat \cup {-1}
      /\ MaxAfterRollback(p, seq) = -1 \/ MaxAfterRollback(p, seq) \in low
      /\ \A n \in low : n \in Nat /\ n <= MaxAfterRollback(p, seq)
  BY <1>1, <1>2, <1>3, <1>4, <1>5
<1> QED
  BY <1>6 DEF low

LEMMA TypeInit == Init => TypeInv
BY DEF Init, TypeInv, TypeOK, MaxIsHighest, Peer, States, NoSeq

LEMMA TypeWindow ==
  ASSUME TypeInv, NEW p \in Peer, NEW seq \in Nat, NEW authentic \in BOOLEAN,
         DecryptWindow(p, seq, authentic)
  PROVE  TypeInv'
<1>1. UNCHANGED <<aged, recvSeq, sendSeq, pending, net>>
  BY DEF DecryptWindow, sendVars
<1>2. CASE Accept(p, seq)
  <2>1. TypeOK'
    <3>1. seenSeqs' \in [Peer -> SUBSET Nat]
      <4>1. Remembered(p, seq) \in SUBSET Nat
        BY WindowAfterAdding
      <4> QED
        BY <1>2, <4>1 DEF TypeInv, TypeOK, Accept
    <3>2. maxSeenSeq' \in [Peer -> Nat \cup {-1}]
      BY <1>2, WindowAfterAdding DEF TypeInv, TypeOK, Accept
    <3>3. recvCount' \in [Peer -> Nat] /\ rolledBack' \in [Peer -> BOOLEAN]
      BY <1>2 DEF TypeInv, TypeOK, Accept
    <3>4. delivered' \in [Peer -> Seq(Nat)]
      BY <1>2 DEF TypeInv, TypeOK, Accept
    <3>5. state' \in [Peer -> States]
      BY <1>2 DEF TypeInv, TypeOK, Accept, AfterExpiry, States
    <3> QED
      BY <1>1, <3>1, <3>2, <3>3, <3>4, <3>5 DEF TypeInv, TypeOK
  <2>2. MaxIsHighest'
    <3>1. /\ Raised(p, seq) \in Remembered(p, seq)
          /\ \A n \in Remembered(p, seq) : n <= Raised(p, seq)
      BY WindowAfterAdding
    <3>2. /\ seenSeqs'[p] = Remembered(p, seq) /\ maxSeenSeq'[p] = Raised(p, seq)
          /\ \A q \in Peer \ {p} :
               seenSeqs'[q] = seenSeqs[q] /\ maxSeenSeq'[q] = maxSeenSeq[q]
      BY <1>2 DEF TypeInv, TypeOK, Accept
    <3> QED
      BY <3>1, <3>2 DEF TypeInv, MaxIsHighest
  <2> QED
    BY <2>1, <2>2 DEF TypeInv
<1>3. CASE RollbackWindow(p, seq)
  <2>1. TypeOK'
    BY <1>1, <1>3, WindowAfterRollback DEF TypeInv, TypeOK, RollbackWindow
  <2>2. MaxIsHighest'
    BY <1>3, WindowAfterRollback DEF TypeInv, TypeOK, MaxIsHighest, RollbackWindow
  <2> QED
    BY <2>1, <2>2 DEF TypeInv
<1> QED
  BY <1>2, <1>3 DEF DecryptWindow

(* decrypt() in ordered mode either delivers the expected number or leaves *)
(* the receiver as it was.                                                 *)
LEMMA OrderedOutcome ==
  ASSUME TypeInv, NEW p \in Peer, NEW seq \in Nat, NEW authentic \in BOOLEAN,
         DecryptOrdered(p, seq, authentic)
  PROVE  /\ seq = recvSeq[p]
         /\ \/ /\ authentic
               /\ recvSeq' = [recvSeq EXCEPT ![p] = seq + 1]
               /\ delivered' = [delivered EXCEPT ![p] = Append(delivered[p], seq)]
               /\ state' = [state EXCEPT ![p] = AfterExpiry(p, sendSeq[p] + seq + 1)]
            \/ UNCHANGED <<recvSeq, delivered, state>>
         /\ UNCHANGED <<aged, seenSeqs, maxSeenSeq, recvCount, rolledBack, sendVars>>
<1>1. CASE authentic
  BY <1>1 DEF DecryptOrdered
<1>2. CASE ~authentic
  <2>1. recvSeq' = [recvSeq EXCEPT ![p] = RollbackOrdered(recvSeq[p] + 1, seq)]
    BY <1>2 DEF DecryptOrdered
  <2>2. recvSeq' = [recvSeq EXCEPT ![p] = recvSeq[p]]
    BY <2>1 DEF DecryptOrdered, RollbackOrdered
  <2>3. recvSeq' = recvSeq
    BY <2>2 DEF TypeInv, TypeOK
  <2> QED
    BY <1>2, <2>3 DEF DecryptOrdered
<1> QED
  BY <1>1, <1>2

LEMMA TypeOrdered ==
  ASSUME TypeInv, NEW p \in Peer, NEW seq \in Nat, NEW authentic \in BOOLEAN,
         DecryptOrdered(p, seq, authentic)
  PROVE  TypeInv'
<1>1. UNCHANGED <<aged, seenSeqs, maxSeenSeq, recvCount, rolledBack, sendSeq, pending, net>>
  BY OrderedOutcome DEF sendVars
<1>2. CASE UNCHANGED <<recvSeq, delivered, state>>
  BY <1>1, <1>2 DEF TypeInv, TypeOK, MaxIsHighest
<1>3. CASE /\ recvSeq' = [recvSeq EXCEPT ![p] = seq + 1]
           /\ delivered' = [delivered EXCEPT ![p] = Append(delivered[p], seq)]
           /\ state' = [state EXCEPT ![p] = AfterExpiry(p, sendSeq[p] + seq + 1)]
  <2>1. recvSeq' \in [Peer -> Nat] /\ delivered' \in [Peer -> Seq(Nat)]
    BY <1>3 DEF TypeInv, TypeOK
  <2>2. state' \in [Peer -> States]
    BY <1>3 DEF TypeInv, TypeOK, AfterExpiry, States
  <2> QED
    BY <1>1, <2>1, <2>2 DEF TypeInv, TypeOK, MaxIsHighest
<1> QED
  BY <1>2, <1>3, OrderedOutcome

(* Both ways a payload reaches decrypt().                                  *)
LEMMA DecryptCases ==
  ASSUME TypeInv, NEW p \in Peer, Receive(p) \/ ReceiveDamaged(p)
  PROVE  \E seq \in Nat, authentic \in BOOLEAN :
           /\ authentic => \E m \in net : m.to = p /\ m.seq = seq /\ m.key = "derived"
           /\ Decrypt(p, seq, authentic)
<1>1. CASE Receive(p)
  <2>1. PICK m \in net : m.to = p /\ Decrypt(p, m.seq, m.key = "derived")
    BY <1>1 DEF Receive
  <2>2. m.seq \in Nat /\ (m.key = "derived") \in BOOLEAN
    BY DEF TypeInv, TypeOK, Payload
  <2> QED
    BY <2>1, <2>2
<1>2. CASE ReceiveDamaged(p)
  BY <1>2 DEF ReceiveDamaged
<1> QED
  BY <1>1, <1>2

LEMMA TypeStep == TypeInv /\ [Next]_vars => TypeInv'
<1> SUFFICES ASSUME TypeInv, [Next]_vars PROVE TypeInv'
  OBVIOUS
<1> USE DEF TypeInv
<1>1. CASE UNCHANGED vars
  BY <1>1 DEF TypeOK, MaxIsHighest, vars, lifeVars, recvVars, sendVars
<1>2. ASSUME NEW p \in Peer, PeerStep(p) PROVE TypeInv'
  <2> USE DEF TypeOK, MaxIsHighest, lifeVars, recvVars, sendVars
  <2>1. CASE Activate(p)
    BY <2>1 DEF Activate, States
  <2>2. CASE Age(p)
    BY <2>2 DEF Age
  <2>3. CASE EvaluateExpiry(p)
    BY <2>3 DEF EvaluateExpiry, States
  <2>4. CASE Revoke(p)
    BY <2>4 DEF Revoke, States
  <2>5. ASSUME NEW t \in Thread, BeginEncrypt(p, t) PROVE TypeInv'
    BY <2>5 DEF BeginEncrypt
  <2>6. ASSUME NEW t \in Thread, FinishEncrypt(p, t) PROVE TypeInv'
    <3>1. Other(p) \in Peer /\ SendKey(p) \in Keys /\ pending[p][t] \in Nat
      BY <2>6 DEF Other, Peer, SendKey, Keys, FinishEncrypt
    <3>2. net' \subseteq Payload
      BY <2>6, <3>1 DEF FinishEncrypt, Payload
    <3>3. state' \in [Peer -> States]
      BY <2>6 DEF FinishEncrypt, AfterExpiry, States
    <3>4. pending' \in [Peer -> [Thread -> Nat \cup {NoSeq}]]
      BY <2>6 DEF FinishEncrypt, NoSeq
    <3> QED
      BY <2>6, <3>2, <3>3, <3>4 DEF FinishEncrypt
  <2>7. CASE Receive(p) \/ ReceiveDamaged(p)
    <3>1. PICK seq \in Nat, authentic \in BOOLEAN : Decrypt(p, seq, authentic)
      BY <2>7, DecryptCases
    <3> QED
      BY <3>1, TypeOrdered, TypeWindow DEF Decrypt
  <2> QED
    BY <1>2, <2>1, <2>2, <2>3, <2>4, <2>5, <2>6, <2>7 DEF PeerStep
<1> QED
  BY <1>1, <1>2 DEF Next

(* Every variable keeps its type, the rolled-back maximum included.        *)
THEOREM TypeCorrect == Spec => []TypeOK
<1>1. TypeInv => TypeOK
  BY DEF TypeInv
<1> QED
  BY <1>1, TypeInit, TypeStep, PTL DEF Spec

-----------------------------------------------------------------------------
(* What a step can do to the counters and the window, decrypt() split by   *)
(* its outcome.                                                            *)
Sealed(p, seq) == \E m \in net : m.to = p /\ m.seq = seq /\ m.key = "derived"

LifecycleStep == UNCHANGED <<recvVars, sendVars>>

DeliverOrdered(p, seq) ==
  /\ Ordered
  /\ CheckActive(p)
  /\ Sealed(p, seq)
  /\ seq = recvSeq[p]
  /\ recvSeq' = [recvSeq EXCEPT ![p] = seq + 1]
  /\ delivered' = [delivered EXCEPT ![p] = Append(delivered[p], seq)]
  /\ state' = [state EXCEPT ![p] = AfterExpiry(p, sendSeq[p] + seq + 1)]
  /\ UNCHANGED <<aged, seenSeqs, maxSeenSeq, recvCount, rolledBack, sendVars>>

DeliverWindow(p, seq) ==
  /\ ~Ordered
  /\ CheckActive(p)
  /\ Sealed(p, seq)
  /\ InWindow(p, seq)
  /\ Accept(p, seq)
  /\ UNCHANGED <<aged, recvSeq, sendVars>>

FailWindow(p, seq) ==
  /\ ~Ordered
  /\ CheckActive(p)
  /\ InWindow(p, seq)
  /\ RollbackWindow(p, seq)
  /\ UNCHANGED <<aged, recvSeq, sendVars>>

DecryptStep(p) ==
  \E seq \in Nat : DeliverOrdered(p, seq) \/ DeliverWindow(p, seq) \/ FailWindow(p, seq)

EncryptStep(p) == \E t \in Thread : BeginEncrypt(p, t) \/ FinishEncrypt(p, t)

LEMMA StepCases ==
  ASSUME TypeInv, [Next]_vars
  PROVE  LifecycleStep \/ \E p \in Peer : EncryptStep(p) \/ DecryptStep(p)
<1>1. CASE UNCHANGED vars
  BY <1>1 DEF vars, LifecycleStep, recvVars, sendVars
<1>2. CASE Next
  <2>1. PICK p \in Peer : PeerStep(p)
    BY <1>2 DEF Next
  <2>2. CASE Activate(p) \/ Age(p) \/ EvaluateExpiry(p) \/ Revoke(p)
    BY <2>2 DEF Activate, Age, EvaluateExpiry, Revoke, LifecycleStep
  <2>3. CASE \E t \in Thread : BeginEncrypt(p, t) \/ FinishEncrypt(p, t)
    BY <2>3 DEF EncryptStep
  <2>4. CASE Receive(p) \/ ReceiveDamaged(p)
    <3>1. PICK seq \in Nat, authentic \in BOOLEAN :
            /\ authentic => Sealed(p, seq)
            /\ Decrypt(p, seq, authentic)
      BY <2>4, DecryptCases DEF Sealed
    <3>2. CASE Ordered /\ DecryptOrdered(p, seq, authentic)
      <4>1. CASE UNCHANGED <<recvSeq, delivered, state>>
        BY <4>1, <3>2, OrderedOutcome DEF LifecycleStep, recvVars, sendVars
      <4>2. CASE ~UNCHANGED <<recvSeq, delivered, state>>
        <5>1. DeliverOrdered(p, seq)
          BY <4>2, <3>1, <3>2, OrderedOutcome DEF DeliverOrdered, Decrypt
        <5> QED
          BY <5>1 DEF DecryptStep
      <4> QED
        BY <4>1, <4>2
    <3>3. CASE ~Ordered /\ DecryptWindow(p, seq, authentic)
      <4>1. CASE authentic
        <5>1. DeliverWindow(p, seq)
          BY <4>1, <3>1, <3>3 DEF DeliverWindow, DecryptWindow, Decrypt
        <5> QED
          BY <5>1 DEF DecryptStep
      <4>2. CASE ~authentic
        <5>1. FailWindow(p, seq)
          BY <4>2, <3>1, <3>3 DEF FailWindow, DecryptWindow, Decrypt
        <5> QED
          BY <5>1 DEF DecryptStep
      <4> QED
        BY <4>1, <4>2
    <3> QED
      BY <3>1, <3>2, <3>3 DEF Decrypt
  <2> QED
    BY <2>1, <2>2, <2>3, <2>4 DEF PeerStep
<1> QED
  BY <1>1, <1>2

-----------------------------------------------------------------------------
(* The cap                                                                 *)
CapInv == WithinCap /\ CountsDelivered

LEMMA CapInit == Init => CapInv
BY DEF Init, CapInv, WithinCap, CountsDelivered, RecvTotal

LEMMA CapStep == TypeInv /\ CapInv /\ [Next]_vars => CapInv'
<1> SUFFICES ASSUME TypeInv, CapInv, [Next]_vars PROVE CapInv'
  OBVIOUS
<1> USE DEF TypeInv, TypeOK, CapInv, WithinCap, CountsDelivered, RecvTotal
<1>1. CASE LifecycleStep
  BY <1>1 DEF LifecycleStep, recvVars, sendVars
<1>2. ASSUME NEW p \in Peer, EncryptStep(p) PROVE CapInv'
  <2>1. PICK t \in Thread : BeginEncrypt(p, t) \/ FinishEncrypt(p, t)
    BY <1>2 DEF EncryptStep
  <2>2. CASE BeginEncrypt(p, t)
    <3>1. sendSeq[p] + Len(delivered[p]) < MaxMessages
      BY <2>2 DEF BeginEncrypt, CheckActive, Exhausted
    <3> QED
      BY <2>2, <3>1 DEF BeginEncrypt, recvVars
  <2>3. CASE FinishEncrypt(p, t)
    BY <2>3 DEF FinishEncrypt, recvVars
  <2> QED
    BY <2>1, <2>2, <2>3
<1>3. ASSUME NEW p \in Peer, DecryptStep(p) PROVE CapInv'
  <2>1. PICK seq \in Nat : DeliverOrdered(p, seq) \/ DeliverWindow(p, seq) \/ FailWindow(p, seq)
    BY <1>3 DEF DecryptStep
  <2>2. CASE DeliverOrdered(p, seq)
    <3>1. sendSeq[p] + Len(delivered[p]) < MaxMessages /\ seq = Len(delivered[p])
      BY <2>2 DEF DeliverOrdered, CheckActive, Exhausted
    <3>2. /\ recvSeq' = [recvSeq EXCEPT ![p] = seq + 1]
          /\ delivered' = [delivered EXCEPT ![p] = Append(delivered[p], seq)]
          /\ UNCHANGED <<recvCount, sendSeq>>
      BY <2>2 DEF DeliverOrdered, sendVars
    <3>3. /\ Len(delivered'[p]) = Len(delivered[p]) + 1
          /\ \A q \in Peer \ {p} : delivered'[q] = delivered[q]
      BY <3>2
    <3>4. WithinCap'
      BY <3>1, <3>2, <3>3
    <3>5. CountsDelivered'
      BY <2>2, <3>1, <3>2, <3>3 DEF DeliverOrdered
    <3> QED
      BY <3>4, <3>5
  <2>3. CASE DeliverWindow(p, seq)
    <3>1. sendSeq[p] + Len(delivered[p]) < MaxMessages /\ recvCount[p] = Len(delivered[p])
      BY <2>3 DEF DeliverWindow, CheckActive, Exhausted
    <3>2. /\ recvCount' = [recvCount EXCEPT ![p] = recvCount[p] + 1]
          /\ delivered' = [delivered EXCEPT ![p] = Append(delivered[p], seq)]
          /\ UNCHANGED <<recvSeq, sendSeq>>
      BY <2>3 DEF DeliverWindow, Accept, sendVars
    <3>3. /\ Len(delivered'[p]) = Len(delivered[p]) + 1
          /\ \A q \in Peer \ {p} : delivered'[q] = delivered[q]
      BY <3>2
    <3>4. WithinCap'
      BY <3>1, <3>2, <3>3
    <3>5. CountsDelivered'
      BY <2>3, <3>1, <3>2, <3>3 DEF DeliverWindow
    <3> QED
      BY <3>4, <3>5
  <2>4. CASE FailWindow(p, seq)
    <3>1. UNCHANGED <<sendSeq, recvSeq, recvCount, delivered>>
      BY <2>4 DEF FailWindow, RollbackWindow, sendVars
    <3> QED
      BY <3>1
  <2> QED
    BY <2>1, <2>2, <2>3, <2>4
<1> QED
  BY <1>1, <1>2, <1>3, StepCases

(* What a peer sent and what it received never exceed max_messages, and    *)
(* the receive counter is the number of plaintexts returned: the check at  *)
(* the start of a call is made under the lock that moves the counter.      *)
LEMMA CapAlways == Spec => [](WithinCap /\ CountsDelivered)
<1> USE DEF CapInv
<1> QED
  BY TypeInit, TypeStep, CapInit, CapStep, PTL DEF Spec

\* The cap on what encrypt() and decrypt() count together is never exceeded.
THEOREM CapKept == Spec => []WithinCap
BY CapAlways, PTL

\* The receive counter of decrypt() moves exactly when a plaintext is returned.
THEOREM CountsKept == Spec => []CountsDelivered
BY CapAlways, PTL

-----------------------------------------------------------------------------
(* Sequence numbers of encrypt()                                           *)
SealInv == SealedBelowSendSeq /\ SeqUsedOnce

LEMMA SealInit == Init => SealInv
BY DEF Init, SealInv, SealedBelowSendSeq, SeqUsedOnce, NoSeq

LEMMA SealStep == TypeInv /\ SealInv /\ [Next]_vars => SealInv'
<1> SUFFICES ASSUME TypeInv, SealInv, [Next]_vars PROVE SealInv'
  OBVIOUS
<1> USE DEF SealInv, SealedBelowSendSeq, SeqUsedOnce
<1>1. CASE UNCHANGED sendVars
  BY <1>1 DEF sendVars
<1>2. ASSUME NEW p \in Peer, EncryptStep(p) PROVE SealInv'
  <2> USE DEF TypeInv, TypeOK
  <2>1. PICK t \in Thread : BeginEncrypt(p, t) \/ FinishEncrypt(p, t)
    BY <1>2 DEF EncryptStep
  <2>2. CASE BeginEncrypt(p, t)
    <3>1. /\ pending' = [pending EXCEPT ![p][t] = sendSeq[p]]
          /\ sendSeq' = [sendSeq EXCEPT ![p] = sendSeq[p] + 1]
          /\ net' = net
      BY <2>2 DEF BeginEncrypt
    <3>2. SealedBelowSendSeq'
      <4>1. \A q \in Peer, u \in Thread : pending'[q][u] < sendSeq'[q]
        <5> TAKE q \in Peer, u \in Thread
        <5>1. pending'[q][u] = IF q = p /\ u = t THEN sendSeq[p] ELSE pending[q][u]
          BY <3>1
        <5>2. sendSeq'[q] = IF q = p THEN sendSeq[p] + 1 ELSE sendSeq[q]
          BY <3>1
        <5>3. pending[q][u] < sendSeq[q] /\ pending[q][u] \in Int /\ sendSeq[q] \in Nat
          BY DEF NoSeq
        <5> HIDE DEF TypeInv, TypeOK, SealInv, SealedBelowSendSeq
        <5> QED
          BY <5>1, <5>2, <5>3
      <4>2. \A q \in Peer, m \in net : m.to = Other(q) => m.seq < sendSeq'[q]
        BY <3>1 DEF Payload
      <4> QED
        BY <3>1, <4>1, <4>2
    <3>3. SeqUsedOnce'
      BY <3>1 DEF Payload, NoSeq
    <3> QED
      BY <3>2, <3>3
  <2>3. CASE FinishEncrypt(p, t)
    <3> DEFINE new == [to |-> Other(p), seq |-> pending[p][t], key |-> SendKey(p)]
    <3>1. /\ pending' = [pending EXCEPT ![p][t] = NoSeq]
          /\ sendSeq' = sendSeq
          /\ net' = net \cup {new}
          /\ pending[p][t] # NoSeq
      BY <2>3 DEF FinishEncrypt
    <3>2. \A q \in Peer : Other(q) = Other(p) => q = p
      BY DEF Other, Peer
    <3>3. new.to = Other(p) /\ new.seq = pending[p][t]
      OBVIOUS
    <3> HIDE DEF new
    <3>4. SealedBelowSendSeq'
      BY <3>1, <3>2, <3>3 DEF NoSeq
    <3>5. ASSUME NEW q \in Peer, NEW u \in Thread, pending'[q][u] # NoSeq
          PROVE  /\ \A v \in Thread \ {u} : pending'[q][v] # pending'[q][u]
                 /\ \A m \in net' : m.to = Other(q) => m.seq # pending'[q][u]
      <4>1. pending[q][u] # NoSeq /\ pending'[q][u] = pending[q][u]
            /\ (q = p => u # t)
        BY <3>1, <3>5
      <4>2. \A v \in Thread \ {u} : pending'[q][v] # pending'[q][u]
        BY <3>1, <3>5, <4>1
      <4>3. \A m \in net : m.to = Other(q) => m.seq # pending[q][u]
        BY <4>1
      <4>4. new.to = Other(q) => new.seq # pending[q][u]
        BY <3>1, <3>2, <3>3, <4>1
      <4> QED
        BY <3>1, <4>1, <4>2, <4>3, <4>4
    <3> QED
      BY <3>4, <3>5
  <2> QED
    BY <2>1, <2>2, <2>3
<1>3. (\E p \in Peer : DecryptStep(p)) => UNCHANGED sendVars
  BY DEF DecryptStep, DeliverOrdered, DeliverWindow, FailWindow
<1> QED
  BY <1>1, <1>2, <1>3, StepCases DEF LifecycleStep

(* Two calls of encrypt() at a peer never seal under one number, however   *)
(* its threads interleave between taking the number and sealing.           *)
THEOREM SeqsUnique == Spec => []SeqUsedOnce
<1> USE DEF SealInv
<1> QED
  BY TypeInit, TypeStep, SealInit, SealStep, PTL DEF Spec

-----------------------------------------------------------------------------
(* Closing                                                                 *)

LEMMA ClosedStep ==
  TypeInv /\ [Next]_vars =>
    \A p \in Peer : Closed(p) =>
      /\ sendSeq'[p] = sendSeq[p]
      /\ delivered'[p] = delivered[p]
      /\ Closed(p)'
<1> SUFFICES ASSUME TypeInv, [Next]_vars, NEW q \in Peer, Closed(q)
             PROVE  /\ sendSeq'[q] = sendSeq[q]
                    /\ delivered'[q] = delivered[q]
                    /\ Closed(q)'
  OBVIOUS
<1> USE DEF TypeInv, TypeOK
<1>1. ~CheckActive(q)
  BY DEF CheckActive, Exhausted, Closed
<1>2. sendSeq'[q] = sendSeq[q] /\ delivered'[q] = delivered[q]
  <2>1. CASE LifecycleStep
    BY <2>1 DEF LifecycleStep, recvVars, sendVars
  <2>2. ASSUME NEW p \in Peer, EncryptStep(p)
        PROVE  sendSeq'[q] = sendSeq[q] /\ delivered'[q] = delivered[q]
    <3>1. CASE q = p
      BY <1>1, <2>2, <3>1 DEF EncryptStep, BeginEncrypt, FinishEncrypt, recvVars
    <3>2. CASE q # p
      BY <2>2, <3>2 DEF EncryptStep, BeginEncrypt, FinishEncrypt, recvVars
    <3> QED
      BY <3>1, <3>2
  <2>3. ASSUME NEW p \in Peer, DecryptStep(p)
        PROVE  sendSeq'[q] = sendSeq[q] /\ delivered'[q] = delivered[q]
    <3>1. q # p
      BY <1>1, <2>3 DEF DecryptStep, DeliverOrdered, DeliverWindow, FailWindow
    <3> QED
      BY <2>3, <3>1 DEF DecryptStep, DeliverOrdered, DeliverWindow, FailWindow,
                        Accept, RollbackWindow, sendVars
  <2> QED
    BY <2>1, <2>2, <2>3, StepCases
<1>3. Closed(q)'
  <2>1. CASE UNCHANGED vars
    BY <2>1 DEF vars, lifeVars, Closed
  <2>2. ASSUME NEW p \in Peer, PeerStep(p) PROVE Closed(q)'
    <3> USE DEF Closed
    <3>1. CASE Activate(p)
      BY <3>1 DEF Activate
    <3>2. CASE Age(p)
      BY <3>2 DEF Age
    <3>3. CASE EvaluateExpiry(p)
      BY <3>3 DEF EvaluateExpiry
    <3>4. CASE Revoke(p)
      BY <3>4 DEF Revoke
    <3>5. CASE \E t \in Thread : BeginEncrypt(p, t)
      BY <3>5 DEF BeginEncrypt, lifeVars
    <3>6. CASE \E t \in Thread : FinishEncrypt(p, t)
      BY <3>6 DEF FinishEncrypt, AfterExpiry
    <3>7. CASE Receive(p) \/ ReceiveDamaged(p)
      <4>1. PICK seq \in Nat, authentic \in BOOLEAN : Decrypt(p, seq, authentic)
        BY <3>7, DecryptCases
      <4>2. q # p
        BY <1>1, <4>1 DEF Decrypt
      <4>3. aged'[q] = aged[q] /\ state'[q] = state[q]
        <5>1. CASE DecryptOrdered(p, seq, authentic)
          <6>1. /\ UNCHANGED aged
                /\ \/ UNCHANGED state
                   \/ state' = [state EXCEPT ![p] = AfterExpiry(p, sendSeq[p] + seq + 1)]
            <7> HIDE DEF TypeInv
            <7> QED
              BY <5>1, OrderedOutcome
          <6> QED
            BY <4>2, <6>1
        <5>2. CASE DecryptWindow(p, seq, authentic)
          BY <4>2, <5>2 DEF DecryptWindow, Accept, RollbackWindow
        <5> QED
          BY <4>1, <5>1, <5>2 DEF Decrypt
      <4> QED
        BY <4>3
    <3> QED
      BY <2>2, <3>1, <3>2, <3>3, <3>4, <3>5, <3>6, <3>7 DEF PeerStep
  <2> QED
    BY <2>1, <2>2 DEF Next
<1> QED
  BY <1>2, <1>3

(* EXPIRED, REVOKED and an exceeded lifetime are one-way, and nothing is   *)
(* numbered or delivered after them.                                       *)
THEOREM ClosesForGood == Spec => ClosedForGood
<1>1. TypeInv /\ [Next]_vars =>
        [\A p \in Peer : Closed(p) =>
           /\ sendSeq'[p] = sendSeq[p]
           /\ delivered'[p] = delivered[p]
           /\ Closed(p)']_vars
  BY ClosedStep
<1> QED
  BY <1>1, TypeInit, TypeStep, PTL DEF Spec, ClosedForGood

-----------------------------------------------------------------------------
(* Ordered mode implements FifoChannel                                     *)

LEMMA RefinesInit == Init => Channel!Init
BY DEF Init, Channel!Init, Phase

LEMMA PhaseOnward ==
  TypeInv /\ [Next]_vars => Channel!Lifecycle
<1> SUFFICES ASSUME TypeInv, [Next]_vars PROVE Channel!Lifecycle
  OBVIOUS
<1>1. TypeInv'
  BY TypeStep
<1>2. [p \in Peer |-> Phase(p)]' \in [Peer -> {"new", "open", "closed"}]
  BY <1>1 DEF Phase
<1>3. ASSUME NEW q \in Peer
      PROVE  /\ state[q] = "ACTIVE" => state'[q] # "PENDING"
             /\ state[q] \in {"EXPIRED", "REVOKED"} => state'[q] \in {"EXPIRED", "REVOKED"}
  <2> USE DEF TypeInv, TypeOK
  <2>1. CASE UNCHANGED vars
    BY <2>1 DEF vars, lifeVars
  <2>2. ASSUME NEW p \in Peer, PeerStep(p)
        PROVE  /\ state[q] = "ACTIVE" => state'[q] # "PENDING"
               /\ state[q] \in {"EXPIRED", "REVOKED"} => state'[q] \in {"EXPIRED", "REVOKED"}
    <3>1. CASE Activate(p) \/ Age(p) \/ EvaluateExpiry(p) \/ Revoke(p)
      BY <3>1 DEF Activate, Age, EvaluateExpiry, Revoke
    <3>2. CASE \E t \in Thread : BeginEncrypt(p, t) \/ FinishEncrypt(p, t)
      BY <3>2 DEF BeginEncrypt, FinishEncrypt, lifeVars, AfterExpiry
    <3>3. CASE Receive(p) \/ ReceiveDamaged(p)
      <4>1. PICK seq \in Nat, authentic \in BOOLEAN : Decrypt(p, seq, authentic)
        BY <3>3, DecryptCases
      <4>2. CASE DecryptOrdered(p, seq, authentic)
        <5> HIDE DEF TypeInv
        <5>1. \/ UNCHANGED state
              \/ state' = [state EXCEPT ![p] = AfterExpiry(p, sendSeq[p] + seq + 1)]
          BY <4>2, OrderedOutcome
        <5> QED
          BY <5>1 DEF AfterExpiry, TypeInv
      <4>3. CASE DecryptWindow(p, seq, authentic)
        <5>1. \/ UNCHANGED state
              \/ state' = [state EXCEPT ![p] = AfterExpiry(p, sendSeq[p] + recvCount[p] + 1)]
          BY <4>3 DEF DecryptWindow, Accept, RollbackWindow
        <5> QED
          BY <5>1 DEF AfterExpiry
      <4> QED
        BY <4>1, <4>2, <4>3 DEF Decrypt
    <3> QED
      BY <2>2, <3>1, <3>2, <3>3 DEF PeerStep
  <2> QED
    BY <2>1, <2>2 DEF Next
<1>4. ASSUME NEW q \in Peer PROVE Phase(q)' \in Channel!Onward(Phase(q))
  <2>1. state[q] \in States /\ state'[q] \in States
    BY <1>1 DEF TypeInv, TypeOK
  <2> QED
    BY <1>3, <2>1 DEF Phase, Channel!Onward, States
<1> QED
  BY <1>2, <1>4 DEF Channel!Lifecycle

LEMMA RefinesStep ==
  ASSUME Ordered
  PROVE  TypeInv /\ CapInv /\ SealInv /\ [Next]_vars => [Channel!Next]_(Channel!vars)
<1> SUFFICES ASSUME TypeInv, CapInv, SealInv, [Next]_vars
             PROVE  Channel!Next
  BY DEF Channel!Next
<1> DEFINE Offered(p) == {m.seq : m \in {x \in net : x.to = p /\ x.key = "derived"}}
           offered == [p \in Peer |-> Offered(p)]
<1>1. Channel!Lifecycle
  BY PhaseOnward
<1>2. ASSUME net' = net PROVE offered' = offered
  BY <1>2
<1>3. CASE net' = net /\ delivered' = delivered
  BY <1>1, <1>2, <1>3 DEF Channel!Next
<1>4. ASSUME NEW p \in Peer, NEW t \in Thread, FinishEncrypt(p, t) PROVE Channel!Next
  <2> DEFINE q == Other(p)
             n == pending[p][t]
             new == [to |-> q, seq |-> n, key |-> SendKey(p)]
  <2>1. /\ net' = net \cup {new} /\ delivered' = delivered
        /\ n # NoSeq /\ q \in Peer
    BY <1>4 DEF FinishEncrypt, recvVars, Other, Peer
  <2>2. n \in 0 .. MaxMessages - 1
    <3>1. n \in Nat /\ sendSeq[p] \in Nat /\ Len(delivered[p]) \in Nat
      BY <2>1 DEF TypeInv, TypeOK
    <3>2. n < sendSeq[p] /\ sendSeq[p] + Len(delivered[p]) <= MaxMessages
      BY DEF SealInv, SealedBelowSendSeq, CapInv, WithinCap
    <3> HIDE DEF n
    <3> QED
      BY <3>1, <3>2
  <2>3. n \notin Offered(q)
    BY <2>1 DEF SealInv, SeqUsedOnce
  <2>4. new.to = q /\ new.seq = n /\ new.key = SendKey(p)
    OBVIOUS
  <2> HIDE DEF q, n, new
  <2>5. CASE SendKey(p) = "derived"
    <3>1. \A r \in Peer : Offered(r)' = IF r = q THEN Offered(q) \cup {n} ELSE Offered(r)
      BY <2>1, <2>4, <2>5
    <3>2. offered' = [offered EXCEPT ![q] = Offered(q) \cup {n}]
      BY <2>1, <3>1
    <3>3. Channel!Offer(q)
      BY <2>1, <2>2, <2>3, <3>2 DEF Channel!Offer
    <3> QED
      BY <1>1, <2>1, <3>3 DEF Channel!Next
  <2>6. CASE SendKey(p) # "derived"
    <3>1. \A r \in Peer : Offered(r)' = Offered(r)
      BY <2>1, <2>4, <2>6
    <3>2. offered' = offered
      BY <3>1
    <3> QED
      BY <1>1, <2>1, <3>2 DEF Channel!Next
  <2> QED
    BY <2>5, <2>6
<1>5. ASSUME NEW p \in Peer, NEW seq \in Nat, DeliverOrdered(p, seq) PROVE Channel!Next
  <2>1. /\ net' = net
        /\ delivered' = [delivered EXCEPT ![p] = Append(delivered[p], seq)]
        /\ seq = recvSeq[p] /\ Sealed(p, seq) /\ state[p] = "ACTIVE"
    BY <1>5 DEF DeliverOrdered, sendVars, CheckActive
  <2>2. seq = Len(delivered[p])
    BY <2>1 DEF CapInv, CountsDelivered, RecvTotal
  <2>3. seq \in Offered(p)
    BY <2>1 DEF Sealed
  <2>4. Phase(p) = "open"
    BY <2>1 DEF Phase
  <2>5. delivered' = [delivered EXCEPT ![p] = Append(@, Len(@))]
    BY <2>1, <2>2
  <2>6. Channel!Deliver(p)
    BY <1>2, <2>1, <2>2, <2>3, <2>4, <2>5 DEF Channel!Deliver
  <2> QED
    BY <1>1, <2>6 DEF Channel!Next
<1>6. LifecycleStep => net' = net /\ delivered' = delivered
  BY DEF LifecycleStep, recvVars, sendVars
<1>7. \A p \in Peer, t \in Thread : BeginEncrypt(p, t) => net' = net /\ delivered' = delivered
  BY DEF BeginEncrypt, recvVars
<1>8. \A p \in Peer : DecryptStep(p) => \E seq \in Nat : DeliverOrdered(p, seq)
  BY DEF DecryptStep, DeliverWindow, FailWindow
<1> QED
  BY <1>3, <1>4, <1>5, <1>6, <1>7, <1>8, StepCases DEF EncryptStep

(* With enforce_ordering, whatever the transport loses, repeats, reorders  *)
(* or damages, each application gets the messages sealed for it once, in   *)
(* order and without a gap, and nothing once its session is closed.        *)
THEOREM OrderedRefinesChannel ==
  ASSUME Ordered
  PROVE  Spec => ImplementsFifoChannel
<1>1. Spec => [](TypeInv /\ CapInv /\ SealInv)
  BY TypeInit, TypeStep, CapInit, CapStep, SealInit, SealStep, PTL DEF Spec
<1> QED
  BY <1>1, RefinesInit, RefinesStep, PTL DEF Spec, ImplementsFifoChannel, Channel!Spec

-----------------------------------------------------------------------------
(* The sliding window (enforce_ordering=False): what it remembers, what it *)
(* may forget, and when a payload can therefore not be delivered twice.    *)

(* The history after a delivery.                                           *)
LEMMA AppendFacts ==
  ASSUME NEW s \in Seq(Nat), NEW x \in Nat
  PROVE  /\ DOMAIN s = 1 .. Len(s)
         /\ DOMAIN Append(s, x) = 1 .. Len(s) + 1
         /\ \A i \in DOMAIN s : Append(s, x)[i] = s[i]
         /\ Append(s, x)[Len(s) + 1] = x
         /\ \A i \in DOMAIN Append(s, x) : i \in DOMAIN s \/ i = Len(s) + 1
         /\ Len(s) \in Nat
OBVIOUS

(* The window of a peer moves only when that peer decrypts.                *)
WindowStill(q) ==
  /\ seenSeqs'[q] = seenSeqs[q] /\ maxSeenSeq'[q] = maxSeenSeq[q]
  /\ recvCount'[q] = recvCount[q] /\ rolledBack'[q] = rolledBack[q]
  /\ delivered'[q] = delivered[q]

LEMMA WindowFrame ==
  ASSUME ~Ordered, TypeInv, [Next]_vars, NEW q \in Peer
  PROVE  WindowStill(q) \/ \E seq \in Nat : DeliverWindow(q, seq) \/ FailWindow(q, seq)
<1>1. LifecycleStep => WindowStill(q)
  BY DEF LifecycleStep, recvVars, WindowStill
<1>2. \A p \in Peer : EncryptStep(p) => WindowStill(q)
  BY DEF EncryptStep, BeginEncrypt, FinishEncrypt, recvVars, WindowStill
<1>3. ASSUME NEW p \in Peer, DecryptStep(p), p # q PROVE WindowStill(q)
  BY <1>3 DEF DecryptStep, DeliverOrdered, DeliverWindow, FailWindow, Accept,
              RollbackWindow, TypeInv, TypeOK, WindowStill
<1>4. DecryptStep(q) => \E seq \in Nat : DeliverWindow(q, seq) \/ FailWindow(q, seq)
  BY DEF DecryptStep, DeliverOrdered
<1> QED
  BY <1>1, <1>2, <1>3, <1>4, StepCases

(* The two outcomes, seen from the peer that decrypts.                     *)
LEMMA DeliverOutcome ==
  ASSUME TypeInv, NEW q \in Peer, NEW seq \in Nat, DeliverWindow(q, seq)
  PROVE  /\ InWindow(q, seq) /\ CheckActive(q)
         /\ seenSeqs'[q] = Remembered(q, seq)
         /\ maxSeenSeq'[q] = Raised(q, seq)
         /\ recvCount'[q] = recvCount[q] + 1
         /\ rolledBack'[q] = rolledBack[q]
         /\ delivered'[q] = Append(delivered[q], seq)
BY DEF DeliverWindow, Accept, TypeInv, TypeOK

LEMMA FailOutcome ==
  ASSUME TypeInv, NEW q \in Peer, NEW seq \in Nat, FailWindow(q, seq)
  PROVE  /\ InWindow(q, seq) /\ CheckActive(q)
         /\ seenSeqs'[q] = Remembered(q, seq) \ {seq}
         /\ maxSeenSeq'[q] = MaxAfterRollback(q, seq)
         /\ recvCount'[q] = recvCount[q]
         /\ rolledBack'[q]
         /\ delivered'[q] = delivered[q]
BY DEF FailWindow, RollbackWindow, TypeInv, TypeOK

-----------------------------------------------------------------------------
(* The window holds delivered numbers only, and at most two windows full.  *)
SeenInv == SeenWasDelivered /\ WindowBounded

LEMMA SeenInit == Init => SeenInv
<1>1. Cardinality({}) = 0
  BY FS_EmptySet
<1> SUFFICES ASSUME Init, NEW p \in Peer
             PROVE  seenSeqs[p] = {} /\ Cardinality(seenSeqs[p]) <= 2 * Window
  BY DEF SeenInv, SeenWasDelivered, WindowBounded
<1>2. seenSeqs[p] = {}
  BY DEF Init
<1> QED
  BY <1>1, <1>2

LEMMA SeenStep ==
  ASSUME ~Ordered
  PROVE  TypeInv /\ SeenInv /\ [Next]_vars => SeenInv'
<1> SUFFICES ASSUME TypeInv, SeenInv, [Next]_vars, NEW q \in Peer
             PROVE  /\ \A n \in seenSeqs'[q] :
                         \E i \in DOMAIN delivered'[q] : delivered'[q][i] = n
                    /\ Cardinality(seenSeqs'[q]) <= 2 * Window
  BY DEF SeenInv, SeenWasDelivered, WindowBounded
<1>1. /\ \A n \in seenSeqs[q] : \E i \in DOMAIN delivered[q] : delivered[q][i] = n
      /\ Cardinality(seenSeqs[q]) <= 2 * Window
  BY DEF SeenInv, SeenWasDelivered, WindowBounded
<1>2. CASE WindowStill(q)
  BY <1>1, <1>2 DEF WindowStill
<1>3. ASSUME NEW seq \in Nat, DeliverWindow(q, seq)
      PROVE  /\ \A n \in seenSeqs'[q] :
                  \E i \in DOMAIN delivered'[q] : delivered'[q][i] = n
             /\ Cardinality(seenSeqs'[q]) <= 2 * Window
  <2>1. delivered[q] \in Seq(Nat)
    BY DEF TypeInv, TypeOK
  <2>2. \A n \in seenSeqs[q] \cup {seq} :
          \E i \in DOMAIN delivered'[q] : delivered'[q][i] = n
    <3> DEFINE s == delivered[q]
    <3>1. delivered'[q] = Append(s, seq)
      BY <1>3, DeliverOutcome
    <3> HIDE DEF s
    <3>2. /\ \A i \in DOMAIN s : i \in DOMAIN Append(s, seq) /\ Append(s, seq)[i] = s[i]
          /\ \E i \in DOMAIN Append(s, seq) : Append(s, seq)[i] = seq
      <4>1. s \in Seq(Nat)
        BY <2>1 DEF s
      <4>2. Len(s) + 1 \in DOMAIN Append(s, seq) /\ Append(s, seq)[Len(s) + 1] = seq
        BY <4>1, AppendFacts
      <4>3. \A i \in DOMAIN s : i \in DOMAIN Append(s, seq) /\ Append(s, seq)[i] = s[i]
        BY <4>1, AppendFacts
      <4> QED
        BY <4>2, <4>3
    <3>3. \A n \in seenSeqs[q] : \E i \in DOMAIN s : s[i] = n
      BY <1>1 DEF s
    <3> QED
      BY <3>1, <3>2, <3>3
  <2>3. seenSeqs'[q] = Remembered(q, seq)
    BY <1>3, DeliverOutcome
  <2>4. /\ Remembered(q, seq) \subseteq seenSeqs[q] \cup {seq}
        /\ Cardinality(Remembered(q, seq)) <= 2 * Window
    BY WindowAfterAdding
  <2> QED
    BY <2>2, <2>3, <2>4
<1>4. ASSUME NEW seq \in Nat, FailWindow(q, seq)
      PROVE  /\ \A n \in seenSeqs'[q] :
                  \E i \in DOMAIN delivered'[q] : delivered'[q][i] = n
             /\ Cardinality(seenSeqs'[q]) <= 2 * Window
  <2> DEFINE R == Remembered(q, seq)
  <2>1. R \subseteq seenSeqs[q] \cup {seq} /\ IsFiniteSet(R) /\ Cardinality(R) <= 2 * Window
    BY WindowAfterAdding
  <2> HIDE DEF R
  <2>2. IsFiniteSet(R \ {seq}) /\ Cardinality(R \ {seq}) <= Cardinality(R)
    BY <2>1, FS_Subset
  <2>3. Cardinality(R) \in Nat /\ Cardinality(R \ {seq}) \in Nat
    BY <2>1, <2>2, FS_CardinalityType
  <2>4. seenSeqs'[q] = R \ {seq} /\ delivered'[q] = delivered[q]
    BY <1>4, FailOutcome DEF R
  <2>5. R \ {seq} \subseteq seenSeqs[q]
    BY <2>1
  <2>6. Cardinality(R \ {seq}) <= 2 * Window
    BY <2>1, <2>2, <2>3
  <2> QED
    BY <1>1, <2>4, <2>5, <2>6
<1> QED
  BY <1>2, <1>3, <1>4, WindowFrame

(* A payload that fails its authentication leaves nothing behind that      *)
(* would turn a genuine one away: _seen_seqs holds delivered numbers only  *)
(* and _max_seen_seq is the highest of them.                               *)
THEOREM RollbackLeavesNoTrace ==
  ASSUME ~Ordered
  PROVE  Spec => []WindowJustified
<1>1. TypeInv /\ SeenInv => WindowJustified
  <2> SUFFICES ASSUME TypeInv, SeenInv, NEW q \in Peer
               PROVE  maxSeenSeq[q] = Highest(seenSeqs[q])
    BY DEF SeenInv, WindowJustified
  <2> DEFINE S == seenSeqs[q]
             max == maxSeenSeq[q]
  <2>1. /\ S \in SUBSET Nat /\ max \in Nat \cup {-1}
        /\ \A n \in S : n <= max
        /\ max = -1 \/ max \in S
    BY DEF TypeInv, TypeOK, MaxIsHighest
  <2> HIDE DEF S, max
  <2>2. CASE max = -1
    <3>1. S = {}
      BY <2>1, <2>2
    <3> QED
      BY <2>2, <3>1 DEF Highest, S, max
  <2>3. CASE max \in S
    <3>1. Highest(S) \in S /\ \A n \in S : n <= Highest(S)
      BY <2>1, <2>3, HighestOfBounded
    <3>2. Highest(S) <= max /\ max <= Highest(S)
      BY <2>1, <2>3, <3>1
    <3>3. Highest(S) \in Nat /\ max \in Nat
      BY <2>1, <2>3, <3>1
    <3>4. Highest(S) = max
      BY <3>2, <3>3
    <3> QED
      BY <3>4 DEF S, max
  <2> QED
    BY <2>1, <2>2, <2>3
<1> QED
  BY <1>1, TypeInit, TypeStep, SeenInit, SeenStep, PTL DEF Spec

(* The set of seen numbers never exceeds two windows: decrypt() prunes it  *)
(* in the call that makes it larger.                                       *)
THEOREM WindowStaysBounded ==
  ASSUME ~Ordered
  PROVE  Spec => []WindowBounded
<1>1. SeenInv => WindowBounded
  BY DEF SeenInv
<1> QED
  BY <1>1, TypeInit, TypeStep, SeenInit, SeenStep, PTL DEF Spec

-----------------------------------------------------------------------------
(* Until a rollback the window forgets only what lies below its floor.     *)
FloorInv == ForgottenBelowFloor /\ NoReplayBeforeRollback

LEMMA FloorInit == Init => FloorInv
<1> SUFFICES ASSUME Init, NEW p \in Peer PROVE DOMAIN delivered[p] = {}
  BY DEF FloorInv, ForgottenBelowFloor, NoReplayBeforeRollback, ReplayedAt
<1> QED
  BY DEF Init

(* A number that was delivered before a rollback is not delivered again.   *)
LEMMA NewInWindow ==
  ASSUME TypeInv, FloorInv, NEW q \in Peer, NEW seq \in Nat, InWindow(q, seq),
         ~rolledBack[q]
  PROVE  \A i \in DOMAIN delivered[q] : delivered[q][i] # seq
<1> SUFFICES ASSUME NEW i \in DOMAIN delivered[q], delivered[q][i] = seq PROVE FALSE
  OBVIOUS
<1>1. seq \in seenSeqs[q] \/ seq < WindowFloor(q)
  BY DEF FloorInv, ForgottenBelowFloor
<1>2. seq < WindowFloor(q)
  BY <1>1 DEF InWindow
<1>3. maxSeenSeq[q] >= Window
  BY <1>2 DEF WindowFloor
<1>4. maxSeenSeq[q] >= 0 /\ WindowFloor(q) \in Nat
  BY <1>3 DEF WindowFloor, TypeInv, TypeOK
<1> QED
  BY <1>2, <1>4 DEF InWindow

LEMMA FloorStep ==
  ASSUME ~Ordered
  PROVE  TypeInv /\ FloorInv /\ [Next]_vars => FloorInv'
<1> DEFINE Kept(q) == \A i \in DOMAIN delivered[q] :
                        delivered[q][i] \in seenSeqs[q] \/ delivered[q][i] < WindowFloor(q)
           Once(q) == \A i, j \in DOMAIN delivered[q] :
                        i # j => delivered[q][i] # delivered[q][j]
<1> SUFFICES ASSUME TypeInv, FloorInv, [Next]_vars, NEW q \in Peer, ~rolledBack'[q]
             PROVE  Kept(q)' /\ Once(q)'
  BY DEF FloorInv, ForgottenBelowFloor, NoReplayBeforeRollback, ReplayedAt
<1>1. ~rolledBack[q] => Kept(q) /\ Once(q)
  BY DEF FloorInv, ForgottenBelowFloor, NoReplayBeforeRollback, ReplayedAt
<1>2. CASE WindowStill(q)
  BY <1>1, <1>2 DEF WindowStill, WindowFloor
<1>3. ASSUME NEW seq \in Nat, DeliverWindow(q, seq) PROVE Kept(q)' /\ Once(q)'
  <2> DEFINE s == delivered[q]
             t == delivered'[q]
  <2>1. ~rolledBack[q] /\ InWindow(q, seq) /\ t = Append(s, seq) /\ s \in Seq(Nat)
    BY <1>3, DeliverOutcome DEF TypeInv, TypeOK
  <2>2. /\ \A i \in DOMAIN s : t[i] = s[i]
        /\ t[Len(s) + 1] = seq
        /\ \A i \in DOMAIN t : i \in DOMAIN s \/ i = Len(s) + 1
    <3> HIDE DEF s, t
    <3> QED
      BY <2>1, AppendFacts
  <2>3. /\ seenSeqs'[q] = Remembered(q, seq)
        /\ maxSeenSeq'[q] = Raised(q, seq)
    BY <1>3, DeliverOutcome
  <2>4. /\ maxSeenSeq[q] \in Nat \cup {-1} /\ maxSeenSeq'[q] \in Nat
        /\ maxSeenSeq'[q] >= maxSeenSeq[q] /\ maxSeenSeq'[q] >= seq
    <3>1. /\ Raised(q, seq) \in Nat
          /\ Raised(q, seq) >= maxSeenSeq[q] /\ Raised(q, seq) >= seq
      BY WindowAfterAdding
    <3>2. maxSeenSeq[q] \in Nat \cup {-1}
      BY DEF TypeInv, TypeOK
    <3> QED
      BY <2>3, <3>1, <3>2
  <2>5. WindowFloor(q)' \in Nat /\ WindowFloor(q) \in Nat /\ WindowFloor(q)' >= WindowFloor(q)
    BY <2>4 DEF WindowFloor
  <2>6. ASSUME NEW n \in seenSeqs[q] \cup {seq}, n \in Nat
        PROVE  n \in seenSeqs'[q] \/ n < WindowFloor(q)'
    <3>1. CASE n >= Raised(q, seq) - Window + 1
      BY <2>3, <3>1, WindowAfterAdding
    <3>2. CASE n < Raised(q, seq) - Window + 1
      <4>1. n < maxSeenSeq'[q] - Window + 1
        BY <2>3, <3>2
      <4>2. maxSeenSeq'[q] >= Window
        BY <2>4, <2>6, <4>1
      <4> QED
        BY <4>1, <4>2 DEF WindowFloor
    <3>3. Raised(q, seq) \in Int
      BY <2>3, <2>4
    <3> QED
      BY <2>6, <3>1, <3>2, <3>3
  <2>7. Kept(q)'
    <3> SUFFICES ASSUME NEW i \in DOMAIN t
                 PROVE  t[i] \in seenSeqs'[q] \/ t[i] < WindowFloor(q)'
      OBVIOUS
    <3>1. CASE i = Len(s) + 1
      BY <2>2, <2>6, <3>1
    <3>2. CASE i \in DOMAIN s
      <4>1. t[i] = s[i] /\ s[i] \in Nat
        BY <2>1, <2>2, <3>2
      <4>2. s[i] \in seenSeqs[q] \/ s[i] < WindowFloor(q)
        BY <1>1, <2>1, <3>2
      <4>3. CASE s[i] \in seenSeqs[q]
        BY <2>6, <4>1, <4>3
      <4>4. CASE s[i] < WindowFloor(q)
        BY <2>5, <4>1, <4>4
      <4> QED
        BY <4>2, <4>3, <4>4
    <3> QED
      BY <2>2, <3>1, <3>2
  <2>8. Once(q)'
    <3>1. \A i \in DOMAIN s : s[i] # seq
      BY <2>1, NewInWindow
    <3>2. \A i, j \in DOMAIN s : i # j => s[i] # s[j]
      BY <1>1, <2>1
    <3>3. \A i, j \in DOMAIN t : i # j => t[i] # t[j]
      <4> HIDE DEF s, t
      <4> QED
        BY <2>2, <3>1, <3>2
    <3> QED
      BY <3>3
  <2> QED
    BY <2>7, <2>8
<1>4. ASSUME NEW seq \in Nat, FailWindow(q, seq) PROVE FALSE
  BY <1>4, FailOutcome
<1> QED
  BY <1>2, <1>3, <1>4, WindowFrame

(* In window mode no payload is delivered twice before the first rollback, *)
(* whatever the transport repeats or reorders and however long it holds a  *)
(* payload back.                                                           *)
THEOREM NoReplayUntilRollback ==
  ASSUME ~Ordered
  PROVE  Spec => []NoReplayBeforeRollback
<1>1. FloorInv => NoReplayBeforeRollback
  BY DEF FloorInv
<1> QED
  BY <1>1, TypeInit, TypeStep, FloorInit, FloorStep, PTL DEF Spec

-----------------------------------------------------------------------------
(* A session whose cap does not exceed two windows never prunes.           *)
ShortInv == NothingForgotten /\ NoReplay

LEMMA ShortInit == Init => ShortInv
<1> SUFFICES ASSUME Init, NEW p \in Peer
             PROVE  /\ DOMAIN delivered[p] = {}
                    /\ Cardinality(seenSeqs[p]) <= recvCount[p]
  BY DEF ShortInv, NothingForgotten, NoReplay, ReplayedAt
<1>1. seenSeqs[p] = {} /\ recvCount[p] = 0 /\ DOMAIN delivered[p] = {}
  BY DEF Init
<1> QED
  BY <1>1, FS_EmptySet

LEMMA ShortNeverPrunes ==
  ASSUME ~Ordered, ShortSession, TypeInv, ShortInv,
         NEW q \in Peer, NEW seq \in Nat, CheckActive(q), seq \notin seenSeqs[q]
  PROVE  /\ Remembered(q, seq) = seenSeqs[q] \cup {seq}
         /\ Cardinality(seenSeqs[q] \cup {seq}) <= recvCount[q] + 1
<1> DEFINE S == seenSeqs[q]
<1>1. IsFiniteSet(S)
  <2>1. S \in SUBSET Nat /\ \A n \in S : n <= maxSeenSeq[q]
    BY DEF TypeInv, TypeOK, MaxIsHighest
  <2>2. S = {} \/ maxSeenSeq[q] \in Nat
    BY <2>1 DEF TypeInv, TypeOK, MaxIsHighest
  <2> HIDE DEF S
  <2> QED
    BY <2>1, <2>2, FS_BoundedSetOfNaturals, FS_EmptySet
<1>2. Cardinality(S) \in Nat
  BY <1>1, FS_CardinalityType
<1>3. Cardinality(S \cup {seq}) = Cardinality(S) + 1
  BY <1>1, FS_AddElement
<1>4. Cardinality(S) <= recvCount[q]
  BY DEF ShortInv, NothingForgotten
<1>5. recvCount[q] + 1 <= 2 * Window
  BY DEF CheckActive, Exhausted, RecvTotal, ShortSession, TypeInv, TypeOK
<1>6. recvCount[q] \in Nat
  BY DEF TypeInv, TypeOK
<1>7. Cardinality(S \cup {seq}) <= recvCount[q] + 1 /\ ~(Cardinality(S \cup {seq}) > 2 * Window)
  <2> HIDE DEF S
  <2> QED
    BY <1>2, <1>3, <1>4, <1>5, <1>6
<1> QED
  BY <1>7 DEF Remembered, Pruned

LEMMA ShortStep ==
  ASSUME ~Ordered, ShortSession
  PROVE  TypeInv /\ ShortInv /\ [Next]_vars => ShortInv'
<1> DEFINE Held(q) == \A i \in DOMAIN delivered[q] : delivered[q][i] \in seenSeqs[q]
           Once(q) == \A i, j \in DOMAIN delivered[q] :
                        i # j => delivered[q][i] # delivered[q][j]
           Few(q) == Cardinality(seenSeqs[q]) <= recvCount[q]
<1> SUFFICES ASSUME TypeInv, ShortInv, [Next]_vars, NEW q \in Peer
             PROVE  Held(q)' /\ Once(q)' /\ Few(q)'
  BY DEF ShortInv, NothingForgotten, NoReplay, ReplayedAt
<1>1. Held(q) /\ Once(q) /\ Few(q)
  BY DEF ShortInv, NothingForgotten, NoReplay, ReplayedAt
<1>2. CASE WindowStill(q)
  BY <1>1, <1>2 DEF WindowStill
<1>3. ASSUME NEW seq \in Nat, DeliverWindow(q, seq) PROVE Held(q)' /\ Once(q)' /\ Few(q)'
  <2> DEFINE s == delivered[q]
             t == delivered'[q]
  <2>1. /\ seq \notin seenSeqs[q] /\ CheckActive(q)
        /\ t = Append(s, seq) /\ s \in Seq(Nat)
        /\ seenSeqs'[q] = Remembered(q, seq)
        /\ recvCount'[q] = recvCount[q] + 1
    BY <1>3, DeliverOutcome DEF InWindow, TypeInv, TypeOK
  <2>2. /\ \A i \in DOMAIN s : t[i] = s[i]
        /\ t[Len(s) + 1] = seq
        /\ \A i \in DOMAIN t : i \in DOMAIN s \/ i = Len(s) + 1
    <3> HIDE DEF s, t
    <3> QED
      BY <2>1, AppendFacts
  <2>3. seenSeqs'[q] = seenSeqs[q] \cup {seq} /\ Few(q)'
    <3>1. /\ Remembered(q, seq) = seenSeqs[q] \cup {seq}
          /\ Cardinality(seenSeqs[q] \cup {seq}) <= recvCount[q] + 1
      BY <2>1, ShortNeverPrunes
    <3> QED
      BY <2>1, <3>1
  <2>4. \A i \in DOMAIN s : s[i] \in seenSeqs[q] /\ s[i] # seq
    BY <1>1, <2>1
  <2>5. \A i, j \in DOMAIN s : i # j => s[i] # s[j]
    BY <1>1
  <2>6. /\ \A i \in DOMAIN t : t[i] \in seenSeqs[q] \cup {seq}
        /\ \A i, j \in DOMAIN t : i # j => t[i] # t[j]
    <3> HIDE DEF s, t
    <3> QED
      BY <2>2, <2>4, <2>5
  <2> QED
    BY <2>3, <2>6
<1>4. ASSUME NEW seq \in Nat, FailWindow(q, seq) PROVE Held(q)' /\ Once(q)' /\ Few(q)'
  <2>1. /\ seq \notin seenSeqs[q] /\ CheckActive(q)
        /\ seenSeqs'[q] = Remembered(q, seq) \ {seq}
        /\ delivered'[q] = delivered[q] /\ recvCount'[q] = recvCount[q]
    BY <1>4, FailOutcome DEF InWindow
  <2>2. seenSeqs'[q] = seenSeqs[q]
    <3>1. Remembered(q, seq) = seenSeqs[q] \cup {seq}
      BY <2>1, ShortNeverPrunes
    <3> QED
      BY <2>1, <3>1
  <2> QED
    BY <1>1, <2>1, <2>2
<1> QED
  BY <1>2, <1>3, <1>4, WindowFrame

(* With max_messages at most twice the window size, decrypt() in window    *)
(* mode delivers no payload twice, rollbacks included.                     *)
THEOREM ShortSessionNoReplay ==
  ASSUME ~Ordered, ShortSession
  PROVE  Spec => []NoReplay
<1>1. ShortInv => NoReplay
  BY DEF ShortInv
<1> QED
  BY <1>1, TypeInit, TypeStep, ShortInit, ShortStep, PTL DEF Spec
=============================================================================
