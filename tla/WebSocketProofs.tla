--------------------------- MODULE WebSocketProofs ---------------------------
(***************************************************************************)
(* What holds of two WebSocket objects for any number of handshakes,       *)
(* reconnections and frames under way.  Every step is one of five kinds    *)
(* (lemma StepKinds): it seals a payload, accepts one, discards one, loses *)
(* the connection, or leaves all payloads alone.                           *)
(***************************************************************************)
EXTENDS WebSocket, SequenceTheorems, TLAPS

USE EndsAssumption, SidAssumption, BoundAssumption DEF End

-----------------------------------------------------------------------------
(* Queues                                                                  *)

(* Taking the first frame off a queue moves the others up.                 *)
LEMMA TailFrames ==
  ASSUME NEW q \in Seq(Frames), q # << >>
  PROVE  /\ Head(q) \in Frames
         /\ Head(q) = q[1]
         /\ Tail(q) \in Seq(Frames)
         /\ Len(q) \in Nat \ {0}
         /\ DOMAIN q = 1 .. Len(q)
         /\ DOMAIN Tail(q) = 1 .. (Len(q) - 1)
         /\ \A i \in 1 .. (Len(q) - 1) : Tail(q)[i] = q[i + 1]
<1>1. /\ Head(q) \in Frames
      /\ Tail(q) \in Seq(Frames)
      /\ Len(Tail(q)) = Len(q) - 1
      /\ \A i \in 1 .. Len(Tail(q)) : Tail(q)[i] = q[i + 1]
  BY HeadTailProperties
<1>2. Len(q) \in Nat \ {0} /\ DOMAIN q = 1 .. Len(q) /\ Head(q) = q[1]
  OBVIOUS
<1>3. DOMAIN Tail(q) = 1 .. (Len(q) - 1)
  BY <1>1
<1> QED
  BY <1>1, <1>2, <1>3

(* A frame appended to a queue is its last; the others stay.               *)
LEMMA AppendFrames ==
  ASSUME NEW q \in Seq(Frames), NEW f \in Frames
  PROVE  /\ Append(q, f) \in Seq(Frames)
         /\ Len(q) \in Nat
         /\ DOMAIN q = 1 .. Len(q)
         /\ DOMAIN Append(q, f) = 1 .. (Len(q) + 1)
         /\ \A i \in 1 .. Len(q) : Append(q, f)[i] = q[i]
         /\ Append(q, f)[Len(q) + 1] = f
<1>1. /\ Append(q, f) \in Seq(Frames)
      /\ Len(Append(q, f)) = Len(q) + 1
      /\ \A i \in 1 .. Len(q) : Append(q, f)[i] = q[i]
      /\ Append(q, f)[Len(q) + 1] = f
  BY AppendProperties
<1>2. Len(q) \in Nat /\ DOMAIN q = 1 .. Len(q)
  OBVIOUS
<1>3. DOMAIN Append(q, f) = 1 .. (Len(q) + 1)
  BY <1>1, <1>2
<1> QED
  BY <1>1, <1>2, <1>3

(* The frames of a queue.                                                  *)
LEMMA FramesOf ==
  ASSUME NEW q \in Seq(Frames), NEW i \in DOMAIN q
  PROVE  /\ q[i] \in Frames
         /\ q[i].type \in FrameType
         /\ q[i].sid \in Sid \cup {NoSid}
         /\ q[i].n \in Nat
<1>1. q[i] \in Frames
  OBVIOUS
<1> QED
  BY <1>1 DEF Frames

Elements(q) == {q[i] : i \in DOMAIN q}

(* What is in a queue after taking off its head, and after appending.      *)
LEMMA TailElements ==
  ASSUME NEW q \in Seq(Frames), q # << >>
  PROVE  Head(q) \in Elements(q) /\ Elements(Tail(q)) \subseteq Elements(q)
BY TailFrames DEF Elements

LEMMA AppendElements ==
  ASSUME NEW q \in Seq(Frames), NEW f \in Frames
  PROVE  Elements(Append(q, f)) \subseteq Elements(q) \cup {f}
<1> SUFFICES ASSUME NEW i \in DOMAIN Append(q, f)
             PROVE  Append(q, f)[i] \in Elements(q) \cup {f}
  BY DEF Elements
<1>1. CASE i \in 1 .. Len(q)
  BY <1>1, AppendFrames DEF Elements
<1>2. CASE i = Len(q) + 1
  BY <1>2, AppendFrames
<1> QED
  BY <1>1, <1>2, AppendFrames

-----------------------------------------------------------------------------
(* Payloads under way in one direction of one session                      *)

Of(f, s) == Sealed(f) /\ f.sid = s

(* q holds the payloads lo .. hi - 1 of s, in this order, and no other     *)
(* payload of s.                                                           *)
Between(q, s, lo, hi) ==
  /\ lo <= hi
  /\ \A i \in DOMAIN q : Of(q[i], s) => lo <= q[i].n /\ q[i].n < hi
  /\ \A n \in Nat : lo <= n /\ n < hi => \E i \in DOMAIN q : Of(q[i], s) /\ q[i].n = n
  /\ \A i, j \in DOMAIN q : i < j /\ Of(q[i], s) /\ Of(q[j], s) => q[i].n < q[j].n

(* The first payload of s under way is the one expected.                   *)
LEMMA HeadIsNext ==
  ASSUME NEW q \in Seq(Frames), q # << >>, NEW s, NEW lo \in Nat, NEW hi \in Nat,
         Between(q, s, lo, hi), Of(Head(q), s)
  PROVE  Head(q).n = lo
<1>1. Head(q) = q[1] /\ 1 \in DOMAIN q /\ q[1].n \in Nat
  <2>1. Head(q) = q[1] /\ Head(q) \in Frames /\ 1 \in DOMAIN q
    BY TailFrames
  <2> QED
    BY <2>1 DEF Frames
<1>2. lo <= q[1].n /\ q[1].n < hi
  BY <1>1 DEF Between
<1>3. ASSUME q[1].n # lo PROVE FALSE
  <2>1. PICK j \in DOMAIN q : Of(q[j], s) /\ q[j].n = lo
    BY <1>1, <1>2, <1>3 DEF Between
  <2>2. 1 < j
    BY <1>1, <1>3, <2>1, TailFrames
  <2>3. q[1].n < q[j].n
    BY <1>1, <2>1, <2>2 DEF Between
  <2> QED
    BY <1>1, <1>2, <2>1, <2>3
<1> QED
  BY <1>1, <1>3

(* Taking off a frame that is no payload of s.                             *)
LEMMA TailSkips ==
  ASSUME NEW q \in Seq(Frames), q # << >>, NEW s, NEW lo \in Nat, NEW hi \in Nat,
         Between(q, s, lo, hi), ~Of(Head(q), s)
  PROVE  Between(Tail(q), s, lo, hi)
<1> DEFINE t == Tail(q)
<1>1. /\ DOMAIN q = 1 .. Len(q) /\ DOMAIN t = 1 .. (Len(q) - 1) /\ Len(q) \in Nat
      /\ Head(q) = q[1] /\ \A i \in DOMAIN t : i + 1 \in DOMAIN q /\ t[i] = q[i + 1]
  BY TailFrames
<1>2. ASSUME NEW n \in Nat, lo <= n, n < hi
      PROVE  \E i \in DOMAIN t : Of(t[i], s) /\ t[i].n = n
  <2>1. PICK j \in DOMAIN q : Of(q[j], s) /\ q[j].n = n
    BY <1>2 DEF Between
  <2>2. j # 1
    BY <1>1, <2>1
  <2>3. j - 1 \in DOMAIN t /\ t[j - 1] = q[j]
    BY <1>1, <2>2
  <2> QED
    BY <2>1, <2>3
<1>3. \A i \in DOMAIN t : Of(t[i], s) => lo <= t[i].n /\ t[i].n < hi
  BY <1>1 DEF Between
<1>4. ASSUME NEW i \in DOMAIN t, NEW j \in DOMAIN t, i < j, Of(t[i], s), Of(t[j], s)
      PROVE  t[i].n < t[j].n
  <2>1. i + 1 \in DOMAIN q /\ j + 1 \in DOMAIN q /\ i + 1 < j + 1
    BY <1>1, <1>4
  <2> QED
    BY <1>1, <1>4, <2>1 DEF Between
<1>5. lo <= hi
  BY DEF Between
<1> QED
  BY <1>2, <1>3, <1>4, <1>5 DEF Between

(* Taking off the payload expected.                                        *)
LEMMA TailTakes ==
  ASSUME NEW q \in Seq(Frames), q # << >>, NEW s, NEW lo \in Nat, NEW hi \in Nat,
         Between(q, s, lo, hi), Of(Head(q), s)
  PROVE  lo < hi /\ Between(Tail(q), s, lo + 1, hi)
<1> DEFINE t == Tail(q)
<1>1. /\ DOMAIN q = 1 .. Len(q) /\ DOMAIN t = 1 .. (Len(q) - 1) /\ Len(q) \in Nat \ {0}
      /\ Head(q) = q[1] /\ \A i \in DOMAIN t : i + 1 \in DOMAIN q /\ t[i] = q[i + 1]
  BY TailFrames
<1>2. q[1].n = lo /\ 1 \in DOMAIN q /\ lo < hi
  <2>1. q[1].n = lo /\ 1 \in DOMAIN q
    BY <1>1, HeadIsNext
  <2> QED
    BY <1>1, <2>1 DEF Between
<1>3. ASSUME NEW n \in Nat, lo + 1 <= n, n < hi
      PROVE  \E i \in DOMAIN t : Of(t[i], s) /\ t[i].n = n
  <2>1. PICK j \in DOMAIN q : Of(q[j], s) /\ q[j].n = n
    BY <1>3 DEF Between
  <2>2. j # 1
    BY <1>2, <1>3, <2>1
  <2>3. j - 1 \in DOMAIN t /\ t[j - 1] = q[j]
    BY <1>1, <2>2
  <2> QED
    BY <2>1, <2>3
<1>4. ASSUME NEW i \in DOMAIN t, Of(t[i], s) PROVE lo + 1 <= t[i].n /\ t[i].n < hi
  <2>1. i + 1 \in DOMAIN q /\ 1 < i + 1 /\ t[i] = q[i + 1] /\ q[i + 1].n \in Nat
    BY <1>1, FramesOf
  <2>2. q[1].n < q[i + 1].n
    BY <1>1, <1>2, <1>4, <2>1 DEF Between
  <2>3. q[i + 1].n < hi
    BY <1>4, <2>1 DEF Between
  <2> QED
    BY <1>2, <2>1, <2>2, <2>3
<1>5. ASSUME NEW i \in DOMAIN t, NEW j \in DOMAIN t, i < j, Of(t[i], s), Of(t[j], s)
      PROVE  t[i].n < t[j].n
  <2>1. i + 1 \in DOMAIN q /\ j + 1 \in DOMAIN q /\ i + 1 < j + 1
    BY <1>1, <1>5
  <2> QED
    BY <1>1, <1>5, <2>1 DEF Between
<1>6. lo + 1 <= hi
  BY <1>2
<1> QED
  BY <1>2, <1>3, <1>4, <1>5, <1>6 DEF Between

(* Appending a frame that is no payload of s.                              *)
LEMMA AppendSkips ==
  ASSUME NEW q \in Seq(Frames), NEW f \in Frames, NEW s, NEW lo \in Nat, NEW hi \in Nat,
         Between(q, s, lo, hi), ~Of(f, s)
  PROVE  Between(Append(q, f), s, lo, hi)
<1> DEFINE t == Append(q, f)
<1>1. /\ DOMAIN q = 1 .. Len(q) /\ DOMAIN t = 1 .. (Len(q) + 1) /\ Len(q) \in Nat
      /\ \A i \in DOMAIN q : i \in DOMAIN t /\ t[i] = q[i]
      /\ t[Len(q) + 1] = f
  BY AppendFrames
<1>2. \A i \in DOMAIN t : Of(t[i], s) => i \in DOMAIN q
  BY <1>1
<1> QED
  BY <1>1, <1>2 DEF Between

(* Appending the next payload of s.                                        *)
LEMMA AppendSeals ==
  ASSUME NEW q \in Seq(Frames), NEW f \in Frames, NEW s, NEW lo \in Nat, NEW hi \in Nat,
         Between(q, s, lo, hi), Of(f, s), f.n = hi
  PROVE  Between(Append(q, f), s, lo, hi + 1)
<1> DEFINE t == Append(q, f)
<1>1. /\ DOMAIN q = 1 .. Len(q) /\ DOMAIN t = 1 .. (Len(q) + 1) /\ Len(q) \in Nat
      /\ \A i \in DOMAIN q : i \in DOMAIN t /\ t[i] = q[i] /\ i < Len(q) + 1
      /\ t[Len(q) + 1] = f
      /\ \A i \in DOMAIN q : q[i].n \in Nat
  BY AppendFrames, FramesOf
<1>2. \A i \in DOMAIN t : i \in DOMAIN q \/ i = Len(q) + 1
  BY <1>1
<1>3. \A i \in DOMAIN t : Of(t[i], s) => lo <= t[i].n /\ t[i].n < hi + 1
  BY <1>1, <1>2 DEF Between
<1>4. ASSUME NEW n \in Nat, lo <= n, n < hi + 1
      PROVE  \E i \in DOMAIN t : Of(t[i], s) /\ t[i].n = n
  <2>1. CASE n = hi
    BY <1>1, <2>1
  <2>2. CASE n < hi
    BY <1>1, <1>4, <2>2 DEF Between
  <2> QED
    BY <1>4, <2>1, <2>2
<1>5. ASSUME NEW i \in DOMAIN t, NEW j \in DOMAIN t, i < j, Of(t[i], s), Of(t[j], s)
      PROVE  t[i].n < t[j].n
  <2>1. i \in DOMAIN q
    BY <1>1, <1>2, <1>5
  <2>2. CASE j \in DOMAIN q
    BY <1>1, <1>5, <2>1, <2>2 DEF Between
  <2>3. CASE j = Len(q) + 1
    BY <1>1, <1>5, <2>1, <2>3 DEF Between
  <2> QED
    BY <1>2, <2>2, <2>3
<1>6. lo <= hi + 1
  BY DEF Between
<1> QED
  BY <1>3, <1>4, <1>5, <1>6 DEF Between

(* Without a payload of s under way, the ends agree on the next number.    *)
LEMMA NothingUnderWay ==
  ASSUME NEW q, NEW s, NEW lo \in Nat, NEW hi \in Nat, Between(q, s, lo, hi),
         \A i \in DOMAIN q : ~Of(q[i], s)
  PROVE  Between(<< >>, s, lo, hi)
<1>1. ~(lo < hi)
  BY DEF Between
<1> QED
  BY <1>1 DEF Between

-----------------------------------------------------------------------------
(* Types                                                                   *)

(* A frame of the handshake or of a resumption names a session.            *)
SessionFrames ==
  \A e \in End : \A f \in Elements(wire[e]) :
    f.type \in {"HELLO", "ACK", "COMPLETE", "RESUME"} => f.sid \in Sid

TypeInv == TypeOK /\ SessionFrames

LEMMA Others ==
  ASSUME NEW e \in End
  PROVE  Other(e) \in End /\ Other(e) # e /\ Other(Other(e)) = e
BY DEF Other

LEMMA PopTyped ==
  ASSUME TypeOK, NEW e \in End, wire[e] # << >>, Pop(e)
  PROVE  /\ wire' \in [End -> Seq(Frames)]
         /\ \A d \in End : Elements(wire'[d]) \subseteq Elements(wire[d])
<1>1. wire[e] \in Seq(Frames) /\ Tail(wire[e]) \in Seq(Frames)
  BY TailFrames DEF TypeOK
<1>2. wire'[e] = Tail(wire[e]) /\ \A d \in End \ {e} : wire'[d] = wire[d]
  BY DEF Pop, TypeOK
<1>3. wire' \in [End -> Seq(Frames)]
  BY <1>1 DEF Pop, TypeOK
<1> QED
  BY <1>1, <1>2, <1>3, TailElements

LEMMA EmitTyped ==
  ASSUME TypeOK, NEW e \in End, NEW f \in Frames, Emit(e, f)
  PROVE  /\ wire' \in [End -> Seq(Frames)]
         /\ \A d \in End : Elements(wire'[d]) \subseteq Elements(wire[d]) \cup {f}
<1> DEFINE o == Other(e)
<1>0. o \in End
  BY Others
<1>1. wire[o] \in Seq(Frames) /\ Append(wire[o], f) \in Seq(Frames)
  BY <1>0, AppendFrames DEF TypeOK
<1>2. wire'[o] = Append(wire[o], f) /\ \A d \in End \ {o} : wire'[d] = wire[d]
  BY <1>0 DEF Emit, TypeOK
<1>3. wire' \in [End -> Seq(Frames)]
  BY <1>1 DEF Emit, TypeOK
<1> QED
  BY <1>0, <1>1, <1>2, <1>3, AppendElements

LEMMA PopAndEmitTyped ==
  ASSUME TypeOK, NEW e \in End, wire[e] # << >>, NEW f \in Frames, PopAndEmit(e, f)
  PROVE  /\ wire' \in [End -> Seq(Frames)]
         /\ \A d \in End : Elements(wire'[d]) \subseteq Elements(wire[d]) \cup {f}
<1> DEFINE o == Other(e)
<1>0. o \in End /\ o # e
  BY Others
<1>1. /\ wire[o] \in Seq(Frames) /\ Append(wire[o], f) \in Seq(Frames)
      /\ wire[e] \in Seq(Frames) /\ Tail(wire[e]) \in Seq(Frames)
  BY <1>0, AppendFrames, TailFrames DEF TypeOK
<1>2. /\ wire'[o] = Append(wire[o], f)
      /\ wire'[e] = Tail(wire[e])
      /\ \A d \in End \ {o, e} : wire'[d] = wire[d]
  BY <1>0 DEF PopAndEmit, TypeOK
<1>3. wire' \in [End -> Seq(Frames)]
  BY <1>1 DEF PopAndEmit, TypeOK
<1>4. Elements(wire'[o]) \subseteq Elements(wire[o]) \cup {f}
  BY <1>1, <1>2, AppendElements
<1>5. Elements(wire'[e]) \subseteq Elements(wire[e])
  BY <1>1, <1>2, TailElements
<1> QED
  BY <1>2, <1>3, <1>4, <1>5

(* The frame at the head of a queue.                                       *)
LEMMA HeadTyped ==
  ASSUME TypeInv, NEW e \in End, wire[e] # << >>
  PROVE  /\ Head(wire[e]) \in Frames
         /\ Head(wire[e]) \in Elements(wire[e])
         /\ Head(wire[e]).type \in {"HELLO", "ACK", "COMPLETE", "RESUME"}
              => Head(wire[e]).sid \in Sid
<1>1. wire[e] \in Seq(Frames)
  BY DEF TypeInv, TypeOK
<1>2. Head(wire[e]) \in Frames /\ Head(wire[e]) \in Elements(wire[e])
  BY <1>1, TailFrames, TailElements
<1> QED
  BY <1>2 DEF TypeInv, SessionFrames

LEMMA FrameTyped ==
  ASSUME NEW type \in FrameType, NEW s \in Sid \cup {NoSid}, NEW n \in Nat
  PROVE  Frame(type, s, n) \in Frames
BY DEF Frame, Frames

(* Changing one entry of a table of numbers.                               *)
LEMMA TableTyped ==
  ASSUME NEW T, NEW table \in [End -> [Sid -> T]], NEW e \in End, NEW s \in Sid, NEW x \in T
  PROVE  /\ [table EXCEPT ![e][s] = x] \in [End -> [Sid -> T]]
         /\ \A d \in End, r \in Sid :
              [table EXCEPT ![e][s] = x][d][r] = IF d = e /\ r = s THEN x ELSE table[d][r]
OBVIOUS

(* The numbers of a session.                                               *)
LEMMA NumbersTyped ==
  ASSUME TypeOK
  PROVE  /\ sendSeq \in [End -> [Sid -> Nat]]
         /\ recvSeq \in [End -> [Sid -> Nat]]
         /\ \A e \in End, s \in Sid : sendSeq[e][s] \in Nat /\ recvSeq[e][s] \in Nat
<1>1. sendSeq \in [End -> [Sid -> Nat]] /\ recvSeq \in [End -> [Sid -> Nat]]
  BY DEF TypeOK
<1> QED
  BY <1>1

(* What encrypt() needs and does.                                          *)
LEMMA EncryptTyped ==
  ASSUME TypeOK, NEW e \in End, NEW left \in {"ACTIVE", "EXPIRED", "REVOKED"}, Encrypt(e, left)
  PROVE  /\ cur[e] \in Sid
         /\ state[e][cur[e]] = "ACTIVE"
         /\ state' \in [End -> [Sid -> States]]
         /\ sendSeq' \in [End -> [Sid -> Nat]]
         /\ \A type \in FrameType : Seal(e, type) \in Frames
<1>1. cur[e] \in Sid /\ state[e][cur[e]] = "ACTIVE"
  BY DEF Encrypt, Active, TypeOK
<1>2. state' \in [End -> [Sid -> States]]
  BY <1>1 DEF Encrypt, TypeOK, States
<1>3. sendSeq' \in [End -> [Sid -> Nat]]
  <2>1. sendSeq[e][cur[e]] + 1 \in Nat /\ sendSeq \in [End -> [Sid -> Nat]]
    BY <1>1, NumbersTyped
  <2>2. sendSeq' = [sendSeq EXCEPT ![e][cur[e]] = sendSeq[e][cur[e]] + 1]
    BY DEF Encrypt
  <2> QED
    BY <1>1, <2>1, <2>2, TableTyped
<1>4. \A type \in FrameType : Seal(e, type) \in Frames
  BY <1>1, FrameTyped DEF Seal, TypeOK
<1> QED
  BY <1>1, <1>2, <1>3, <1>4

LEMMA AfterMessageTyped ==
  ASSUME NEW e \in End
  PROVE  AfterMessage(e) \in {"ACTIVE", "EXPIRED"}
BY DEF AfterMessage

(* What accepting and losing a payload do to the types.                    *)
LEMMA AcceptTyped ==
  ASSUME TypeOK, NEW e \in End, NEW f \in Frames, Opens(e, f), Accept(e, f)
  PROVE  /\ cur[e] \in Sid
         /\ state[e][cur[e]] = "ACTIVE"
         /\ recvSeq' \in [End -> [Sid -> Nat]]
         /\ accepted' \in [End -> [Sid -> Seq(Nat)]]
<1>1. cur[e] \in Sid /\ state[e][cur[e]] = "ACTIVE" /\ f.n \in Nat
  BY DEF Opens, Active, TypeOK, Frames
<1>2. recvSeq' \in [End -> [Sid -> Nat]]
  <2>1. recvSeq[e][cur[e]] + 1 \in Nat /\ recvSeq \in [End -> [Sid -> Nat]]
    BY <1>1, NumbersTyped
  <2>2. recvSeq' = [recvSeq EXCEPT ![e][cur[e]] = recvSeq[e][cur[e]] + 1]
    BY DEF Accept
  <2> QED
    BY <1>1, <2>1, <2>2, TableTyped
<1>3. Append(accepted[e][cur[e]], f.n) \in Seq(Nat)
  BY <1>1 DEF TypeOK
<1>4. accepted' \in [End -> [Sid -> Seq(Nat)]]
  BY <1>1, <1>3 DEF Accept, TypeOK
<1> QED
  BY <1>1, <1>2, <1>4

LEMMA LoseTyped ==
  ASSUME TypeOK, NEW e \in End, NEW f \in Frames, Lose(e, f)
  PROVE  broken' \subseteq End \X Sid
<1>1. Sealed(f) => f.sid \in Sid
  BY DEF Sealed, Frames
<1> QED
  BY <1>1 DEF Lose, TypeOK

LEMMA DecryptTyped ==
  ASSUME TypeOK, NEW e \in End, NEW f \in Frames, Decrypt(e, f)
  PROVE  /\ state' \in [End -> [Sid -> States]]
         /\ sendSeq' \in [End -> [Sid -> Nat]]
         /\ recvSeq' \in [End -> [Sid -> Nat]]
         /\ accepted' \in [End -> [Sid -> Seq(Nat)]]
         /\ broken' \subseteq End \X Sid
<1>1. CASE Opens(e, f) /\ Accept(e, f) /\ state' = [state EXCEPT ![e][cur[e]] = AfterMessage(e)]
  <2>1. state' \in [End -> [Sid -> States]]
    BY <1>1, AfterMessageTyped DEF TypeOK, States
  <2> QED
    BY <1>1, <2>1, AcceptTyped DEF Accept, TypeOK
<1>2. CASE Lose(e, f) /\ UNCHANGED state
  BY <1>2, LoseTyped DEF Lose, TypeOK
<1> QED
  BY <1>1, <1>2 DEF Decrypt

LEMMA TypeInit == Init => TypeInv
<1> SUFFICES ASSUME Init PROVE TypeInv
  OBVIOUS
<1>1. TypeOK
  BY DEF Init, TypeOK, States
<1>2. SessionFrames
  BY DEF Init, SessionFrames, Elements
<1> QED
  BY <1>1, <1>2 DEF TypeInv

(* A step that adds no frame, or a frame f, keeps SessionFrames.           *)
LEMMA FramesKept ==
  ASSUME SessionFrames, NEW f,
         f.type \in {"HELLO", "ACK", "COMPLETE", "RESUME"} => f.sid \in Sid,
         \A d \in End : Elements(wire'[d]) \subseteq Elements(wire[d]) \cup {f}
  PROVE  SessionFrames'
<1> SUFFICES ASSUME NEW d \in End, NEW g \in Elements(wire'[d]),
                    g.type \in {"HELLO", "ACK", "COMPLETE", "RESUME"}
             PROVE  g.sid \in Sid
  BY DEF SessionFrames, Elements
<1>1. g \in Elements(wire[d]) \/ g = f
  OBVIOUS
<1> QED
  BY <1>1 DEF SessionFrames

(* A handler that takes a frame and answers nothing.                       *)
LEMMA PopFrames ==
  ASSUME TypeInv, NEW e \in End, wire[e] # << >>, Pop(e)
  PROVE  wire' \in [End -> Seq(Frames)] /\ SessionFrames'
<1>1. /\ wire' \in [End -> Seq(Frames)]
      /\ \A d \in End : Elements(wire'[d]) \subseteq Elements(wire[d])
  BY PopTyped DEF TypeInv
<1>2. PICK f : f = Frame("DATA", NoSid, 0)
  OBVIOUS
<1>3. f.type = "DATA"
  BY <1>2 DEF Frame
<1> QED
  BY <1>1, <1>3, FramesKept DEF TypeInv

(* A frame that is sent on its own account.                                *)
LEMMA EmitFrames ==
  ASSUME TypeInv, NEW e \in End, NEW f \in Frames, Emit(e, f),
         f.type \in {"HELLO", "ACK", "COMPLETE", "RESUME"} => f.sid \in Sid
  PROVE  wire' \in [End -> Seq(Frames)] /\ SessionFrames'
<1>1. /\ wire' \in [End -> Seq(Frames)]
      /\ \A d \in End : Elements(wire'[d]) \subseteq Elements(wire[d]) \cup {f}
  BY EmitTyped DEF TypeInv
<1>2. SessionFrames
  BY DEF TypeInv
<1> QED
  BY <1>1, <1>2, FramesKept

(* A handler that answers.                                                 *)
LEMMA AnswerFrames ==
  ASSUME TypeInv, NEW e \in End, wire[e] # << >>, NEW f \in Frames, PopAndEmit(e, f),
         f.type \in {"HELLO", "ACK", "COMPLETE", "RESUME"} => f.sid \in Sid
  PROVE  wire' \in [End -> Seq(Frames)] /\ SessionFrames'
<1>1. /\ wire' \in [End -> Seq(Frames)]
      /\ \A d \in End : Elements(wire'[d]) \subseteq Elements(wire[d]) \cup {f}
  BY PopAndEmitTyped DEF TypeInv
<1>2. SessionFrames
  BY DEF TypeInv
<1> QED
  BY <1>1, <1>2, FramesKept

(* The actions of Next.                                                    *)
LEMMA Actions ==
  ASSUME Next
  PROVE  \/ Drop
         \/ HandleHello \/ HandleComplete \/ HandleResume
         \/ CompleteHandshake \/ CompleteResume
         \/ StartResume \/ \E s \in Sid : StartHandshake(s)
         \/ \E e \in End :
              \/ RefuseHandshake(e) \/ Decode(e) \/ PongDecrypt(e) \/ PongEncrypt(e)
              \/ IgnorePong(e) \/ HandleClose(e) \/ PlainPing(e) \/ Close(e)
              \/ \E type \in {"DATA", "PING"} : Send(e, type)
              \/ \E s \in Sid : Age(e, s)
BY DEF Next, Handle, Call

LEMMA TypeStep == TypeInv /\ [Next]_vars => TypeInv'
<1> SUFFICES ASSUME TypeInv, [Next]_vars PROVE TypeInv'
  OBVIOUS
<1>0. TypeOK /\ Initiator \in End /\ Responder \in End
  BY DEF TypeInv
<1>1. CASE Drop
  <2>1. Payloads(Initiator) \cup Payloads(Responder) \subseteq End \X Sid
    <3> SUFFICES ASSUME NEW e \in End PROVE Payloads(e) \subseteq End \X Sid
      BY <1>0
    <3> SUFFICES ASSUME NEW i \in DOMAIN wire[e], Sealed(wire[e][i])
                 PROVE  wire[e][i].sid \in Sid
      BY DEF Payloads
    <3>1. wire[e] \in Seq(Frames)
      BY <1>0 DEF TypeOK
    <3> QED
      BY <3>1, FramesOf DEF Sealed
  <2>2. wire' \in [End -> Seq(Frames)] /\ broken' \subseteq End \X Sid /\ drops' \in Nat
    <3>1. wire' \in [End -> Seq(Frames)]
      BY <1>1 DEF Drop
    <3>2. broken' \subseteq End \X Sid
      BY <1>0, <1>1, <2>1 DEF Drop, TypeOK
    <3>3. drops' \in Nat
      BY <1>0, <1>1 DEF Drop, TypeOK
    <3> QED
      BY <3>1, <3>2, <3>3
  <2>3. hs' \in [End -> Sid \cup {NoSid}] /\ cur' \in [End -> Sid \cup {NoSid}]
    BY <1>0, <1>1 DEF Drop, TypeOK
  <2>4. TypeOK'
    BY <1>0, <1>1, <2>2, <2>3 DEF Drop, TypeOK, sessionVars
  <2>5. SessionFrames'
    BY <1>1 DEF Drop, SessionFrames, Elements
  <2> QED
    BY <2>4, <2>5 DEF TypeInv
<1>2. CASE HandleHello
  <2> DEFINE s == Head(wire[Responder]).sid
  <2>1. wire[Responder] # << >> /\ s \in Sid
    BY <1>0, <1>2, HeadTyped DEF HandleHello, At
  <2>2. Frame("ACK", s, 0) \in Frames /\ Frame("ACK", s, 0).sid \in Sid
    BY <2>1, FrameTyped DEF FrameType, Frame
  <2>3. wire' \in [End -> Seq(Frames)] /\ SessionFrames'
    BY <1>0, <1>2, <2>1, <2>2, AnswerFrames DEF HandleHello
  <2>4. TypeOK'
    BY <1>0, <1>2, <2>1, <2>3 DEF HandleHello, TypeOK, States
  <2> QED
    BY <2>3, <2>4 DEF TypeInv
<1>3. CASE HandleComplete
  <2>1. wire[Responder] # << >> /\ Head(wire[Responder]).sid \in Sid
    BY <1>0, <1>3, HeadTyped DEF HandleComplete, At
  <2>2. wire' \in [End -> Seq(Frames)] /\ SessionFrames'
    BY <1>0, <1>3, <2>1, PopFrames DEF HandleComplete
  <2>3. cur' \in [End -> Sid \cup {NoSid}] /\ known' \subseteq Sid
    BY <1>0, <1>3, <2>1 DEF HandleComplete, TypeOK
  <2>4. TypeOK'
    BY <1>0, <1>3, <2>2, <2>3 DEF HandleComplete, TypeOK, sessionVars
  <2> QED
    BY <2>2, <2>4 DEF TypeInv
<1>4. CASE HandleResume
  <2> DEFINE f == Head(wire[Responder])
             a == Frame("RESUME_ACK", f.sid, recvSeq[Responder][f.sid])
  <2>1. wire[Responder] # << >> /\ f.sid \in Sid
    BY <1>0, <1>4, HeadTyped DEF HandleResume, At
  <2>2. a \in Frames /\ a.type = "RESUME_ACK"
    BY <1>0, <2>1, FrameTyped, NumbersTyped DEF FrameType, Frame
  <2>3. CASE PopAndEmit(Responder, a) /\ cur' = [cur EXCEPT ![Responder] = f.sid]
    <3>1. wire' \in [End -> Seq(Frames)] /\ SessionFrames'
      BY <1>0, <2>1, <2>2, <2>3, AnswerFrames
    <3>2. cur' \in [End -> Sid \cup {NoSid}]
      BY <1>0, <2>1, <2>3 DEF TypeOK
    <3>3. TypeOK'
      BY <1>0, <1>4, <3>1, <3>2 DEF HandleResume, TypeOK, sessionVars
    <3> QED
      BY <3>1, <3>3 DEF TypeInv
  <2>4. CASE Pop(Responder) /\ UNCHANGED cur
    <3>1. wire' \in [End -> Seq(Frames)] /\ SessionFrames'
      BY <1>0, <2>1, <2>4, PopFrames
    <3>2. TypeOK'
      BY <1>0, <1>4, <2>4, <3>1 DEF HandleResume, TypeOK, sessionVars
    <3> QED
      BY <3>1, <3>2 DEF TypeInv
  <2> QED
    BY <1>4, <2>3, <2>4 DEF HandleResume
<1>5. CASE CompleteHandshake
  <2> DEFINE s == Head(wire[Initiator]).sid
  <2>1. wire[Initiator] # << >> /\ s \in Sid
    BY <1>0, <1>5, HeadTyped DEF CompleteHandshake, At
  <2>2. Frame("COMPLETE", s, 0) \in Frames /\ Frame("COMPLETE", s, 0).sid \in Sid
    BY <2>1, FrameTyped DEF FrameType, Frame
  <2>3. wire' \in [End -> Seq(Frames)] /\ SessionFrames'
    BY <1>0, <1>5, <2>1, <2>2, AnswerFrames DEF CompleteHandshake
  <2>4. TypeOK'
    BY <1>0, <1>5, <2>1, <2>3 DEF CompleteHandshake, TypeOK, States
  <2> QED
    BY <2>3, <2>4 DEF TypeInv
<1>6. CASE CompleteResume
  <2>1. wire' \in [End -> Seq(Frames)] /\ SessionFrames'
    BY <1>0, <1>6, PopFrames DEF CompleteResume, At
  <2>2. TypeOK'
    BY <1>0, <1>6, <2>1 DEF CompleteResume, TypeOK, objectVars, sessionVars
  <2> QED
    BY <2>1, <2>2 DEF TypeInv
<1>7. CASE StartResume
  <2> DEFINE f == Frame("RESUME", cur[Initiator], recvSeq[Initiator][cur[Initiator]])
  <2>1. cur[Initiator] \in Sid
    BY <1>0, <1>7 DEF StartResume, Active, TypeOK
  <2>2. f \in Frames /\ f.sid \in Sid
    BY <1>0, <2>1, FrameTyped, NumbersTyped DEF FrameType, Frame
  <2>3. wire' \in [End -> Seq(Frames)] /\ SessionFrames'
    BY <1>0, <1>7, <2>2, EmitFrames DEF StartResume
  <2>4. TypeOK'
    BY <1>0, <1>7, <2>3 DEF StartResume, TypeOK, objectVars, sessionVars
  <2> QED
    BY <2>3, <2>4 DEF TypeInv
<1>8. ASSUME NEW s \in Sid, StartHandshake(s) PROVE TypeInv'
  <2>1. Frame("HELLO", s, 0) \in Frames /\ Frame("HELLO", s, 0).sid \in Sid
    BY FrameTyped DEF FrameType, Frame
  <2>2. wire' \in [End -> Seq(Frames)] /\ SessionFrames'
    BY <1>0, <1>8, <2>1, EmitFrames DEF StartHandshake
  <2>3. TypeOK'
    BY <1>0, <1>8, <2>2 DEF StartHandshake, TypeOK, sessionVars
  <2> QED
    BY <2>2, <2>3 DEF TypeInv
<1>9. ASSUME NEW e \in End, RefuseHandshake(e) PROVE TypeInv'
  <2>1. wire' \in [End -> Seq(Frames)] /\ SessionFrames'
    BY <1>9, PopFrames DEF RefuseHandshake, At
  <2>2. TypeOK'
    BY <1>0, <1>9, <2>1 DEF RefuseHandshake, TypeOK, objectVars, sessionVars
  <2> QED
    BY <2>1, <2>2 DEF TypeInv
<1>10. ASSUME NEW e \in End, Decode(e) PROVE TypeInv'
  <2>1. wire[e] # << >> /\ Head(wire[e]) \in Frames
    BY <1>10, HeadTyped DEF Decode, At
  <2>2. wire' \in [End -> Seq(Frames)] /\ SessionFrames'
    BY <1>10, <2>1, PopFrames DEF Decode
  <2>3. TypeOK'
    BY <1>0, <1>10, <2>1, <2>2, DecryptTyped DEF Decode, TypeOK, objectVars
  <2> QED
    BY <2>2, <2>3 DEF TypeInv
<1>11. ASSUME NEW e \in End, PongDecrypt(e) PROVE TypeInv'
  <2>1. wire[e] # << >> /\ Head(wire[e]) \in Frames
    BY <1>11, HeadTyped DEF PongDecrypt, At
  <2>2. wire' \in [End -> Seq(Frames)] /\ SessionFrames'
    BY <1>11, <2>1, PopFrames DEF PongDecrypt
  <2>3. answering' \in [End -> BOOLEAN]
    BY <1>0, <1>11 DEF PongDecrypt, TypeOK
  <2>4. TypeOK'
    BY <1>0, <1>11, <2>1, <2>2, <2>3, DecryptTyped DEF PongDecrypt, TypeOK
  <2> QED
    BY <2>2, <2>4 DEF TypeInv
<1>12. ASSUME NEW e \in End, PongEncrypt(e) PROVE TypeInv'
  <2>1. answering' \in [End -> BOOLEAN]
    BY <1>0, <1>12 DEF PongEncrypt, TypeOK
  <2>2. CASE Encrypt(e, AfterMessage(e)) /\ Emit(e, Seal(e, "PONG"))
    <3>1. Seal(e, "PONG") \in Frames /\ Seal(e, "PONG").type = "PONG"
      BY <1>0, <2>2, EncryptTyped, AfterMessageTyped DEF Seal, Frame, FrameType
    <3>2. wire' \in [End -> Seq(Frames)] /\ SessionFrames'
      BY <2>2, <3>1, EmitFrames
    <3>3. state' \in [End -> [Sid -> States]] /\ sendSeq' \in [End -> [Sid -> Nat]]
      BY <1>0, <2>2, EncryptTyped, AfterMessageTyped
    <3>4. TypeOK'
      BY <1>0, <1>12, <2>1, <2>2, <3>2, <3>3 DEF PongEncrypt, Encrypt, TypeOK
    <3> QED
      BY <3>2, <3>4 DEF TypeInv
  <2>3. CASE UNCHANGED <<sessionVars, wire>>
    <3>1. TypeOK'
      BY <1>0, <1>12, <2>1, <2>3 DEF PongEncrypt, TypeOK, sessionVars
    <3>2. SessionFrames'
      BY <2>3 DEF TypeInv, SessionFrames, Elements
    <3> QED
      BY <3>1, <3>2 DEF TypeInv
  <2> QED
    BY <1>12, <2>2, <2>3 DEF PongEncrypt
<1>13. ASSUME NEW e \in End, IgnorePong(e) PROVE TypeInv'
  <2>1. wire[e] # << >> /\ Head(wire[e]) \in Frames
    BY <1>13, HeadTyped DEF IgnorePong, At
  <2>2. wire' \in [End -> Seq(Frames)] /\ SessionFrames'
    BY <1>13, <2>1, PopFrames DEF IgnorePong
  <2>3. broken' \subseteq End \X Sid
    BY <1>0, <1>13, <2>1, LoseTyped DEF IgnorePong
  <2>4. TypeOK'
    BY <1>0, <1>13, <2>2, <2>3 DEF IgnorePong, Lose, TypeOK, objectVars
  <2> QED
    BY <2>2, <2>4 DEF TypeInv
<1>14. ASSUME NEW e \in End, HandleClose(e) PROVE TypeInv'
  <2> DEFINE f == Head(wire[e])
  <2>1. wire[e] # << >> /\ f \in Frames
    BY <1>14, HeadTyped DEF HandleClose, At
  <2>2. wire' \in [End -> Seq(Frames)] /\ SessionFrames'
    BY <1>14, <2>1, PopFrames DEF HandleClose
  <2>3. state' \in [End -> [Sid -> States]] /\ cur' \in [End -> Sid \cup {NoSid}]
    <3>1. CASE Revokes(e, f) /\ state' = [state EXCEPT ![e][cur[e]] = "REVOKED"] /\ Forget(e)
      <4>1. cur[e] \in Sid /\ state \in [End -> [Sid -> States]] /\ "REVOKED" \in States
        BY <1>0, <3>1 DEF Revokes, TypeOK, States
      <4>2. cur' \in [End -> Sid \cup {NoSid}]
        BY <1>0, <3>1 DEF Forget, TypeOK
      <4> QED
        BY <3>1, <4>1, <4>2, TableTyped
    <3>2. CASE UNCHANGED <<state, cur>>
      BY <1>0, <3>2 DEF TypeOK
    <3> QED
      BY <1>14, <3>1, <3>2 DEF HandleClose
  <2>4. /\ sendSeq' \in [End -> [Sid -> Nat]]
        /\ recvSeq' \in [End -> [Sid -> Nat]]
        /\ accepted' \in [End -> [Sid -> Seq(Nat)]]
        /\ broken' \subseteq End \X Sid
    <3>1. CASE Opens(e, f) /\ Accept(e, f)
      BY <1>0, <2>1, <3>1, AcceptTyped DEF Accept, TypeOK
    <3>2. CASE Lose(e, f)
      BY <1>0, <2>1, <3>2, LoseTyped DEF Lose, TypeOK
    <3> QED
      BY <1>14, <3>1, <3>2 DEF HandleClose
  <2>5. TypeOK'
    BY <1>0, <1>14, <2>2, <2>3, <2>4 DEF HandleClose, TypeOK
  <2> QED
    BY <2>2, <2>5 DEF TypeInv
<1>15. ASSUME NEW e \in End, PlainPing(e) PROVE TypeInv'
  <2>1. Frame("PING", NoSid, 0) \in Frames /\ Frame("PING", NoSid, 0).type = "PING"
    BY FrameTyped DEF FrameType, Frame
  <2>2. wire' \in [End -> Seq(Frames)] /\ SessionFrames'
    BY <1>15, <2>1, EmitFrames DEF PlainPing, EmitPlain
  <2>3. TypeOK'
    BY <1>0, <1>15, <2>2 DEF PlainPing, TypeOK, objectVars, sessionVars
  <2> QED
    BY <2>2, <2>3 DEF TypeInv
<1>16. ASSUME NEW e \in End, Close(e) PROVE TypeInv'
  <2>1. CASE Encrypt(e, "REVOKED") /\ Emit(e, Seal(e, "CLOSE")) /\ Forget(e)
    <3>1. Seal(e, "CLOSE") \in Frames /\ Seal(e, "CLOSE").type = "CLOSE"
      BY <1>0, <2>1, EncryptTyped DEF Seal, Frame, FrameType
    <3>2. wire' \in [End -> Seq(Frames)] /\ SessionFrames'
      BY <2>1, <3>1, EmitFrames
    <3>3. state' \in [End -> [Sid -> States]] /\ sendSeq' \in [End -> [Sid -> Nat]]
      BY <1>0, <2>1, EncryptTyped
    <3>4. cur' \in [End -> Sid \cup {NoSid}]
      BY <1>0, <2>1 DEF Forget, TypeOK
    <3>5. TypeOK'
      BY <1>0, <1>16, <2>1, <3>2, <3>3, <3>4 DEF Close, Encrypt, TypeOK
    <3> QED
      BY <3>2, <3>5 DEF TypeInv
  <2>2. CASE EmitPlain(e, "CLOSE") /\ UNCHANGED <<cur, sessionVars>>
    <3>1. Frame("CLOSE", NoSid, 0) \in Frames /\ Frame("CLOSE", NoSid, 0).type = "CLOSE"
      BY FrameTyped DEF FrameType, Frame
    <3>2. wire' \in [End -> Seq(Frames)] /\ SessionFrames'
      BY <2>2, <3>1, EmitFrames DEF EmitPlain
    <3>3. TypeOK'
      BY <1>0, <1>16, <2>2, <3>2 DEF Close, TypeOK, sessionVars
    <3> QED
      BY <3>2, <3>3 DEF TypeInv
  <2> QED
    BY <1>16, <2>1, <2>2 DEF Close
<1>17. ASSUME NEW e \in End, NEW type \in {"DATA", "PING"}, Send(e, type) PROVE TypeInv'
  <2>1. Seal(e, type) \in Frames /\ Seal(e, type).type = type
    BY <1>0, <1>17, EncryptTyped, AfterMessageTyped DEF Send, Seal, Frame, FrameType
  <2>2. wire' \in [End -> Seq(Frames)] /\ SessionFrames'
    BY <1>17, <2>1, EmitFrames DEF Send
  <2>3. state' \in [End -> [Sid -> States]] /\ sendSeq' \in [End -> [Sid -> Nat]]
    BY <1>0, <1>17, EncryptTyped, AfterMessageTyped DEF Send
  <2>4. TypeOK'
    BY <1>0, <1>17, <2>2, <2>3 DEF Send, Encrypt, TypeOK, objectVars
  <2> QED
    BY <2>2, <2>4 DEF TypeInv
<1>18. ASSUME NEW e \in End, NEW s \in Sid, Age(e, s) PROVE TypeInv'
  <2>1. state' \in [End -> [Sid -> States]]
    BY <1>0, <1>18 DEF Age, TypeOK, States
  <2>2. TypeOK'
    BY <1>0, <1>18, <2>1 DEF Age, TypeOK, objectVars
  <2>3. SessionFrames'
    BY <1>18 DEF Age, TypeInv, SessionFrames, Elements
  <2> QED
    BY <2>2, <2>3 DEF TypeInv
<1>19. CASE UNCHANGED vars
  <2>1. TypeOK'
    BY <1>0, <1>19 DEF vars, TypeOK, objectVars, sessionVars
  <2>2. SessionFrames'
    BY <1>19 DEF vars, TypeInv, SessionFrames, Elements
  <2> QED
    BY <2>1, <2>2 DEF TypeInv
<1> QED
  BY <1>1, <1>2, <1>3, <1>4, <1>5, <1>6, <1>7, <1>8, <1>9, <1>10, <1>11, <1>12,
     <1>13, <1>14, <1>15, <1>16, <1>17, <1>18, <1>19, Actions

(* Every variable keeps its type, and each frame of a handshake names the  *)
(* session it belongs to: session ids and numbers are never made up.       *)
THEOREM WebSocketTyped == Spec => []TypeOK
<1>1. Spec => []TypeInv
  BY TypeInit, TypeStep, PTL DEF Spec
<1> QED
  BY <1>1, PTL DEF TypeInv

-----------------------------------------------------------------------------
(* The five kinds of steps                                                 *)

(* left: the state of the session afterwards. It is open only while        *)
(* messages remain.                                                        *)
LeftIn(e, left) ==
  /\ left \in {"ACTIVE", "EXPIRED", "REVOKED"}
  /\ left = "ACTIVE" => AfterMessage(e) = "ACTIVE"

SealStep(e) ==
  \E left \in {"ACTIVE", "EXPIRED", "REVOKED"}, type \in {"DATA", "PING", "PONG", "CLOSE"} :
    /\ LeftIn(e, left)
    /\ Encrypt(e, left)
    /\ Emit(e, Seal(e, type))
    /\ UNCHANGED broken

AcceptStep(e) ==
  /\ wire[e] # << >>
  /\ Opens(e, Head(wire[e]))
  /\ Accept(e, Head(wire[e]))
  /\ Pop(e)
  /\ \E left \in {"ACTIVE", "EXPIRED", "REVOKED"} :
       LeftIn(e, left) /\ state' = [state EXCEPT ![e][cur[e]] = left]

DiscardStep(e) ==
  /\ wire[e] # << >>
  /\ Lose(e, Head(wire[e]))
  /\ Pop(e)
  /\ \/ UNCHANGED state
     \/ cur[e] \in Sid /\ state' = [state EXCEPT ![e][cur[e]] = "REVOKED"]

(* The head of the queue, if taken, and the frame appended, if any, are no *)
(* payloads.                                                               *)
QuietQueue(before, after) ==
  \E q \in Seq(Frames) :
    /\ \/ q = before
       \/ before # << >> /\ ~Sealed(Head(before)) /\ q = Tail(before)
    /\ \/ after = q
       \/ \E f \in Frames : ~Sealed(f) /\ after = Append(q, f)

QuietState(before, after) ==
  \/ after = before
  \/ before = "NONE" /\ after = "ACTIVE"
  \/ before = "ACTIVE" /\ after = "EXPIRED"

QuietStep ==
  /\ UNCHANGED <<sendSeq, recvSeq, accepted, broken>>
  /\ \A e \in End, s \in Sid : QuietState(state[e][s], state'[e][s])
  /\ \A e \in End : QuietQueue(wire[e], wire'[e])

(* A queue nothing happens to, one whose head is taken, one that gets a    *)
(* frame.                                                                  *)
LEMMA QuietQueues ==
  ASSUME NEW q \in Seq(Frames)
  PROVE  /\ QuietQueue(q, q)
         /\ q # << >> /\ ~Sealed(Head(q)) => QuietQueue(q, Tail(q))
         /\ \A f \in Frames : ~Sealed(f) => QuietQueue(q, Append(q, f))
<1>1. q # << >> => Tail(q) \in Seq(Frames)
  BY TailFrames
<1> QED
  BY <1>1 DEF QuietQueue

LEMMA QuietPop ==
  ASSUME TypeOK, NEW e \in End, wire[e] # << >>, Pop(e), ~Sealed(Head(wire[e]))
  PROVE  \A d \in End : QuietQueue(wire[d], wire'[d])
<1>1. wire'[e] = Tail(wire[e]) /\ \A d \in End \ {e} : wire'[d] = wire[d]
  BY DEF Pop, TypeOK
<1>2. \A d \in End : wire[d] \in Seq(Frames)
  BY DEF TypeOK
<1> QED
  BY <1>1, <1>2, QuietQueues

LEMMA QuietEmit ==
  ASSUME TypeOK, NEW e \in End, NEW f \in Frames, Emit(e, f), ~Sealed(f)
  PROVE  \A d \in End : QuietQueue(wire[d], wire'[d])
<1> DEFINE o == Other(e)
<1>0. o \in End
  BY Others
<1>1. wire'[o] = Append(wire[o], f) /\ \A d \in End \ {o} : wire'[d] = wire[d]
  BY <1>0 DEF Emit, TypeOK
<1>2. \A d \in End : wire[d] \in Seq(Frames)
  BY DEF TypeOK
<1> QED
  BY <1>0, <1>1, <1>2, QuietQueues

LEMMA QuietAnswer ==
  ASSUME TypeOK, NEW e \in End, wire[e] # << >>, NEW f \in Frames, PopAndEmit(e, f),
         ~Sealed(f), ~Sealed(Head(wire[e]))
  PROVE  \A d \in End : QuietQueue(wire[d], wire'[d])
<1> DEFINE o == Other(e)
<1>0. o \in End /\ o # e
  BY Others
<1>1. /\ wire'[o] = Append(wire[o], f)
      /\ wire'[e] = Tail(wire[e])
      /\ \A d \in End \ {o, e} : wire'[d] = wire[d]
  BY <1>0 DEF PopAndEmit, TypeOK
<1>2. \A d \in End : wire[d] \in Seq(Frames)
  BY DEF TypeOK
<1> QED
  BY <1>0, <1>1, <1>2, QuietQueues

LEMMA QuietStates ==
  ASSUME TypeOK, UNCHANGED state
  PROVE  \A e \in End, s \in Sid : QuietState(state[e][s], state'[e][s])
BY DEF QuietState

LEMMA QuietChange ==
  ASSUME TypeOK, NEW d \in End, NEW r \in Sid, NEW x \in States,
         state' = [state EXCEPT ![d][r] = x], QuietState(state[d][r], x)
  PROVE  \A e \in End, s \in Sid : QuietState(state[e][s], state'[e][s])
<1>1. state \in [End -> [Sid -> States]]
  BY DEF TypeOK
<1>2. \A e \in End, s \in Sid : state'[e][s] = IF e = d /\ s = r THEN x ELSE state[e][s]
  <2> DEFINE changed == [state EXCEPT ![d][r] = x]
  <2>1. \A e \in End, s \in Sid : changed[e][s] = IF e = d /\ s = r THEN x ELSE state[e][s]
    BY <1>1
  <2>2. state' = changed
    OBVIOUS
  <2> HIDE DEF changed
  <2> QED
    BY <2>1, <2>2
<1> SUFFICES ASSUME NEW e \in End, NEW s \in Sid
             PROVE  QuietState(state[e][s], state'[e][s])
  OBVIOUS
<1>3. CASE e = d /\ s = r
  BY <1>2, <1>3
<1>4. CASE ~(e = d /\ s = r)
  BY <1>2, <1>4 DEF QuietState
<1> QED
  BY <1>3, <1>4

(* decrypt() accepts the head or discards it.                              *)
LEMMA DecryptKinds ==
  ASSUME TypeOK, NEW e \in End, wire[e] # << >>, Decrypt(e, Head(wire[e])), Pop(e)
  PROVE  AcceptStep(e) \/ DiscardStep(e)
<1> DEFINE f == Head(wire[e])
<1>1. CASE Opens(e, f) /\ Accept(e, f) /\ state' = [state EXCEPT ![e][cur[e]] = AfterMessage(e)]
  <2>1. LeftIn(e, AfterMessage(e)) /\ AfterMessage(e) \in {"ACTIVE", "EXPIRED", "REVOKED"}
    BY AfterMessageTyped DEF LeftIn
  <2> QED
    BY <1>1, <2>1 DEF AcceptStep
<1>2. CASE Lose(e, f) /\ UNCHANGED state
  BY <1>2 DEF DiscardStep
<1> QED
  BY <1>1, <1>2 DEF Decrypt

LEMMA StepKinds ==
  ASSUME TypeInv, [Next]_vars
  PROVE  \/ QuietStep \/ Drop
         \/ \E e \in End : SealStep(e) \/ AcceptStep(e) \/ DiscardStep(e)
<1>0. TypeOK /\ Initiator \in End /\ Responder \in End
  BY DEF TypeInv
<1>a. ASSUME NEW e \in End, NEW type, At(e, type)
      PROVE  wire[e] # << >> /\ Head(wire[e]).type = type
  BY <1>a DEF At
<1>b. ASSUME NEW e \in End, wire[e] # << >>,
             Head(wire[e]).type \in {"HELLO", "ACK", "COMPLETE", "RESUME", "RESUME_ACK"}
      PROVE  ~Sealed(Head(wire[e]))
  BY <1>b DEF Sealed
<1>2. CASE HandleHello
  <2> DEFINE s == Head(wire[Responder]).sid
  <2>1. /\ wire[Responder] # << >> /\ s \in Sid /\ ~Sealed(Head(wire[Responder]))
    BY <1>0, <1>2, <1>a, <1>b, HeadTyped DEF HandleHello
  <2>2. Frame("ACK", s, 0) \in Frames /\ ~Sealed(Frame("ACK", s, 0))
    BY <2>1, FrameTyped DEF FrameType, Frame, Sealed
  <2>3. \A d \in End : QuietQueue(wire[d], wire'[d])
    BY <1>0, <1>2, <2>1, <2>2, QuietAnswer DEF HandleHello
  <2>4. QuietState(state[Responder][s], "ACTIVE") /\ "ACTIVE" \in States
    BY <1>2 DEF HandleHello, QuietState, States
  <2>5. \A e \in End, r \in Sid : QuietState(state[e][r], state'[e][r])
    BY <1>0, <1>2, <2>1, <2>4, QuietChange DEF HandleHello
  <2> QED
    BY <1>2, <2>3, <2>5 DEF HandleHello, QuietStep
<1>3. CASE HandleComplete
  <2>1. wire[Responder] # << >> /\ ~Sealed(Head(wire[Responder])) /\ Pop(Responder)
    BY <1>0, <1>3, <1>a, <1>b DEF HandleComplete
  <2>2. \A d \in End : QuietQueue(wire[d], wire'[d])
    BY <1>0, <2>1, QuietPop
  <2>3. UNCHANGED <<state, sendSeq, recvSeq, accepted, broken>>
    BY <1>3 DEF HandleComplete, sessionVars
  <2> QED
    BY <1>0, <2>2, <2>3, QuietStates DEF QuietStep
<1>4. CASE HandleResume
  <2> DEFINE f == Head(wire[Responder])
             a == Frame("RESUME_ACK", f.sid, recvSeq[Responder][f.sid])
  <2>1. wire[Responder] # << >> /\ f.sid \in Sid /\ ~Sealed(f)
    BY <1>0, <1>4, <1>a, <1>b, HeadTyped DEF HandleResume
  <2>2. a \in Frames /\ ~Sealed(a)
    BY <1>0, <2>1, FrameTyped, NumbersTyped DEF FrameType, Frame, Sealed
  <2>3. PopAndEmit(Responder, a) \/ Pop(Responder)
    BY <1>4 DEF HandleResume
  <2>4. \A d \in End : QuietQueue(wire[d], wire'[d])
    BY <1>0, <2>1, <2>2, <2>3, QuietPop, QuietAnswer
  <2>5. UNCHANGED <<state, sendSeq, recvSeq, accepted, broken>>
    BY <1>4 DEF HandleResume, sessionVars
  <2> QED
    BY <1>0, <2>4, <2>5, QuietStates DEF QuietStep
<1>5. CASE CompleteHandshake
  <2> DEFINE s == Head(wire[Initiator]).sid
  <2>1. wire[Initiator] # << >> /\ s \in Sid /\ ~Sealed(Head(wire[Initiator]))
    BY <1>0, <1>5, <1>a, <1>b, HeadTyped DEF CompleteHandshake
  <2>2. Frame("COMPLETE", s, 0) \in Frames /\ ~Sealed(Frame("COMPLETE", s, 0))
    BY <2>1, FrameTyped DEF FrameType, Frame, Sealed
  <2>3. \A d \in End : QuietQueue(wire[d], wire'[d])
    BY <1>0, <1>5, <2>1, <2>2, QuietAnswer DEF CompleteHandshake
  <2>4. QuietState(state[Initiator][s], "ACTIVE") /\ "ACTIVE" \in States
    BY <1>5 DEF CompleteHandshake, QuietState, States
  <2>5. \A e \in End, r \in Sid : QuietState(state[e][r], state'[e][r])
    BY <1>0, <1>5, <2>1, <2>4, QuietChange DEF CompleteHandshake
  <2> QED
    BY <1>5, <2>3, <2>5 DEF CompleteHandshake, QuietStep
<1>6. CASE CompleteResume
  <2>1. wire[Initiator] # << >> /\ ~Sealed(Head(wire[Initiator])) /\ Pop(Initiator)
    BY <1>0, <1>6, <1>a, <1>b DEF CompleteResume
  <2>2. \A d \in End : QuietQueue(wire[d], wire'[d])
    BY <1>0, <2>1, QuietPop
  <2>3. UNCHANGED <<state, sendSeq, recvSeq, accepted, broken>>
    BY <1>6 DEF CompleteResume, sessionVars
  <2> QED
    BY <1>0, <2>2, <2>3, QuietStates DEF QuietStep
<1>7. CASE StartResume
  <2> DEFINE f == Frame("RESUME", cur[Initiator], recvSeq[Initiator][cur[Initiator]])
  <2>1. cur[Initiator] \in Sid
    BY <1>0, <1>7 DEF StartResume, Active, TypeOK
  <2>2. f \in Frames /\ ~Sealed(f)
    BY <1>0, <2>1, FrameTyped, NumbersTyped DEF FrameType, Frame, Sealed
  <2>3. \A d \in End : QuietQueue(wire[d], wire'[d])
    BY <1>0, <1>7, <2>2, QuietEmit DEF StartResume
  <2>4. UNCHANGED <<state, sendSeq, recvSeq, accepted, broken>>
    BY <1>7 DEF StartResume, sessionVars
  <2> QED
    BY <1>0, <2>3, <2>4, QuietStates DEF QuietStep
<1>8. ASSUME NEW s \in Sid, StartHandshake(s) PROVE QuietStep
  <2>1. Frame("HELLO", s, 0) \in Frames /\ ~Sealed(Frame("HELLO", s, 0))
    BY FrameTyped DEF FrameType, Frame, Sealed
  <2>2. \A d \in End : QuietQueue(wire[d], wire'[d])
    BY <1>0, <1>8, <2>1, QuietEmit DEF StartHandshake
  <2>3. UNCHANGED <<state, sendSeq, recvSeq, accepted, broken>>
    BY <1>8 DEF StartHandshake, sessionVars
  <2> QED
    BY <1>0, <2>2, <2>3, QuietStates DEF QuietStep
<1>9. ASSUME NEW e \in End, RefuseHandshake(e) PROVE QuietStep
  <2>1. wire[e] # << >> /\ ~Sealed(Head(wire[e])) /\ Pop(e)
    BY <1>9, <1>a, <1>b DEF RefuseHandshake
  <2>2. \A d \in End : QuietQueue(wire[d], wire'[d])
    BY <1>0, <2>1, QuietPop
  <2>3. UNCHANGED <<state, sendSeq, recvSeq, accepted, broken>>
    BY <1>9 DEF RefuseHandshake, sessionVars
  <2> QED
    BY <1>0, <2>2, <2>3, QuietStates DEF QuietStep
<1>10. ASSUME NEW e \in End, Decode(e) \/ PongDecrypt(e)
       PROVE  AcceptStep(e) \/ DiscardStep(e)
  <2>1. wire[e] # << >> /\ Decrypt(e, Head(wire[e])) /\ Pop(e)
    BY <1>10 DEF Decode, PongDecrypt, At
  <2> QED
    BY <1>0, <2>1, DecryptKinds
<1>11. ASSUME NEW e \in End, NEW type \in {"DATA", "PING", "PONG"},
              Encrypt(e, AfterMessage(e)), Emit(e, Seal(e, type)), UNCHANGED broken
       PROVE  SealStep(e)
  <2>1. LeftIn(e, AfterMessage(e)) /\ AfterMessage(e) \in {"ACTIVE", "EXPIRED", "REVOKED"}
    BY AfterMessageTyped DEF LeftIn
  <2> QED
    BY <1>11, <2>1 DEF SealStep
<1>12. ASSUME NEW e \in End, UNCHANGED <<sessionVars, wire, broken>> PROVE QuietStep
  <2>1. UNCHANGED <<state, sendSeq, recvSeq, accepted, broken, wire>>
    BY <1>12 DEF sessionVars
  <2>2. \A d \in End : wire[d] \in Seq(Frames)
    BY <1>0 DEF TypeOK
  <2>3. \A d \in End : QuietQueue(wire[d], wire'[d])
    BY <2>1, <2>2, QuietQueues
  <2> QED
    BY <1>0, <2>1, <2>3, QuietStates DEF QuietStep
<1>13. ASSUME NEW e \in End, PongEncrypt(e) PROVE SealStep(e) \/ QuietStep
  <2>1. UNCHANGED broken
    BY <1>13 DEF PongEncrypt
  <2>2. CASE Encrypt(e, AfterMessage(e)) /\ Emit(e, Seal(e, "PONG"))
    BY <1>11, <2>1, <2>2
  <2>3. CASE UNCHANGED <<sessionVars, wire>>
    BY <1>12, <2>1, <2>3
  <2> QED
    BY <1>13, <2>2, <2>3 DEF PongEncrypt
<1>14. ASSUME NEW e \in End, NEW type \in {"DATA", "PING"}, Send(e, type) PROVE SealStep(e)
  BY <1>11, <1>14 DEF Send
<1>15. ASSUME NEW e \in End, IgnorePong(e) PROVE DiscardStep(e)
  BY <1>15 DEF IgnorePong, At, DiscardStep
<1>16. ASSUME NEW e \in End, HandleClose(e) PROVE AcceptStep(e) \/ DiscardStep(e)
  <2> DEFINE f == Head(wire[e])
  <2>1. wire[e] # << >> /\ Pop(e)
    BY <1>16 DEF HandleClose, At
  <2>2. CASE Opens(e, f) /\ Accept(e, f)
    <3>1. state' = [state EXCEPT ![e][cur[e]] = "REVOKED"]
      BY <1>16, <2>2 DEF HandleClose, Revokes, Opens, Active
    <3>2. LeftIn(e, "REVOKED")
      BY DEF LeftIn
    <3> QED
      BY <2>1, <2>2, <3>1, <3>2 DEF AcceptStep
  <2>3. CASE Lose(e, f)
    <3>1. \/ UNCHANGED state
          \/ cur[e] \in Sid /\ state' = [state EXCEPT ![e][cur[e]] = "REVOKED"]
      BY <1>0, <1>16 DEF HandleClose, Revokes, TypeOK
    <3> QED
      BY <2>1, <2>3, <3>1 DEF DiscardStep
  <2> QED
    BY <1>16, <2>2, <2>3 DEF HandleClose
<1>17. ASSUME NEW e \in End, NEW type \in {"PING", "CLOSE"}, EmitPlain(e, type),
              UNCHANGED <<sessionVars, broken>>
       PROVE  QuietStep
  <2>1. Frame(type, NoSid, 0) \in Frames /\ ~Sealed(Frame(type, NoSid, 0))
    BY FrameTyped DEF FrameType, Frame, Sealed
  <2>2. \A d \in End : QuietQueue(wire[d], wire'[d])
    BY <1>0, <1>17, <2>1, QuietEmit DEF EmitPlain
  <2>3. UNCHANGED <<state, sendSeq, recvSeq, accepted, broken>>
    BY <1>17 DEF sessionVars
  <2> QED
    BY <1>0, <2>2, <2>3, QuietStates DEF QuietStep
<1>18. ASSUME NEW e \in End, PlainPing(e) PROVE QuietStep
  BY <1>17, <1>18 DEF PlainPing
<1>19. ASSUME NEW e \in End, Close(e) PROVE SealStep(e) \/ QuietStep
  <2>1. UNCHANGED broken
    BY <1>19 DEF Close
  <2>2. CASE Encrypt(e, "REVOKED") /\ Emit(e, Seal(e, "CLOSE"))
    BY <2>1, <2>2 DEF SealStep, LeftIn
  <2>3. CASE EmitPlain(e, "CLOSE") /\ UNCHANGED sessionVars
    BY <1>17, <2>1, <2>3
  <2> QED
    BY <1>19, <2>2, <2>3 DEF Close
<1>20. ASSUME NEW e \in End, NEW s \in Sid, Age(e, s) PROVE QuietStep
  <2>1. QuietState(state[e][s], "EXPIRED") /\ "EXPIRED" \in States
    BY <1>20 DEF Age, QuietState, States
  <2>2. \A d \in End, r \in Sid : QuietState(state[d][r], state'[d][r])
    BY <1>0, <1>20, <2>1, QuietChange DEF Age
  <2>3. \A d \in End : wire[d] \in Seq(Frames) /\ wire'[d] = wire[d]
    BY <1>0, <1>20 DEF Age, TypeOK
  <2> QED
    BY <1>20, <2>2, <2>3, QuietQueues DEF Age, QuietStep
<1>21. CASE UNCHANGED vars
  BY <1>0, <1>12, <1>21 DEF vars
<1>22. CASE Next
  BY <1>2, <1>3, <1>4, <1>5, <1>6, <1>7, <1>8, <1>9, <1>10, <1>13, <1>14, <1>15,
     <1>16, <1>18, <1>19, <1>20, <1>22, Actions
<1> QED
  BY <1>21, <1>22

-----------------------------------------------------------------------------
(* What the kinds of steps change                                          *)

LEMMA TableChanged ==
  ASSUME NEW T, NEW table \in [End -> [Sid -> T]], NEW e \in End, NEW s \in Sid, NEW x,
         NEW after, after = [table EXCEPT ![e][s] = x]
  PROVE  \A d \in End, r \in Sid : after[d][r] = IF d = e /\ r = s THEN x ELSE table[d][r]
OBVIOUS

LEMMA QueuesTyped ==
  ASSUME TypeOK
  PROVE  \A d \in End : wire[d] \in Seq(Frames)
BY DEF TypeOK

(* While AfterMessage() leaves a session open, messages remain.            *)
LEMMA LeftOpen ==
  ASSUME TypeOK, NEW e \in End, cur[e] \in Sid, LeftIn(e, "ACTIVE")
  PROVE  sendSeq[e][cur[e]] + recvSeq[e][cur[e]] + 1 < MaxMessages
<1>1. sendSeq[e][cur[e]] \in Nat /\ recvSeq[e][cur[e]] \in Nat
  BY NumbersTyped
<1>2. ~(sendSeq[e][cur[e]] + recvSeq[e][cur[e]] + 1 >= MaxMessages)
  BY DEF LeftIn, AfterMessage
<1> QED
  BY <1>1, <1>2

LEMMA SealEffect ==
  ASSUME TypeInv, NEW e \in End, SealStep(e)
  PROVE  LET s == cur[e]
             o == Other(e)
         IN  /\ s \in Sid
             /\ state[e][s] = "ACTIVE"
             /\ state'[e][s] \in {"ACTIVE", "EXPIRED", "REVOKED"}
             /\ state'[e][s] = "ACTIVE" => sendSeq[e][s] + recvSeq[e][s] + 1 < MaxMessages
             /\ \A d \in End, r \in Sid : ~(d = e /\ r = s) =>
                  state'[d][r] = state[d][r] /\ sendSeq'[d][r] = sendSeq[d][r]
             /\ sendSeq'[e][s] = sendSeq[e][s] + 1
             /\ UNCHANGED <<recvSeq, accepted, broken>>
             /\ wire'[e] = wire[e]
             /\ \E f \in Frames :
                  Of(f, s) /\ f.n = sendSeq[e][s] /\ wire'[o] = Append(wire[o], f)
<1>0. TypeOK
  BY DEF TypeInv
<1>1. PICK left \in {"ACTIVE", "EXPIRED", "REVOKED"}, type \in {"DATA", "PING", "PONG", "CLOSE"} :
        LeftIn(e, left) /\ Encrypt(e, left) /\ Emit(e, Seal(e, type)) /\ UNCHANGED broken
  BY DEF SealStep
<1> DEFINE s == cur[e]
           o == Other(e)
           f == Seal(e, type)
<1>2. s \in Sid /\ state[e][s] = "ACTIVE"
  BY <1>0, <1>1, EncryptTyped
<1>3. \A d \in End, r \in Sid : state'[d][r] = IF d = e /\ r = s THEN left ELSE state[d][r]
  <2>1. state \in [End -> [Sid -> States]] /\ state' = [state EXCEPT ![e][s] = left]
    BY <1>0, <1>1 DEF Encrypt, TypeOK
  <2> QED
    BY <1>2, <2>1, TableChanged
<1>4. \A d \in End, r \in Sid :
        sendSeq'[d][r] = IF d = e /\ r = s THEN sendSeq[e][s] + 1 ELSE sendSeq[d][r]
  <2>1. sendSeq \in [End -> [Sid -> Nat]] /\ sendSeq' = [sendSeq EXCEPT ![e][s] = sendSeq[e][s] + 1]
    BY <1>0, <1>1, NumbersTyped DEF Encrypt
  <2> QED
    BY <1>2, <2>1, TableChanged
<1>5. left = "ACTIVE" => sendSeq[e][s] + recvSeq[e][s] + 1 < MaxMessages
  BY <1>0, <1>1, <1>2, LeftOpen
<1>6. UNCHANGED <<recvSeq, accepted, broken>>
  BY <1>1 DEF Encrypt
<1>7. f \in Frames /\ Of(f, s) /\ f.n = sendSeq[e][s]
  <2>1. type \in FrameType /\ s # NoSid
    BY <1>2 DEF FrameType
  <2>2. f \in Frames
    BY <1>0, <1>1, <2>1, EncryptTyped
  <2> QED
    BY <2>1, <2>2 DEF Seal, Frame, Of, Sealed
<1>8. wire'[e] = wire[e] /\ wire'[o] = Append(wire[o], f)
  BY <1>0, <1>1, Others DEF Emit, TypeOK
<1> QED
  BY <1>2, <1>3, <1>4, <1>5, <1>6, <1>7, <1>8

LEMMA AcceptEffect ==
  ASSUME TypeInv, NEW e \in End, AcceptStep(e)
  PROVE  LET s == cur[e]
             f == Head(wire[e])
         IN  /\ s \in Sid
             /\ state[e][s] = "ACTIVE"
             /\ wire[e] # << >>
             /\ f \in Frames /\ f \in Elements(wire[e]) /\ Of(f, s) /\ f.n = recvSeq[e][s]
             /\ state'[e][s] \in {"ACTIVE", "EXPIRED", "REVOKED"}
             /\ state'[e][s] = "ACTIVE" => sendSeq[e][s] + recvSeq[e][s] + 1 < MaxMessages
             /\ \A d \in End, r \in Sid : ~(d = e /\ r = s) =>
                  /\ state'[d][r] = state[d][r]
                  /\ recvSeq'[d][r] = recvSeq[d][r]
                  /\ accepted'[d][r] = accepted[d][r]
             /\ recvSeq'[e][s] = recvSeq[e][s] + 1
             /\ accepted'[e][s] = Append(accepted[e][s], recvSeq[e][s])
             /\ UNCHANGED <<sendSeq, broken>>
             /\ wire'[e] = Tail(wire[e])
             /\ \A d \in End \ {e} : wire'[d] = wire[d]
<1> DEFINE s == cur[e]
           f == Head(wire[e])
<1>0. TypeOK /\ wire[e] # << >> /\ Opens(e, f) /\ Accept(e, f) /\ Pop(e)
  BY DEF TypeInv, AcceptStep
<1>1. PICK left \in {"ACTIVE", "EXPIRED", "REVOKED"} :
        LeftIn(e, left) /\ state' = [state EXCEPT ![e][s] = left]
  BY DEF AcceptStep
<1>2. f \in Frames /\ f \in Elements(wire[e])
  BY <1>0, HeadTyped
<1>3. s \in Sid /\ state[e][s] = "ACTIVE"
  BY <1>0, <1>2, AcceptTyped
<1>4. Of(f, s) /\ f.n = recvSeq[e][s]
  BY <1>0 DEF Opens, Of
<1>5. \A d \in End, r \in Sid : state'[d][r] = IF d = e /\ r = s THEN left ELSE state[d][r]
  <2>1. state \in [End -> [Sid -> States]]
    BY <1>0 DEF TypeOK
  <2> QED
    BY <1>1, <1>3, <2>1, TableChanged
<1>6. \A d \in End, r \in Sid :
        recvSeq'[d][r] = IF d = e /\ r = s THEN recvSeq[e][s] + 1 ELSE recvSeq[d][r]
  <2>1. recvSeq \in [End -> [Sid -> Nat]] /\ recvSeq' = [recvSeq EXCEPT ![e][s] = recvSeq[e][s] + 1]
    BY <1>0, NumbersTyped DEF Accept
  <2> QED
    BY <1>3, <2>1, TableChanged
<1>7. \A d \in End, r \in Sid :
        accepted'[d][r] = IF d = e /\ r = s THEN Append(accepted[e][s], recvSeq[e][s])
                                            ELSE accepted[d][r]
  <2>1. accepted \in [End -> [Sid -> Seq(Nat)]]
    BY <1>0 DEF TypeOK
  <2>2. accepted' = [accepted EXCEPT ![e][s] = Append(accepted[e][s], recvSeq[e][s])]
    BY <1>0, <1>4 DEF Accept
  <2> QED
    BY <1>3, <2>1, <2>2, TableChanged
<1>8. left = "ACTIVE" => sendSeq[e][s] + recvSeq[e][s] + 1 < MaxMessages
  BY <1>0, <1>1, <1>3, LeftOpen
<1>9. UNCHANGED <<sendSeq, broken>>
  BY <1>0 DEF Accept
<1>10. wire'[e] = Tail(wire[e]) /\ \A d \in End \ {e} : wire'[d] = wire[d]
  BY <1>0 DEF Pop, TypeOK
<1>11. /\ state'[e][s] \in {"ACTIVE", "EXPIRED", "REVOKED"}
       /\ state'[e][s] = "ACTIVE" => sendSeq[e][s] + recvSeq[e][s] + 1 < MaxMessages
       /\ recvSeq'[e][s] = recvSeq[e][s] + 1
       /\ accepted'[e][s] = Append(accepted[e][s], recvSeq[e][s])
  BY <1>3, <1>5, <1>6, <1>7, <1>8
<1>12. \A d \in End, r \in Sid : ~(d = e /\ r = s) =>
         /\ state'[d][r] = state[d][r]
         /\ recvSeq'[d][r] = recvSeq[d][r]
         /\ accepted'[d][r] = accepted[d][r]
  BY <1>5, <1>6, <1>7
<1> QED
  BY <1>0, <1>2, <1>3, <1>4, <1>9, <1>10, <1>11, <1>12

LEMMA DiscardEffect ==
  ASSUME TypeInv, NEW e \in End, DiscardStep(e)
  PROVE  LET f == Head(wire[e])
         IN  /\ wire[e] # << >>
             /\ \A d \in End, r \in Sid :
                  state'[d][r] = state[d][r] \/ state'[d][r] = "REVOKED"
             /\ UNCHANGED <<sendSeq, recvSeq, accepted>>
             /\ broken' = IF Sealed(f) THEN broken \cup {<<e, f.sid>>} ELSE broken
             /\ wire'[e] = Tail(wire[e])
             /\ \A d \in End \ {e} : wire'[d] = wire[d]
<1> DEFINE f == Head(wire[e])
<1>0. TypeOK /\ wire[e] # << >> /\ Lose(e, f) /\ Pop(e)
  BY DEF TypeInv, DiscardStep
<1>1. \A d \in End, r \in Sid : state'[d][r] = state[d][r] \/ state'[d][r] = "REVOKED"
  <2>1. CASE UNCHANGED state
    BY <2>1
  <2>2. CASE cur[e] \in Sid /\ state' = [state EXCEPT ![e][cur[e]] = "REVOKED"]
    <3>1. state \in [End -> [Sid -> States]]
      BY <1>0 DEF TypeOK
    <3>2. \A d \in End, r \in Sid :
            state'[d][r] = IF d = e /\ r = cur[e] THEN "REVOKED" ELSE state[d][r]
      BY <2>2, <3>1, TableChanged
    <3> QED
      BY <3>2
  <2> QED
    BY <2>1, <2>2 DEF DiscardStep
<1>2. wire'[e] = Tail(wire[e]) /\ \A d \in End \ {e} : wire'[d] = wire[d]
  BY <1>0 DEF Pop, TypeOK
<1> QED
  BY <1>0, <1>1, <1>2 DEF Lose

-----------------------------------------------------------------------------
(* The inductive invariant                                                 *)

(* A session that is not there has used no number, an open one has         *)
(* messages left, and its receive counter counts what was accepted.        *)
NumberInv ==
  \A e \in End, s \in Sid :
    /\ state[e][s] = "NONE" => sendSeq[e][s] = 0 /\ recvSeq[e][s] = 0
    /\ state[e][s] = "ACTIVE" => sendSeq[e][s] + recvSeq[e][s] < MaxMessages
    /\ Len(accepted[e][s]) = recvSeq[e][s]

(* A payload under way was sealed by the other end.                        *)
FlightInv ==
  \A e \in End : \A f \in Elements(wire[e]) :
    Sealed(f) => f.n < sendSeq[Other(e)][f.sid]

(* Until one was lost, the payloads under way are those the receiver still *)
(* expects, in order.                                                      *)
SeamInv ==
  \A e \in End, s \in Sid :
    <<e, s>> \notin broken => Between(wire[e], s, recvSeq[e][s], sendSeq[Other(e)][s])

LEMMA NumberInit == Init => NumberInv
BY DEF Init, NumberInv

LEMMA NumberStep == TypeInv /\ NumberInv /\ [Next]_vars => NumberInv'
<1> SUFFICES ASSUME TypeInv, NumberInv, [Next]_vars, NEW d \in End, NEW r \in Sid
             PROVE  /\ state'[d][r] = "NONE" => sendSeq'[d][r] = 0 /\ recvSeq'[d][r] = 0
                    /\ state'[d][r] = "ACTIVE" => sendSeq'[d][r] + recvSeq'[d][r] < MaxMessages
                    /\ Len(accepted'[d][r]) = recvSeq'[d][r]
  BY DEF NumberInv
<1>0. /\ state[d][r] = "NONE" => sendSeq[d][r] = 0 /\ recvSeq[d][r] = 0
      /\ state[d][r] = "ACTIVE" => sendSeq[d][r] + recvSeq[d][r] < MaxMessages
      /\ Len(accepted[d][r]) = recvSeq[d][r]
      /\ sendSeq[d][r] \in Nat /\ recvSeq[d][r] \in Nat
      /\ accepted[d][r] \in Seq(Nat)
  <2>1. accepted[d][r] \in Seq(Nat)
    BY DEF TypeInv, TypeOK
  <2> QED
    BY <2>1, NumbersTyped DEF NumberInv, TypeInv
<1>n. /\ sendSeq[d][r] \in Nat /\ recvSeq[d][r] \in Nat /\ MaxMessages \in Nat
      /\ Len(accepted[d][r]) = recvSeq[d][r]
  BY <1>0, BoundAssumption
<1>1. CASE QuietStep
  <2>1. QuietState(state[d][r], state'[d][r])
    BY <1>1 DEF QuietStep
  <2>2. /\ sendSeq'[d][r] = sendSeq[d][r] /\ recvSeq'[d][r] = recvSeq[d][r]
        /\ accepted'[d][r] = accepted[d][r]
    BY <1>1 DEF QuietStep
  <2>3. CASE state'[d][r] = state[d][r]
    BY <1>0, <2>2, <2>3
  <2>4. CASE state[d][r] = "NONE" /\ state'[d][r] = "ACTIVE"
    BY <1>0, <2>2, <2>4, BoundAssumption
  <2>5. CASE state'[d][r] = "EXPIRED"
    BY <1>0, <2>2, <2>5
  <2> QED
    BY <2>1, <2>3, <2>4, <2>5 DEF QuietState
<1>2. CASE Drop
  BY <1>0, <1>2 DEF Drop, sessionVars
<1>3. ASSUME NEW e \in End, SealStep(e)
      PROVE  /\ state'[d][r] = "NONE" => sendSeq'[d][r] = 0 /\ recvSeq'[d][r] = 0
             /\ state'[d][r] = "ACTIVE" => sendSeq'[d][r] + recvSeq'[d][r] < MaxMessages
             /\ Len(accepted'[d][r]) = recvSeq'[d][r]
  <2>1. CASE d = e /\ r = cur[e]
    <3>1. /\ state'[d][r] \in {"ACTIVE", "EXPIRED", "REVOKED"}
          /\ state'[d][r] = "ACTIVE" => sendSeq[d][r] + recvSeq[d][r] + 1 < MaxMessages
          /\ sendSeq'[d][r] = sendSeq[d][r] + 1 /\ recvSeq'[d][r] = recvSeq[d][r]
          /\ accepted'[d][r] = accepted[d][r]
      BY <1>3, <2>1, SealEffect
    <3>2. state'[d][r] = "ACTIVE" => sendSeq'[d][r] + recvSeq'[d][r] < MaxMessages
      BY <1>n, <3>1
    <3>3. state'[d][r] # "NONE" /\ Len(accepted'[d][r]) = recvSeq'[d][r]
      BY <1>n, <3>1
    <3> QED
      BY <3>2, <3>3
  <2>2. CASE ~(d = e /\ r = cur[e])
    <3>1. /\ state'[d][r] = state[d][r] /\ sendSeq'[d][r] = sendSeq[d][r]
          /\ recvSeq'[d][r] = recvSeq[d][r] /\ accepted'[d][r] = accepted[d][r]
      BY <1>3, <2>2, SealEffect
    <3> QED
      BY <1>0, <3>1
  <2> QED
    BY <2>1, <2>2
<1>4. ASSUME NEW e \in End, AcceptStep(e)
      PROVE  /\ state'[d][r] = "NONE" => sendSeq'[d][r] = 0 /\ recvSeq'[d][r] = 0
             /\ state'[d][r] = "ACTIVE" => sendSeq'[d][r] + recvSeq'[d][r] < MaxMessages
             /\ Len(accepted'[d][r]) = recvSeq'[d][r]
  <2>1. CASE d = e /\ r = cur[e]
    <3>1. /\ state'[d][r] \in {"ACTIVE", "EXPIRED", "REVOKED"}
          /\ state'[d][r] = "ACTIVE" => sendSeq[d][r] + recvSeq[d][r] + 1 < MaxMessages
          /\ recvSeq'[d][r] = recvSeq[d][r] + 1 /\ sendSeq'[d][r] = sendSeq[d][r]
          /\ accepted'[d][r] = Append(accepted[d][r], recvSeq[d][r])
      BY <1>4, <2>1, AcceptEffect
    <3>2. Len(accepted'[d][r]) = Len(accepted[d][r]) + 1
      BY <1>0, <3>1
    <3> QED
      BY <1>0, <3>1, <3>2
  <2>2. CASE ~(d = e /\ r = cur[e])
    <3>1. /\ state'[d][r] = state[d][r] /\ sendSeq'[d][r] = sendSeq[d][r]
          /\ recvSeq'[d][r] = recvSeq[d][r] /\ accepted'[d][r] = accepted[d][r]
      BY <1>4, <2>2, AcceptEffect
    <3> QED
      BY <1>0, <3>1
  <2> QED
    BY <2>1, <2>2
<1>5. ASSUME NEW e \in End, DiscardStep(e)
      PROVE  /\ state'[d][r] = "NONE" => sendSeq'[d][r] = 0 /\ recvSeq'[d][r] = 0
             /\ state'[d][r] = "ACTIVE" => sendSeq'[d][r] + recvSeq'[d][r] < MaxMessages
             /\ Len(accepted'[d][r]) = recvSeq'[d][r]
  BY <1>0, <1>5, DiscardEffect
<1> QED
  BY <1>1, <1>2, <1>3, <1>4, <1>5, StepKinds

(* A queue after a quiet step: the payloads of before, in their order.     *)
LEMMA QuietElements ==
  ASSUME NEW before \in Seq(Frames), NEW after, QuietQueue(before, after),
         NEW g \in Elements(after), Sealed(g)
  PROVE  g \in Elements(before)
<1>1. PICK q \in Seq(Frames) :
        /\ \/ q = before
           \/ before # << >> /\ ~Sealed(Head(before)) /\ q = Tail(before)
        /\ \/ after = q
           \/ \E f \in Frames : ~Sealed(f) /\ after = Append(q, f)
  BY DEF QuietQueue
<1>2. Elements(q) \subseteq Elements(before)
  BY <1>1, TailElements
<1>3. g \in Elements(q)
  <2>1. CASE after = q
    BY <2>1
  <2>2. ASSUME NEW f \in Frames, ~Sealed(f), after = Append(q, f) PROVE g \in Elements(q)
    BY <2>2, AppendElements
  <2> QED
    BY <1>1, <2>1, <2>2
<1> QED
  BY <1>2, <1>3

LEMMA QuietBetween ==
  ASSUME NEW before \in Seq(Frames), NEW after, QuietQueue(before, after),
         NEW s, NEW lo \in Nat, NEW hi \in Nat, Between(before, s, lo, hi)
  PROVE  Between(after, s, lo, hi)
<1>1. PICK q \in Seq(Frames) :
        /\ \/ q = before
           \/ before # << >> /\ ~Sealed(Head(before)) /\ q = Tail(before)
        /\ \/ after = q
           \/ \E f \in Frames : ~Sealed(f) /\ after = Append(q, f)
  BY DEF QuietQueue
<1>2. Between(q, s, lo, hi)
  <2>1. CASE q = before
    BY <2>1
  <2>2. CASE before # << >> /\ ~Sealed(Head(before)) /\ q = Tail(before)
    BY <2>2, TailSkips DEF Of
  <2> QED
    BY <1>1, <2>1, <2>2
<1>3. ASSUME NEW f \in Frames, ~Sealed(f), after = Append(q, f) PROVE Between(after, s, lo, hi)
  BY <1>2, <1>3, AppendSkips DEF Of
<1> QED
  BY <1>1, <1>2, <1>3

LEMMA FlightInit == Init => FlightInv
BY DEF Init, FlightInv, Elements

(* Payloads that were under way still are below the sender's number.       *)
LEMMA SendSeqGrows ==
  ASSUME TypeInv, [Next]_vars, NEW d \in End, NEW r \in Sid
  PROVE  sendSeq[d][r] \in Nat /\ sendSeq'[d][r] \in Nat /\ sendSeq[d][r] <= sendSeq'[d][r]
<1>0. sendSeq[d][r] \in Nat
  BY NumbersTyped DEF TypeInv
<1>1. CASE QuietStep
  BY <1>0, <1>1 DEF QuietStep
<1>2. CASE Drop
  BY <1>0, <1>2 DEF Drop, sessionVars
<1>3. ASSUME NEW e \in End, SealStep(e) PROVE sendSeq'[d][r] \in {sendSeq[d][r], sendSeq[d][r] + 1}
  BY <1>0, <1>3, SealEffect
<1>4. ASSUME NEW e \in End, AcceptStep(e) PROVE sendSeq'[d][r] = sendSeq[d][r]
  BY <1>4, AcceptEffect
<1>5. ASSUME NEW e \in End, DiscardStep(e) PROVE sendSeq'[d][r] = sendSeq[d][r]
  BY <1>5, DiscardEffect
<1> QED
  BY <1>0, <1>1, <1>2, <1>3, <1>4, <1>5, StepKinds

LEMMA FlightStep == TypeInv /\ FlightInv /\ [Next]_vars => FlightInv'
<1> SUFFICES ASSUME TypeInv, FlightInv, [Next]_vars,
                    NEW d \in End, NEW g \in Elements(wire'[d]), Sealed(g)
             PROVE  g.n < sendSeq'[Other(d)][g.sid]
  BY DEF FlightInv, Elements
<1>0. TypeOK /\ TypeInv' /\ Other(d) \in End /\ wire[d] \in Seq(Frames)
  BY TypeStep, QueuesTyped, Others DEF TypeInv
<1>a. g.sid \in Sid /\ g.n \in Nat
  <2>1. wire'[d] \in Seq(Frames)
    BY <1>0 DEF TypeInv, TypeOK
  <2>2. PICK i \in DOMAIN wire'[d] : g = wire'[d][i]
    BY DEF Elements
  <2>3. g.sid \in Sid \cup {NoSid} /\ g.n \in Nat
    BY <2>1, <2>2, FramesOf
  <2> QED
    BY <2>3 DEF Sealed
<1>b. ASSUME g \in Elements(wire[d]) PROVE g.n < sendSeq'[Other(d)][g.sid]
  <2>1. g.n < sendSeq[Other(d)][g.sid]
    BY <1>b DEF FlightInv
  <2> QED
    BY <1>0, <1>a, <2>1, SendSeqGrows
<1>1. CASE QuietStep
  <2>1. QuietQueue(wire[d], wire'[d])
    BY <1>1 DEF QuietStep
  <2> QED
    BY <1>0, <1>b, <2>1, QuietElements
<1>2. CASE Drop
  BY <1>2 DEF Drop, Elements
<1>3. ASSUME NEW e \in End, SealStep(e) PROVE g.n < sendSeq'[Other(d)][g.sid]
  <2>1. CASE d = e
    BY <1>3, <1>b, <2>1, SealEffect
  <2>2. CASE d = Other(e)
    <3>1. PICK f \in Frames :
            Of(f, cur[e]) /\ f.n = sendSeq[e][cur[e]] /\ wire'[d] = Append(wire[d], f)
      BY <1>3, <2>2, SealEffect
    <3>2. cur[e] \in Sid /\ sendSeq'[e][cur[e]] = sendSeq[e][cur[e]] + 1
      BY <1>3, SealEffect
    <3>3. Other(d) = e /\ sendSeq[e][cur[e]] \in Nat
      BY <1>0, <2>2, <3>2, NumbersTyped, Others
    <3>4. CASE g = f
      BY <3>1, <3>2, <3>3, <3>4 DEF Of
    <3>5. CASE g \in Elements(wire[d])
      BY <1>b, <3>5
    <3> QED
      BY <1>0, <3>1, <3>4, <3>5, AppendElements
  <2> QED
    BY <2>1, <2>2 DEF Other
<1>4. ASSUME NEW e \in End, AcceptStep(e) \/ DiscardStep(e) PROVE g.n < sendSeq'[Other(d)][g.sid]
  <2>1. wire[e] # << >> /\ wire'[e] = Tail(wire[e]) /\ \A c \in End \ {e} : wire'[c] = wire[c]
    BY <1>4, AcceptEffect, DiscardEffect
  <2>2. Elements(wire'[d]) \subseteq Elements(wire[d])
    BY <1>0, <2>1, TailElements
  <2> QED
    BY <1>b, <2>2
<1> QED
  BY <1>1, <1>2, <1>3, <1>4, StepKinds

LEMMA SeamInit == Init => SeamInv
<1> SUFFICES ASSUME Init, NEW e \in End, NEW s \in Sid
             PROVE  Between(wire[e], s, recvSeq[e][s], sendSeq[Other(e)][s])
  BY DEF SeamInv
<1>1. wire[e] = << >> /\ recvSeq[e][s] = 0 /\ sendSeq[Other(e)][s] = 0
  BY Others DEF Init
<1> QED
  BY <1>1 DEF Between

LEMMA SeamStep == TypeInv /\ SeamInv /\ [Next]_vars => SeamInv'
<1> SUFFICES ASSUME TypeInv, SeamInv, [Next]_vars,
                    NEW d \in End, NEW r \in Sid, <<d, r>> \notin broken'
             PROVE  Between(wire'[d], r, recvSeq'[d][r], sendSeq'[Other(d)][r])
  BY DEF SeamInv
<1> DEFINE q == wire[d]
           lo == recvSeq[d][r]
           hi == sendSeq[Other(d)][r]
<1>0. /\ Other(d) \in End /\ Other(Other(d)) = d /\ Other(d) # d
      /\ q \in Seq(Frames) /\ lo \in Nat /\ hi \in Nat
  BY Others, QueuesTyped, NumbersTyped DEF TypeInv
<1>1. CASE QuietStep
  <2>1. broken' = broken /\ recvSeq'[d][r] = lo /\ sendSeq'[Other(d)][r] = hi
    BY <1>1 DEF QuietStep
  <2>2. QuietQueue(q, wire'[d]) /\ Between(q, r, lo, hi)
    BY <1>1, <2>1 DEF QuietStep, SeamInv
  <2> QED
    BY <1>0, <2>1, <2>2, QuietBetween
<1>2. CASE Drop
  <2>1. /\ broken' = broken \cup Payloads(Initiator) \cup Payloads(Responder)
        /\ wire'[d] = << >> /\ recvSeq'[d][r] = lo /\ sendSeq'[Other(d)][r] = hi
    BY <1>2 DEF Drop, sessionVars
  <2>2. Between(q, r, lo, hi)
    BY <2>1 DEF SeamInv
  <2>3. <<d, r>> \notin Payloads(d)
    BY <2>1
  <2>4. ASSUME NEW i \in DOMAIN q, Of(q[i], r) PROVE FALSE
    <3>1. Sealed(q[i]) /\ q[i].sid = r
      BY <2>4 DEF Of
    <3>2. <<d, r>> \in Payloads(d)
      BY <3>1 DEF Payloads
    <3> QED
      BY <2>3, <3>2
  <2> QED
    BY <1>0, <2>1, <2>2, <2>4, NothingUnderWay
<1>3. ASSUME NEW e \in End, SealStep(e)
      PROVE  Between(wire'[d], r, recvSeq'[d][r], sendSeq'[Other(d)][r])
  <2> DEFINE s == cur[e]
  <2>1. broken' = broken /\ recvSeq'[d][r] = lo /\ s \in Sid
    BY <1>3, SealEffect
  <2>2. Between(q, r, lo, hi)
    BY <2>1 DEF SeamInv
  <2>3. CASE d = e
    <3>1. wire'[d] = q /\ sendSeq'[Other(d)][r] = hi
      BY <1>0, <1>3, <2>3, SealEffect
    <3> QED
      BY <2>1, <2>2, <3>1
  <2>4. CASE d = Other(e)
    <3>1. Other(d) = e
      BY <2>4, Others
    <3>2. PICK f \in Frames :
            Of(f, s) /\ f.n = sendSeq[e][s] /\ wire'[d] = Append(q, f)
      BY <1>3, <2>4, SealEffect
    <3>3. CASE r = s
      <4>1. sendSeq'[Other(d)][r] = hi + 1 /\ f.n = hi /\ Of(f, r)
        BY <1>3, <3>1, <3>2, <3>3, SealEffect
      <4> QED
        BY <1>0, <2>1, <2>2, <3>2, <4>1, AppendSeals
    <3>4. CASE r # s
      <4>1. sendSeq'[Other(d)][r] = hi
        BY <1>3, <3>1, <3>4, SealEffect
      <4>2. ~Of(f, r)
        BY <3>2, <3>4 DEF Of
      <4> QED
        BY <1>0, <2>1, <2>2, <3>2, <4>1, <4>2, AppendSkips
    <3> QED
      BY <3>3, <3>4
  <2> QED
    BY <2>3, <2>4 DEF Other
<1>4. ASSUME NEW e \in End, AcceptStep(e)
      PROVE  Between(wire'[d], r, recvSeq'[d][r], sendSeq'[Other(d)][r])
  <2> DEFINE s == cur[e]
             f == Head(wire[e])
  <2>1. broken' = broken /\ sendSeq'[Other(d)][r] = hi /\ Of(f, s) /\ s \in Sid
    BY <1>4, AcceptEffect
  <2>2. Between(q, r, lo, hi)
    BY <2>1 DEF SeamInv
  <2>3. CASE d # e
    BY <1>4, <2>1, <2>2, <2>3, AcceptEffect
  <2>4. CASE d = e /\ r = s
    <3>1. q # << >> /\ wire'[d] = Tail(q) /\ recvSeq'[d][r] = lo + 1
      BY <1>4, <2>4, AcceptEffect
    <3> QED
      BY <1>0, <2>1, <2>2, <2>4, <3>1, TailTakes
  <2>5. CASE d = e /\ r # s
    <3>1. q # << >> /\ wire'[d] = Tail(q) /\ recvSeq'[d][r] = lo
      BY <1>4, <2>5, AcceptEffect
    <3>2. ~Of(Head(q), r)
      BY <2>1, <2>5 DEF Of
    <3> QED
      BY <1>0, <2>1, <2>2, <3>1, <3>2, TailSkips
  <2> QED
    BY <2>3, <2>4, <2>5
<1>5. ASSUME NEW e \in End, DiscardStep(e)
      PROVE  Between(wire'[d], r, recvSeq'[d][r], sendSeq'[Other(d)][r])
  <2> DEFINE f == Head(wire[e])
  <2>1. /\ broken' = IF Sealed(f) THEN broken \cup {<<e, f.sid>>} ELSE broken
        /\ recvSeq'[d][r] = lo /\ sendSeq'[Other(d)][r] = hi
    BY <1>5, DiscardEffect
  <2>2. Between(q, r, lo, hi)
    BY <2>1 DEF SeamInv
  <2>3. CASE d # e
    BY <1>5, <2>1, <2>2, <2>3, DiscardEffect
  <2>4. CASE d = e
    <3>1. q # << >> /\ wire'[d] = Tail(q)
      BY <1>5, <2>4, DiscardEffect
    <3>2. ~Of(Head(q), r)
      BY <2>1, <2>4 DEF Of
    <3> QED
      BY <1>0, <2>1, <2>2, <3>1, <3>2, TailSkips
  <2> QED
    BY <2>3, <2>4
<1> QED
  BY <1>1, <1>2, <1>3, <1>4, <1>5, StepKinds

-----------------------------------------------------------------------------
(* Theorems about numbers                                                  *)

WebSocketInv == TypeInv /\ NumberInv /\ FlightInv /\ SeamInv

LEMMA Invariant == Spec => []WebSocketInv
BY TypeInit, TypeStep, NumberInit, NumberStep, FlightInit, FlightStep, SeamInit, SeamStep, PTL
   DEF Spec, WebSocketInv

(* As long as each payload of a session towards an end was handed to       *)
(* decrypt() there, decrypt() gets the number it expects: handshakes,      *)
(* handle_resume() and complete_resume() do not disturb the numbering.     *)
THEOREM SeamlessTransfer == Spec => []SeamlessUntilLoss
<1>1. TypeInv /\ SeamInv => SeamlessUntilLoss
  <2> SUFFICES ASSUME TypeInv, SeamInv, NEW e \in End, wire[e] # << >>, Sealed(Head(wire[e])),
                      <<e, Head(wire[e]).sid>> \notin broken
               PROVE  Head(wire[e]).n = recvSeq[e][Head(wire[e]).sid]
    BY DEF SeamlessUntilLoss
  <2> DEFINE f == Head(wire[e])
             s == f.sid
  <2>1. f \in Frames /\ wire[e] \in Seq(Frames)
    BY HeadTyped, QueuesTyped DEF TypeInv
  <2>2. s \in Sid /\ Of(f, s)
    BY <2>1 DEF Sealed, Of, Frames
  <2>3. Between(wire[e], s, recvSeq[e][s], sendSeq[Other(e)][s])
    BY <2>2 DEF SeamInv
  <2>4. recvSeq[e][s] \in Nat /\ sendSeq[Other(e)][s] \in Nat
    BY <2>2, NumbersTyped, Others DEF TypeInv
  <2> QED
    BY <2>1, <2>2, <2>3, <2>4, HeadIsNext
<1> QED
  BY <1>1, Invariant, PTL DEF WebSocketInv

(* A session that is there stays; a closed one does not even send.         *)
LEMMA ClosedLeft ==
  ASSUME TypeInv, [Next]_vars, NEW d \in End, NEW r \in Sid,
         state[d][r] \in {"EXPIRED", "REVOKED"}
  PROVE  /\ state'[d][r] \in {"EXPIRED", "REVOKED"}
         /\ sendSeq'[d][r] = sendSeq[d][r]
         /\ accepted'[d][r] = accepted[d][r]
<1>1. CASE QuietStep
  BY <1>1 DEF QuietStep, QuietState
<1>2. CASE Drop
  BY <1>2 DEF Drop, sessionVars
<1>3. ASSUME NEW e \in End, SealStep(e)
      PROVE  /\ state'[d][r] \in {"EXPIRED", "REVOKED"}
             /\ sendSeq'[d][r] = sendSeq[d][r]
             /\ accepted'[d][r] = accepted[d][r]
  <2>1. ~(d = e /\ r = cur[e])
    BY <1>3, SealEffect
  <2> QED
    BY <1>3, <2>1, SealEffect
<1>4. ASSUME NEW e \in End, AcceptStep(e)
      PROVE  /\ state'[d][r] \in {"EXPIRED", "REVOKED"}
             /\ sendSeq'[d][r] = sendSeq[d][r]
             /\ accepted'[d][r] = accepted[d][r]
  <2>1. ~(d = e /\ r = cur[e])
    BY <1>4, AcceptEffect
  <2> QED
    BY <1>4, <2>1, AcceptEffect
<1>5. ASSUME NEW e \in End, DiscardStep(e)
      PROVE  /\ state'[d][r] \in {"EXPIRED", "REVOKED"}
             /\ sendSeq'[d][r] = sendSeq[d][r]
             /\ accepted'[d][r] = accepted[d][r]
  BY <1>5, DiscardEffect
<1> QED
  BY <1>1, <1>2, <1>3, <1>4, <1>5, StepKinds

LEMMA NoneLeft ==
  ASSUME TypeInv, [Next]_vars, NEW d \in End, NEW r \in Sid, state[d][r] # "NONE"
  PROVE  state'[d][r] # "NONE"
<1>1. CASE QuietStep
  BY <1>1 DEF QuietStep, QuietState
<1>2. CASE Drop
  BY <1>2 DEF Drop, sessionVars
<1>3. ASSUME NEW e \in End, SealStep(e) PROVE state'[d][r] # "NONE"
  BY <1>3, SealEffect
<1>4. ASSUME NEW e \in End, AcceptStep(e) PROVE state'[d][r] # "NONE"
  BY <1>4, AcceptEffect
<1>5. ASSUME NEW e \in End, DiscardStep(e) PROVE state'[d][r] # "NONE"
  BY <1>5, DiscardEffect
<1> QED
  BY <1>1, <1>2, <1>3, <1>4, <1>5, StepKinds

(* An expired or revoked session seals nothing, accepts nothing and does   *)
(* not open again, whatever the application hands to handle_resume().      *)
THEOREM ClosedStaysSilent == Spec => ClosedIsSilent
<1> DEFINE Silent ==
      \A e \in End, s \in Sid : state[e][s] \in {"EXPIRED", "REVOKED"} =>
        /\ state'[e][s] \in {"EXPIRED", "REVOKED"}
        /\ sendSeq'[e][s] = sendSeq[e][s]
        /\ accepted'[e][s] = accepted[e][s]
<1>1. TypeInv /\ [Next]_vars => [Silent]_vars
  BY ClosedLeft
<1> QED
  BY <1>1, TypeInit, TypeStep, PTL DEF Spec, ClosedIsSilent

-----------------------------------------------------------------------------
(* Each session refines FifoChannel                                        *)

Numbers == 0 .. MaxMessages - 1

Sent(d, r) == {n \in Numbers : n < sendSeq[Other(d)][r]}

LEMMA ChannelInit == Init => \A s \in Sid : Channel(s)!Init
<1> SUFFICES ASSUME Init, NEW s \in Sid PROVE Channel(s)!Init
  OBVIOUS
<1>1. \A e \in End : Phase(e, s) = "new" /\ accepted[e][s] = << >> /\ sendSeq[Other(e)][s] = 0
  BY Others DEF Init, Phase
<1>2. \A e \in End : {n \in 0 .. MaxMessages - 1 : n < sendSeq[Other(e)][s]} = {}
  BY <1>1
<1> QED
  BY <1>1, <1>2 DEF Channel!Init

LEMMA ChannelStep ==
  ASSUME TypeInv, NumberInv, FlightInv, [Next]_vars, NEW s \in Sid
  PROVE  [Channel(s)!Next]_(Channel(s)!vars)
<1> SUFFICES Channel(s)!Next
  OBVIOUS
<1> DEFINE phase == [e \in End |-> Phase(e, s)]
           sent == [e \in End |-> Sent(e, s)]
           received == [e \in End |-> accepted[e][s]]
<1>0. /\ \A d \in End : Other(d) \in End /\ sendSeq[d][s] \in Nat /\ recvSeq[d][s] \in Nat
      /\ \A d \in End : sendSeq'[d][s] \in Nat
      /\ \A d \in End : state[d][s] \in States /\ state'[d][s] \in States
  <2>1. TypeInv'
    BY TypeStep
  <2>2. state \in [End -> [Sid -> States]] /\ state' \in [End -> [Sid -> States]]
    BY <2>1 DEF TypeInv, TypeOK
  <2> QED
    BY <2>2, Others, NumbersTyped, SendSeqGrows DEF TypeInv
<1>1. Channel(s)!Lifecycle
  <2> SUFFICES ASSUME NEW d \in End
               PROVE  /\ Phase(d, s)' \in {"new", "open", "closed"}
                      /\ Phase(d, s)' \in Channel(s)!Onward(Phase(d, s))
    BY DEF Channel!Lifecycle
  <2>1. Phase(d, s)' \in {"new", "open", "closed"}
    BY DEF Phase
  <2>2. state[d][s] # "NONE" => state'[d][s] # "NONE"
    BY NoneLeft
  <2>3. state[d][s] \in {"EXPIRED", "REVOKED"} => state'[d][s] \in {"EXPIRED", "REVOKED"}
    BY ClosedLeft
  <2> QED
    BY <1>0, <2>1, <2>2, <2>3 DEF Phase, Channel!Onward, States
<1>2. ASSUME \A d \in End : sendSeq'[d][s] = sendSeq[d][s],
             \A d \in End : accepted'[d][s] = accepted[d][s]
      PROVE  Channel(s)!Next
  <2>1. \A d \in End : Sent(d, s)' = Sent(d, s)
    BY <1>0, <1>2 DEF Sent, Other
  <2>2. sent' = sent /\ received' = received
    BY <1>2, <2>1
  <2> QED
    BY <1>1, <2>2 DEF Channel!Next, Sent, Numbers
<1>3. CASE QuietStep
  BY <1>2, <1>3 DEF QuietStep
<1>4. CASE Drop
  BY <1>2, <1>4 DEF Drop, sessionVars
<1>5. ASSUME NEW e \in End, DiscardStep(e) PROVE Channel(s)!Next
  BY <1>2, <1>5, DiscardEffect
<1>6. ASSUME NEW e \in End, SealStep(e) PROVE Channel(s)!Next
  <2>1. CASE s # cur[e]
    BY <1>2, <1>6, <2>1, SealEffect
  <2>2. CASE s = cur[e]
    <3> DEFINE o == Other(e)
               n == sendSeq[e][s]
    <3>1. /\ o \in End /\ Other(o) = e /\ o # e /\ n \in Nat
          /\ state[e][s] = "ACTIVE"
          /\ sendSeq'[e][s] = n + 1 /\ sendSeq'[o][s] = sendSeq[o][s]
          /\ \A d \in End : accepted'[d][s] = accepted[d][s]
      BY <1>0, <1>6, <2>2, SealEffect, Others
    <3>2. n \in Numbers /\ n \notin Sent(o, s)
      <4>1. sendSeq[e][s] + recvSeq[e][s] < MaxMessages
        BY <3>1 DEF NumberInv
      <4>2. n < MaxMessages
        BY <1>0, <4>1, BoundAssumption
      <4> QED
        BY <3>1, <4>2, BoundAssumption DEF Numbers, Sent
    <3>3. Sent(o, s)' = Sent(o, s) \cup {n}
      BY <3>1, <3>2 DEF Sent, Numbers
    <3>4. \A d \in End \ {o} : d = e
      BY <3>1 DEF Other
    <3>5. Sent(e, s)' = Sent(e, s)
      BY <3>1 DEF Sent, Other
    <3>6. sent' = [sent EXCEPT ![o] = @ \cup {n}]
      BY <3>1, <3>3, <3>4, <3>5
    <3>7. received' = received
      BY <3>1
    <3>8. Channel(s)!Offer(o)
      BY <3>1, <3>2, <3>6, <3>7 DEF Channel!Offer, Sent, Numbers
    <3> QED
      BY <1>1, <3>1, <3>8 DEF Channel!Next
  <2> QED
    BY <2>1, <2>2
<1>7. ASSUME NEW e \in End, AcceptStep(e) PROVE Channel(s)!Next
  <2>1. CASE s # cur[e]
    BY <1>2, <1>7, <2>1, AcceptEffect
  <2>2. CASE s = cur[e]
    <3> DEFINE n == recvSeq[e][s]
               f == Head(wire[e])
    <3>1. /\ state[e][s] = "ACTIVE" /\ n \in Nat
          /\ f \in Elements(wire[e]) /\ Sealed(f) /\ f.sid = s /\ f.n = n
          /\ accepted'[e][s] = Append(accepted[e][s], n)
          /\ \A d \in End \ {e} : accepted'[d][s] = accepted[d][s]
          /\ \A d \in End : sendSeq'[d][s] = sendSeq[d][s]
      <4>1. /\ state[e][s] = "ACTIVE"
            /\ f \in Elements(wire[e]) /\ Of(f, s) /\ f.n = n
            /\ accepted'[e][s] = Append(accepted[e][s], n)
        BY <1>7, <2>2, AcceptEffect
      <4>2. \A d \in End \ {e} : accepted'[d][s] = accepted[d][s]
        BY <1>7, AcceptEffect
      <4>3. \A d \in End : sendSeq'[d][s] = sendSeq[d][s]
        BY <1>7, AcceptEffect
      <4> QED
        BY <1>0, <4>1, <4>2, <4>3 DEF Of
    <3>2. Len(accepted[e][s]) = n
      BY DEF NumberInv
    <3>3. n \in Sent(e, s)
      <4>1. sendSeq[e][s] + recvSeq[e][s] < MaxMessages
        BY <3>1 DEF NumberInv
      <4>2. n < MaxMessages
        BY <1>0, <4>1, BoundAssumption
      <4>3. n < sendSeq[Other(e)][s]
        BY <3>1 DEF FlightInv
      <4> QED
        BY <3>1, <4>2, <4>3, BoundAssumption DEF Sent, Numbers
    <3>4. Phase(e, s) = "open"
      BY <3>1 DEF Phase
    <3>5. received' = [received EXCEPT ![e] = Append(@, Len(@))]
      BY <3>1, <3>2
    <3>6. sent' = sent
      BY <1>0, <3>1 DEF Sent
    <3>7. Channel(s)!Deliver(e)
      BY <3>2, <3>3, <3>4, <3>5, <3>6 DEF Channel!Deliver, Sent, Numbers
    <3> QED
      BY <1>1, <3>7 DEF Channel!Next
  <2> QED
    BY <2>1, <2>2
<1> QED
  BY <1>3, <1>4, <1>5, <1>6, <1>7, StepKinds

(* Over any number of connections, handshakes and resumptions, whichever   *)
(* session handle_resume() is given, decrypt() accepts the payloads of     *)
(* each session in order, each once and none skipped.                      *)
THEOREM SessionsAreChannels == Spec => ImplementsChannels
<1> DEFINE ChannelSteps == \A s \in Sid : [Channel(s)!Next]_(Channel(s)!vars)
<1>1. Init => \A s \in Sid : Channel(s)!Init
  BY ChannelInit
<1>2. TypeInv /\ NumberInv /\ FlightInv /\ [Next]_vars => [ChannelSteps]_vars
  BY ChannelStep
<1> QED
  BY <1>1, <1>2, Invariant, PTL DEF Spec, WebSocketInv, ImplementsChannels

-----------------------------------------------------------------------------
(* The server serves only what the client holds                            *)

(* A COMPLETE under way is of a session the client has made.               *)
CompleteInv ==
  \A f \in Elements(wire[Responder]) : f.type = "COMPLETE" => state[Initiator][f.sid] # "NONE"

SharedInv == ServedIsShared /\ CompleteInv

(* Only complete_handshake() sends a COMPLETE.                             *)
LEMMA CompletesSent ==
  ASSUME TypeInv, [Next]_vars, NEW g \in Elements(wire'[Responder]), g.type = "COMPLETE"
  PROVE  \/ g \in Elements(wire[Responder])
         \/ CompleteHandshake /\ g.sid = Head(wire[Initiator]).sid
<1>0. TypeOK /\ Initiator \in End /\ Responder \in End
  BY DEF TypeInv
<1>a. ASSUME NEW e \in End, wire[e] # << >>, Pop(e) PROVE g \in Elements(wire[Responder])
  BY <1>0, <1>a, PopTyped
<1>b. ASSUME NEW e \in End, NEW f \in Frames, Emit(e, f), f.type # "COMPLETE"
      PROVE  g \in Elements(wire[Responder])
  BY <1>0, <1>b, EmitTyped
<1>c. ASSUME NEW e \in End, wire[e] # << >>, NEW f \in Frames, PopAndEmit(e, f)
      PROVE  g \in Elements(wire[Responder]) \/ g = f
  BY <1>0, <1>c, PopAndEmitTyped
<1>1. CASE Drop
  BY <1>1 DEF Drop, Elements
<1>2. CASE HandleHello
  <2> DEFINE f == Frame("ACK", Head(wire[Responder]).sid, 0)
  <2>1. wire[Responder] # << >> /\ Head(wire[Responder]).sid \in Sid
    BY <1>0, <1>2, HeadTyped DEF HandleHello, At
  <2>2. f \in Frames /\ f.type = "ACK"
    BY <2>1, FrameTyped DEF FrameType, Frame
  <2> QED
    BY <1>0, <1>2, <1>c, <2>1, <2>2 DEF HandleHello
<1>3. CASE HandleComplete
  BY <1>0, <1>3, <1>a DEF HandleComplete, At
<1>4. CASE HandleResume
  <2> DEFINE f == Head(wire[Responder])
             a == Frame("RESUME_ACK", f.sid, recvSeq[Responder][f.sid])
  <2>1. wire[Responder] # << >> /\ f.sid \in Sid
    BY <1>0, <1>4, HeadTyped DEF HandleResume, At
  <2>2. a \in Frames /\ a.type = "RESUME_ACK"
    BY <1>0, <2>1, FrameTyped, NumbersTyped DEF FrameType, Frame
  <2>3. PopAndEmit(Responder, a) \/ Pop(Responder)
    BY <1>4 DEF HandleResume
  <2> QED
    BY <1>0, <1>a, <1>c, <2>1, <2>2, <2>3
<1>5. CASE CompleteHandshake
  <2> DEFINE f == Frame("COMPLETE", Head(wire[Initiator]).sid, 0)
  <2>1. wire[Initiator] # << >> /\ Head(wire[Initiator]).sid \in Sid
    BY <1>0, <1>5, HeadTyped DEF CompleteHandshake, At
  <2>2. f \in Frames /\ f.sid = Head(wire[Initiator]).sid
    BY <2>1, FrameTyped DEF FrameType, Frame
  <2> QED
    BY <1>0, <1>5, <1>c, <2>1, <2>2 DEF CompleteHandshake
<1>6. CASE CompleteResume
  BY <1>0, <1>6, <1>a DEF CompleteResume, At
<1>7. CASE StartResume
  <2> DEFINE f == Frame("RESUME", cur[Initiator], recvSeq[Initiator][cur[Initiator]])
  <2>1. cur[Initiator] \in Sid
    BY <1>0, <1>7 DEF StartResume, Active, TypeOK
  <2>2. f \in Frames /\ f.type = "RESUME"
    BY <1>0, <2>1, FrameTyped, NumbersTyped DEF FrameType, Frame
  <2> QED
    BY <1>0, <1>7, <1>b, <2>2 DEF StartResume
<1>8. ASSUME NEW s \in Sid, StartHandshake(s) PROVE g \in Elements(wire[Responder])
  <2>1. Frame("HELLO", s, 0) \in Frames /\ Frame("HELLO", s, 0).type = "HELLO"
    BY FrameTyped DEF FrameType, Frame
  <2> QED
    BY <1>0, <1>8, <1>b, <2>1 DEF StartHandshake
<1>9. ASSUME NEW e \in End,
             RefuseHandshake(e) \/ Decode(e) \/ PongDecrypt(e) \/ IgnorePong(e) \/ HandleClose(e)
      PROVE  g \in Elements(wire[Responder])
  BY <1>9, <1>a DEF RefuseHandshake, Decode, PongDecrypt, IgnorePong, HandleClose, At
<1>10. ASSUME NEW e \in End, NEW left \in {"ACTIVE", "EXPIRED", "REVOKED"}, Encrypt(e, left),
              NEW type \in {"DATA", "PING", "PONG", "CLOSE"}, Emit(e, Seal(e, type))
       PROVE  g \in Elements(wire[Responder])
  <2>1. Seal(e, type) \in Frames
    BY <1>0, <1>10, EncryptTyped DEF FrameType
  <2>2. Seal(e, type).type # "COMPLETE"
    BY DEF Seal, Frame
  <2> QED
    BY <1>10, <1>b, <2>1, <2>2
<1>11. ASSUME NEW e \in End, NEW type \in {"PING", "CLOSE"}, EmitPlain(e, type)
       PROVE  g \in Elements(wire[Responder])
  <2>1. Frame(type, NoSid, 0) \in Frames /\ Frame(type, NoSid, 0).type # "COMPLETE"
    BY FrameTyped DEF FrameType, Frame
  <2> QED
    BY <1>11, <1>b, <2>1 DEF EmitPlain
<1>12. ASSUME NEW e \in End, PongEncrypt(e) PROVE g \in Elements(wire[Responder])
  <2>1. AfterMessage(e) \in {"ACTIVE", "EXPIRED", "REVOKED"}
    BY AfterMessageTyped
  <2> QED
    BY <1>10, <1>12, <2>1 DEF PongEncrypt
<1>13. ASSUME NEW e \in End, NEW type \in {"DATA", "PING"}, Send(e, type)
       PROVE  g \in Elements(wire[Responder])
  <2>1. AfterMessage(e) \in {"ACTIVE", "EXPIRED", "REVOKED"}
    BY AfterMessageTyped
  <2> QED
    BY <1>10, <1>13, <2>1 DEF Send
<1>14. ASSUME NEW e \in End, PlainPing(e) \/ Close(e) PROVE g \in Elements(wire[Responder])
  BY <1>10, <1>11, <1>14 DEF PlainPing, Close
<1>15. ASSUME NEW e \in End, NEW s \in Sid, Age(e, s) PROVE g \in Elements(wire[Responder])
  BY <1>15 DEF Age
<1>16. CASE UNCHANGED vars
  BY <1>16 DEF vars
<1>17. CASE Next
  BY <1>1, <1>2, <1>3, <1>4, <1>5, <1>6, <1>7, <1>8, <1>9, <1>12, <1>13, <1>14, <1>15, <1>17,
     Actions
<1> QED
  BY <1>16, <1>17

(* The server takes up a session by its COMPLETE, or one it has known.     *)
LEMMA TakenUp ==
  ASSUME TypeInv, [Next]_vars, NEW s \in Sid, cur'[Responder] = s \/ s \in known'
  PROVE  \/ cur[Responder] = s \/ s \in known
         \/ \E f \in Elements(wire[Responder]) : f.type = "COMPLETE" /\ f.sid = s
<1>0. /\ TypeOK /\ Initiator \in End /\ Responder \in End /\ Initiator # Responder
      /\ cur \in [End -> Sid \cup {NoSid}]
  BY EndsAssumption DEF TypeInv, TypeOK
<1>a. ASSUME UNCHANGED <<cur, known>> PROVE cur[Responder] = s \/ s \in known
  BY <1>a
<1>b. ASSUME NEW e \in End, Forget(e), UNCHANGED known PROVE cur[Responder] = s \/ s \in known
  BY <1>0, <1>b, SidAssumption DEF Forget
<1>1. CASE Drop
  BY <1>0, <1>1, SidAssumption DEF Drop
<1>2. CASE HandleComplete
  <2> DEFINE f == Head(wire[Responder])
  <2>1. f \in Elements(wire[Responder]) /\ f.type = "COMPLETE"
    BY <1>0, <1>2, HeadTyped DEF HandleComplete, At
  <2>2. CASE cur' = [cur EXCEPT ![Responder] = f.sid] /\ known' = known \cup {f.sid}
    BY <1>0, <2>1, <2>2
  <2>3. CASE UNCHANGED <<cur, known>>
    BY <1>a, <2>3
  <2> QED
    BY <1>2, <2>2, <2>3 DEF HandleComplete
<1>3. CASE HandleResume
  <2> DEFINE f == Head(wire[Responder])
  <2>0. UNCHANGED known
    BY <1>3 DEF HandleResume
  <2>1. PICK param \in known \cup {NoSid} :
          \/ CanResume(Offered(param), f) /\ cur' = [cur EXCEPT ![Responder] = f.sid]
          \/ UNCHANGED cur
    BY <1>3 DEF HandleResume
  <2>2. CASE CanResume(Offered(param), f) /\ cur' = [cur EXCEPT ![Responder] = f.sid]
    BY <1>0, <2>0, <2>2 DEF CanResume, Offered
  <2> QED
    BY <1>a, <2>0, <2>1, <2>2
<1>4. CASE CompleteHandshake
  BY <1>0, <1>4 DEF CompleteHandshake
<1>5. CASE HandleHello \/ CompleteResume \/ StartResume \/ \E r \in Sid : StartHandshake(r)
  BY <1>a, <1>5 DEF HandleHello, CompleteResume, StartResume, StartHandshake, objectVars
<1>6. ASSUME NEW e \in End,
             \/ RefuseHandshake(e) \/ Decode(e) \/ PongDecrypt(e) \/ PongEncrypt(e)
             \/ IgnorePong(e) \/ PlainPing(e)
             \/ \E type \in {"DATA", "PING"} : Send(e, type)
             \/ \E r \in Sid : Age(e, r)
      PROVE  cur[Responder] = s \/ s \in known
  BY <1>a, <1>6 DEF RefuseHandshake, Decode, PongDecrypt, PongEncrypt, IgnorePong, PlainPing,
     Send, Age, objectVars
<1>7. ASSUME NEW e \in End, HandleClose(e) \/ Close(e) PROVE cur[Responder] = s \/ s \in known
  BY <1>a, <1>b, <1>7 DEF HandleClose, Close
<1>8. CASE UNCHANGED vars
  BY <1>a, <1>8 DEF vars, objectVars
<1>9. CASE Next
  BY <1>1, <1>2, <1>3, <1>4, <1>5, <1>6, <1>7, <1>9, Actions
<1> QED
  BY <1>8, <1>9

LEMMA SharedInit == Init => SharedInv
<1> SUFFICES ASSUME Init PROVE SharedInv
  OBVIOUS
<1>1. \A s \in Sid : cur[Responder] # s /\ s \notin known
  BY SidAssumption DEF Init
<1>2. Elements(wire[Responder]) = {}
  BY DEF Init, Elements
<1> QED
  BY <1>1, <1>2 DEF SharedInv, ServedIsShared, CompleteInv

LEMMA SharedStep == TypeInv /\ SharedInv /\ [Next]_vars => SharedInv'
<1> SUFFICES ASSUME TypeInv, SharedInv, [Next]_vars PROVE SharedInv'
  OBVIOUS
<1>0. TypeInv' /\ Initiator \in End /\ Responder \in End
  BY TypeStep
<1>1. ServedIsShared'
  <2> SUFFICES ASSUME NEW s \in Sid, cur'[Responder] = s \/ s \in known'
               PROVE  state'[Initiator][s] # "NONE"
    BY DEF ServedIsShared
  <2>1. state[Initiator][s] # "NONE"
    BY TakenUp DEF SharedInv, ServedIsShared, CompleteInv
  <2> QED
    BY <1>0, <2>1, NoneLeft
<1>2. CompleteInv'
  <2> SUFFICES ASSUME NEW g \in Elements(wire'[Responder]), g.type = "COMPLETE"
               PROVE  state'[Initiator][g.sid] # "NONE"
    BY DEF CompleteInv, Elements
  <2>1. g.sid \in Sid
    BY <1>0 DEF TypeInv, SessionFrames, Elements
  <2>2. CASE g \in Elements(wire[Responder])
    <3>1. state[Initiator][g.sid] # "NONE"
      BY <2>2 DEF SharedInv, CompleteInv
    <3> QED
      BY <1>0, <2>1, <3>1, NoneLeft
  <2>3. CASE CompleteHandshake /\ g.sid = Head(wire[Initiator]).sid
    <3>1. state \in [End -> [Sid -> States]]
      BY DEF TypeInv, TypeOK
    <3>2. state' = [state EXCEPT ![Initiator][g.sid] = "ACTIVE"]
      BY <2>3 DEF CompleteHandshake
    <3> QED
      BY <1>0, <2>1, <3>1, <3>2, TableChanged
  <2> QED
    BY <2>2, <2>3, CompletesSent
<1> QED
  BY <1>1, <1>2 DEF SharedInv

(* The server's handle_complete() and handle_resume() take up only         *)
(* sessions that complete_handshake() has made at the client, however many *)
(* handshakes were started and lost.                                       *)
THEOREM ServesShared == Spec => []ServedIsShared
<1>1. Spec => [](TypeInv /\ SharedInv)
  BY TypeInit, TypeStep, SharedInit, SharedStep, PTL DEF Spec
<1> QED
  BY <1>1, PTL DEF SharedInv
=============================================================================
