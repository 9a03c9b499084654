-------------------------- MODULE HandshakeProofs --------------------------
(***************************************************************************)
(* For any number of handshakes, workers and threads and any difference of *)
(* the clocks: the handshake implements KeyAgreement as long as a mark     *)
(* outlives both sides of the freshness window and a delay of Lag on each. *)
(***************************************************************************)
EXTENDS Handshake, TLAPS

USE AgeAssumption, ClockAssumption, AttemptAssumption

(* 30 s before, 30 s after, and twice the delay, fit into the 90 s TTL.    *)
MarkOutlivesWindow == 2 * MaxAge + 2 * Lag < MarkTTL

-----------------------------------------------------------------------------
(* The inductive invariant of the responder                                *)

AsyncStages == {"asyncSeen", "asyncNonce", "asyncVerify"}

(* The last moment at which a HELLO that was checked in time is marked.    *)
Deadline(m) == m.ts + MaxAge + Lag

HelloOnce ==
  /\ \A m, n \in hello : m.sid = n.sid => m = n
  /\ \A s \in Attempt : responder[s] # {} => \E m \in hello : m.sid = s

WorkHasHello ==
  \A w \in Worker : work[w] # Idle =>
    [sid |-> work[w].sid, ts |-> work[w].ts] \in hello

(* A worker about to mark, and one that marked first, are within the lag.  *)
WorkInTime ==
  \A w \in Worker : work[w].at \in Pressing =>
    work[w].clock <= now /\ now <= work[w].clock + Lag

CheckedFirst ==
  \A w \in Worker : work[w].at = "mark" =>
    work[w].clock - work[w].ts \in -MaxAge .. MaxAge

(* A worker that marked first holds the mark.                              *)
AsyncHolds ==
  /\ \A w \in Worker : work[w].at \in AsyncStages =>
       helloMark[work[w].sid] = work[w].clock + MarkTTL
  /\ \A v, w \in Worker :
       work[v].at \in AsyncStages /\ work[w].at \in AsyncStages /\ work[v].sid = work[w].sid
       => v = w

(* A handshake that has its session, or is about to get it.                *)
Spent(s) == responder[s] # {} \/ \E w \in Worker : work[w].at = "derive" /\ work[w].sid = s

(* Its mark lasts until no copy of the HELLO can be accepted any more.     *)
SpentIsGuarded ==
  \A m \in hello : Spent(m.sid) => helloMark[m.sid] > Deadline(m) \/ now > Deadline(m)

SpentBeforeAsync ==
  \A m \in hello : \A w \in Worker :
    work[w].at \in AsyncStages /\ work[w].sid = m.sid /\ Spent(m.sid) => now > Deadline(m)

OneResponse ==
  /\ \A v, w \in Worker :
       work[v].at = "derive" /\ work[w].at = "derive" /\ work[v].sid = work[w].sid => v = w
  /\ \A w \in Worker : work[w].at = "derive" => responder[work[w].sid] = {}
  /\ \A s \in Attempt : \A k \in responder[s] : responder[s] = {k} /\ k < fresh

ResponderInv ==
  /\ TypeOK
  /\ HelloOnce
  /\ WorkHasHello
  /\ WorkInTime
  /\ CheckedFirst
  /\ AsyncHolds
  /\ SpentIsGuarded
  /\ SpentBeforeAsync
  /\ OneResponse

-----------------------------------------------------------------------------
(* The inductive invariant of the initiator                                *)

(* Every ACK carries the contribution of the one session it announces.     *)
AckOnce ==
  /\ \A a \in acks : a.half \in responder[a.sid]
  /\ \A a, b \in acks : a.sid = b.sid => a = b
  /\ \A s \in Attempt : initiator[s] # {} => \E a \in acks : a.sid = s

CallHasAck ==
  \A c \in Caller : calls[c] # Idle =>
    /\ calls[c].at \in {"mark", "derive"}
    /\ [sid |-> calls[c].sid, ts |-> calls[c].ts, half |-> calls[c].half] \in acks

CallInTime ==
  \A c \in Caller : calls[c].at = "mark" =>
    /\ calls[c].clock <= now /\ now <= calls[c].clock + Lag
    /\ calls[c].clock + offset - calls[c].ts \in -MaxAge .. MaxAge

Completed(s) == initiator[s] # {} \/ \E c \in Caller : calls[c].at = "derive" /\ calls[c].sid = s

CompletedIsGuarded ==
  \A a \in acks : Completed(a.sid) =>
    ackMark[a.sid] > Deadline(a) - offset \/ now > Deadline(a) - offset

OneCompletion ==
  /\ \A c, d \in Caller :
       calls[c].at = "derive" /\ calls[d].at = "derive" /\ calls[c].sid = calls[d].sid => c = d
  /\ \A c \in Caller : calls[c].at = "derive" => initiator[calls[c].sid] = {}

InitiatorInv ==
  /\ AckOnce
  /\ CallHasAck
  /\ CallInTime
  /\ CompletedIsGuarded
  /\ OneCompletion

HandshakeInv == ResponderInv /\ InitiatorInv

-----------------------------------------------------------------------------
(* Types                                                                   *)

(* Every step keeps the types of clocks, messages, marks and sessions.     *)
LEMMA TypeStep == TypeOK /\ [Next]_vars => TypeOK'
<1> SUFFICES ASSUME TypeOK, [Next]_vars PROVE TypeOK'
  OBVIOUS
<1> USE DEF TypeOK, Call, Stages, Hello, Ack, Absent
<1>0. Idle.at = "idle"
  BY DEF Idle
<1>1. CASE Tick
  BY <1>1 DEF Tick, sentVars, markVars, sessionVars
<1>2. ASSUME NEW s \in Attempt, Initiate(s) PROVE TypeOK'
  BY <1>2 DEF Initiate, markVars, sessionVars
<1>3. ASSUME NEW s \in Attempt, Forget(s) PROVE TypeOK'
  BY <1>3 DEF Forget, sentVars, sessionVars
<1>4. ASSUME NEW w \in Worker, RespondVerify(w) PROVE TypeOK'
  BY <1>4 DEF RespondVerify, sentVars, markVars, sessionVars
<1>5. ASSUME NEW w \in Worker, RespondMark(w) PROVE TypeOK'
  <2>1. work[w] \in Call
    BY <1>0, <1>5 DEF RespondMark
  <2>2. work' \in [Worker -> Call \cup {Idle}]
    BY <1>5, <2>1 DEF RespondMark
  <2>3. helloMark' \in [Attempt -> Nat \cup {Absent}]
    BY <1>5, <2>1 DEF RespondMark, MarkExpiry
  <2> QED
    BY <1>5, <2>2, <2>3 DEF RespondMark, sentVars, sessionVars
<1>6. ASSUME NEW w \in Worker, RespondDerive(w) PROVE TypeOK'
  <2>0. work[w] \in Call
    BY <1>0, <1>6 DEF RespondDerive
  <2>1. fresh' \in Nat /\ responder' \in [Attempt -> SUBSET Nat]
    BY <1>6, <2>0 DEF RespondDerive
  <2>2. acks' \subseteq Ack
    BY <1>6, <2>0 DEF RespondDerive
  <2> QED
    BY <1>0, <1>6, <2>1, <2>2 DEF RespondDerive, markVars
<1>7. ASSUME NEW w \in Worker, AsyncMark(w) PROVE TypeOK'
  BY <1>7 DEF AsyncMark, MarkExpiry, sentVars, sessionVars
<1>8. ASSUME NEW w \in Worker, AsyncSeen(w) \/ AsyncVerify(w) PROVE TypeOK'
  <2>1. work[w] \in Call
    BY <1>0, <1>8 DEF AsyncSeen, AsyncVerify
  <2>2. work' \in [Worker -> Call \cup {Idle}]
    BY <1>8, <2>1 DEF AsyncSeen, AsyncVerify
  <2> QED
    BY <1>8, <2>2 DEF AsyncSeen, AsyncVerify, sentVars, markVars, sessionVars
<1>9. ASSUME NEW w \in Worker, AsyncNonce(w) PROVE TypeOK'
  <2>1. work[w] \in Call
    BY <1>0, <1>9 DEF AsyncNonce
  <2>2. work' \in [Worker -> Call \cup {Idle}]
    BY <1>9, <2>1 DEF AsyncNonce
  <2>3. nonceMark' \in [Attempt -> Nat \cup {Absent}]
    BY <1>9 DEF AsyncNonce
  <2> QED
    BY <1>9, <2>2, <2>3 DEF AsyncNonce, sentVars, sessionVars
<1>10. ASSUME NEW w \in Worker, WorkFails(w) PROVE TypeOK'
  BY <1>0, <1>10 DEF WorkFails, sentVars, markVars, sessionVars
<1>11. ASSUME NEW c \in Caller, CompleteVerify(c) PROVE TypeOK'
  BY <1>11 DEF CompleteVerify, sentVars, markVars, sessionVars
<1>12. ASSUME NEW c \in Caller, CompleteMark(c) PROVE TypeOK'
  <2>1. calls[c] \in Call
    BY <1>0, <1>12 DEF CompleteMark
  <2>2. calls' \in [Caller -> Call \cup {Idle}]
    BY <1>12, <2>1 DEF CompleteMark
  <2>3. ackMark' \in [Attempt -> Nat \cup {Absent}]
    BY <1>12, <2>1 DEF CompleteMark, MarkExpiry
  <2> QED
    BY <1>12, <2>2, <2>3 DEF CompleteMark, sentVars, sessionVars
<1>13. ASSUME NEW c \in Caller, CompleteDerive(c) PROVE TypeOK'
  <2>1. calls[c] \in Call
    BY <1>0, <1>13 DEF CompleteDerive
  <2>2. initiator' \in [Attempt -> SUBSET Nat]
    BY <1>13, <2>1 DEF CompleteDerive
  <2>3. calls' \in [Caller -> Call \cup {Idle}]
    BY <1>13 DEF CompleteDerive
  <2> QED
    BY <1>13, <2>2, <2>3 DEF CompleteDerive, sentVars, markVars
<1>14. ASSUME NEW c \in Caller, CallFails(c) PROVE TypeOK'
  BY <1>0, <1>14 DEF CallFails, sentVars, markVars, sessionVars
<1>15. CASE UNCHANGED vars
  BY <1>15 DEF vars, sentVars, markVars, sessionVars
<1> QED
  BY <1>1, <1>2, <1>3, <1>4, <1>5, <1>6, <1>7, <1>8, <1>9, <1>10, <1>11, <1>12, <1>13, <1>14, <1>15
     DEF Next, WorkerStep, CallerStep

LEMMA TypeInit == Init => TypeOK
BY DEF Init, TypeOK, Idle, Call, Stages, Absent

(* Clocks, messages, marks, calls and sessions keep their types (respond() *)
(* and complete(), under any interleaving).                                *)
THEOREM HandshakeTyped == Spec => []TypeOK
BY TypeInit, TypeStep, PTL DEF Spec

-----------------------------------------------------------------------------
(* The responder                                                           *)

(* One step keeps ResponderInv.                                            *)
LEMMA ResponderStep ==
  ASSUME MarkOutlivesWindow, ResponderInv, [Next]_vars
  PROVE  ResponderInv'
<1>1. TypeOK /\ TypeOK'
  BY TypeStep DEF ResponderInv
<1>2. /\ now \in Nat /\ now' \in Nat
      /\ \A m \in hello : m.sid \in Attempt /\ m.ts \in Int
      /\ \A w \in Worker : work[w].at # "idle" => work[w] \in Call
      /\ Idle.at = "idle"
  BY <1>1 DEF TypeOK, Hello, Idle
<1>3. \A w \in Worker : work[w] \in Call => 
        work[w].sid \in Attempt /\ work[w].ts \in Int /\ work[w].clock \in Nat
  BY DEF Call
<1>4. helloMark \in [Attempt -> Nat \cup {Absent}] /\ responder \in [Attempt -> SUBSET Nat] /\ fresh \in Nat
  BY <1>1 DEF TypeOK
<1> DEFINE Parts ==
      HelloOnce /\ WorkHasHello /\ WorkInTime /\ CheckedFirst /\ AsyncHolds
      /\ SpentIsGuarded /\ SpentBeforeAsync /\ OneResponse
<1> SUFFICES Parts'
  BY <1>1 DEF ResponderInv
<1>5. Parts
  BY DEF ResponderInv
<1> HIDE DEF Parts
<1> USE DEF Pressing, AsyncStages
<1>6. CASE Tick
  <2>1. UNCHANGED <<hello, helloMark, work, responder, fresh>> /\ now' = now + 1
    BY <1>6 DEF Tick, sentVars, markVars, sessionVars
  <2>2. WorkInTime'
    BY <1>2, <1>3, <1>5, <1>6, <2>1 DEF Tick, WorkInTime, Parts
  <2>3. SpentIsGuarded' /\ SpentBeforeAsync'
    BY <1>2, <1>5, <2>1 DEF Parts, SpentIsGuarded, SpentBeforeAsync, Spent, Deadline
  <2> QED
    BY <1>5, <2>1, <2>2, <2>3 DEF Parts, HelloOnce, WorkHasHello, CheckedFirst, AsyncHolds, OneResponse
<1>7. ASSUME NEW s \in Attempt, Initiate(s) PROVE Parts'
  <2>1. UNCHANGED <<now, helloMark, work, responder, fresh>> /\ \A m \in hello : m.sid # s
    BY <1>7 DEF Initiate, markVars, sessionVars
  <2>2. hello' = hello \cup {[sid |-> s, ts |-> now + offset]}
    BY <1>7 DEF Initiate
  <2>3. HelloOnce' /\ WorkHasHello'
    BY <1>5, <2>1, <2>2 DEF Parts, HelloOnce, WorkHasHello
  <2>4. ~Spent(s)
    BY <1>2, <1>5, <2>1 DEF Parts, HelloOnce, WorkHasHello, Spent
  <2>5. \A t : Spent(t)' <=> Spent(t)
    BY <2>1 DEF Spent
  <2>6. SpentIsGuarded' /\ SpentBeforeAsync'
    BY <1>5, <2>1, <2>2, <2>4, <2>5 DEF Parts, SpentIsGuarded, SpentBeforeAsync, Deadline
  <2> QED
    BY <1>5, <2>1, <2>3, <2>6 DEF Parts, WorkInTime, CheckedFirst, AsyncHolds, OneResponse
<1>8. ASSUME NEW s \in Attempt, Forget(s) PROVE Parts'
  <2>1. UNCHANGED <<now, hello, work, responder, fresh>>
    BY <1>8 DEF Forget, sentVars, sessionVars
  <2>2. \A t \in Attempt : helloMark'[t] = helloMark[t] \/ helloMark[t] <= now
    BY <1>4, <1>8 DEF Forget, Expired
  <2>3. \A w \in Worker : work[w].at \in AsyncStages => helloMark[work[w].sid] > now
    BY <1>2, <1>3, <1>5 DEF Parts, AsyncHolds, WorkInTime, MarkOutlivesWindow
  <2>4. AsyncHolds'
    BY <1>2, <1>3, <1>4, <1>5, <2>1, <2>2, <2>3 DEF Parts, AsyncHolds
  <2>5. \A t : Spent(t)' <=> Spent(t)
    BY <2>1 DEF Spent
  <2>6. SpentIsGuarded'
    <3> SUFFICES ASSUME NEW m \in hello, Spent(m.sid)
                 PROVE  helloMark'[m.sid] > Deadline(m) \/ now > Deadline(m)
      BY <2>1, <2>5 DEF SpentIsGuarded, Deadline
    <3>1. helloMark[m.sid] > Deadline(m) \/ now > Deadline(m)
      BY <1>5 DEF Parts, SpentIsGuarded
    <3>2. Deadline(m) \in Int /\ helloMark[m.sid] \in Int
      BY <1>2, <1>4 DEF Deadline, Absent
    <3> QED
      BY <1>2, <2>2, <3>1, <3>2
  <2>7. SpentBeforeAsync'
    BY <1>5, <2>1, <2>5 DEF Parts, SpentBeforeAsync, Deadline
  <2> QED
    BY <1>5, <2>1, <2>4, <2>6, <2>7 DEF Parts, HelloOnce, WorkHasHello, WorkInTime, CheckedFirst, OneResponse
(* A step of worker w that changes neither marks nor sessions.             *)
<1>9. ASSUME NEW w \in Worker,
             RespondVerify(w) \/ AsyncSeen(w) \/ AsyncNonce(w) \/ WorkFails(w)
      PROVE  Parts'
  <2>1. UNCHANGED <<now, hello, helloMark, responder, fresh>>
    BY <1>9 DEF RespondVerify, AsyncSeen, AsyncNonce, WorkFails, sentVars, markVars, sessionVars
  <2>2. \A v \in Worker : v # w => work'[v] = work[v]
    BY <1>1, <1>9 DEF RespondVerify, AsyncSeen, AsyncNonce, WorkFails, TypeOK
  <2>3. \/ work'[w] = Idle
        \/ /\ work'[w].at = "mark"
           /\ work'[w].clock = now
           /\ now - work'[w].ts \in -MaxAge .. MaxAge
           /\ [sid |-> work'[w].sid, ts |-> work'[w].ts] \in hello
        \/ /\ work[w].at \in AsyncStages
           /\ work'[w].at \in AsyncStages
           /\ work'[w].sid = work[w].sid
           /\ work'[w].ts = work[w].ts
           /\ work'[w].clock = work[w].clock
    <3>1. CASE RespondVerify(w)
      <4>1. PICK m \in hello : Timely(now, m.ts) /\ work' = [work EXCEPT ![w] =
              [at |-> "mark", sid |-> m.sid, ts |-> m.ts, half |-> 0, clock |-> now]]
        BY <3>1 DEF RespondVerify
      <4>2. m = [sid |-> m.sid, ts |-> m.ts]
        BY <1>1 DEF TypeOK, Hello
      <4> QED
        BY <1>1, <4>1, <4>2 DEF Timely, TypeOK
    <3>2. CASE AsyncSeen(w)
      BY <1>1, <3>2 DEF AsyncSeen, TypeOK, Call, Idle
    <3>3. CASE AsyncNonce(w)
      BY <1>1, <3>3 DEF AsyncNonce, TypeOK, Call, Idle
    <3>4. CASE WorkFails(w)
      BY <1>1, <3>4 DEF WorkFails, TypeOK
    <3> QED
      BY <1>9, <3>1, <3>2, <3>3, <3>4
  <2>4. work'[w].at # "derive" /\ (work'[w].at = "mark" \/ work'[w].at = "idle" \/ work'[w].at \in AsyncStages)
    BY <1>2, <2>3
  <2>5. \A t : Spent(t)' => Spent(t)
    BY <2>1, <2>2, <2>4 DEF Spent
  <2>6. HelloOnce' /\ WorkHasHello'
    BY <1>2, <1>5, <2>1, <2>2, <2>3 DEF Parts, HelloOnce, WorkHasHello
  <2>7. WorkInTime' /\ CheckedFirst'
    BY <1>2, <1>5, <2>1, <2>2, <2>3 DEF Parts, WorkInTime, CheckedFirst
  <2>8. AsyncHolds'
    BY <1>2, <1>5, <2>1, <2>2, <2>3 DEF Parts, AsyncHolds
  <2>9. SpentIsGuarded'
    BY <1>5, <2>1, <2>5 DEF Parts, SpentIsGuarded, Deadline
  <2>10. SpentBeforeAsync'
    BY <1>2, <1>5, <2>1, <2>2, <2>3, <2>5 DEF Parts, SpentBeforeAsync, Deadline
  <2>11. OneResponse'
    BY <1>5, <2>1, <2>2, <2>4 DEF Parts, OneResponse
  <2> QED
    BY <2>6, <2>7, <2>8, <2>9, <2>10, <2>11 DEF Parts
(* The mark is taken by a worker that has checked the HELLO.               *)
<1>10. ASSUME NEW w \in Worker, RespondMark(w) PROVE Parts'
  <2> DEFINE s == work[w].sid
             h == [sid |-> s, ts |-> work[w].ts]
  <2>1. UNCHANGED <<now, hello, responder, fresh>>
    BY <1>10 DEF RespondMark, sentVars, sessionVars
  <2>2. /\ work[w] \in Call /\ work[w].at = "mark" /\ h \in hello /\ helloMark[s] = Absent
        /\ s \in Attempt /\ h.sid = s /\ h.ts = work[w].ts
    BY <1>2, <1>3, <1>5, <1>10 DEF Parts, RespondMark, Mark, WorkHasHello
  <2>3. helloMark' = [helloMark EXCEPT ![s] = now + MarkTTL]
    BY <1>10 DEF RespondMark, MarkExpiry
  <2>4. \A v \in Worker : v # w => work'[v] = work[v]
    BY <1>1, <1>10 DEF RespondMark, TypeOK
  <2>5. work'[w].at = "derive" /\ work'[w].sid = s /\ work'[w].ts = work[w].ts /\ work'[w] # Idle
    BY <1>1, <1>2, <1>10, <2>2 DEF RespondMark, TypeOK, Call
  <2>6. now <= Deadline(h) /\ now + MarkTTL > Deadline(h)
    BY <1>2, <1>3, <1>5, <2>2 DEF Parts, WorkInTime, CheckedFirst, Deadline, MarkOutlivesWindow
  <2>7. ~Spent(s)
    <3>1. Deadline(h) \in Int /\ Deadline(h) >= 0
      BY <1>2, <1>3, <2>2, <2>6 DEF Deadline
    <3> QED
      BY <1>2, <1>5, <2>2, <2>6, <3>1 DEF Parts, SpentIsGuarded, Absent
  <2>8. \A v \in Worker : work[v].at \in AsyncStages => work[v].sid # s
    BY <1>2, <1>3, <1>5, <2>2 DEF Parts, AsyncHolds, Absent
  <2>9. HelloOnce' /\ WorkHasHello'
    BY <1>5, <2>1, <2>2, <2>4, <2>5 DEF Parts, HelloOnce, WorkHasHello
  <2>10. WorkInTime' /\ CheckedFirst'
    BY <1>5, <2>1, <2>4, <2>5 DEF Parts, WorkInTime, CheckedFirst
  <2>11. AsyncHolds'
    BY <1>2, <1>3, <1>4, <1>5, <2>2, <2>3, <2>4, <2>5, <2>8 DEF Parts, AsyncHolds
  <2>12. \A t : Spent(t)' => Spent(t) \/ t = s
    BY <2>1, <2>4, <2>5 DEF Spent
  <2>13. \A m \in hello : m.sid = s => m = h
    BY <1>5, <2>2 DEF Parts, HelloOnce
  <2>14. SpentIsGuarded'
    BY <1>2, <1>4, <1>5, <2>1, <2>2, <2>3, <2>6, <2>12, <2>13 DEF Parts, SpentIsGuarded, Deadline
  <2>15. SpentBeforeAsync'
    BY <1>2, <1>5, <2>1, <2>4, <2>5, <2>8, <2>12 DEF Parts, SpentBeforeAsync, Deadline
  <2>16. OneResponse'
    BY <1>5, <2>1, <2>2, <2>4, <2>5, <2>7 DEF Parts, OneResponse, Spent
  <2> QED
    BY <2>9, <2>10, <2>11, <2>14, <2>15, <2>16 DEF Parts
(* The mark is taken by a worker that has not checked anything yet.        *)
<1>11. ASSUME NEW w \in Worker, AsyncMark(w) PROVE Parts'
  <2>1. UNCHANGED <<now, hello, responder, fresh>>
    BY <1>11 DEF AsyncMark, sentVars, sessionVars
  <2>2. PICK m \in hello :
          /\ helloMark[m.sid] = Absent
          /\ helloMark' = [helloMark EXCEPT ![m.sid] = now + MarkTTL]
          /\ work' = [work EXCEPT ![w] =
               [at |-> "asyncSeen", sid |-> m.sid, ts |-> m.ts, half |-> 0, clock |-> now]]
    BY <1>11 DEF AsyncMark, Mark, MarkExpiry
  <2>3. m.sid \in Attempt /\ m.ts \in Int /\ m = [sid |-> m.sid, ts |-> m.ts]
    BY <1>1 DEF TypeOK, Hello
  <2>4. \A v \in Worker : v # w => work'[v] = work[v]
    BY <1>1, <2>2 DEF TypeOK
  <2>5. /\ work'[w].at = "asyncSeen" /\ work'[w].sid = m.sid /\ work'[w].ts = m.ts
        /\ work'[w].clock = now
    BY <1>1, <2>2 DEF TypeOK
  <2>6. \A v \in Worker : work[v].at \in AsyncStages => work[v].sid # m.sid
    BY <1>2, <1>3, <1>5, <2>2, <2>3 DEF Parts, AsyncHolds, Absent
  <2>7. Spent(m.sid) => now > Deadline(m)
    <3>1. Deadline(m) \in Int
      BY <2>3 DEF Deadline
    <3> QED
      BY <1>2, <1>5, <2>2, <2>3, <3>1 DEF Parts, SpentIsGuarded, Absent
  <2>8. HelloOnce' /\ WorkHasHello'
    BY <1>5, <2>1, <2>3, <2>4, <2>5 DEF Parts, HelloOnce, WorkHasHello
  <2>9. WorkInTime' /\ CheckedFirst'
    BY <1>2, <1>5, <2>1, <2>4, <2>5 DEF Parts, WorkInTime, CheckedFirst
  <2>10. AsyncHolds'
    BY <1>2, <1>3, <1>4, <1>5, <2>2, <2>3, <2>4, <2>5, <2>6 DEF Parts, AsyncHolds
  <2>11. \A t : Spent(t)' => Spent(t)
    BY <2>1, <2>4, <2>5 DEF Spent
  <2>12. \A n \in hello : n.sid = m.sid => n = m
    BY <1>5, <2>2 DEF Parts, HelloOnce
  <2>13. SpentIsGuarded'
    BY <1>2, <1>4, <1>5, <2>1, <2>2, <2>7, <2>11, <2>12 DEF Parts, SpentIsGuarded, Deadline
  <2>14. SpentBeforeAsync'
    BY <1>2, <1>5, <2>1, <2>4, <2>5, <2>7, <2>11, <2>12 DEF Parts, SpentBeforeAsync, Deadline
  <2>15. OneResponse'
    BY <1>5, <2>1, <2>4, <2>5 DEF Parts, OneResponse
  <2> QED
    BY <2>8, <2>9, <2>10, <2>13, <2>14, <2>15 DEF Parts
<1>12. ASSUME NEW w \in Worker, AsyncVerify(w) PROVE Parts'
  <2> DEFINE s == work[w].sid
             h == [sid |-> s, ts |-> work[w].ts]
  <2>1. UNCHANGED <<now, hello, helloMark, responder, fresh>>
    BY <1>12 DEF AsyncVerify, sentVars, markVars, sessionVars
  <2>2. /\ work[w] \in Call /\ work[w].at = "asyncVerify" /\ h \in hello
        /\ s \in Attempt /\ h.sid = s /\ h.ts = work[w].ts
    BY <1>2, <1>3, <1>5, <1>12 DEF Parts, AsyncVerify, WorkHasHello
  <2>3. now - work[w].ts \in -MaxAge .. MaxAge
    BY <1>12 DEF AsyncVerify, Timely
  <2>4. \A v \in Worker : v # w => work'[v] = work[v]
    BY <1>1, <1>12 DEF AsyncVerify, TypeOK
  <2>5. work'[w].at = "derive" /\ work'[w].sid = s /\ work'[w].ts = work[w].ts /\ work'[w] # Idle
    BY <1>1, <1>2, <1>12, <2>2 DEF AsyncVerify, TypeOK, Call
  <2>6. now <= Deadline(h) /\ helloMark[s] > Deadline(h)
    BY <1>2, <1>3, <1>5, <2>2, <2>3 DEF Parts, WorkInTime, AsyncHolds, Deadline, MarkOutlivesWindow
  <2>7. ~Spent(s)
    BY <1>2, <1>3, <1>5, <2>2, <2>6 DEF Parts, SpentBeforeAsync, Deadline
  <2>8. \A v \in Worker : v # w /\ work[v].at \in AsyncStages => work[v].sid # s
    BY <1>5, <2>2 DEF Parts, AsyncHolds
  <2>9. HelloOnce' /\ WorkHasHello'
    BY <1>5, <2>1, <2>2, <2>4, <2>5 DEF Parts, HelloOnce, WorkHasHello
  <2>10. WorkInTime' /\ CheckedFirst'
    BY <1>5, <2>1, <2>4, <2>5 DEF Parts, WorkInTime, CheckedFirst
  <2>11. AsyncHolds'
    BY <1>5, <2>1, <2>4, <2>5 DEF Parts, AsyncHolds
  <2>12. \A t : Spent(t)' => Spent(t) \/ t = s
    BY <2>1, <2>4, <2>5 DEF Spent
  <2>13. \A m \in hello : m.sid = s => m = h
    BY <1>5, <2>2 DEF Parts, HelloOnce
  <2>14. SpentIsGuarded'
    BY <1>5, <2>1, <2>6, <2>12, <2>13 DEF Parts, SpentIsGuarded, Deadline
  <2>15. SpentBeforeAsync'
    BY <1>2, <1>5, <2>1, <2>4, <2>5, <2>8, <2>12 DEF Parts, SpentBeforeAsync, Deadline
  <2>16. OneResponse'
    BY <1>5, <2>1, <2>2, <2>4, <2>5, <2>7 DEF Parts, OneResponse, Spent
  <2> QED
    BY <2>9, <2>10, <2>11, <2>14, <2>15, <2>16 DEF Parts
<1>13. ASSUME NEW w \in Worker, RespondDerive(w) PROVE Parts'
  <2> DEFINE s == work[w].sid
  <2>1. UNCHANGED <<now, hello, helloMark>> /\ fresh' = fresh + 1
    BY <1>13 DEF RespondDerive, markVars
  <2>2. /\ work[w] \in Call /\ work[w].at = "derive" /\ s \in Attempt /\ responder[s] = {}
        /\ \E m \in hello : m.sid = s
    <3>1. work[w] \in Call /\ work[w].at = "derive" /\ s \in Attempt /\ responder[s] = {}
      BY <1>2, <1>3, <1>5, <1>13 DEF Parts, RespondDerive, OneResponse
    <3>2. [sid |-> s, ts |-> work[w].ts] \in hello
      BY <1>2, <1>5, <3>1 DEF Parts, WorkHasHello
    <3> QED
      BY <3>1, <3>2
  <2>3. responder' = [responder EXCEPT ![s] = {fresh}]
    <3>1. responder' = [responder EXCEPT ![s] = responder[s] \cup {fresh}]
      BY <1>13 DEF RespondDerive
    <3>2. responder[s] \cup {fresh} = {fresh}
      BY <2>2
    <3> QED
      BY <3>1, <3>2
  <2>4. \A v \in Worker : v # w => work'[v] = work[v]
    BY <1>1, <1>13 DEF RespondDerive, TypeOK
  <2>5. work'[w] = Idle
    BY <1>1, <1>13 DEF RespondDerive, TypeOK
  <2>6. HelloOnce' /\ WorkHasHello'
    <3>1. \A t \in Attempt : t # s => responder'[t] = responder[t]
      BY <1>4, <2>2, <2>3
    <3>2. HelloOnce'
      BY <1>5, <2>1, <2>2, <3>1 DEF Parts, HelloOnce
    <3> QED
      BY <1>5, <2>1, <2>4, <2>5, <3>2 DEF Parts, WorkHasHello
  <2>7. WorkInTime' /\ CheckedFirst'
    BY <1>2, <1>5, <2>1, <2>4, <2>5 DEF Parts, WorkInTime, CheckedFirst
  <2>8. AsyncHolds'
    BY <1>2, <1>5, <2>1, <2>4, <2>5 DEF Parts, AsyncHolds
  <2>9. \A t \in Attempt : Spent(t)' => Spent(t)
    BY <1>2, <1>4, <2>2, <2>3, <2>4, <2>5 DEF Spent
  <2>10. SpentIsGuarded'
    BY <1>2, <1>5, <2>1, <2>9 DEF Parts, SpentIsGuarded, Deadline
  <2>11. SpentBeforeAsync'
    BY <1>2, <1>5, <2>1, <2>4, <2>5, <2>9 DEF Parts, SpentBeforeAsync, Deadline
  <2>12. OneResponse'
    <3>1. \A v \in Worker : work'[v].at = "derive" => v # w /\ work[v].sid # s
      BY <1>2, <1>5, <2>2, <2>4, <2>5 DEF Parts, OneResponse
    <3>2. \A v \in Worker : work'[v].at = "derive" => work[v].sid \in Attempt
      BY <1>2, <1>3, <2>4, <3>1
    <3>3. \A v \in Worker : work'[v].at = "derive" => responder'[work'[v].sid] = {}
      BY <1>4, <1>5, <2>3, <2>4, <3>1, <3>2 DEF Parts, OneResponse
    <3>4. \A t \in Attempt : \A k \in responder'[t] : responder'[t] = {k} /\ k < fresh'
      BY <1>4, <1>5, <2>1, <2>2, <2>3 DEF Parts, OneResponse
    <3> QED
      BY <1>5, <2>4, <3>1, <3>3, <3>4 DEF Parts, OneResponse
  <2> QED
    BY <2>6, <2>7, <2>8, <2>10, <2>11, <2>12 DEF Parts
<1>14. ASSUME UNCHANGED <<now, hello, helloMark, work, responder, fresh>> PROVE Parts'
  BY <1>5, <1>14 DEF Parts, HelloOnce, WorkHasHello, WorkInTime, CheckedFirst, AsyncHolds,
                     SpentIsGuarded, SpentBeforeAsync, OneResponse, Spent, Deadline
<1>15. ASSUME NEW c \in Caller, CallerStep(c)
       PROVE  UNCHANGED <<now, hello, helloMark, work, responder, fresh>>
  BY <1>15 DEF CallerStep, CompleteVerify, CompleteMark, CompleteDerive, CallFails,
               sentVars, markVars, sessionVars
<1>16. CASE UNCHANGED vars
  BY <1>14, <1>16 DEF vars, sentVars, markVars, sessionVars
<1> QED
  BY <1>6, <1>7, <1>8, <1>9, <1>10, <1>11, <1>12, <1>13, <1>14, <1>15, <1>16 DEF Next, WorkerStep

-----------------------------------------------------------------------------
(* The initiator                                                           *)

(* One step keeps InitiatorInv.                                            *)
LEMMA InitiatorStep ==
  ASSUME MarkOutlivesWindow, HandshakeInv, [Next]_vars
  PROVE  InitiatorInv'
<1>1. TypeOK /\ TypeOK'
  BY TypeStep DEF HandshakeInv, ResponderInv
<1>2. /\ now \in Nat /\ now' \in Nat /\ offset \in Int /\ offset' = offset
      /\ \A a \in acks : a.sid \in Attempt /\ a.ts \in Int /\ a = [sid |-> a.sid, ts |-> a.ts, half |-> a.half]
      /\ \A c \in Caller : calls[c].at # "idle" => calls[c] \in Call
      /\ Idle.at = "idle"
  <2>1. offset' = offset
    BY DEF Next, Tick, Initiate, Forget, WorkerStep, RespondVerify, RespondMark, RespondDerive, AsyncMark,
           AsyncSeen, AsyncNonce, AsyncVerify, WorkFails, CallerStep, CompleteVerify, CompleteMark,
           CompleteDerive, CallFails, vars
  <2> QED
    BY <1>1, <2>1 DEF TypeOK, Ack, Idle
<1>3. \A c \in Caller : calls[c] \in Call =>
        calls[c].sid \in Attempt /\ calls[c].ts \in Int /\ calls[c].clock \in Nat /\ calls[c].half \in Nat
  BY DEF Call
<1>4. /\ ackMark \in [Attempt -> Nat \cup {Absent}] /\ responder \in [Attempt -> SUBSET Nat]
      /\ initiator \in [Attempt -> SUBSET Nat] /\ fresh \in Nat
  BY <1>1 DEF TypeOK
<1>5. InitiatorInv
  BY DEF HandshakeInv
(* Whatever does not concern the initiator.                                *)
<1>6. ASSUME UNCHANGED <<now, acks, ackMark, calls, responder, initiator>> PROVE InitiatorInv'
  BY <1>2, <1>5, <1>6 DEF InitiatorInv, AckOnce, CallHasAck, CallInTime, CompletedIsGuarded, OneCompletion,
                          Completed, Deadline
<1>7. CASE Tick
  <2>1. UNCHANGED <<acks, ackMark, calls, responder, initiator>> /\ now' = now + 1
    BY <1>7 DEF Tick, sentVars, markVars, sessionVars
  <2>2. CallInTime'
    BY <1>2, <1>3, <1>5, <1>7, <2>1 DEF Tick, InitiatorInv, CallInTime
  <2>3. CompletedIsGuarded'
    BY <1>2, <1>5, <2>1 DEF InitiatorInv, CompletedIsGuarded, Completed, Deadline
  <2> QED
    BY <1>5, <2>1, <2>2, <2>3 DEF InitiatorInv, AckOnce, CallHasAck, OneCompletion
<1>8. ASSUME NEW s \in Attempt, Initiate(s) PROVE InitiatorInv'
  BY <1>6, <1>8 DEF Initiate, markVars, sessionVars
<1>9. ASSUME NEW s \in Attempt, Forget(s) PROVE InitiatorInv'
  <2>1. UNCHANGED <<now, acks, calls, responder, initiator>>
    BY <1>9 DEF Forget, sentVars, sessionVars
  <2>2. \A t \in Attempt : ackMark'[t] = ackMark[t] \/ ackMark[t] <= now
    BY <1>4, <1>9 DEF Forget, Expired
  <2>3. CompletedIsGuarded'
    <3> SUFFICES ASSUME NEW a \in acks, Completed(a.sid)
                 PROVE  ackMark'[a.sid] > Deadline(a) - offset \/ now > Deadline(a) - offset
      BY <1>2, <2>1 DEF CompletedIsGuarded, Completed, Deadline
    <3>1. ackMark[a.sid] > Deadline(a) - offset \/ now > Deadline(a) - offset
      BY <1>5 DEF InitiatorInv, CompletedIsGuarded
    <3>2. Deadline(a) - offset \in Int /\ ackMark[a.sid] \in Int
      BY <1>2, <1>4 DEF Deadline, Absent
    <3> QED
      BY <1>2, <2>2, <3>1, <3>2
  <2> QED
    BY <1>2, <1>5, <2>1, <2>3 DEF InitiatorInv, AckOnce, CallHasAck, CallInTime, OneCompletion
<1>10. ASSUME NEW w \in Worker,
              RespondVerify(w) \/ RespondMark(w) \/ AsyncMark(w) \/ AsyncSeen(w) \/ AsyncNonce(w)
              \/ AsyncVerify(w) \/ WorkFails(w)
       PROVE  InitiatorInv'
  BY <1>6, <1>10 DEF RespondVerify, RespondMark, AsyncMark, AsyncSeen, AsyncNonce, AsyncVerify, WorkFails,
                     sentVars, markVars, sessionVars
(* The only ACK of its handshake appears.                                  *)
<1>11. ASSUME NEW w \in Worker, RespondDerive(w) PROVE InitiatorInv'
  <2> DEFINE s == work[w].sid
             new == [sid |-> s, ts |-> now, half |-> fresh]
  <2>1. UNCHANGED <<now, ackMark, calls, initiator>> /\ acks' = acks \cup {new}
    BY <1>11 DEF RespondDerive, markVars
  <2>2. s \in Attempt /\ responder[s] = {}
    BY <1>1, <1>2, <1>11 DEF RespondDerive, HandshakeInv, ResponderInv, OneResponse, TypeOK, Call
  <2>3. \A a \in acks : a.sid # s
    BY <1>5, <2>2 DEF InitiatorInv, AckOnce
  <2>4. responder'[s] = responder[s] \cup {fresh} /\ \A t \in Attempt : t # s => responder'[t] = responder[t]
    BY <1>4, <1>11, <2>2 DEF RespondDerive
  <2>5. new \in acks' /\ new.sid = s /\ new.half = fresh
    BY <2>1
  <2>6. AckOnce'
    BY <1>2, <1>5, <2>1, <2>3, <2>4, <2>5 DEF InitiatorInv, AckOnce
  <2>7. CallHasAck' /\ CallInTime' /\ OneCompletion'
    BY <1>2, <1>5, <2>1 DEF InitiatorInv, CallHasAck, CallInTime, OneCompletion
  <2>8. ~Completed(s)
    <3>1. initiator[s] = {}
      BY <1>5, <2>2, <2>3 DEF InitiatorInv, AckOnce
    <3>2. ASSUME NEW c \in Caller, calls[c].at = "derive", calls[c].sid = s PROVE FALSE
      <4>1. [sid |-> s, ts |-> calls[c].ts, half |-> calls[c].half] \in acks
        BY <1>2, <1>5, <3>2 DEF InitiatorInv, CallHasAck
      <4> QED
        BY <2>3, <4>1
    <3> QED
      BY <3>1, <3>2 DEF Completed
  <2>9. CompletedIsGuarded'
    BY <1>2, <1>5, <2>1, <2>5, <2>8 DEF InitiatorInv, CompletedIsGuarded, Completed, Deadline
  <2> QED
    BY <2>6, <2>7, <2>9 DEF InitiatorInv
<1>12. ASSUME NEW c \in Caller, CompleteVerify(c) PROVE InitiatorInv'
  <2>1. UNCHANGED <<now, acks, ackMark, responder, initiator>>
    BY <1>12 DEF CompleteVerify, sentVars, markVars, sessionVars
  <2>2. PICK a \in acks : Timely(now + offset, a.ts) /\ calls' = [calls EXCEPT ![c] =
          [at |-> "mark", sid |-> a.sid, ts |-> a.ts, half |-> a.half, clock |-> now]]
    BY <1>12 DEF CompleteVerify
  <2>3. \A d \in Caller : d # c => calls'[d] = calls[d]
    BY <1>1, <2>2 DEF TypeOK
  <2>4. calls'[c] = [at |-> "mark", sid |-> a.sid, ts |-> a.ts, half |-> a.half, clock |-> now]
    BY <1>1, <2>2 DEF TypeOK
  <2>5. CallHasAck'
    BY <1>2, <1>5, <2>1, <2>3, <2>4 DEF InitiatorInv, CallHasAck
  <2>6. CallInTime'
    BY <1>2, <1>5, <2>1, <2>2, <2>3, <2>4 DEF InitiatorInv, CallInTime, Timely
  <2>7. CompletedIsGuarded'
    BY <1>2, <1>5, <2>1, <2>3, <2>4 DEF InitiatorInv, CompletedIsGuarded, Completed, Deadline
  <2>8. OneCompletion'
    BY <1>5, <2>1, <2>3, <2>4 DEF InitiatorInv, OneCompletion
  <2> QED
    BY <1>5, <2>1, <2>5, <2>6, <2>7, <2>8 DEF InitiatorInv, AckOnce
<1>13. ASSUME NEW c \in Caller, CompleteMark(c) PROVE InitiatorInv'
  <2> DEFINE s == calls[c].sid
             a == [sid |-> s, ts |-> calls[c].ts, half |-> calls[c].half]
  <2>1. UNCHANGED <<now, acks, responder, initiator>>
    BY <1>13 DEF CompleteMark, sentVars, sessionVars
  <2>2. /\ calls[c] \in Call /\ calls[c].at = "mark" /\ s \in Attempt /\ ackMark[s] = Absent
        /\ calls[c] # Idle
    BY <1>2, <1>3, <1>13 DEF CompleteMark, Mark
  <2>3. a \in acks /\ a.sid = s /\ a.ts = calls[c].ts /\ a.half = calls[c].half
    BY <1>5, <2>2 DEF InitiatorInv, CallHasAck
  <2>4. ackMark' = [ackMark EXCEPT ![s] = now + MarkTTL]
    BY <1>13 DEF CompleteMark, MarkExpiry
  <2>5. \A d \in Caller : d # c => calls'[d] = calls[d]
    BY <1>1, <1>13 DEF CompleteMark, TypeOK
  <2>6. /\ calls'[c].at = "derive" /\ calls'[c].sid = s /\ calls'[c].ts = calls[c].ts
        /\ calls'[c].half = calls[c].half
    BY <1>1, <1>13, <2>2 DEF CompleteMark, TypeOK, Call
  <2>7. now <= Deadline(a) - offset /\ now + MarkTTL > Deadline(a) - offset
    BY <1>2, <1>3, <1>5, <2>2 DEF InitiatorInv, CallInTime, Deadline, MarkOutlivesWindow
  <2>8. ~Completed(s)
    <3>1. Deadline(a) - offset \in Int /\ Deadline(a) - offset >= 0
      BY <1>2, <1>3, <2>2, <2>7 DEF Deadline
    <3> QED
      BY <1>2, <1>5, <2>2, <2>3, <2>7, <3>1 DEF InitiatorInv, CompletedIsGuarded, Absent
  <2>9. CallHasAck'
    BY <1>2, <1>5, <2>1, <2>3, <2>5, <2>6 DEF InitiatorInv, CallHasAck
  <2>10. CallInTime'
    BY <1>2, <1>5, <2>1, <2>5, <2>6 DEF InitiatorInv, CallInTime
  <2>11. \A t : Completed(t)' => Completed(t) \/ t = s
    BY <2>1, <2>5, <2>6 DEF Completed
  <2>12. \A b \in acks : b.sid = s => b = a
    BY <1>5, <2>3 DEF InitiatorInv, AckOnce
  <2>13. CompletedIsGuarded'
    BY <1>2, <1>4, <1>5, <2>1, <2>2, <2>4, <2>7, <2>11, <2>12 DEF InitiatorInv, CompletedIsGuarded, Deadline
  <2>14. OneCompletion'
    BY <1>5, <2>1, <2>2, <2>5, <2>6, <2>8 DEF InitiatorInv, OneCompletion, Completed
  <2> QED
    BY <1>5, <2>1, <2>9, <2>10, <2>13, <2>14 DEF InitiatorInv, AckOnce
<1>14. ASSUME NEW c \in Caller, CompleteDerive(c) PROVE InitiatorInv'
  <2> DEFINE s == calls[c].sid
  <2>1. UNCHANGED <<now, acks, ackMark, responder>>
    BY <1>14 DEF CompleteDerive, sentVars, markVars
  <2>2. calls[c].at = "derive" /\ calls[c] \in Call /\ s \in Attempt /\ calls[c] # Idle
    BY <1>2, <1>3, <1>14 DEF CompleteDerive
  <2>3. \E a \in acks : a.sid = s
    <3>1. [sid |-> s, ts |-> calls[c].ts, half |-> calls[c].half] \in acks
      BY <1>5, <2>2 DEF InitiatorInv, CallHasAck
    <3> QED
      BY <3>1
  <2>4. \A t \in Attempt : t # s => initiator'[t] = initiator[t]
    BY <1>4, <1>14, <2>2 DEF CompleteDerive
  <2>5. \A d \in Caller : d # c => calls'[d] = calls[d]
    BY <1>1, <1>14 DEF CompleteDerive, TypeOK
  <2>6. calls'[c] = Idle
    BY <1>1, <1>14 DEF CompleteDerive, TypeOK
  <2>7. AckOnce'
    BY <1>5, <2>1, <2>3, <2>4 DEF InitiatorInv, AckOnce
  <2>8. CallHasAck' /\ CallInTime'
    BY <1>2, <1>5, <2>1, <2>5, <2>6 DEF InitiatorInv, CallHasAck, CallInTime
  <2>9. \A t \in Attempt : Completed(t)' => Completed(t)
    BY <1>2, <2>2, <2>4, <2>5, <2>6 DEF Completed
  <2>10. CompletedIsGuarded'
    BY <1>2, <1>5, <2>1, <2>9 DEF InitiatorInv, CompletedIsGuarded, Deadline
  <2>11. \A d \in Caller : calls'[d].at = "derive" => d # c /\ calls[d].sid # s /\ calls[d].sid \in Attempt
    BY <1>2, <1>3, <1>5, <2>2, <2>5, <2>6 DEF InitiatorInv, OneCompletion
  <2>12. OneCompletion'
    BY <1>5, <2>4, <2>5, <2>11 DEF InitiatorInv, OneCompletion
  <2> QED
    BY <2>7, <2>8, <2>10, <2>12 DEF InitiatorInv
<1>15. ASSUME NEW c \in Caller, CallFails(c) PROVE InitiatorInv'
  <2>1. UNCHANGED <<now, acks, ackMark, responder, initiator>>
    BY <1>15 DEF CallFails, sentVars, markVars, sessionVars
  <2>2. calls'[c] = Idle /\ \A d \in Caller : d # c => calls'[d] = calls[d]
    BY <1>1, <1>15 DEF CallFails, TypeOK
  <2>3. CallHasAck' /\ CallInTime'
    BY <1>2, <1>5, <2>1, <2>2 DEF InitiatorInv, CallHasAck, CallInTime
  <2>4. CompletedIsGuarded'
    BY <1>2, <1>5, <2>1, <2>2 DEF InitiatorInv, CompletedIsGuarded, Completed, Deadline
  <2>5. OneCompletion'
    BY <1>2, <1>5, <2>1, <2>2 DEF InitiatorInv, OneCompletion
  <2> QED
    BY <1>5, <2>1, <2>3, <2>4, <2>5 DEF InitiatorInv, AckOnce
<1>16. CASE UNCHANGED vars
  BY <1>6, <1>16 DEF vars, sentVars, markVars, sessionVars
<1> QED
  BY <1>7, <1>8, <1>9, <1>10, <1>11, <1>12, <1>13, <1>14, <1>15, <1>16 DEF Next, WorkerStep, CallerStep

-----------------------------------------------------------------------------
(* Agreement                                                               *)

LEMMA HandshakeInvInit == Init => HandshakeInv
<1> SUFFICES ASSUME Init PROVE HandshakeInv
  OBVIOUS
<1>1. TypeOK
  BY TypeInit
<1>2. /\ Idle.at = "idle" /\ hello = {} /\ acks = {}
      /\ \A w \in Worker : work[w] = Idle
      /\ \A c \in Caller : calls[c] = Idle
      /\ \A s \in Attempt : responder[s] = {} /\ initiator[s] = {}
  BY DEF Init, Idle
<1> QED
  BY <1>1, <1>2 DEF HandshakeInv, ResponderInv, InitiatorInv, HelloOnce, WorkHasHello, WorkInTime, CheckedFirst,
    AsyncHolds, SpentIsGuarded, SpentBeforeAsync, OneResponse, AckOnce, CallHasAck, CallInTime,
    CompletedIsGuarded, OneCompletion, Pressing, AsyncStages

(* A step of the handshake is a step of KeyAgreement, or none.             *)
LEMMA AgreementStep ==
  ASSUME HandshakeInv, [Next]_vars
  PROVE  [Agreement!Next]_(Agreement!vars)
<1>1. TypeOK /\ OneResponse /\ InitiatorInv
  BY DEF HandshakeInv, ResponderInv
<1>2. /\ responder \in [Attempt -> SUBSET Nat] /\ initiator \in [Attempt -> SUBSET Nat] /\ fresh \in Nat
      /\ Idle.at = "idle"
  BY <1>1 DEF TypeOK, Idle
<1>3. ASSUME NEW w \in Worker, RespondDerive(w) PROVE Agreement!Next
  <2> DEFINE s == work[w].sid
  <2>1. s \in Attempt /\ responder[s] = {}
    BY <1>1, <1>2, <1>3 DEF RespondDerive, OneResponse, TypeOK, Call
  <2>2. responder' = [responder EXCEPT ![s] = {fresh}]
    <3>1. responder' = [responder EXCEPT ![s] = responder[s] \cup {fresh}]
      BY <1>3 DEF RespondDerive
    <3>2. responder[s] \cup {fresh} = {fresh}
      BY <2>1
    <3> QED
      BY <3>1, <3>2
  <2>3. \A t \in Attempt : fresh \notin responder[t]
    BY <1>1, <1>2 DEF OneResponse
  <2>4. Agreement!Respond(s, fresh)
    BY <1>3, <2>1, <2>2, <2>3 DEF Agreement!Respond, RespondDerive
  <2>5. fresh \in responder'[s] \cap Nat
    BY <1>2, <2>1, <2>2
  <2> QED
    BY <2>1, <2>4, <2>5 DEF Agreement!Next
<1>4. ASSUME NEW c \in Caller, CompleteDerive(c) PROVE Agreement!Next
  <2> DEFINE s == calls[c].sid
             k == calls[c].half
  <2>1. s \in Attempt /\ initiator[s] = {}
    BY <1>1, <1>2, <1>4 DEF CompleteDerive, InitiatorInv, OneCompletion, TypeOK, Call
  <2>2. [sid |-> s, ts |-> calls[c].ts, half |-> k] \in acks
    BY <1>1, <1>2, <1>4 DEF CompleteDerive, InitiatorInv, CallHasAck
  <2>3. k \in responder[s]
    BY <1>1, <2>2 DEF InitiatorInv, AckOnce
  <2>4. responder[s] = {k}
    BY <1>1, <2>1, <2>3 DEF OneResponse
  <2>5. initiator' = [initiator EXCEPT ![s] = responder[s]]
    <3>1. initiator' = [initiator EXCEPT ![s] = initiator[s] \cup {k}]
      BY <1>4 DEF CompleteDerive
    <3>2. initiator[s] \cup {k} = responder[s]
      BY <2>1, <2>4
    <3> QED
      BY <3>1, <3>2
  <2>6. responder' = responder
    BY <1>4 DEF CompleteDerive
  <2>7. Agreement!Complete(s)
    BY <2>1, <2>4, <2>5, <2>6 DEF Agreement!Complete
  <2> QED
    BY <2>1, <2>7 DEF Agreement!Next
<1>5. ASSUME UNCHANGED <<responder, initiator>> PROVE UNCHANGED Agreement!vars
  BY <1>5 DEF Agreement!vars
<1>6. CASE Tick \/ UNCHANGED vars
  BY <1>5, <1>6 DEF Tick, vars, sessionVars
<1>7. ASSUME NEW s \in Attempt, Initiate(s) \/ Forget(s) PROVE UNCHANGED Agreement!vars
  BY <1>5, <1>7 DEF Initiate, Forget, sessionVars
<1>8. ASSUME NEW w \in Worker, WorkerStep(w) PROVE [Agreement!Next]_(Agreement!vars)
  <2>1. CASE ~RespondDerive(w)
    BY <1>5, <1>8, <2>1 DEF WorkerStep, RespondVerify, RespondMark, AsyncMark, AsyncSeen, AsyncNonce,
                            AsyncVerify, WorkFails, sessionVars
  <2> QED
    BY <1>3, <2>1
<1>9. ASSUME NEW c \in Caller, CallerStep(c) PROVE [Agreement!Next]_(Agreement!vars)
  <2>1. CASE ~CompleteDerive(c)
    BY <1>5, <1>9, <2>1 DEF CallerStep, CompleteVerify, CompleteMark, CallFails, sessionVars
  <2> QED
    BY <1>4, <2>1
<1> QED
  BY <1>6, <1>7, <1>8, <1>9 DEF Next

(* With marks that outlive the window and the delay, HELLO and ACK in any  *)
(* number of copies, at any time and to any worker or thread, make at most *)
(* one session at each end, and both ends hold the same key ("to prevent   *)
(* replayed handshakes from re-activating sessions").                      *)
THEOREM HandshakeAgrees ==
  ASSUME MarkOutlivesWindow
  PROVE  Spec => AgreesOnKey
<1>1. Init => HandshakeInv
  BY HandshakeInvInit
<1>2. HandshakeInv /\ [Next]_vars => HandshakeInv'
  BY ResponderStep, InitiatorStep DEF HandshakeInv
<1>3. Init => Agreement!Init
  BY DEF Init, Agreement!Init
<1>4. HandshakeInv /\ [Next]_vars => [Agreement!Next]_(Agreement!vars)
  BY AgreementStep
<1> QED
  BY <1>1, <1>2, <1>3, <1>4, PTL DEF Spec, AgreesOnKey, Agreement!Spec
=============================================================================
