----------------------------- MODULE Handshake -----------------------------
(***************************************************************************)
(* The mutual handshake of uxsp.core.handshake: initiate(), respond() and  *)
(* complete(), with respond() called directly (GuardedHandshake adds only  *)
(* a rate limit before it) or through AsyncGuardedHandshake, which marks   *)
(* the HELLO before it is verified.  Several workers of the responder, of  *)
(* both kinds, share one nonce store; several threads of the initiator     *)
(* may call complete() with copies of the ACK.  The network may lose,      *)
(* duplicate, delay and reorder HELLO and ACK.                             *)
(*                                                                         *)
(* Each clock read and each store call is a step.  Key material is a       *)
(* number: the shared key of a session is determined by its handshake and  *)
(* by the responder's contribution, which is fresh for every response.     *)
(* Definitions named Bad... are plausible faults.                          *)
(***************************************************************************)
EXTENDS Integers

CONSTANTS
  Attempt, \* handshakes: one initiate() and one session_id each
  NoAttempt,
  Worker,  \* responder processes
  Caller,  \* initiator threads that call complete()
  MaxAge,  \* max_age of HELLO and ACK, either side of the clock
  MarkTTL, \* ttl_seconds of the hello: and ack: marks
  Offsets, \* what the initiator's clock may differ from the responder's by
  Lag,     \* the longest time between a freshness check and its mark
  Horizon  \* bound on the clock

ASSUME AgeAssumption == MaxAge \in Nat /\ MarkTTL \in Nat \ {0} /\ Lag \in Nat
ASSUME ClockAssumption == Offsets \subseteq Int /\ Horizon \in Nat
ASSUME AttemptAssumption == NoAttempt \notin Attempt

VARIABLES
  now,        \* the responder's clock
  offset,     \* the initiator's clock minus the responder's
  hello,      \* the set of HELLO messages sent
  acks,       \* the set of ACK messages sent
  helloMark,  \* expiry of hello:<session_id> in the responder's store
  nonceMark,  \* expiry of the bare session_id that the async guard marks
  ackMark,    \* expiry of ack:<session_id> in the initiator's store
  work,       \* respond() calls under way
  calls,      \* complete() calls under way
  fresh,      \* the next contribution of the responder
  responder,  \* contributions of the responder's sessions, by handshake
  initiator   \* contributions of the initiator's sessions, by handshake

sentVars == <<hello, acks>>
markVars == <<helloMark, nonceMark, ackMark>>
sessionVars == <<fresh, responder, initiator>>
vars == <<now, offset, sentVars, markVars, work, calls, sessionVars>>

Hello == [sid : Attempt, ts : Int]
Ack == [sid : Attempt, ts : Int, half : Nat]

(* No entry in a store: any expiry that the clock has reached may be gone. *)
Absent == -1

Idle == [at |-> "idle", sid |-> NoAttempt, ts |-> 0, half |-> 0, clock |-> 0]

-----------------------------------------------------------------------------
(* _verify_hello_signature() and _verify_ack_signature(): a stamp is good  *)
(* for MaxAge on either side of the reader's clock.                        *)
Timely(clock, ts) == clock - ts \in -MaxAge .. MaxAge

BadMarkExpiry == now + 2 * MaxAge
BadMarkSign == now - MarkTTL
MarkExpiry == now + MarkTTL

(* mark_used() returns True: the store held no entry.                      *)
BadMark(store, s) == TRUE
Mark(store, s) == store[s] = Absent

Initiate(s) ==
  /\ \A m \in hello : m.sid # s
  /\ hello' = hello \cup {[sid |-> s, ts |-> now + offset]}
  /\ UNCHANGED <<now, offset, acks, markVars, work, calls, sessionVars>>

-----------------------------------------------------------------------------
(* Handshake.respond()                                                     *)

(* The signature and the age of the HELLO.                                 *)
RespondVerify(w) ==
  /\ work[w] = Idle
  /\ \E m \in hello :
       /\ Timely(now, m.ts)
       /\ work' = [work EXCEPT ![w] =
            [at |-> "mark", sid |-> m.sid, ts |-> m.ts, half |-> 0, clock |-> now]]
  /\ UNCHANGED <<now, offset, sentVars, markVars, calls, sessionVars>>

RespondMark(w) ==
  /\ work[w].at = "mark"
  /\ Mark(helloMark, work[w].sid)
  /\ helloMark' = [helloMark EXCEPT ![work[w].sid] = MarkExpiry]
  /\ work' = [work EXCEPT ![w].at = "derive"]
  /\ UNCHANGED <<now, offset, sentVars, nonceMark, ackMark, calls, sessionVars>>

(* Decapsulation, ACK, key derivation, _activate().                        *)
RespondDerive(w) ==
  /\ work[w].at = "derive"
  /\ responder' = [responder EXCEPT ![work[w].sid] = @ \cup {fresh}]
  /\ fresh' = fresh + 1
  /\ acks' = acks \cup {[sid |-> work[w].sid, ts |-> now, half |-> fresh]}
  /\ work' = [work EXCEPT ![w] = Idle]
  /\ UNCHANGED <<now, offset, hello, markVars, calls, initiator>>

-----------------------------------------------------------------------------
(* AsyncGuardedHandshake.respond(): three store calls on an unverified     *)
(* HELLO, then Handshake.respond() over a store that forgets everything.   *)

AsyncMark(w) ==
  /\ work[w] = Idle
  /\ \E m \in hello :
       /\ Mark(helloMark, m.sid)
       /\ helloMark' = [helloMark EXCEPT ![m.sid] = MarkExpiry]
       /\ work' = [work EXCEPT ![w] =
            [at |-> "asyncSeen", sid |-> m.sid, ts |-> m.ts, half |-> 0, clock |-> now]]
  /\ UNCHANGED <<now, offset, sentVars, nonceMark, ackMark, calls, sessionVars>>

AsyncSeen(w) ==
  /\ work[w].at = "asyncSeen"
  /\ nonceMark[work[w].sid] = Absent
  /\ work' = [work EXCEPT ![w].at = "asyncNonce"]
  /\ UNCHANGED <<now, offset, sentVars, markVars, calls, sessionVars>>

(* The answer of the second mark_used() is not looked at; its TTL is the   *)
(* default of 300 s, more than three times that of the first.              *)
AsyncNonce(w) ==
  /\ work[w].at = "asyncNonce"
  /\ \/ /\ nonceMark[work[w].sid] = Absent
        /\ nonceMark' = [nonceMark EXCEPT ![work[w].sid] = now + 3 * MarkTTL]
     \/ /\ nonceMark[work[w].sid] # Absent
        /\ UNCHANGED nonceMark
  /\ work' = [work EXCEPT ![w].at = "asyncVerify"]
  /\ UNCHANGED <<now, offset, sentVars, helloMark, ackMark, calls, sessionVars>>

AsyncVerify(w) ==
  /\ work[w].at = "asyncVerify"
  /\ Timely(now, work[w].ts)
  /\ work' = [work EXCEPT ![w].at = "derive"]
  /\ UNCHANGED <<now, offset, sentVars, markVars, calls, sessionVars>>

-----------------------------------------------------------------------------
(* Handshake.complete()                                                    *)

(* The signature and age of the ACK, and whether it answers handshake s.   *)
CompleteVerify(c) ==
  /\ calls[c] = Idle
  /\ \E m \in acks :
       /\ Timely(now + offset, m.ts)
       /\ calls' = [calls EXCEPT ![c] =
            [at |-> "mark", sid |-> m.sid, ts |-> m.ts, half |-> m.half, clock |-> now]]
  /\ UNCHANGED <<now, offset, sentVars, markVars, work, sessionVars>>

CompleteMark(c) ==
  /\ calls[c].at = "mark"
  /\ Mark(ackMark, calls[c].sid)
  /\ ackMark' = [ackMark EXCEPT ![calls[c].sid] = MarkExpiry]
  /\ calls' = [calls EXCEPT ![c].at = "derive"]
  /\ UNCHANGED <<now, offset, sentVars, helloMark, nonceMark, work, sessionVars>>

(* The proof of possession, decapsulation, key derivation, _activate().    *)
CompleteDerive(c) ==
  /\ calls[c].at = "derive"
  /\ initiator' = [initiator EXCEPT ![calls[c].sid] = @ \cup {calls[c].half}]
  /\ calls' = [calls EXCEPT ![c] = Idle]
  /\ UNCHANGED <<now, offset, sentVars, markVars, work, fresh, responder>>

-----------------------------------------------------------------------------
(* Any exception, or a crash: what is marked stays marked.                 *)
WorkFails(w) ==
  /\ work[w] # Idle
  /\ work' = [work EXCEPT ![w] = Idle]
  /\ UNCHANGED <<now, offset, sentVars, markVars, calls, sessionVars>>

CallFails(c) ==
  /\ calls[c] # Idle
  /\ calls' = [calls EXCEPT ![c] = Idle]
  /\ UNCHANGED <<now, offset, sentVars, markVars, work, sessionVars>>

(* Redis drops an expired entry, cleanup() removes it.                     *)
Expired(store, s) == store[s] # Absent /\ store[s] <= now

Forget(s) ==
  /\ \/ /\ Expired(helloMark, s)
        /\ helloMark' = [helloMark EXCEPT ![s] = Absent]
        /\ UNCHANGED <<nonceMark, ackMark>>
     \/ /\ Expired(nonceMark, s)
        /\ nonceMark' = [nonceMark EXCEPT ![s] = Absent]
        /\ UNCHANGED <<helloMark, ackMark>>
     \/ /\ Expired(ackMark, s)
        /\ ackMark' = [ackMark EXCEPT ![s] = Absent]
        /\ UNCHANGED <<helloMark, nonceMark>>
  /\ UNCHANGED <<now, offset, sentVars, work, calls, sessionVars>>

(* Between a freshness check and its mark, whichever comes first, no more  *)
(* than Lag passes.                                                        *)
Pressing == {"mark", "asyncSeen", "asyncNonce", "asyncVerify"}

Tick ==
  /\ now < Horizon
  /\ \A w \in Worker : work[w].at \in Pressing => now < work[w].clock + Lag
  /\ \A c \in Caller : calls[c].at = "mark" => now < calls[c].clock + Lag
  /\ now' = now + 1
  /\ UNCHANGED <<offset, sentVars, markVars, work, calls, sessionVars>>

Init ==
  /\ now = 0
  /\ offset \in Offsets
  /\ hello = {}
  /\ acks = {}
  /\ helloMark = [s \in Attempt |-> Absent]
  /\ nonceMark = [s \in Attempt |-> Absent]
  /\ ackMark = [s \in Attempt |-> Absent]
  /\ work = [w \in Worker |-> Idle]
  /\ calls = [c \in Caller |-> Idle]
  /\ fresh = 0
  /\ responder = [s \in Attempt |-> {}]
  /\ initiator = [s \in Attempt |-> {}]

WorkerStep(w) ==
  \/ RespondVerify(w) \/ RespondMark(w) \/ RespondDerive(w)
  \/ AsyncMark(w) \/ AsyncSeen(w) \/ AsyncNonce(w) \/ AsyncVerify(w)
  \/ WorkFails(w)

CallerStep(c) ==
  CompleteVerify(c) \/ CompleteMark(c) \/ CompleteDerive(c) \/ CallFails(c)

Next ==
  \/ Tick
  \/ \E s \in Attempt : Initiate(s) \/ Forget(s)
  \/ \E w \in Worker : WorkerStep(w)
  \/ \E c \in Caller : CallerStep(c)

Spec == Init /\ [][Next]_vars

-----------------------------------------------------------------------------
(* Properties                                                              *)

Stages == {"mark", "asyncSeen", "asyncNonce", "asyncVerify", "derive"}

Call == [at : Stages, sid : Attempt, ts : Int, half : Nat, clock : Nat]

TypeOK ==
  /\ now \in Nat
  /\ offset \in Int
  /\ hello \subseteq Hello
  /\ acks \subseteq Ack
  /\ helloMark \in [Attempt -> Nat \cup {Absent}]
  /\ nonceMark \in [Attempt -> Nat \cup {Absent}]
  /\ ackMark \in [Attempt -> Nat \cup {Absent}]
  /\ work \in [Worker -> Call \cup {Idle}]
  /\ calls \in [Caller -> Call \cup {Idle}]
  /\ fresh \in Nat
  /\ responder \in [Attempt -> SUBSET Nat]
  /\ initiator \in [Attempt -> SUBSET Nat]

(* However HELLO and ACK are duplicated, delayed and handed to workers and *)
(* threads, each end makes at most one session of a handshake, with the    *)
(* same key: "marked in the provided NonceStore to prevent replayed        *)
(* handshakes from re-activating sessions".                                *)
Agreement == INSTANCE KeyAgreement WITH Handshake <- Attempt, Key <- Nat

AgreesOnKey == Agreement!Spec
=============================================================================
