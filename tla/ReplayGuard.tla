---------------------------- MODULE ReplayGuard ----------------------------
(***************************************************************************)
(* Opening envelopes once: Identity.open_from() and check_and_open() of    *)
(* uxsp.core.replay.ReplayGuard over a TieredNonceStore, and the           *)
(* asynchronous receive path over an AsyncRedisNonceStore, run by several  *)
(* receivers that share the store.                                         *)
(*                                                                         *)
(* Every clock read and every store call is a step of its own, so that the *)
(* clock moves and other receivers run in between.  A tiered store whose   *)
(* fast part is always down is a single store, so the plain stores are     *)
(* covered as well.  Definitions named Bad... are plausible faults, used   *)
(* to test the strength of the properties.                                 *)
(***************************************************************************)
EXTENDS Integers

CONSTANTS
  Receiver,  \* threads or processes that open envelopes
  Nonce,     \* envelope nonces, one envelope for each
  NoNonce,   \* the receiver holds no envelope
  Async,     \* TRUE: the asynchronous receive path
  Window,    \* window_seconds
  Skew,      \* clock_skew
  AheadBy,   \* how far a sender's clock may run ahead of the receivers'
  Lag,       \* the longest time from a freshness check to the durable mark
  Horizon    \* bound on the clock

(* Checked by ReplayGuard.__init__.                                        *)
ASSUME GuardAssumption ==
  /\ Window \in Nat \ {0}
  /\ Skew \in Nat
  /\ Skew < Window

ASSUME ClockAssumption ==
  /\ AheadBy \subseteq Nat /\ Lag \in Nat /\ Horizon \in Nat
  /\ Async \in BOOLEAN
  /\ NoNonce \notin Nonce

Never == -1  \* not stamped yet, no entry in a store, not marked yet

VARIABLES
  now,       \* time.time()
  ts,        \* the timestamp of each envelope
  fast,      \* expiry of each nonce in the fast store
  durable,   \* expiry of each nonce in the durable (or only) store
  pc,        \* where each receiver is
  env,       \* the nonce of the envelope it is opening
  genuine,   \* whether its copy of the envelope is undamaged
  checkedAt, \* the clock when it last found the envelope fresh
  verified,  \* history: nonces of envelopes whose signatures were verified
  firstMark, \* history: the clock at the first durable mark of each nonce
  opened     \* history: how often the plaintext of each was returned

clockVars == <<now, ts>>
storeVars == <<fast, durable>>
callVars == <<pc, env, genuine, checkedAt>>
histVars == <<verified, firstMark, opened>>
vars == <<clockVars, storeVars, callVars, histVars>>

-----------------------------------------------------------------------------
(* The clock and the stores                                                *)

(* _check_freshness_normalised(), also made by verify_envelope().          *)
Fresh(n) == now - ts[n] <= Window /\ ts[n] <= now + Skew

(* ttl_seconds of mark_used()                                              *)
BadTTL == Window
TTL == IF Async THEN Window ELSE Window + Skew

(* Whether is_seen() of a store answers True.                              *)
SeenIn(store, n) == store[n] # Never /\ now < store[n]

(* The sender stamps the envelope with its own clock and sends it.  It     *)
(* arrives any time later, so a clock that runs behind adds nothing.       *)
Stamp(n) ==
  /\ ts[n] = Never
  /\ \E d \in AheadBy : ts' = [ts EXCEPT ![n] = now + d]
  /\ UNCHANGED <<now, storeVars, callVars, histVars>>

(* A receiver is never longer than Lag between its last freshness check    *)
(* and the durable mark.                                                   *)
Tick ==
  /\ now < Horizon
  /\ \A r \in Receiver : pc[r] \in {"fast", "durable"} => now < checkedAt[r] + Lag
  /\ now' = now + 1
  /\ UNCHANGED <<ts, storeVars, callVars, histVars>>

(* An expired entry goes: by Redis' TTL, by cleanup(), or by is_seen().    *)
ForgetDurable(n) ==
  /\ durable[n] # Never
  /\ durable[n] <= now
  /\ durable' = [durable EXCEPT ![n] = Never]
  /\ UNCHANGED <<clockVars, fast, callVars, histVars>>

(* The fast store may also lose an entry it should still hold: a restart.  *)
ForgetFast(n) ==
  /\ fast[n] # Never
  /\ fast' = [fast EXCEPT ![n] = Never]
  /\ UNCHANGED <<clockVars, durable, callVars, histVars>>

-----------------------------------------------------------------------------
(* open_from() and check_and_open()                                        *)

At(r, stage) == pc[r] = stage
Goto(r, stage) == pc' = [pc EXCEPT ![r] = stage]

(* A copy of the envelope reaches r, possibly damaged on its way.          *)
BadTake(r, n) ==
  /\ At(r, "idle")
  /\ env' = [env EXCEPT ![r] = n]
  /\ \E g \in BOOLEAN : genuine' = [genuine EXCEPT ![r] = g]

Take(r, n) ==
  /\ At(r, "idle")
  /\ ts[n] # Never
  /\ env' = [env EXCEPT ![r] = n]
  /\ \E g \in BOOLEAN : genuine' = [genuine EXCEPT ![r] = g]

(* precheck(): freshness, then is_seen() of the tiered store as a hint.    *)
(* An error of its fast part is suppressed, so the answer of the durable   *)
(* part is all a call depends on to go on.                                 *)
Precheck(r, n) ==
  /\ ~Async
  /\ Take(r, n)
  /\ Fresh(n)
  /\ ~SeenIn(durable, n)
  /\ Goto(r, "verify")
  /\ UNCHANGED <<clockVars, storeVars, checkedAt, histVars>>

(* verify_envelope(): freshness again and both signatures.  open_from()    *)
(* goes on to commit(), check_and_open() straight to mark_used().          *)
BadVerify(r) ==
  /\ At(r, "verify")
  /\ Fresh(env[r])
  /\ verified' = IF genuine[r] THEN verified \cup {env[r]} ELSE verified
  /\ checkedAt' = [checkedAt EXCEPT ![r] = now]
  /\ Goto(r, "commit") \/ Goto(r, "fast")
  /\ UNCHANGED <<clockVars, storeVars, env, genuine, firstMark, opened>>

Verify(r) ==
  /\ At(r, "verify")
  /\ Fresh(env[r])
  /\ genuine[r]
  /\ verified' = verified \cup {env[r]}
  /\ checkedAt' = [checkedAt EXCEPT ![r] = now]
  /\ Goto(r, "commit") \/ Goto(r, "fast")
  /\ UNCHANGED <<clockVars, storeVars, env, genuine, firstMark, opened>>

(* The first half of commit(): freshness once more.                        *)
Commit(r) ==
  /\ At(r, "commit")
  /\ Fresh(env[r])
  /\ checkedAt' = [checkedAt EXCEPT ![r] = now]
  /\ Goto(r, "fast")
  /\ UNCHANGED <<clockVars, storeVars, env, genuine, histVars>>

(* mark_used() of the fast store: it did not hold the nonce, or it is      *)
(* unavailable and leaves the decision to the durable store.               *)
TryFast(n) ==
  \/ fast[n] = Never /\ fast' = [fast EXCEPT ![n] = now + TTL]
  \/ UNCHANGED fast

MarkFast(r) ==
  /\ At(r, "fast")
  /\ TryFast(env[r])
  /\ Goto(r, "durable")
  /\ UNCHANGED <<clockVars, durable, env, genuine, checkedAt, histVars>>

(* The durable store answers True: INSERT ... ON CONFLICT DO NOTHING, SET  *)
(* NX EX, or the locked test-and-set of the memory store.                  *)
BadMarkOnce(n) ==
  /\ durable' = [durable EXCEPT ![n] = now + TTL]
  /\ firstMark' = [firstMark EXCEPT ![n] = IF @ = Never THEN now ELSE @]

MarkOnce(n) ==
  /\ durable[n] = Never
  /\ durable' = [durable EXCEPT ![n] = now + TTL]
  /\ firstMark' = [firstMark EXCEPT ![n] = IF @ = Never THEN now ELSE @]

MarkDurable(r) ==
  /\ At(r, "durable")
  /\ MarkOnce(env[r])
  /\ Goto(r, "again")
  /\ UNCHANGED <<clockVars, fast, env, genuine, checkedAt, verified, opened>>

(* The fast store is marked again; its answer does not matter any more.    *)
MarkFastAgain(r) ==
  /\ At(r, "again")
  /\ TryFast(env[r])
  /\ Goto(r, "open")
  /\ UNCHANGED <<clockVars, durable, env, genuine, checkedAt, histVars>>

Done(r) ==
  /\ Goto(r, "idle")
  /\ env' = [env EXCEPT ![r] = NoNonce]
  /\ genuine' = [genuine EXCEPT ![r] = FALSE]
  /\ checkedAt' = [checkedAt EXCEPT ![r] = 0]

(* decrypt_verified_envelope() returns the plaintext.                      *)
Open(r) ==
  /\ At(r, "open")
  /\ opened' = [opened EXCEPT ![env[r]] = @ + 1]
  /\ Done(r)
  /\ UNCHANGED <<clockVars, storeVars, verified, firstMark>>

(* Every exception of the call, at any stage: stale, duplicate, bad        *)
(* signature, store unavailable, decryption failure, or the receiver's     *)
(* crash.  What the stores hold by then stays.                             *)
GiveUp(r) ==
  /\ ~At(r, "idle")
  /\ Done(r)
  /\ UNCHANGED <<clockVars, storeVars, histVars>>

-----------------------------------------------------------------------------
(* async_secure_receive_payload(): the nonce is marked first, then         *)
(* open_from() runs with a guard that checks the freshness only.           *)

AsyncMark(r, n) ==
  /\ Async
  /\ Take(r, n)
  /\ MarkOnce(n)
  /\ Goto(r, "asyncFresh")
  /\ UNCHANGED <<clockVars, fast, checkedAt, verified, opened>>

AsyncPrecheck(r) ==
  /\ At(r, "asyncFresh")
  /\ Fresh(env[r])
  /\ Goto(r, "asyncVerify")
  /\ UNCHANGED <<clockVars, storeVars, env, genuine, checkedAt, histVars>>

AsyncVerify(r) ==
  /\ At(r, "asyncVerify")
  /\ Fresh(env[r])
  /\ genuine[r]
  /\ verified' = verified \cup {env[r]}
  /\ Goto(r, "open")
  /\ UNCHANGED <<clockVars, storeVars, env, genuine, checkedAt, firstMark, opened>>

-----------------------------------------------------------------------------
Init ==
  /\ now = 0
  /\ ts = [n \in Nonce |-> Never]
  /\ fast = [n \in Nonce |-> Never]
  /\ durable = [n \in Nonce |-> Never]
  /\ pc = [r \in Receiver |-> "idle"]
  /\ env = [r \in Receiver |-> NoNonce]
  /\ genuine = [r \in Receiver |-> FALSE]
  /\ checkedAt = [r \in Receiver |-> 0]
  /\ verified = {}
  /\ firstMark = [n \in Nonce |-> Never]
  /\ opened = [n \in Nonce |-> 0]

SyncStep(r) ==
  \/ \E n \in Nonce : Precheck(r, n)
  \/ Verify(r)
  \/ Commit(r)
  \/ MarkFast(r)
  \/ MarkDurable(r)
  \/ MarkFastAgain(r)

AsyncStep(r) ==
  \/ \E n \in Nonce : AsyncMark(r, n)
  \/ AsyncPrecheck(r)
  \/ AsyncVerify(r)

Next ==
  \/ Tick
  \/ \E n \in Nonce : Stamp(n) \/ ForgetDurable(n) \/ ForgetFast(n)
  \/ \E r \in Receiver : SyncStep(r) \/ AsyncStep(r) \/ Open(r) \/ GiveUp(r)

Spec == Init /\ [][Next]_vars

-----------------------------------------------------------------------------
(* Properties                                                              *)

(* Types, and the fact that a receiver that is past its idle stage holds   *)
(* the nonce of an envelope that was sent.                                 *)
Stages == {"idle", "verify", "commit", "fast", "durable", "again", "open",
           "asyncFresh", "asyncVerify"}

TypeOK ==
  /\ now \in Nat
  /\ ts \in [Nonce -> Nat \cup {Never}]
  /\ fast \in [Nonce -> Nat \cup {Never}]
  /\ durable \in [Nonce -> Nat \cup {Never}]
  /\ pc \in [Receiver -> Stages]
  /\ env \in [Receiver -> Nonce \cup {NoNonce}]
  /\ genuine \in [Receiver -> BOOLEAN]
  /\ checkedAt \in [Receiver -> Nat]
  /\ verified \subseteq Nonce
  /\ firstMark \in [Nonce -> Nat \cup {Never}]
  /\ opened \in [Nonce -> Nat]
  /\ \A r \in Receiver : pc[r] # "idle" => env[r] \in Nonce /\ ts[env[r]] # Never

(* "Nonce uniqueness": however receivers interleave, whatever the fast     *)
(* store loses and however late a mark is within Lag, the plaintext of an  *)
(* envelope is handed out at most once (ReplayGuard.commit and             *)
(* check_and_open).                                                        *)
NoDoubleOpen == \A n \in Nonce : opened[n] <= 1

(* A damaged copy never uses up the nonce of the envelope it was made      *)
(* from: no store holds a nonce before a copy's signatures were verified   *)
(* (open_from marks after verify_envelope).                                *)
NoBurnByDamage ==
  \A n \in Nonce : fast[n] # Never \/ durable[n] # Never => n \in verified

(* A second plaintext needs the first mark to have outlived its TTL: no    *)
(* interleaving of concurrent receivers opens an envelope twice before     *)
(* window_seconds have passed since it was first marked.                   *)
NoEarlyReopen ==
  \A n \in Nonce : opened[n] > 1 => now >= firstMark[n] + Window

=============================================================================
