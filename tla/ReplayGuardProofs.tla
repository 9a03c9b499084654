------------------------- MODULE ReplayGuardProofs -------------------------
(***************************************************************************)
(* For any number of receivers and envelopes and every window and skew:    *)
(* the synchronous path opens an envelope at most once as long as the      *)
(* senders' clocks run ahead, and the receivers dawdle between freshness   *)
(* check and mark, by less than clock_skew taken together.  On both paths  *)
(* and with any clocks, window_seconds lie between two openings.           *)
(***************************************************************************)
EXTENDS ReplayGuard, TLAPS

USE GuardAssumption, ClockAssumption

(* The synchronous path, and the margin that clock_skew leaves: a late     *)
(* mark of an envelope still falls within the TTL of the first mark.       *)
Timely == ~Async /\ \A d \in AheadBy : d + Lag < Skew

-----------------------------------------------------------------------------
(* The inductive invariant                                                 *)

SyncStages == Stages \ {"asyncFresh", "asyncVerify"}
Marking == {"fast", "durable"}
Marked == {"again", "open"}

(* A stamp is in the future by less than the skew, the lag included.       *)
StampMargin == \A n \in Nonce : ts[n] # Never => ts[n] + Lag < now + Skew

(* A receiver that is about to mark found the envelope fresh lately.       *)
FreshlyChecked ==
  \A r \in Receiver : pc[r] \in Marking =>
    /\ now <= checkedAt[r] + Lag
    /\ checkedAt[r] <= ts[env[r]] + Window

(* The first mark stays until its TTL has passed.                          *)
MarkLasts ==
  \A n \in Nonce : firstMark[n] # Never =>
    /\ ts[n] # Never
    /\ ts[n] + Lag < firstMark[n] + Skew
    /\ \/ durable[n] >= firstMark[n] + Window + Skew
       \/ now >= firstMark[n] + Window + Skew

Unmarked == \A n \in Nonce : firstMark[n] = Never => durable[n] = Never /\ opened[n] = 0

(* Only one receiver holds the right to open, and it has not used it yet.  *)
OneHolder ==
  /\ \A r \in Receiver : pc[r] \in Marked => firstMark[env[r]] # Never /\ opened[env[r]] = 0
  /\ \A r, s \in Receiver :
        pc[r] \in Marked /\ pc[s] \in Marked /\ env[r] = env[s] => r = s

Verified == \A r \in Receiver : pc[r] \in {"commit"} \cup Marking \cup Marked => env[r] \in verified

OnceInv ==
  /\ TypeOK
  /\ pc \in [Receiver -> SyncStages]
  /\ StampMargin
  /\ FreshlyChecked
  /\ MarkLasts
  /\ Unmarked
  /\ OneHolder
  /\ NoDoubleOpen

BurnInv ==
  /\ TypeOK
  /\ pc \in [Receiver -> SyncStages]
  /\ Verified
  /\ NoBurnByDamage

-----------------------------------------------------------------------------
(* Types                                                                   *)

(* Every step of the receive paths keeps the types.                        *)
LEMMA TypeStep == TypeOK /\ [Next]_vars => TypeOK'
<1> SUFFICES ASSUME TypeOK, [Next]_vars PROVE TypeOK'
  OBVIOUS
<1> USE DEF TypeOK, Never, Stages, At, Goto
<1>1. CASE Tick
  BY <1>1 DEF Tick, storeVars, callVars, histVars
<1>2. ASSUME NEW n \in Nonce, Stamp(n) PROVE TypeOK'
  BY <1>2 DEF Stamp, storeVars, callVars, histVars
<1>3. ASSUME NEW n \in Nonce, ForgetDurable(n) \/ ForgetFast(n) PROVE TypeOK'
  BY <1>3 DEF ForgetDurable, ForgetFast, clockVars, callVars, histVars
<1>4. ASSUME NEW r \in Receiver, NEW n \in Nonce, Precheck(r, n) PROVE TypeOK'
  BY <1>4 DEF Precheck, Take, clockVars, storeVars, histVars
<1>5. ASSUME NEW r \in Receiver, Verify(r) \/ Commit(r) PROVE TypeOK'
  BY <1>5 DEF Verify, Commit, clockVars, storeVars, histVars
<1>6. ASSUME NEW r \in Receiver, MarkFast(r) \/ MarkFastAgain(r) PROVE TypeOK'
  <2>1. TTL \in Nat
    BY DEF TTL
  <2>2. TryFast(env[r])
    BY <1>6 DEF MarkFast, MarkFastAgain
  <2>3. fast' \in [Nonce -> Nat \cup {Never}]
    BY <2>1, <2>2 DEF TryFast
  <2> QED
    BY <1>6, <2>3 DEF MarkFast, MarkFastAgain, clockVars, histVars
<1>7. ASSUME NEW r \in Receiver, MarkDurable(r) PROVE TypeOK'
  <2>1. TTL \in Nat
    BY DEF TTL
  <2> QED
    BY <1>7, <2>1 DEF MarkDurable, MarkOnce, clockVars
<1>8. ASSUME NEW r \in Receiver, Open(r) \/ GiveUp(r) PROVE TypeOK'
  <2>1. opened' \in [Nonce -> Nat] /\ Done(r) /\ UNCHANGED <<clockVars, storeVars, verified, firstMark>>
    BY <1>8 DEF Open, GiveUp, histVars
  <2>2. /\ pc' \in [Receiver -> Stages]
        /\ env' \in [Receiver -> Nonce \cup {NoNonce}]
        /\ genuine' \in [Receiver -> BOOLEAN]
        /\ checkedAt' \in [Receiver -> Nat]
    BY <2>1 DEF Done
  <2>3. \A s \in Receiver : pc'[s] # "idle" => pc[s] # "idle" /\ env'[s] = env[s]
    BY <2>1 DEF Done
  <2> QED
    BY <2>1, <2>2, <2>3 DEF clockVars, storeVars
<1>9. ASSUME NEW r \in Receiver, NEW n \in Nonce, AsyncMark(r, n) PROVE TypeOK'
  <2>1. TTL \in Nat
    BY DEF TTL
  <2> QED
    BY <1>9, <2>1 DEF AsyncMark, Take, MarkOnce, clockVars
<1>10. ASSUME NEW r \in Receiver, AsyncPrecheck(r) \/ AsyncVerify(r) PROVE TypeOK'
  BY <1>10 DEF AsyncPrecheck, AsyncVerify, clockVars, storeVars, histVars
<1>11. CASE UNCHANGED vars
  BY <1>11 DEF vars, clockVars, storeVars, callVars, histVars
<1> QED
  BY <1>1, <1>2, <1>3, <1>4, <1>5, <1>6, <1>7, <1>8, <1>9, <1>10, <1>11
     DEF Next, SyncStep, AsyncStep

(* Clocks, stores and calls keep their types, and a call under way holds   *)
(* an envelope that was sent (open_from, check_and_open and the            *)
(* asynchronous receive path).                                             *)
THEOREM GuardTyped == Spec => []TypeOK
<1>1. Init => TypeOK
  BY DEF Init, TypeOK, Never, Stages
<1> QED
  BY <1>1, TypeStep, PTL DEF Spec

-----------------------------------------------------------------------------
(* At most one plaintext                                                   *)

(* One step keeps OnceInv.                                                 *)
LEMMA OnceStep ==
  ASSUME Timely, OnceInv, [Next]_vars
  PROVE  OnceInv'
<1>1. TypeOK'
  BY TypeStep DEF OnceInv
<1> SUFFICES /\ (pc \in [Receiver -> SyncStages])'
             /\ StampMargin'
             /\ FreshlyChecked'
             /\ MarkLasts'
             /\ Unmarked'
             /\ OneHolder'
             /\ NoDoubleOpen'
  BY <1>1 DEF OnceInv
<1> USE DEF OnceInv, TypeOK, Never, SyncStages, Stages, Marking, Marked, At, Goto
<1>2. CASE Tick
  <2>1. StampMargin' /\ FreshlyChecked' /\ MarkLasts'
    BY <1>2, <1>1 DEF Tick, storeVars, callVars, histVars, StampMargin, FreshlyChecked, MarkLasts
  <2> QED
    BY <1>2, <2>1 DEF Tick, storeVars, callVars, histVars, Unmarked, OneHolder, NoDoubleOpen
<1>3. ASSUME NEW n \in Nonce, Stamp(n) PROVE OnceInv'
  <2>1. \A m \in Nonce : \/ ts'[m] = ts[m]
                         \/ (m = n /\ ts'[m] + Lag < now + Skew)
    <3>1. PICK d \in AheadBy : ts' = [ts EXCEPT ![n] = now + d]
      BY <1>3 DEF Stamp
    <3>2. d \in Nat /\ d + Lag < Skew
      BY <3>1 DEF Timely
    <3>3. \A m \in Nonce : m # n => ts'[m] = ts[m]
      BY <3>1
    <3>4. ts'[n] + Lag < now + Skew
      BY <3>1, <3>2
    <3> QED
      BY <3>3, <3>4
  <2>2. StampMargin'
    BY <1>3, <2>1, <1>1 DEF Stamp, StampMargin
  <2>3. FreshlyChecked'
    BY <1>3 DEF Stamp, storeVars, callVars, histVars, FreshlyChecked
  <2>4. MarkLasts'
    <3>1. ts[n] = Never /\ UNCHANGED <<now, durable, firstMark>>
      BY <1>3 DEF Stamp, storeVars, histVars
    <3>2. \A m \in Nonce : firstMark[m] # Never => m # n /\ ts'[m] = ts[m]
      BY <1>3, <3>1 DEF Stamp, MarkLasts
    <3> QED
      BY <3>1, <3>2 DEF MarkLasts
  <2> QED
    BY <1>1, <1>3, <2>2, <2>3, <2>4
       DEF Stamp, storeVars, callVars, histVars, Unmarked, OneHolder, NoDoubleOpen
<1>4. ASSUME NEW n \in Nonce, ForgetDurable(n) PROVE OnceInv'
  <2>1. MarkLasts'
    BY <1>4, <1>1 DEF ForgetDurable, clockVars, callVars, histVars, MarkLasts
  <2>2. Unmarked'
    BY <1>4 DEF ForgetDurable, clockVars, callVars, histVars, Unmarked
  <2> QED
    BY <1>1, <1>4, <2>1, <2>2
       DEF ForgetDurable, clockVars, callVars, histVars, StampMargin, FreshlyChecked, OneHolder, NoDoubleOpen
<1>5. ASSUME NEW n \in Nonce, ForgetFast(n) PROVE OnceInv'
  BY <1>1, <1>5 DEF ForgetFast, clockVars, callVars, histVars, StampMargin,
                    FreshlyChecked, MarkLasts, Unmarked, OneHolder, NoDoubleOpen
<1>6. ASSUME NEW r \in Receiver, NEW n \in Nonce, Precheck(r, n) PROVE OnceInv'
  <2>1. FreshlyChecked' /\ OneHolder'
    BY <1>6 DEF Precheck, Take, clockVars, storeVars, histVars, FreshlyChecked, OneHolder
  <2> QED
    BY <1>1, <1>6, <2>1 DEF Precheck, Take, clockVars, storeVars, histVars, StampMargin,
                            MarkLasts, Unmarked, NoDoubleOpen
<1>7. ASSUME NEW r \in Receiver, Verify(r) \/ Commit(r) PROVE OnceInv'
  <2>1. FreshlyChecked'
    BY <1>7 DEF Verify, Commit, Fresh, clockVars, storeVars, histVars, FreshlyChecked
  <2>2. OneHolder'
    BY <1>7 DEF Verify, Commit, clockVars, storeVars, histVars, OneHolder
  <2> QED
    BY <1>1, <1>7, <2>1, <2>2 DEF Verify, Commit, clockVars, storeVars, histVars,
                                  StampMargin, MarkLasts, Unmarked, NoDoubleOpen
<1>8. ASSUME NEW r \in Receiver, MarkFast(r) PROVE OnceInv'
  <2>1. FreshlyChecked'
    BY <1>8 DEF MarkFast, clockVars, histVars, FreshlyChecked
  <2>2. OneHolder'
    BY <1>8 DEF MarkFast, clockVars, histVars, OneHolder
  <2> QED
    BY <1>1, <1>8, <2>1, <2>2 DEF MarkFast, clockVars, histVars, StampMargin,
                                  MarkLasts, Unmarked, NoDoubleOpen
<1>9. ASSUME NEW r \in Receiver, MarkDurable(r) PROVE OnceInv'
  <2> DEFINE n == env[r]
  <2>1. n \in Nonce /\ ts[n] # Never /\ durable[n] = Never /\ pc[r] = "durable"
    BY <1>9 DEF MarkDurable, MarkOnce
  (* The TTL of an earlier mark would have outlived this freshness check.  *)
  <2>2. firstMark[n] = Never
    <3> SUFFICES ASSUME firstMark[n] # Never PROVE FALSE
      OBVIOUS
    <3>1. ts[n] + Lag < firstMark[n] + Skew /\ now >= firstMark[n] + Window + Skew
      BY <2>1 DEF MarkLasts
    <3>2. now <= ts[n] + Window + Lag
      BY <2>1 DEF FreshlyChecked
    <3> QED
      BY <2>1, <3>1, <3>2
  <2>3. TTL = Window + Skew
    BY DEF TTL, Timely
  <2>4. /\ durable' = [durable EXCEPT ![n] = now + Window + Skew]
        /\ firstMark' = [firstMark EXCEPT ![n] = now]
    <3>1. /\ durable' = [durable EXCEPT ![n] = now + TTL]
          /\ firstMark' = [firstMark EXCEPT ![n] = IF firstMark[n] = Never THEN now ELSE firstMark[n]]
      BY <1>9 DEF MarkDurable, MarkOnce
    <3>2. now + TTL = now + Window + Skew
      BY <2>3
    <3> QED
      BY <2>2, <3>1, <3>2
  <2>5. MarkLasts'
    BY <1>9, <2>1, <2>4 DEF MarkDurable, clockVars, MarkLasts, StampMargin
  <2>6. Unmarked'
    BY <1>9, <2>1, <2>4 DEF MarkDurable, clockVars, Unmarked
  <2>7. OneHolder'
    <3>1. \A s \in Receiver : pc[s] \in Marked => env[s] # n
      BY <2>2 DEF OneHolder
    <3>2. opened[n] = 0
      BY <2>1, <2>2 DEF Unmarked
    <3> QED
      BY <1>9, <2>1, <2>4, <3>1, <3>2 DEF MarkDurable, clockVars, OneHolder
  <2>8. FreshlyChecked'
    BY <1>9 DEF MarkDurable, clockVars, FreshlyChecked
  <2> QED
    BY <1>1, <1>9, <2>5, <2>6, <2>7, <2>8 DEF MarkDurable, clockVars, StampMargin, NoDoubleOpen
<1>10. ASSUME NEW r \in Receiver, MarkFastAgain(r) PROVE OnceInv'
  <2>1. FreshlyChecked'
    BY <1>10 DEF MarkFastAgain, clockVars, histVars, FreshlyChecked
  <2>2. OneHolder'
    BY <1>10 DEF MarkFastAgain, clockVars, histVars, OneHolder
  <2> QED
    BY <1>1, <1>10, <2>1, <2>2 DEF MarkFastAgain, clockVars, histVars, StampMargin,
                                   MarkLasts, Unmarked, NoDoubleOpen
<1>11. ASSUME NEW r \in Receiver, Open(r) PROVE OnceInv'
  <2> DEFINE n == env[r]
  <2>1. n \in Nonce /\ pc[r] = "open" /\ opened[n] = 0 /\ firstMark[n] # Never
    BY <1>11 DEF Open, OneHolder
  <2>2. opened' = [opened EXCEPT ![n] = 1]
    BY <1>11, <2>1 DEF Open
  <2>3. \A s \in Receiver : pc'[s] # "idle" =>
          s # r /\ pc'[s] = pc[s] /\ env'[s] = env[s] /\ checkedAt'[s] = checkedAt[s]
    BY <1>11 DEF Open, Done
  <2>4. UNCHANGED <<now, ts, durable, firstMark>>
    BY <1>11 DEF Open, clockVars, storeVars
  <2>5. \A s \in Receiver : pc[s] \in Marked /\ s # r => env[s] # n
    BY <2>1 DEF OneHolder
  <2>6. OneHolder'
    BY <2>1, <2>2, <2>3, <2>4, <2>5 DEF OneHolder
  <2>7. FreshlyChecked'
    BY <2>3, <2>4 DEF FreshlyChecked
  <2>8. Unmarked' /\ NoDoubleOpen'
    BY <2>1, <2>2, <2>4 DEF Unmarked, NoDoubleOpen
  <2>9. (pc \in [Receiver -> SyncStages])'
    BY <1>11 DEF Open, Done
  <2> QED
    BY <1>1, <2>4, <2>6, <2>7, <2>8, <2>9 DEF StampMargin, MarkLasts
<1>12. ASSUME NEW r \in Receiver, GiveUp(r) PROVE OnceInv'
  <2>3. \A s \in Receiver : pc'[s] # "idle" =>
          s # r /\ pc'[s] = pc[s] /\ env'[s] = env[s] /\ checkedAt'[s] = checkedAt[s]
    BY <1>12 DEF GiveUp, Done
  <2>4. UNCHANGED <<now, ts, durable, firstMark, opened>>
    BY <1>12 DEF GiveUp, clockVars, storeVars, histVars
  <2>6. OneHolder'
    BY <2>3, <2>4 DEF OneHolder
  <2>7. FreshlyChecked'
    BY <2>3, <2>4 DEF FreshlyChecked
  <2>9. (pc \in [Receiver -> SyncStages])'
    BY <1>12 DEF GiveUp, Done
  <2> QED
    BY <1>1, <2>4, <2>6, <2>7, <2>9 DEF StampMargin, MarkLasts, Unmarked, NoDoubleOpen
<1>13. ASSUME NEW r \in Receiver, AsyncStep(r) PROVE FALSE
  BY <1>13 DEF AsyncStep, AsyncMark, AsyncPrecheck, AsyncVerify, Timely
<1>14. CASE UNCHANGED vars
  BY <1>14 DEF vars, clockVars, storeVars, callVars, histVars, StampMargin,
               FreshlyChecked, MarkLasts, Unmarked, OneHolder, NoDoubleOpen
<1> QED
  BY <1>2, <1>3, <1>4, <1>5, <1>6, <1>7, <1>8, <1>9, <1>10, <1>11, <1>12, <1>13, <1>14
     DEF Next, SyncStep

(* However many receivers interleave, whatever the fast store loses and    *)
(* whenever expired entries go, the plaintext of an envelope is returned   *)
(* at most once (ReplayGuard.commit, check_and_open).                      *)
THEOREM OpensOnce ==
  ASSUME Timely
  PROVE  Spec => []NoDoubleOpen
<1>1. Init => OnceInv
  BY DEF Init, OnceInv, TypeOK, Never, Stages, SyncStages, Marking, Marked, StampMargin,
         FreshlyChecked, MarkLasts, Unmarked, OneHolder, NoDoubleOpen
<1>2. OnceInv /\ [Next]_vars => OnceInv'
  BY OnceStep
<1>3. OnceInv => NoDoubleOpen
  BY DEF OnceInv
<1> QED
  BY <1>1, <1>2, <1>3, PTL DEF Spec

-----------------------------------------------------------------------------
(* Damaged copies                                                          *)

(* One step keeps BurnInv.                                                 *)
LEMMA BurnStep ==
  ASSUME ~Async, BurnInv, [Next]_vars
  PROVE  BurnInv'
<1>1. TypeOK'
  BY TypeStep DEF BurnInv
<1> USE DEF BurnInv, TypeOK, SyncStages, Stages, Marking, Marked, At, Goto, Verified, NoBurnByDamage
<1>2. CASE Tick
  BY <1>1, <1>2 DEF Tick, storeVars, callVars, histVars
<1>3. ASSUME NEW n \in Nonce, Stamp(n) \/ ForgetDurable(n) \/ ForgetFast(n) PROVE BurnInv'
  BY <1>1, <1>3 DEF Stamp, ForgetDurable, ForgetFast, clockVars, storeVars, callVars, histVars
<1>4. ASSUME NEW r \in Receiver, NEW n \in Nonce, Precheck(r, n) PROVE BurnInv'
  BY <1>1, <1>4 DEF Precheck, Take, clockVars, storeVars, histVars
<1>5. ASSUME NEW r \in Receiver, Verify(r) \/ Commit(r) PROVE BurnInv'
  <2>1. verified \subseteq verified' /\ env[r] \in verified' /\ UNCHANGED <<env, fast, durable>>
    BY <1>5 DEF Verify, Commit, storeVars, histVars
  <2>2. \A s \in Receiver : s # r => pc'[s] = pc[s]
    BY <1>5 DEF Verify, Commit
  <2>3. (pc \in [Receiver -> SyncStages])'
    BY <1>5 DEF Verify, Commit
  <2> QED
    BY <1>1, <2>1, <2>2, <2>3
<1>6. ASSUME NEW r \in Receiver, MarkFast(r) \/ MarkFastAgain(r) PROVE BurnInv'
  <2>1. \A n \in Nonce : n # env[r] => fast'[n] = fast[n]
    BY <1>6 DEF MarkFast, MarkFastAgain, TryFast
  <2>2. env[r] \in verified
    BY <1>6 DEF MarkFast, MarkFastAgain
  <2> QED
    BY <1>1, <1>6, <2>1, <2>2 DEF MarkFast, MarkFastAgain, clockVars, histVars
<1>7. ASSUME NEW r \in Receiver, MarkDurable(r) PROVE BurnInv'
  <2>1. \A n \in Nonce : n # env[r] => durable'[n] = durable[n]
    BY <1>7 DEF MarkDurable, MarkOnce
  <2>2. env[r] \in verified
    BY <1>7 DEF MarkDurable
  <2> QED
    BY <1>1, <1>7, <2>1, <2>2 DEF MarkDurable, clockVars
<1>8. ASSUME NEW r \in Receiver, Open(r) \/ GiveUp(r) PROVE BurnInv'
  <2>1. \A s \in Receiver : pc'[s] # "idle" => s # r /\ pc'[s] = pc[s] /\ env'[s] = env[s]
    BY <1>8 DEF Open, GiveUp, Done
  <2>2. UNCHANGED <<fast, durable, verified>>
    BY <1>8 DEF Open, GiveUp, storeVars, histVars
  <2>3. (pc \in [Receiver -> SyncStages])'
    BY <1>8 DEF Open, GiveUp, Done
  <2> QED
    BY <1>1, <2>1, <2>2, <2>3
<1>9. ASSUME NEW r \in Receiver, AsyncStep(r) PROVE FALSE
  BY <1>9 DEF AsyncStep, AsyncMark, AsyncPrecheck, AsyncVerify
<1>10. CASE UNCHANGED vars
  BY <1>1, <1>10 DEF vars, clockVars, storeVars, callVars, histVars
<1> QED
  BY <1>2, <1>3, <1>4, <1>5, <1>6, <1>7, <1>8, <1>9, <1>10 DEF Next, SyncStep

(* On the synchronous path no store holds the nonce of an envelope before  *)
(* the signatures of a copy of it were verified (Identity.open_from), with *)
(* no assumption about the clocks.                                         *)
THEOREM DamageBurnsNothing ==
  ASSUME ~Async
  PROVE  Spec => []NoBurnByDamage
<1>1. Init => BurnInv
  BY DEF Init, BurnInv, TypeOK, Never, Stages, SyncStages, Marking, Marked, Verified, NoBurnByDamage
<1>2. BurnInv /\ [Next]_vars => BurnInv'
  BY BurnStep
<1>3. BurnInv => NoBurnByDamage
  BY DEF BurnInv
<1> QED
  BY <1>1, <1>2, <1>3, PTL DEF Spec

-----------------------------------------------------------------------------
(* Either path, whatever the clocks do                                     *)

Holding == {"again", "open", "asyncFresh", "asyncVerify"}

(* The nonce was marked less than window_seconds ago.                      *)
Early(n) == firstMark[n] # Never /\ now < firstMark[n] + Window

(* So long the durable store keeps it, one call at most holds the right to *)
(* open the envelope, and whoever holds it finds it not opened yet.        *)
EarlyMark(n) ==
  Early(n) =>
    /\ durable[n] # Never /\ durable[n] >= firstMark[n] + Window
    /\ opened[n] <= 1
    /\ \A r \in Receiver : pc[r] \in Holding /\ env[r] = n => opened[n] = 0
    /\ \A r, s \in Receiver :
          pc[r] \in Holding /\ pc[s] \in Holding /\ env[r] = n /\ env[s] = n => r = s

(* Nobody holds or has opened an envelope that was never marked.           *)
NotMarked(n) ==
  firstMark[n] = Never =>
    /\ opened[n] = 0
    /\ \A r \in Receiver : pc[r] \in Holding => env[r] # n

EarlyInv ==
  /\ TypeOK
  /\ \A n \in Nonce : EarlyMark(n) /\ NotMarked(n)

(* One step keeps EarlyInv.                                                *)
LEMMA EarlyStep == EarlyInv /\ [Next]_vars => EarlyInv'
<1> SUFFICES ASSUME EarlyInv, [Next]_vars PROVE EarlyInv'
  OBVIOUS
<1>1. TypeOK'
  BY TypeStep DEF EarlyInv
<1> SUFFICES ASSUME NEW n \in Nonce PROVE EarlyMark(n)' /\ NotMarked(n)'
  BY <1>1 DEF EarlyInv
<1>2. TypeOK /\ EarlyMark(n) /\ NotMarked(n)
  BY DEF EarlyInv
<1> USE DEF TypeOK, Never, Stages, Holding, At, Goto, Early
(* Steps that neither give the right to open nor use it, nor forget a mark *)
(* before its time.                                                        *)
<1>3. ASSUME /\ now <= now'
             /\ UNCHANGED <<firstMark, opened>>
             /\ durable'[n] = durable[n] \/ durable[n] <= now
             /\ \A r \in Receiver : pc'[r] \in Holding => pc[r] \in Holding /\ env'[r] = env[r]
      PROVE  EarlyMark(n)' /\ NotMarked(n)'
  <2>1. Early(n)' => Early(n)
    BY <1>1, <1>2, <1>3
  <2>2. Early(n)' => durable'[n] = durable[n]
    BY <1>1, <1>2, <1>3, <2>1 DEF EarlyMark
  <2>3. EarlyMark(n)'
    BY <1>2, <1>3, <2>1, <2>2 DEF EarlyMark
  <2> QED
    BY <1>2, <1>3, <2>3 DEF NotMarked
<1>4. CASE Tick
  BY <1>2, <1>3, <1>4 DEF Tick, storeVars, callVars, histVars
<1>5. ASSUME NEW m \in Nonce, Stamp(m) \/ ForgetDurable(m) \/ ForgetFast(m)
      PROVE  EarlyMark(n)' /\ NotMarked(n)'
  <2>1. durable'[n] = durable[n] \/ durable[n] <= now
    BY <1>2, <1>5 DEF Stamp, ForgetDurable, ForgetFast, storeVars
  <2>2. UNCHANGED <<now, firstMark, opened, pc, env>>
    BY <1>5 DEF Stamp, ForgetDurable, ForgetFast, clockVars, callVars, histVars
  <2> QED
    BY <1>2, <1>3, <2>1, <2>2
<1>6. ASSUME NEW r \in Receiver,
             \/ \E m \in Nonce : Precheck(r, m)
             \/ Verify(r) \/ Commit(r) \/ MarkFast(r) \/ MarkFastAgain(r)
             \/ AsyncPrecheck(r) \/ AsyncVerify(r) \/ GiveUp(r)
      PROVE  EarlyMark(n)' /\ NotMarked(n)'
  <2>1. UNCHANGED <<now, durable, firstMark, opened>>
    BY <1>6 DEF Precheck, Verify, Commit, MarkFast, MarkFastAgain, AsyncPrecheck, AsyncVerify,
                GiveUp, clockVars, storeVars, histVars
  <2>2. \A s \in Receiver : pc'[s] \in Holding => pc[s] \in Holding /\ env'[s] = env[s]
    <3>1. CASE \E m \in Nonce : Precheck(r, m)
      BY <1>2, <3>1 DEF Precheck, Take
    <3>2. CASE Verify(r) \/ Commit(r) \/ MarkFast(r) \/ MarkFastAgain(r)
      BY <1>2, <3>2 DEF Verify, Commit, MarkFast, MarkFastAgain
    <3>3. CASE AsyncPrecheck(r) \/ AsyncVerify(r)
      BY <1>2, <3>3 DEF AsyncPrecheck, AsyncVerify
    <3>4. CASE GiveUp(r)
      BY <1>2, <3>4 DEF GiveUp, Done
    <3> QED
      BY <1>6, <3>1, <3>2, <3>3, <3>4
  <2> QED
    BY <1>2, <1>3, <2>1, <2>2
(* The mark that gives the right to open: none was made lately.            *)
<1>7. ASSUME NEW r \in Receiver, NEW m \in Nonce, MarkOnce(m), UNCHANGED <<now, opened>>,
             env'[r] = m,
             \A s \in Receiver : s # r => pc'[s] = pc[s] /\ env'[s] = env[s]
      PROVE  EarlyMark(n)' /\ NotMarked(n)'
  <2>1. TTL \in Nat /\ TTL >= Window
    BY DEF TTL
  <2>2. CASE m # n
    <3>1. durable'[n] = durable[n] /\ firstMark'[n] = firstMark[n]
      BY <1>2, <1>7, <2>2 DEF MarkOnce
    <3>2. \A s \in Receiver : pc'[s] \in Holding /\ env'[s] = n => pc[s] \in Holding /\ env[s] = n
      BY <1>7, <2>2
    <3> QED
      BY <1>2, <1>7, <3>1, <3>2 DEF EarlyMark, NotMarked
  <2>3. CASE m = n
    <3>1. ~Early(n)
      BY <1>2, <1>7, <2>3 DEF EarlyMark, MarkOnce
    <3>2. durable'[n] = now + TTL /\ firstMark'[n] # Never
      BY <1>2, <1>7, <2>3 DEF MarkOnce
    <3>3. CASE firstMark[n] = Never
      <4>1. firstMark'[n] = now /\ opened'[n] = 0
        BY <1>2, <1>7, <2>3, <3>3 DEF MarkOnce, NotMarked
      <4>2. \A s \in Receiver : pc'[s] \in Holding /\ env'[s] = n => s = r
        BY <1>2, <1>7, <3>3 DEF NotMarked
      <4> QED
        BY <1>1, <1>2, <2>1, <3>2, <4>1, <4>2 DEF EarlyMark, NotMarked
    <3>4. CASE firstMark[n] # Never
      <4>1. firstMark'[n] = firstMark[n]
        BY <1>2, <1>7, <2>3, <3>4 DEF MarkOnce
      <4> QED
        BY <1>7, <3>1, <3>2, <4>1 DEF EarlyMark, NotMarked
    <3> QED
      BY <3>3, <3>4
  <2> QED
    BY <2>2, <2>3
<1>8. ASSUME NEW r \in Receiver, MarkDurable(r) PROVE EarlyMark(n)' /\ NotMarked(n)'
  <2>1. env[r] \in Nonce /\ MarkOnce(env[r]) /\ UNCHANGED <<now, opened, env>>
    BY <1>2, <1>8 DEF MarkDurable, clockVars
  <2>2. \A s \in Receiver : s # r => pc'[s] = pc[s]
    BY <1>2, <1>8 DEF MarkDurable
  <2> QED
    BY <1>7, <2>1, <2>2
<1>9. ASSUME NEW r \in Receiver, NEW m \in Nonce, AsyncMark(r, m)
      PROVE  EarlyMark(n)' /\ NotMarked(n)'
  <2>1. MarkOnce(m) /\ UNCHANGED <<now, opened>>
    BY <1>9 DEF AsyncMark, clockVars
  <2>2. env'[r] = m /\ \A s \in Receiver : s # r => pc'[s] = pc[s] /\ env'[s] = env[s]
    BY <1>2, <1>9 DEF AsyncMark, Take
  <2> QED
    BY <1>7, <2>1, <2>2
<1>10. ASSUME NEW r \in Receiver, Open(r) PROVE EarlyMark(n)' /\ NotMarked(n)'
  <2>1. /\ pc[r] \in Holding /\ env[r] \in Nonce
        /\ opened' = [opened EXCEPT ![env[r]] = @ + 1]
        /\ UNCHANGED <<now, durable, firstMark>>
    BY <1>2, <1>10 DEF Open, clockVars, storeVars
  <2>2. \A s \in Receiver : pc'[s] \in Holding => s # r /\ pc[s] \in Holding /\ env'[s] = env[s]
    BY <1>2, <1>10 DEF Open, Done
  <2>3. CASE env[r] = n
    <3>1. firstMark[n] # Never
      BY <1>2, <2>1, <2>3 DEF NotMarked
    <3>2. Early(n) => opened'[n] = 1
      BY <1>2, <2>1, <2>3 DEF EarlyMark
    <3>3. Early(n) => \A s \in Receiver : pc'[s] \in Holding => env'[s] # n
      BY <1>2, <2>1, <2>2, <2>3 DEF EarlyMark
    <3>4. EarlyMark(n)'
      BY <1>2, <2>1, <3>2, <3>3 DEF EarlyMark
    <3> QED
      BY <2>1, <3>1, <3>4 DEF NotMarked
  <2>4. CASE env[r] # n
    <3>1. opened'[n] = opened[n]
      BY <1>2, <2>1, <2>4
    <3> QED
      BY <1>2, <2>1, <2>2, <3>1 DEF EarlyMark, NotMarked
  <2> QED
    BY <2>3, <2>4
<1>11. CASE UNCHANGED vars
  BY <1>2, <1>3, <1>11 DEF vars, clockVars, storeVars, callVars, histVars
<1> QED
  BY <1>4, <1>5, <1>6, <1>8, <1>9, <1>10, <1>11 DEF Next, SyncStep, AsyncStep

(* On both receive paths and with no assumption about clocks or delays, a  *)
(* second plaintext comes window_seconds after the first mark at the       *)
(* earliest (commit, check_and_open, async_secure_receive_payload).        *)
THEOREM NoReopenWithinWindow == Spec => []NoEarlyReopen
<1>1. Init => EarlyInv
  BY DEF Init, EarlyInv, TypeOK, Never, Stages, EarlyMark, NotMarked, Early, Holding
<1>2. EarlyInv => NoEarlyReopen
  <2> SUFFICES ASSUME EarlyInv, NEW n \in Nonce, opened[n] > 1
               PROVE  now >= firstMark[n] + Window
    BY DEF NoEarlyReopen
  <2>1. EarlyMark(n) /\ NotMarked(n) /\ TypeOK
    BY DEF EarlyInv
  <2>2. firstMark[n] # Never /\ ~Early(n)
    BY <2>1 DEF EarlyMark, NotMarked, TypeOK
  <2> QED
    BY <2>1, <2>2 DEF Early, TypeOK, Never
<1> QED
  BY <1>1, <1>2, EarlyStep, PTL DEF Spec
=============================================================================
