--------------------------- MODULE DeliveryProofs ---------------------------
(***************************************************************************)
(* What is built on sealed packages promises: a context and the two ends   *)
(* of Send() and Receive(), the calls of the HTTP client, the frames of a  *)
(* live session, the packages of a stream and the chunks of a file. All of *)
(* it for any stores, identities, peers, messages, calls, frames and       *)
(* chunks, and a network that loses, repeats, delays, reorders and mixes.  *)
(***************************************************************************)
EXTENDS SecureContext, SealedPackage, HttpExchange, LiveSession, PackageStream,
        ChunkedTransfer, SequenceTheorems, FiniteSetTheorems, WellFoundedInduction, TLAPS

-----------------------------------------------------------------------------
(* The context                                                             *)
(*                                                                         *)
(* A package is delivered once because the nonce is marked before, and     *)
(* only one worker can be between its mark and its delivery (MarkedApart), *)
(* also when configure() replaces the guard meanwhile: a worker keeps the  *)
(* store it has read.                                                      *)

\* The active identity is where its put() was to bring it.
IdentityListed ==
    identity # NoIdentity /\ ~unlisted =>
        identity \in ownIn[keystore] \/ <<keystore, identity>> \in tasks

\* The copy, or the object, that revoke_peer() has put back is revoked.
RevokedInStore == revoked => peerIn[keystore].revoked

\* An object that can be revoked is one of the peer's cards.
ObjectIsCard(entry) == entry.object => entry.card \in PeerCards

\* A worker that has used up the nonce of its package, which nobody else holds.
HasMarked(w) == worker[w].step \in {"marked", "opened"}

WorkerKept(w) ==
    /\ worker[w].step = "revoke" => worker[w].entry.revoked /\ ObjectIsCard(worker[w].entry)
    /\ worker[w].after => /\ worker[w].step \in {"card", "receiver", "guard", "marked"}
                          /\ Dead(worker[w].entry)
    /\ HasMarked(w) => /\ Seen(w)
                       /\ delivered[worker[w].store][worker[w].package] = 0

MarkedApart ==
    \A v, w \in Workers :
        /\ HasMarked(v) /\ HasMarked(w)
        /\ worker[v].store = worker[w].store /\ worker[v].package = worker[w].package
        => v = w

DeliveredWasMarked ==
    \A s \in NonceStores : \A p \in Inbox :
        delivered[s][p] = 0 \/ (delivered[s][p] = 1 /\ p \in marks[s])

ContextIInv ==
    /\ ContextTypeOK
    /\ IdentityListed
    /\ RevokedInStore
    /\ \A k \in KeyStores : ObjectIsCard(peerIn[k])
    /\ \A w \in Workers : WorkerKept(w)
    /\ MarkedApart
    /\ DeliveredWasMarked

LEMMA ContextConstants ==
    /\ Me \in Identities /\ DefaultIdentity \in Identities /\ NoIdentity \notin Identities
    /\ MaxConfigured \in Nat
    /\ AtRest \in WorkerStates /\ AtRest.step = "idle" /\ AtRest.after = FALSE
    /\ Nobody \in Entries
    /\ (CHOOSE k \in KeyStores : TRUE) \in KeyStores
    /\ (CHOOSE s \in NonceStores : TRUE) \in NonceStores
<1>1. \A S : S # {} => (CHOOSE x \in S : TRUE) \in S
  OBVIOUS
<1>2. /\ (CHOOSE k \in KeyStores : TRUE) \in KeyStores
      /\ (CHOOSE s \in NonceStores : TRUE) \in NonceStores
      /\ (CHOOSE p \in Inbox : TRUE) \in Inbox
  BY <1>1, ContextAssumption
<1>3. Nobody \in Entries
  BY DEF Nobody, Entries
<1>4. AtRest \in WorkerStates /\ AtRest.step = "idle" /\ AtRest.after = FALSE
  BY <1>2, <1>3 DEF AtRest, WorkerStates
<1>5. Me \in Identities /\ DefaultIdentity \in Identities
  BY ContextAssumption
<1> QED
  BY <1>2, <1>3, <1>4, <1>5, ContextAssumption

LEMMA ContextInitInv == ContextInit => ContextIInv
<1> SUFFICES ASSUME ContextInit PROVE ContextIInv
  OBVIOUS
<1>1. ContextTypeOK
  <2>1. keystore \in KeyStores /\ guardStore \in NonceStores
    BY ContextConstants DEF ContextInit
  <2>2. /\ keyKind \in [KeyStores -> {"memory", "copies", "async"}]
        /\ asyncGuard \subseteq NonceStores
        /\ {revoked, unlisted} \subseteq BOOLEAN
        /\ identity \in Identities \cup {NoIdentity}
    BY DEF ContextInit
  <2>3. peerIn \in [KeyStores -> Entries] /\ worker \in [Workers -> WorkerStates]
    BY ContextConstants DEF ContextInit
  <2>4. /\ ownIn \in [KeyStores -> SUBSET Identities]
        /\ tasks \subseteq KeyStores \X Identities /\ deadCards \subseteq PeerCards
        /\ marks \in [NonceStores -> SUBSET Inbox]
    BY DEF ContextInit
  <2>5. delivered \in [NonceStores -> [Inbox -> Nat]] /\ configured \in 0..MaxConfigured
    BY ContextConstants DEF ContextInit
  <2> QED
    BY <2>1, <2>2, <2>3, <2>4, <2>5 DEF ContextTypeOK
<1>2. IdentityListed /\ RevokedInStore
  BY DEF ContextInit, IdentityListed, RevokedInStore
<1>3. \A w \in Workers : worker[w].step = "idle" /\ worker[w].after = FALSE
  BY ContextConstants DEF ContextInit
<1>4. DeliveredWasMarked
  BY DEF ContextInit, DeliveredWasMarked
<1>5. \A k \in KeyStores : ObjectIsCard(peerIn[k])
  BY DEF ContextInit, Nobody, ObjectIsCard
<1> QED
  BY <1>1, <1>2, <1>3, <1>4, <1>5 DEF ContextIInv, WorkerKept, MarkedApart, HasMarked

-----------------------------------------------------------------------------

LEMMA OwnTyped ==
    ASSUME ContextTypeOK, NEW id \in Identities, NEW stores \in SUBSET KeyStores,
           PutOwn(id, stores)
    PROVE  /\ ownIn' \in [KeyStores -> SUBSET Identities]
           /\ tasks' \subseteq KeyStores \X Identities
           /\ unlisted' \in BOOLEAN
           /\ ~unlisted' => \A k \in stores : id \in ownIn'[k] \/ <<k, id>> \in tasks'
<1>1. PICK put \in SUBSET stores :
        /\ ownIn' = [k \in KeyStores |->
                        IF k \in put /\ keyKind[k] # "async" THEN ownIn[k] \cup {id} ELSE ownIn[k]]
        /\ tasks' = tasks \cup {<<k, id>> : k \in {s \in put : keyKind[s] = "async"}}
        /\ unlisted' = (put # stores)
  BY DEF PutOwn
<1>2. ownIn \in [KeyStores -> SUBSET Identities] /\ tasks \subseteq KeyStores \X Identities
  BY DEF ContextTypeOK
<1>3. ownIn' \in [KeyStores -> SUBSET Identities]
  BY <1>1, <1>2
<1>4. tasks' \subseteq KeyStores \X Identities
  BY <1>1, <1>2
<1>5. unlisted' \in BOOLEAN
  BY <1>1
<1>6. ASSUME ~unlisted', NEW k \in stores PROVE id \in ownIn'[k] \/ <<k, id>> \in tasks'
  <2>1. k \in put /\ k \in KeyStores
    BY <1>1, <1>6
  <2>2. CASE keyKind[k] = "async"
    BY <1>1, <2>1, <2>2
  <2>3. CASE keyKind[k] # "async"
    BY <1>1, <2>1, <2>3
  <2> QED
    BY <2>2, <2>3
<1> QED
  BY <1>3, <1>4, <1>5, <1>6

WorkStages == {"idle", "card", "receiver", "guard", "marked", "opened", "revoke"}

LEMMA WorkerUpdated ==
    ASSUME NEW s \in WorkerStates
    PROVE  /\ \A step \in WorkStages : [s EXCEPT !.step = step] \in WorkerStates
           /\ \A e \in Entries : [s EXCEPT !.entry = e] \in WorkerStates
           /\ \A p \in Inbox : [s EXCEPT !.package = p] \in WorkerStates
           /\ \A n \in NonceStores : [s EXCEPT !.store = n] \in WorkerStates
           /\ \A b \in BOOLEAN : [s EXCEPT !.after = b] \in WorkerStates
BY DEF WorkerStates, WorkStages

LEMMA WorkerMoves ==
    ASSUME ContextTypeOK, NEW w \in Workers, NEW s \in WorkerStates,
           worker' = [worker EXCEPT ![w] = s]
    PROVE  /\ worker' \in [Workers -> WorkerStates]
           /\ worker'[w] = s
           /\ \A v \in Workers \ {w} : worker'[v] = worker[v]
BY DEF ContextTypeOK

\* What the calls of the workers do to them.
LEMMA WorkerSteps ==
    ASSUME ContextTypeOK, NEW w \in Workers
    PROVE  /\ RevokeCard(w) \/ RevokePut(w) \/ (\E p \in Inbox : GetPeer(w, p)) \/ GetReceiver(w)
              \/ GetReplayGuard(w) \/ Open(w) \/ MarkAsync(w) \/ OpenMarked(w) \/ Deliver(w)
              => /\ worker' \in [Workers -> WorkerStates]
                 /\ \A v \in Workers \ {w} : worker'[v] = worker[v]
           /\ RevokeCard(w) => /\ worker'[w].step = "revoke" /\ worker'[w].entry.revoked
                               /\ worker'[w].entry.object = peerIn[keystore].object
                               /\ worker'[w].entry.card = peerIn[keystore].card
                               /\ worker'[w].after = worker[w].after
           /\ \A p \in Inbox : GetPeer(w, p) =>
                  /\ worker'[w].step = "card" /\ worker'[w].entry = peerIn[keystore]
                  /\ worker'[w].after = revoked
           /\ \A step \in WorkStages : worker' = [worker EXCEPT ![w].step = step] =>
                  /\ worker'[w].step = step
                  /\ worker'[w].entry = worker[w].entry /\ worker'[w].after = worker[w].after
                  /\ worker'[w].store = worker[w].store
                  /\ worker'[w].package = worker[w].package
           /\ GetReplayGuard(w) => /\ worker'[w].step = "guard"
                                   /\ worker'[w].entry = worker[w].entry
                                   /\ worker'[w].after = worker[w].after
           /\ Idle(w) => worker'[w] = AtRest
<1>0. /\ worker \in [Workers -> WorkerStates] /\ worker[w] \in WorkerStates
      /\ AtRest \in WorkerStates
      /\ keystore \in KeyStores /\ peerIn[keystore] \in Entries
      /\ revoked \in BOOLEAN /\ guardStore \in NonceStores
  BY ContextConstants DEF ContextTypeOK
<1>1. Idle(w) => /\ worker' \in [Workers -> WorkerStates] /\ worker'[w] = AtRest
                 /\ \A v \in Workers \ {w} : worker'[v] = worker[v]
  BY <1>0, WorkerMoves DEF Idle
<1>2. ASSUME NEW step \in WorkStages, worker' = [worker EXCEPT ![w].step = step]
      PROVE  /\ worker' \in [Workers -> WorkerStates]
             /\ \A v \in Workers \ {w} : worker'[v] = worker[v]
             /\ worker'[w].step = step
             /\ worker'[w].entry = worker[w].entry /\ worker'[w].after = worker[w].after
             /\ worker'[w].store = worker[w].store
             /\ worker'[w].package = worker[w].package
  <2>1. [worker[w] EXCEPT !.step = step] \in WorkerStates
    BY <1>0, WorkerUpdated
  <2>2. /\ worker' \in [Workers -> WorkerStates]
        /\ worker'[w] = [worker[w] EXCEPT !.step = step]
        /\ \A v \in Workers \ {w} : worker'[v] = worker[v]
    BY <1>0, <1>2, <2>1, WorkerMoves
  <2> QED
    BY <1>0, <2>2 DEF WorkerStates
<1>3. ASSUME RevokeCard(w)
      PROVE  /\ worker' \in [Workers -> WorkerStates]
             /\ \A v \in Workers \ {w} : worker'[v] = worker[v]
             /\ worker'[w].step = "revoke" /\ worker'[w].entry.revoked
             /\ worker'[w].entry.object = peerIn[keystore].object
             /\ worker'[w].entry.card = peerIn[keystore].card
             /\ worker'[w].after = worker[w].after
  <2> DEFINE e == [peerIn[keystore] EXCEPT !.revoked = TRUE]
  <2>1. /\ e \in Entries /\ e.revoked
        /\ e.object = peerIn[keystore].object /\ e.card = peerIn[keystore].card
    BY <1>0 DEF Entries
  <2>2. [[worker[w] EXCEPT !.step = "revoke"] EXCEPT !.entry = e] \in WorkerStates
    BY <1>0, <2>1, WorkerUpdated DEF WorkStages
  <2>3. worker' = [worker EXCEPT ![w] = [worker[w] EXCEPT !.step = "revoke", !.entry = e]]
    BY <1>3 DEF RevokeCard
  <2>4. /\ worker' \in [Workers -> WorkerStates]
        /\ worker'[w] = [worker[w] EXCEPT !.step = "revoke", !.entry = e]
        /\ \A v \in Workers \ {w} : worker'[v] = worker[v]
    BY <1>0, <2>2, <2>3, WorkerMoves
  <2> HIDE DEF e
  <2> QED
    BY <1>0, <2>1, <2>4 DEF WorkerStates
<1>4. ASSUME NEW p \in Inbox, GetPeer(w, p)
      PROVE  /\ worker' \in [Workers -> WorkerStates]
             /\ \A v \in Workers \ {w} : worker'[v] = worker[v]
             /\ worker'[w].step = "card" /\ worker'[w].entry = peerIn[keystore]
             /\ worker'[w].after = revoked
  <2> DEFINE s == [worker[w] EXCEPT !.step = "card", !.entry = peerIn[keystore],
                                    !.package = p, !.after = revoked]
  <2>1. s \in WorkerStates
    <3>1. [worker[w] EXCEPT !.step = "card"] \in WorkerStates
      BY <1>0, WorkerUpdated DEF WorkStages
    <3>2. [[worker[w] EXCEPT !.step = "card"] EXCEPT !.entry = peerIn[keystore]] \in WorkerStates
      BY <1>0, <3>1, WorkerUpdated
    <3>3. [[[worker[w] EXCEPT !.step = "card"] EXCEPT !.entry = peerIn[keystore]]
              EXCEPT !.package = p] \in WorkerStates
      BY <1>0, <3>2, WorkerUpdated
    <3> QED
      BY <1>0, <3>3, WorkerUpdated
  <2>2. worker' = [worker EXCEPT ![w] = s]
    BY <1>4 DEF GetPeer
  <2>3. s.step = "card" /\ s.entry = peerIn[keystore] /\ s.after = revoked
    BY <1>0 DEF WorkerStates
  <2> QED
    BY <2>1, <2>2, <2>3, WorkerMoves
<1>5. ASSUME GetReplayGuard(w)
      PROVE  /\ worker' \in [Workers -> WorkerStates]
             /\ \A v \in Workers \ {w} : worker'[v] = worker[v]
             /\ worker'[w].step = "guard" /\ worker'[w].entry = worker[w].entry
             /\ worker'[w].after = worker[w].after
  <2> DEFINE s == [worker[w] EXCEPT !.step = "guard", !.store = guardStore]
  <2>1. s \in WorkerStates
    <3>1. [worker[w] EXCEPT !.step = "guard"] \in WorkerStates
      BY <1>0, WorkerUpdated DEF WorkStages
    <3> QED
      BY <1>0, <3>1, WorkerUpdated
  <2>2. worker' = [worker EXCEPT ![w] = s]
    BY <1>5 DEF GetReplayGuard
  <2>3. s.step = "guard" /\ s.entry = worker[w].entry /\ s.after = worker[w].after
    BY <1>0 DEF WorkerStates
  <2> QED
    BY <2>1, <2>2, <2>3, WorkerMoves
<1>6. /\ RevokePut(w) => Idle(w)
      /\ GetReceiver(w) => Idle(w) \/ worker' = [worker EXCEPT ![w].step = "receiver"]
      /\ Open(w) => Idle(w) \/ worker' = [worker EXCEPT ![w].step = "opened"]
      /\ MarkAsync(w) => Idle(w) \/ worker' = [worker EXCEPT ![w].step = "marked"]
      /\ OpenMarked(w) => Idle(w) \/ worker' = [worker EXCEPT ![w].step = "opened"]
      /\ Deliver(w) => Idle(w)
  BY DEF RevokePut, GetReceiver, Open, MarkAsync, OpenMarked, Deliver
<1>7. {"receiver", "opened", "marked"} \subseteq WorkStages
  BY DEF WorkStages
<1> QED
  BY <1>1, <1>2, <1>3, <1>4, <1>5, <1>6, <1>7

CallStep(w) ==
    \/ RevokeCard(w) \/ RevokePut(w) \/ \E p \in Inbox : GetPeer(w, p)
    \/ GetReceiver(w) \/ GetReplayGuard(w)
    \/ Open(w) \/ MarkAsync(w) \/ OpenMarked(w) \/ Deliver(w)

\* A change of the context by the application, which leaves the workers alone.
OwnerStep ==
    \/ \E id \in Identities : SetIdentity(id)
    \/ GetIdentity
    \/ \E t \in tasks : RunTask(t)
    \/ \E k \in KeyStores : SetKeystore(k)
    \/ \E id \in Identities, k \in KeyStores : ConfigureBoth(id, k)
    \/ \E s \in NonceStores : SetGuard(s)
    \/ \E k \in KeyStores, s \in NonceStores : Reset(k, s)
    \/ \E c \in PeerCards : RegisterPeer(c)

LEMMA ContextSteps ==
    ASSUME [ContextNext]_contextVars
    PROVE  OwnerStep \/ (\E w \in Workers : CallStep(w)) \/ UNCHANGED contextVars
BY DEF ContextNext, OwnerStep, CallStep

\* The identity: its card goes to the active keystore, and stays there.
OwnKept ==
    /\ identity' \in Identities \cup {NoIdentity}
    /\ ownIn' \in [KeyStores -> SUBSET Identities]
    /\ tasks' \subseteq KeyStores \X Identities
    /\ unlisted' \in BOOLEAN
    /\ IdentityListed'

LEMMA OwnUnchanged ==
    ASSUME ContextTypeOK, IdentityListed, UNCHANGED <<ownVars, keystore>>
    PROVE  OwnKept
BY DEF ContextTypeOK, IdentityListed, OwnKept, ownVars

LEMMA OwnPut ==
    ASSUME ContextTypeOK, NEW id \in Identities, NEW stores \in SUBSET KeyStores,
           PutOwn(id, stores), identity' = id, keystore' \in stores
    PROVE  OwnKept
BY OwnTyped DEF OwnKept, IdentityListed

LEMMA OwnStep ==
    ASSUME ContextTypeOK, IdentityListed, [ContextNext]_contextVars
    PROVE  OwnKept
<1>0. /\ keystore \in KeyStores /\ identity \in Identities \cup {NoIdentity}
      /\ DefaultIdentity \in Identities
  BY ContextConstants DEF ContextTypeOK
<1>1. ASSUME NEW id \in Identities, SetIdentity(id) PROVE OwnKept
  <2>1. PutOwn(id, {keystore}) /\ identity' = id /\ keystore' = keystore
    BY <1>1 DEF SetIdentity
  <2> QED
    BY <1>0, <2>1, OwnPut
<1>2. CASE GetIdentity
  <2>1. PutOwn(DefaultIdentity, {keystore}) /\ identity' = DefaultIdentity /\ keystore' = keystore
    BY <1>2 DEF GetIdentity
  <2> QED
    BY <1>0, <2>1, OwnPut
<1>3. ASSUME NEW t \in tasks, RunTask(t) PROVE OwnKept
  <2>1. /\ tasks' = tasks \ {t} /\ ownIn' = [ownIn EXCEPT ![t[1]] = @ \cup {t[2]}]
        /\ UNCHANGED <<identity, unlisted, keystore>>
    BY <1>3 DEF RunTask
  <2>2. /\ t[1] \in KeyStores /\ t[2] \in Identities /\ t = <<t[1], t[2]>>
        /\ ownIn \in [KeyStores -> SUBSET Identities] /\ unlisted \in BOOLEAN
        /\ tasks \subseteq KeyStores \X Identities
    BY DEF ContextTypeOK
  <2>3. ownIn' \in [KeyStores -> SUBSET Identities]
    BY <2>1, <2>2
  <2>4. \A k \in KeyStores : /\ ownIn[k] \subseteq ownIn'[k]
                             /\ k = t[1] => t[2] \in ownIn'[k]
    BY <2>1, <2>2
  <2>5. IdentityListed'
    <3> SUFFICES ASSUME identity # NoIdentity, ~unlisted
                 PROVE  identity \in ownIn'[keystore] \/ <<keystore, identity>> \in tasks'
      BY <2>1 DEF IdentityListed
    <3>1. identity \in ownIn[keystore] \/ <<keystore, identity>> \in tasks
      BY DEF IdentityListed
    <3>2. CASE <<keystore, identity>> = t
      BY <1>0, <2>4, <3>2
    <3>3. CASE <<keystore, identity>> # t
      BY <1>0, <2>1, <2>4, <3>1, <3>3
    <3> QED
      BY <3>2, <3>3
  <2> QED
    BY <1>0, <2>1, <2>2, <2>3, <2>5 DEF OwnKept
<1>4. ASSUME NEW k \in KeyStores, SetKeystore(k) PROVE OwnKept
  <2>1. CASE identity # NoIdentity
    <3>1. PutOwn(identity, {k}) /\ identity' = identity /\ keystore' = k /\ identity \in Identities
      BY <1>0, <1>4, <2>1 DEF SetKeystore
    <3> QED
      BY <3>1, OwnPut
  <2>2. CASE identity = NoIdentity
    BY <1>4, <2>2 DEF SetKeystore, ownVars, OwnKept, IdentityListed, ContextTypeOK
  <2> QED
    BY <2>1, <2>2
<1>5. ASSUME NEW id \in Identities, NEW k \in KeyStores, ConfigureBoth(id, k) PROVE OwnKept
  <2>1. PutOwn(id, {keystore, k}) /\ identity' = id /\ keystore' = k
    BY <1>5 DEF ConfigureBoth
  <2> QED
    BY <1>0, <2>1, OwnPut
<1>6. ASSUME NEW k \in KeyStores, NEW s \in NonceStores, Reset(k, s) PROVE OwnKept
  BY <1>6 DEF Reset, OwnKept, IdentityListed, ContextTypeOK
<1>7. ASSUME NEW w \in Workers, GetReceiver(w) PROVE OwnKept
  <2>1. keystore' = keystore
    BY <1>7 DEF GetReceiver
  <2>2. CASE identity = NoIdentity
    <3>1. PutOwn(DefaultIdentity, {keystore}) /\ identity' = DefaultIdentity
      BY <1>7, <2>2 DEF GetReceiver
    <3> QED
      BY <1>0, <2>1, <3>1, OwnPut
  <2>3. CASE identity # NoIdentity
    BY <1>7, <2>1, <2>3, OwnUnchanged DEF GetReceiver
  <2> QED
    BY <2>2, <2>3
<1>8. ASSUME UNCHANGED <<ownVars, keystore>> PROVE OwnKept
  BY <1>8, OwnUnchanged
<1>9. /\ \A s \in NonceStores : SetGuard(s) => UNCHANGED <<ownVars, keystore>>
      /\ \A c \in PeerCards : RegisterPeer(c) => UNCHANGED <<ownVars, keystore>>
      /\ \A w \in Workers :
            RevokeCard(w) \/ RevokePut(w) \/ (\E p \in Inbox : GetPeer(w, p))
            \/ GetReplayGuard(w) \/ Open(w) \/ MarkAsync(w) \/ OpenMarked(w) \/ Deliver(w)
            => UNCHANGED <<ownVars, keystore>>
      /\ UNCHANGED contextVars => UNCHANGED <<ownVars, keystore>>
  BY DEF SetGuard, RegisterPeer, RevokeCard, RevokePut, GetPeer, GetReplayGuard, Open,
         MarkAsync, OpenMarked, Deliver, contextVars, ownVars
<1> QED
  BY <1>1, <1>2, <1>3, <1>4, <1>5, <1>6, <1>7, <1>8, <1>9 DEF ContextNext

\* The stores, and the peer's card in them.
StoresKept ==
    /\ keyKind' \in [KeyStores -> {"memory", "copies", "async"}] /\ asyncGuard' \subseteq NonceStores
    /\ keystore' \in KeyStores /\ guardStore' \in NonceStores
    /\ configured' \in 0..MaxConfigured
    /\ revoked' \in BOOLEAN
    /\ peerIn' \in [KeyStores -> Entries] /\ deadCards' \subseteq PeerCards
    /\ deadCards \subseteq deadCards'
    /\ RevokedInStore'
    /\ \A k \in KeyStores : ObjectIsCard(peerIn'[k])

LEMMA StoresStep ==
    ASSUME ContextTypeOK, RevokedInStore, \A w \in Workers : WorkerKept(w),
           \A k \in KeyStores : ObjectIsCard(peerIn[k]), [ContextNext]_contextVars
    PROVE  StoresKept
<1>0. /\ keyKind \in [KeyStores -> {"memory", "copies", "async"}] /\ asyncGuard \subseteq NonceStores
      /\ keystore \in KeyStores /\ guardStore \in NonceStores
      /\ configured \in 0..MaxConfigured /\ MaxConfigured \in Nat
      /\ revoked \in BOOLEAN
      /\ peerIn \in [KeyStores -> Entries] /\ deadCards \subseteq PeerCards
  BY ContextConstants DEF ContextTypeOK
<1> USE DEF kindVars, stableVars, peerVars, Configured, RevokedInStore, StoresKept
<1>a. Configured => configured' \in 0..MaxConfigured
  BY <1>0
<1>b. ASSUME keystore' \in KeyStores, guardStore' \in NonceStores, Configured, revoked' = FALSE,
             UNCHANGED <<keyKind, asyncGuard, peerIn, deadCards>>
      PROVE  StoresKept
  BY <1>0, <1>a, <1>b
<1>1. ASSUME NEW id \in Identities, SetIdentity(id) PROVE StoresKept
  BY <1>0, <1>1 DEF SetIdentity
<1>2. CASE GetIdentity
  BY <1>0, <1>2 DEF GetIdentity
<1>3. ASSUME NEW t \in tasks, RunTask(t) PROVE StoresKept
  BY <1>0, <1>3 DEF RunTask
<1>4. ASSUME NEW k \in KeyStores, SetKeystore(k) PROVE StoresKept
  <2>1. /\ keystore' = k /\ guardStore' = guardStore /\ Configured /\ revoked' = FALSE
        /\ UNCHANGED <<keyKind, asyncGuard, peerIn, deadCards>>
    BY <1>4 DEF SetKeystore
  <2> QED
    BY <1>0, <1>b, <2>1
<1>5. ASSUME NEW id \in Identities, NEW k \in KeyStores, ConfigureBoth(id, k) PROVE StoresKept
  <2>1. /\ keystore' = k /\ guardStore' = guardStore /\ Configured /\ revoked' = FALSE
        /\ UNCHANGED <<keyKind, asyncGuard, peerIn, deadCards>>
    BY <1>5 DEF ConfigureBoth
  <2> QED
    BY <1>0, <1>b, <2>1
<1>6. ASSUME NEW s \in NonceStores, SetGuard(s) PROVE StoresKept
  BY <1>0, <1>6 DEF SetGuard
<1>7. ASSUME NEW k \in KeyStores, NEW s \in NonceStores, Reset(k, s) PROVE StoresKept
  <2>1. /\ keystore' = k /\ guardStore' = s /\ Configured /\ revoked' = FALSE
        /\ UNCHANGED <<keyKind, asyncGuard, peerIn, deadCards>>
    BY <1>7 DEF Reset
  <2> QED
    BY <1>0, <1>b, <2>1
<1>8. ASSUME NEW c \in PeerCards, RegisterPeer(c) PROVE StoresKept
  <2>1. [card |-> c, revoked |-> c \in deadCards, object |-> keyKind[keystore] = "memory"] \in Entries
    BY DEF Entries
  <2>2. peerIn' \in [KeyStores -> Entries]
    BY <1>0, <1>8, <2>1 DEF RegisterPeer
  <2>4. ObjectIsCard([card |-> c, revoked |-> c \in deadCards, object |-> keyKind[keystore] = "memory"])
    BY DEF ObjectIsCard
  <2>5. \A k \in KeyStores : ObjectIsCard(peerIn'[k])
    <3>1. \A k \in KeyStores : peerIn'[k] = IF k = keystore
             THEN [card |-> c, revoked |-> c \in deadCards, object |-> keyKind[keystore] = "memory"]
             ELSE peerIn[k]
      BY <1>0, <1>8 DEF RegisterPeer
    <3> QED
      BY <2>4, <3>1
  <2>3. /\ configured' \in 0..MaxConfigured /\ revoked' = FALSE
        /\ UNCHANGED <<keyKind, asyncGuard, keystore, guardStore, deadCards>>
    BY <1>8, <1>a DEF RegisterPeer
  <2> QED
    BY <1>0, <2>2, <2>3, <2>5
<1>9. ASSUME NEW w \in Workers, RevokeCard(w) PROVE StoresKept
  <2>1. /\ peerIn[keystore] # Nobody
        /\ deadCards' = IF peerIn[keystore].object THEN deadCards \cup {peerIn[keystore].card}
                        ELSE deadCards
        /\ UNCHANGED <<keyKind, asyncGuard, keystore, guardStore, configured, peerIn, revoked>>
    BY <1>9 DEF RevokeCard
  <2>2. deadCards' \subseteq PeerCards
    BY <1>0, <2>1 DEF ObjectIsCard
  <2> QED
    BY <1>0, <2>1, <2>2
<1>10. ASSUME NEW w \in Workers, RevokePut(w) PROVE StoresKept
  <2>1. /\ peerIn' = [peerIn EXCEPT ![keystore] = worker[w].entry] /\ revoked' = TRUE
        /\ UNCHANGED <<keyKind, asyncGuard, keystore, guardStore, configured, deadCards>>
        /\ worker[w].step = "revoke"
    BY <1>10 DEF RevokePut
  <2>2. worker[w].entry \in Entries
    BY DEF ContextTypeOK, WorkerStates
  <2>3. worker[w].entry.revoked /\ ObjectIsCard(worker[w].entry)
    BY <2>1 DEF WorkerKept
  <2>4. /\ peerIn' \in [KeyStores -> Entries] /\ peerIn'[keystore] = worker[w].entry
        /\ \A k \in KeyStores \ {keystore} : peerIn'[k] = peerIn[k]
    BY <1>0, <2>1, <2>2
  <2> QED
    BY <1>0, <2>1, <2>3, <2>4
<1>11. ASSUME UNCHANGED <<stableVars, keystore, guardStore, peerVars>> PROVE StoresKept
  BY <1>0, <1>11
<1>12. /\ \A w \in Workers :
             (\E p \in Inbox : GetPeer(w, p)) \/ GetReceiver(w)
             \/ GetReplayGuard(w) \/ Open(w) \/ MarkAsync(w) \/ OpenMarked(w) \/ Deliver(w)
             => UNCHANGED <<stableVars, keystore, guardStore, peerVars>>
       /\ UNCHANGED contextVars => UNCHANGED <<stableVars, keystore, guardStore, peerVars>>
  BY DEF GetPeer, GetReceiver, GetReplayGuard, Open, MarkAsync, OpenMarked, Deliver, contextVars
<1> QED
  BY <1>1, <1>2, <1>3, <1>4, <1>5, <1>6, <1>7, <1>8, <1>9, <1>10, <1>11, <1>12 DEF ContextNext

\* The packages: which worker may deliver which, under which nonce store.
CallsKept ==
    /\ worker' \in [Workers -> WorkerStates]
    /\ marks' \in [NonceStores -> SUBSET Inbox]
    /\ delivered' \in [NonceStores -> [Inbox -> Nat]]
    /\ \A w \in Workers : WorkerKept(w)'
    /\ MarkedApart'
    /\ DeliveredWasMarked'

LEMMA DeadForever ==
    ASSUME NEW entry, deadCards \subseteq deadCards', Dead(entry)
    PROVE  Dead(entry)'
BY DEF Dead

\* A worker that stays where it is keeps what it had.
LEMMA StillKept ==
    ASSUME NEW v \in Workers, WorkerKept(v), worker'[v] = worker[v],
           deadCards \subseteq deadCards',
           HasMarked(v) =>
               /\ marks[worker[v].store] \subseteq marks'[worker[v].store]
               /\ delivered'[worker[v].store][worker[v].package] =
                     delivered[worker[v].store][worker[v].package]
    PROVE  WorkerKept(v)' /\ (HasMarked(v)' <=> HasMarked(v))
<1>1. HasMarked(v)' <=> HasMarked(v)
  BY DEF HasMarked
<1>2. worker[v].after => Dead(worker[v].entry)'
  BY DeadForever DEF WorkerKept, Dead
<1>3. HasMarked(v)' => Seen(v)'
  BY <1>1 DEF WorkerKept, Seen
<1> QED
  BY <1>1, <1>2, <1>3 DEF WorkerKept, ObjectIsCard, Dead

LEMMA CallsStep ==
    ASSUME ContextIInv, [ContextNext]_contextVars
    PROVE  CallsKept
<1>0. /\ ContextTypeOK /\ RevokedInStore /\ MarkedApart /\ DeliveredWasMarked
      /\ \A w \in Workers : WorkerKept(w)
      /\ \A k \in KeyStores : ObjectIsCard(peerIn[k])
      /\ marks \in [NonceStores -> SUBSET Inbox]
      /\ delivered \in [NonceStores -> [Inbox -> Nat]]
      /\ worker \in [Workers -> WorkerStates]
      /\ keystore \in KeyStores
  BY DEF ContextIInv, ContextTypeOK
<1>t. \A w \in Workers : /\ worker[w].store \in NonceStores /\ worker[w].package \in Inbox
                        /\ worker[w].step \in WorkStages
  BY <1>0 DEF WorkerStates, WorkStages
<1>d. deadCards \subseteq deadCards'
  BY <1>0, StoresStep DEF StoresKept
<1>i. AtRest.step = "idle" /\ AtRest.after = FALSE
  BY ContextConstants
<1>1. ASSUME UNCHANGED <<worker, marks, delivered>> PROVE CallsKept
  <2>1. \A w \in Workers : WorkerKept(w)'
    BY <1>0, <1>1, <1>d, StillKept
  <2>2. MarkedApart' /\ DeliveredWasMarked'
    BY <1>0, <1>1 DEF MarkedApart, HasMarked, DeliveredWasMarked
  <2> QED
    BY <1>0, <1>1, <2>1, <2>2 DEF CallsKept
\* A worker that does not hold a used nonce afterwards.
<1>2. ASSUME NEW w \in Workers, worker' \in [Workers -> WorkerStates],
             \A v \in Workers \ {w} : worker'[v] = worker[v],
             worker'[w].step \notin {"marked", "opened"},
             worker'[w].step = "revoke" =>
                 worker'[w].entry.revoked /\ ObjectIsCard(worker'[w].entry),
             worker'[w].after => /\ worker'[w].step \in {"card", "receiver", "guard"}
                                 /\ Dead(worker[w].entry)',
             UNCHANGED <<marks, delivered>>
      PROVE  CallsKept
  <2>1. ~HasMarked(w)'
    BY <1>2 DEF HasMarked
  <2>2. WorkerKept(w)'
    BY <1>2, <2>1 DEF WorkerKept, Dead, ObjectIsCard
  <2>3. \A v \in Workers \ {w} : WorkerKept(v)' /\ (HasMarked(v)' <=> HasMarked(v))
    BY <1>0, <1>2, <1>d, StillKept
  <2>4. MarkedApart'
    BY <1>0, <1>2, <2>1, <2>3 DEF MarkedApart
  <2>5. DeliveredWasMarked'
    BY <1>0, <1>2 DEF DeliveredWasMarked
  <2> QED
    BY <1>0, <1>2, <2>2, <2>3, <2>4, <2>5 DEF CallsKept
<1>3. ASSUME NEW w \in Workers, Idle(w), UNCHANGED <<marks, delivered>>, CallStep(w)
      PROVE  CallsKept
  <2>1. /\ worker' \in [Workers -> WorkerStates] /\ worker'[w] = AtRest
        /\ \A v \in Workers \ {w} : worker'[v] = worker[v]
    BY <1>0, <1>3, WorkerSteps DEF CallStep
  <2> QED
    BY <1>2, <1>3, <1>i, <2>1
<1>4. ASSUME NEW w \in Workers, RevokeCard(w) PROVE CallsKept
  <2>1. /\ worker' \in [Workers -> WorkerStates]
        /\ \A v \in Workers \ {w} : worker'[v] = worker[v]
        /\ worker'[w].step = "revoke" /\ worker'[w].entry.revoked
        /\ worker'[w].entry.object = peerIn[keystore].object
        /\ worker'[w].entry.card = peerIn[keystore].card
        /\ worker'[w].after = worker[w].after
    BY <1>0, <1>4, WorkerSteps
  <2>2. worker[w].step = "idle" /\ UNCHANGED <<marks, delivered>>
    BY <1>4 DEF RevokeCard, guardVars
  <2>3. ~worker[w].after
    BY <1>0, <2>2 DEF WorkerKept
  <2>4. ObjectIsCard(worker'[w].entry)
    BY <1>0, <2>1 DEF ObjectIsCard
  <2> QED
    BY <1>2, <2>1, <2>2, <2>3, <2>4
<1>5. ASSUME NEW w \in Workers, NEW p \in Inbox, GetPeer(w, p) PROVE CallsKept
  <2>1. /\ worker' \in [Workers -> WorkerStates]
        /\ \A v \in Workers \ {w} : worker'[v] = worker[v]
        /\ worker'[w].step = "card" /\ worker'[w].entry = peerIn[keystore]
        /\ worker'[w].after = revoked
    BY <1>0, <1>5, WorkerSteps
  <2>2. UNCHANGED <<marks, delivered>>
    BY <1>5 DEF GetPeer, guardVars
  <2>3. revoked => Dead(worker[w].entry)'
    BY <1>0, <2>1 DEF RevokedInStore, Dead
  <2> QED
    BY <1>2, <2>1, <2>2, <2>3
\* The steps that only go on with what was looked up.
<1>6. ASSUME NEW w \in Workers, CallStep(w), worker[w].step \in {"card", "receiver"},
             worker'[w].step \in {"receiver", "guard"},
             worker'[w].entry = worker[w].entry, worker'[w].after = worker[w].after,
             UNCHANGED <<marks, delivered>>
      PROVE  CallsKept
  <2>1. /\ worker' \in [Workers -> WorkerStates]
        /\ \A v \in Workers \ {w} : worker'[v] = worker[v]
    BY <1>0, <1>6, WorkerSteps DEF CallStep
  <2>2. worker[w].after => Dead(worker[w].entry)
    BY <1>0 DEF WorkerKept
  <2>3. worker'[w].after => Dead(worker[w].entry)'
    BY <1>6, <1>d, <2>2, DeadForever DEF Dead
  <2>4. worker'[w].step # "revoke" /\ worker'[w].step \notin {"marked", "opened"}
        /\ worker'[w].step \in {"card", "receiver", "guard"}
    BY <1>6
  <2> QED
    BY <1>2, <1>6, <2>1, <2>3, <2>4
<1>7. ASSUME NEW w \in Workers, GetReceiver(w) PROVE CallsKept
  <2>1. CASE Idle(w)
    BY <1>3, <1>7, <2>1 DEF GetReceiver, guardVars, CallStep
  <2>2. CASE worker' = [worker EXCEPT ![w].step = "receiver"]
    BY <1>0, <1>6, <1>7, <2>2, WorkerSteps DEF GetReceiver, guardVars, CallStep, WorkStages
  <2> QED
    BY <1>7, <2>1, <2>2 DEF GetReceiver
<1>8. ASSUME NEW w \in Workers, GetReplayGuard(w) PROVE CallsKept
  <2>1. UNCHANGED <<marks, delivered>> /\ worker[w].step = "receiver"
    BY <1>8 DEF GetReplayGuard, guardVars
  <2>2. /\ worker'[w].step = "guard" /\ worker'[w].entry = worker[w].entry
        /\ worker'[w].after = worker[w].after
    BY <1>0, <1>8, WorkerSteps
  <2> QED
    BY <1>6, <1>8, <2>1, <2>2 DEF CallStep
\* The nonce is used up by a worker that has found it unused.
<1>9. ASSUME NEW w \in Workers, CallStep(w), NEW step \in {"marked", "opened"},
             worker' = [worker EXCEPT ![w].step = step], worker[w].step = "guard",
             ~Seen(w), Mark(w), UNCHANGED delivered,
             step = "opened" => ~Dead(worker[w].entry)
      PROVE  CallsKept
  <2> DEFINE s == worker[w].store
             p == worker[w].package
  <2>1. /\ worker' \in [Workers -> WorkerStates]
        /\ \A v \in Workers \ {w} : worker'[v] = worker[v]
    BY <1>0, <1>9, WorkerSteps DEF CallStep
  <2>2. /\ worker'[w].step = step
        /\ worker'[w].entry = worker[w].entry /\ worker'[w].after = worker[w].after
        /\ worker'[w].store = s /\ worker'[w].package = p
    BY <1>0, <1>9, WorkerSteps DEF WorkStages
  <2>3. /\ marks' \in [NonceStores -> SUBSET Inbox]
        /\ p \in marks'[s] /\ p \notin marks[s]
        /\ \A n \in NonceStores : marks[n] \subseteq marks'[n]
        /\ s \in NonceStores /\ p \in Inbox
    BY <1>0, <1>t, <1>9 DEF Mark, Seen
  <2>4. delivered'[s][p] = 0
    BY <1>0, <1>9, <2>3 DEF DeliveredWasMarked
  <2>5. \A v \in Workers \ {w} : WorkerKept(v)' /\ (HasMarked(v)' <=> HasMarked(v))
    BY <1>0, <1>t, <1>9, <1>d, <2>1, <2>3, StillKept
  <2>6. HasMarked(w)' /\ Seen(w)'
    BY <1>9, <2>2, <2>3 DEF HasMarked, Seen
  <2>7. worker[w].after => step = "marked" /\ Dead(worker[w].entry)'
    <3>1. worker[w].after => Dead(worker[w].entry)
      BY <1>0 DEF WorkerKept
    <3> QED
      BY <1>9, <1>d, <2>2, <3>1, DeadForever DEF Dead
  <2>8. WorkerKept(w)'
    BY <1>9, <2>2, <2>4, <2>6, <2>7 DEF WorkerKept, Dead
  <2>9. MarkedApart'
    <3>1. ASSUME NEW v \in Workers \ {w}, HasMarked(v)
          PROVE  ~(worker[v].store = s /\ worker[v].package = p)
      BY <1>0, <1>9, <3>1 DEF WorkerKept, Seen
    <3> QED
      BY <1>0, <2>1, <2>2, <2>5, <3>1 DEF MarkedApart
  <2>10. DeliveredWasMarked'
    BY <1>0, <1>9, <2>3 DEF DeliveredWasMarked
  <2> QED
    BY <1>0, <1>9, <2>1, <2>3, <2>5, <2>8, <2>9, <2>10 DEF CallsKept
<1>10. ASSUME NEW w \in Workers, Open(w) PROVE CallsKept
  <2>1. CASE Idle(w) /\ UNCHANGED marks
    BY <1>3, <1>10, <2>1 DEF Open, CallStep
  <2>2. CASE Verifies(w) /\ ~Seen(w) /\ Mark(w) /\ worker' = [worker EXCEPT ![w].step = "opened"]
    BY <1>9, <1>10, <2>2 DEF Open, CallStep, Verifies
  <2> QED
    BY <1>10, <2>1, <2>2 DEF Open
<1>11. ASSUME NEW w \in Workers, MarkAsync(w) PROVE CallsKept
  <2>1. CASE Idle(w) /\ UNCHANGED marks
    BY <1>3, <1>11, <2>1 DEF MarkAsync, CallStep
  <2>2. CASE ~Seen(w) /\ Mark(w) /\ worker' = [worker EXCEPT ![w].step = "marked"]
    BY <1>9, <1>11, <2>2 DEF MarkAsync, CallStep
  <2> QED
    BY <1>11, <2>1, <2>2 DEF MarkAsync
<1>12. ASSUME NEW w \in Workers, OpenMarked(w) PROVE CallsKept
  <2>1. CASE Idle(w)
    BY <1>3, <1>12, <2>1 DEF OpenMarked, CallStep, guardVars
  <2>2. CASE Verifies(w) /\ worker' = [worker EXCEPT ![w].step = "opened"]
    <3>1. /\ worker' \in [Workers -> WorkerStates]
          /\ \A v \in Workers \ {w} : worker'[v] = worker[v]
      BY <1>0, <1>12, WorkerSteps
    <3>2. /\ worker'[w].step = "opened"
          /\ worker'[w].entry = worker[w].entry /\ worker'[w].after = worker[w].after
          /\ worker'[w].store = worker[w].store /\ worker'[w].package = worker[w].package
      BY <1>0, <2>2, WorkerSteps DEF WorkStages
    <3>3. worker[w].step = "marked" /\ UNCHANGED <<marks, delivered>>
      BY <1>12 DEF OpenMarked, guardVars
    <3>4. HasMarked(w) /\ HasMarked(w)'
      BY <3>2, <3>3 DEF HasMarked
    <3>5. ~worker[w].after
      BY <1>0, <2>2 DEF WorkerKept, Verifies
    <3>6. WorkerKept(w)'
      BY <1>0, <3>2, <3>3, <3>4, <3>5 DEF WorkerKept, Seen
    <3>7. \A v \in Workers \ {w} : WorkerKept(v)' /\ (HasMarked(v)' <=> HasMarked(v))
      BY <1>0, <1>d, <3>1, <3>3, StillKept
    <3>8. MarkedApart'
      BY <1>0, <3>1, <3>2, <3>4, <3>7 DEF MarkedApart
    <3>9. DeliveredWasMarked'
      BY <1>0, <3>3 DEF DeliveredWasMarked
    <3> QED
      BY <1>0, <3>1, <3>3, <3>6, <3>7, <3>8, <3>9 DEF CallsKept
  <2> QED
    BY <1>12, <2>1, <2>2 DEF OpenMarked
<1>13. ASSUME NEW w \in Workers, Deliver(w) PROVE CallsKept
  <2> DEFINE s == worker[w].store
             p == worker[w].package
  <2>1. /\ worker' \in [Workers -> WorkerStates] /\ worker'[w] = AtRest
        /\ \A v \in Workers \ {w} : worker'[v] = worker[v]
        /\ marks' = marks /\ Idle(w) /\ worker[w].step = "opened"
    BY <1>0, <1>13, WorkerSteps DEF Deliver
  <2>2. CASE UNCHANGED delivered
    BY <1>3, <1>13, <2>1, <2>2 DEF CallStep
  <2>3. CASE delivered' = [delivered EXCEPT ![worker[w].store][worker[w].package] = @ + 1]
    <3>1. /\ HasMarked(w) /\ p \in marks[s] /\ delivered[s][p] = 0
          /\ s \in NonceStores /\ p \in Inbox
      BY <1>0, <1>t, <2>1 DEF HasMarked, WorkerKept, Seen
    <3>2. /\ delivered' \in [NonceStores -> [Inbox -> Nat]]
          /\ delivered'[s][p] = 1
          /\ \A n \in NonceStores, i \in Inbox :
                n # s \/ i # p => delivered'[n][i] = delivered[n][i]
      BY <1>0, <2>3, <3>1
    <3>3. ~HasMarked(w)'
      BY <1>i, <2>1 DEF HasMarked
    <3>4. \A v \in Workers \ {w} : HasMarked(v) =>
              ~(worker[v].store = s /\ worker[v].package = p)
      BY <1>0, <3>1 DEF MarkedApart
    <3>5. \A v \in Workers \ {w} : WorkerKept(v)' /\ (HasMarked(v)' <=> HasMarked(v))
      BY <1>0, <1>t, <1>d, <2>1, <3>2, <3>4, StillKept
    <3>6. WorkerKept(w)'
      BY <1>i, <2>1, <3>3 DEF WorkerKept
    <3>7. MarkedApart'
      BY <1>0, <2>1, <3>3, <3>5 DEF MarkedApart
    <3>8. DeliveredWasMarked'
      BY <1>0, <2>1, <3>1, <3>2 DEF DeliveredWasMarked
    <3> QED
      BY <1>0, <2>1, <3>2, <3>5, <3>6, <3>7, <3>8 DEF CallsKept
  <2> QED
    BY <1>13, <2>2, <2>3 DEF Deliver
<1>14. ASSUME NEW w \in Workers, RevokePut(w) PROVE CallsKept
  BY <1>3, <1>14 DEF RevokePut, CallStep, guardVars
<1>15. OwnerStep \/ UNCHANGED contextVars => UNCHANGED <<worker, marks, delivered>>
  BY DEF OwnerStep, SetIdentity, GetIdentity, RunTask, SetKeystore, ConfigureBoth, SetGuard,
         Reset, RegisterPeer, guardVars, contextVars
<1> QED
  BY <1>1, <1>4, <1>5, <1>7, <1>8, <1>10, <1>11, <1>12, <1>13, <1>14, <1>15, ContextSteps
  DEF CallStep

LEMMA ContextStepInv == ContextIInv /\ [ContextNext]_contextVars => ContextIInv'
<1> SUFFICES ASSUME ContextIInv, [ContextNext]_contextVars PROVE ContextIInv'
  OBVIOUS
<1>1. OwnKept /\ StoresKept /\ CallsKept
  BY OwnStep, StoresStep, CallsStep DEF ContextIInv
<1>2. ContextTypeOK'
  BY <1>1 DEF ContextTypeOK, OwnKept, StoresKept, CallsKept
<1> QED
  BY <1>1, <1>2 DEF ContextIInv, OwnKept, StoresKept, CallsKept

(* The default context, its stores and the calls that use it keep their    *)
(* types (configure(), reset(), register_peer(), revoke_peer() and the     *)
(* receivers of aio/_engine.py).                                           *)
THEOREM ContextTyped == ContextSpec => []ContextTypeOK
<1>1. ContextIInv => ContextTypeOK
  BY DEF ContextIInv
<1> QED
  BY <1>1, ContextInitInv, ContextStepInv, PTL DEF ContextSpec

(* Whatever the application configures while receivers work with what they *)
(* read before: a package is delivered once for each nonce store, none     *)
(* whose receiving began after revoke_peer(), and the identity of          *)
(* configure() is in its keystore, or about to be, unless its put()        *)
(* failed.                                                                 *)
THEOREM ContextIsKept == ContextSpec => []ContextKept
<1>1. ContextIInv => ContextKept
  BY DEF ContextIInv, ContextKept, DeliveredWasMarked, WorkerKept, IdentityListed
<1> QED
  BY <1>1, ContextInitInv, ContextStepInv, PTL DEF ContextSpec

-----------------------------------------------------------------------------
(* The packages of Send() and Receive()                                    *)
(*                                                                         *)
(* A package is handed over when its nonce was not yet marked, with what   *)
(* its chunks are when they all open in their places, or with the content  *)
(* of its envelope; then it is marked. If that content is a session key,   *)
(* no label was as it was sent. A mark without a handover comes from an    *)
(* arrival that is recorded in mishandled.                                 *)

\* What was handed over was marked, once, and in whole or relabelled.
HandedOnce(e) ==
    /\ handedOver[e] # <<>> => e \in seen
    /\ Len(handedOver[e]) <= 1
    /\ \A i \in 1..Len(handedOver[e]) :
           \/ handedOver[e][i] = [n \in 1..packages[e].total |-> n]
           \/ handedOver[e][i] = <<>> /\ e \in relabelled

PackageIInv ==
    /\ PackageTypeOK
    /\ Len(packages) <= MaxPackages
    /\ \A e \in 1..MaxPackages : HandedOnce(e)
    /\ \A e \in seen : handedOver[e] # <<>> \/ e \in mishandled

LEMMA PackageConstants ==
    /\ Sizes \subseteq Nat
    /\ InlineLimit \in Nat /\ ChunkSize \in Nat /\ ChunkSize > 0
    /\ MaxKeys \in Nat /\ MaxKeys >= 2 /\ MaxPackages \in Nat
BY PackageAssumption

LEMMA TotalTyped == \A size \in Sizes : ChunkTotal(size) \in Nat
<1> SUFFICES ASSUME NEW size \in Sizes PROVE ChunkTotal(size) \in Nat
  OBVIOUS
<1>1. size \in Nat /\ ChunkSize \in Nat /\ ChunkSize > 0
  BY PackageConstants
<1>2. size + ChunkSize - 1 \in Nat
  BY <1>1
<1>3. \A a, b \in Nat : b > 0 => a \div b \in Nat
  OBVIOUS
<1> QED
  BY <1>1, <1>2, <1>3 DEF ChunkTotal

LEMMA ArrivalsAreSequences ==
    ASSUME NEW arrived \in Arrivals
    PROVE  \E n \in Nat : DOMAIN arrived = 1..n /\ arrived \in Seq(SealedChunks)
<1>1. PICK n \in 0..LongestTotal : arrived \in [1..n -> SealedChunks]
  BY DEF Arrivals
<1>2. n \in Nat
  BY <1>1
<1> QED
  BY <1>1, <1>2

LEMMA PackageInitInv == PackageInit => PackageIInv
<1> SUFFICES ASSUME PackageInit PROVE PackageIInv
  OBVIOUS
<1>1. PackageTypeOK
  <2>1. keys \in [Roles -> 1..MaxKeys] /\ made \in 2..MaxKeys
    BY PackageConstants DEF PackageInit
  <2>2. /\ saved \in [Roles -> 1..MaxKeys] /\ cards \in [Roles -> 1..MaxKeys]
        /\ revokedOf \subseteq Roles /\ tooLarge \in BOOLEAN
        /\ seen \cup mishandled \cup relabelled \subseteq DOMAIN packages
    BY <2>1 DEF PackageInit
  <2>3. packages \in Seq(Package)
    BY EmptySeq DEF PackageInit
  <2>4. handedOver \in [1..MaxPackages -> Seq(Seq(Nat))]
    <3>1. <<>> \in Seq(Seq(Nat))
      BY EmptySeq
    <3> QED
      BY <3>1 DEF PackageInit
  <2> QED
    BY <2>1, <2>2, <2>3, <2>4 DEF PackageTypeOK
<1>2. \A e \in 1..MaxPackages : handedOver[e] = <<>> /\ Len(<<>>) = 0
  BY DEF PackageInit
<1>3. Len(packages) = 0 /\ seen = {}
  BY DEF PackageInit
<1> QED
  BY <1>1, <1>2, <1>3, PackageConstants DEF PackageIInv, HandedOnce

\* The keys and cards after any step.
IdentitiesTyped ==
    /\ keys \in [Roles -> 1..MaxKeys]
    /\ made \in 2..MaxKeys
    /\ saved \in [Roles -> 1..MaxKeys]
    /\ cards \in [Roles -> 1..MaxKeys]
    /\ revokedOf \subseteq Roles

IdentityStep == \E r \in Roles : RotateKeys(r) \/ Save(r) \/ Load(r) \/ PublishCard(r) \/ EndCard(r)

LEMMA IdentityStepKeeps ==
    ASSUME IdentitiesTyped, IdentityStep
    PROVE  IdentitiesTyped' /\ UNCHANGED <<packages, tooLarge, seen, handedOver, mishandled, relabelled>>
<1> PICK r \in Roles : RotateKeys(r) \/ Save(r) \/ Load(r) \/ PublishCard(r) \/ EndCard(r)
  BY DEF IdentityStep
<1>0. MaxKeys \in Nat /\ MaxKeys >= 2
  BY PackageConstants
<1> USE DEF IdentitiesTyped, receiverVars
<1>1. CASE RotateKeys(r)
  BY <1>0, <1>1 DEF RotateKeys
<1>2. CASE Save(r)
  BY <1>0, <1>2 DEF Save
<1>3. CASE Load(r)
  BY <1>0, <1>3 DEF Load
<1>4. CASE PublishCard(r)
  BY <1>0, <1>4 DEF PublishCard
<1>5. CASE EndCard(r)
  BY <1>0, <1>5 DEF EndCard
<1> QED
  BY <1>1, <1>2, <1>3, <1>4, <1>5

LEMMA SendKeeps ==
    ASSUME PackageIInv, NEW size \in Sizes, Send(size)
    PROVE  PackageIInv'
<1>0. /\ PackageTypeOK /\ IdentitiesTyped /\ packages \in Seq(Package) /\ tooLarge \in BOOLEAN
      /\ MaxPackages \in Nat
      /\ Len(packages) < MaxPackages /\ Len(packages) \in Nat
      /\ UNCHANGED <<keys, made, saved, cards, revokedOf, seen, handedOver, mishandled, relabelled>>
  BY PackageConstants, LenProperties
  DEF PackageIInv, PackageTypeOK, IdentitiesTyped, Send, identityVars, receiverVars
<1>1. ASSUME NEW total \in Nat, SealFor(total)
      PROVE  \E p \in Package : packages' = Append(packages, p)
  <2>1. [total |-> total, signedWith |-> keys["sender"], sealedFor |-> cards["receiver"]] \in Package
    BY <1>0 DEF IdentitiesTyped, Roles, Package
  <2> QED
    BY <1>1, <2>1 DEF SealFor
<1>2. /\ packages' = packages \/ \E p \in Package : packages' = Append(packages, p)
      /\ tooLarge' \in BOOLEAN
  <2>1. CASE SendInline(size)
    BY <1>0, <1>1, <2>1 DEF SendInline
  <2>2. CASE SendChunked(size)
    BY <1>0, <1>1, <2>2, TotalTyped DEF SendChunked
  <2> QED
    BY <2>1, <2>2 DEF Send
<1>3. CASE packages' = packages
  BY <1>0, <1>2, <1>3 DEF PackageIInv, PackageTypeOK, HandedOnce
<1>4. ASSUME NEW p \in Package, packages' = Append(packages, p) PROVE PackageIInv'
  <2>1. /\ packages' \in Seq(Package) /\ Len(packages') = Len(packages) + 1
        /\ DOMAIN packages = 1..Len(packages) /\ DOMAIN packages' = 1..(Len(packages) + 1)
        /\ \A e \in 1..Len(packages) : packages'[e] = packages[e]
    BY <1>0, <1>4
  <2>2. seen \cup mishandled \cup relabelled \subseteq DOMAIN packages'
    BY <1>0, <2>1 DEF PackageTypeOK
  <2>3. PackageTypeOK'
    BY <1>0, <1>2, <2>1, <2>2 DEF PackageTypeOK
  <2>4. ASSUME NEW e \in 1..MaxPackages PROVE HandedOnce(e)'
    <3>1. HandedOnce(e)
      BY DEF PackageIInv
    <3>2. CASE handedOver[e] = <<>>
      BY <1>0, <3>2 DEF HandedOnce
    <3>3. CASE handedOver[e] # <<>>
      <4>1. e \in DOMAIN packages
        BY <1>0, <3>1, <3>3 DEF HandedOnce, PackageTypeOK
      <4>2. packages'[e] = packages[e]
        BY <2>1, <4>1
      <4> QED
        BY <1>0, <3>1, <4>2 DEF HandedOnce
    <3> QED
      BY <3>2, <3>3
  <2> QED
    BY <1>0, <2>1, <2>3, <2>4 DEF PackageIInv
<1> QED
  BY <1>2, <1>3, <1>4

LEMMA NumberOf == \A chunk, e, i : chunk = [package |-> e, seq |-> i] => chunk.seq = i
OBVIOUS

\* A package that arrives as it was sent opens as a whole.
LEMMA SentWhole ==
    ASSUME NEW e, NEW labelled, NEW chunked \in BOOLEAN, NEW arrived,
           packages[e].total \in Nat, AsSent(e, labelled, chunked, arrived)
    PROVE  Opened(e, chunked, arrived) /\ IsPayload(e, chunked)
<1>1. PICK total \in Nat : total = packages[e].total
  OBVIOUS
<1>2. /\ chunked = (total > 0)
      /\ arrived = [i \in 1..total |-> [package |-> e, seq |-> i]]
  BY <1>1 DEF AsSent
<1>3. /\ DOMAIN arrived = 1..total /\ Len(arrived) = total
      /\ \A i \in 1..total : arrived[i] = [package |-> e, seq |-> i]
  BY <1>2
<1>4. CASE chunked
  BY <1>1, <1>2, <1>3, <1>4 DEF Opened, IsPayload, Whole, ChunkOpens
<1>5. CASE ~chunked
  <2>1. ~(total > 0)
    BY <1>2, <1>5, Zenon
  <2>2. total = 0
    BY <1>1, <2>1
  <2> QED
    BY <1>1, <1>5, <2>2 DEF Opened, IsPayload
<1> QED
  BY <1>4, <1>5

LEMMA ReceiveKeeps ==
    ASSUME PackageIInv, NEW e \in DOMAIN packages, NEW labelled \in BOOLEAN,
           NEW chunked \in BOOLEAN, NEW arrived, NEW n \in Nat,
           DOMAIN arrived = 1..n, Len(arrived) = n, arrived = <<>> <=> n = 0,
           ~chunked => arrived = <<>>,
           Receive(e, labelled, chunked, arrived)
    PROVE  PackageIInv'
<1>0. /\ PackageTypeOK /\ packages \in Seq(Package)
      /\ UNCHANGED <<keys, made, saved, cards, revokedOf, packages, tooLarge>>
      /\ handedOver \in [1..MaxPackages -> Seq(Seq(Nat))]
      /\ seen \cup mishandled \cup relabelled \subseteq DOMAIN packages
  BY DEF PackageIInv, PackageTypeOK, Receive, identityVars
<1>1. /\ packages[e] \in Package /\ packages[e].total \in Nat
      /\ e \in 1..MaxPackages /\ MaxPackages \in Nat
  <2>1. /\ DOMAIN packages = 1..Len(packages) /\ Len(packages) \in Nat
        /\ Len(packages) <= MaxPackages /\ MaxPackages \in Nat
    BY <1>0, PackageConstants, LenProperties DEF PackageIInv
  <2>2. e \in 1..Len(packages)
    BY <2>1
  <2>3. packages[e] \in Package
    BY <1>0, <2>2, ElementOfSeq
  <2>4. packages[e].total \in Nat
    BY <2>3 DEF Package
  <2> QED
    BY <2>1, <2>2, <2>3, <2>4
<1>2. HandedOnce(e) /\ handedOver[e] \in Seq(Seq(Nat))
  BY <1>0, <1>1 DEF PackageIInv
<1> DEFINE verified == CardVerifies(e, TRUE)
           got == Content(arrived)
           accepted == e \notin seen /\ verified /\ Opens(e) /\ Opened(e, chunked, arrived)
           whole == [i \in 1..packages[e].total |-> i]
           right == AsSent(e, labelled, chunked, arrived) /\ Opens(e)
<1>3. /\ seen' = IF verified THEN seen \cup {e} ELSE seen
      /\ accepted => HandOver(e, labelled, chunked, arrived)
      /\ ~accepted => handedOver' = handedOver
      /\ e \notin seen /\ verified => /\ mishandled' = IF right THEN mishandled ELSE mishandled \cup {e}
                                     /\ relabelled' = IF Relabelled(e, labelled, chunked)
                                                      THEN relabelled \cup {e} ELSE relabelled
      /\ ~(e \notin seen /\ verified) => mishandled' = mishandled /\ relabelled' = relabelled
  BY DEF Receive, MarkEnvelope
<1>4. accepted /\ IsPayload(e, chunked) => got = whole
  <2> SUFFICES ASSUME accepted, IsPayload(e, chunked) PROVE got = whole
    OBVIOUS
  <2>1. CASE chunked
    <3>1. (\A i \in DOMAIN arrived : ChunkOpens(e, arrived, i)) /\ n = packages[e].total
      BY <2>1 DEF Opened, Whole
    <3>2. \A i \in 1..n : arrived[i].seq = i
      <4> TAKE i \in 1..n
      <4>1. i \in DOMAIN arrived
        OBVIOUS
      <4>2. arrived[i] = [package |-> e, seq |-> i]
        BY <3>1, <4>1, Zenon DEF ChunkOpens
      <4> QED
        BY <4>2, NumberOf, Zenon
    <3>3. PICK handed : handed = [i \in DOMAIN arrived |-> arrived[i].seq]
      OBVIOUS
    <3>4. DOMAIN handed = 1..n /\ \A i \in 1..n : handed[i] = i
      BY <3>2, <3>3
    <3>5. handed = [i \in 1..n |-> i]
      BY <3>3, <3>4
    <3>6. handed = whole
      BY <3>1, <3>5
    <3> QED
      BY <3>3, <3>6 DEF Content
  <2>2. CASE ~chunked
    <3>1. packages[e].total = 0
      BY <2>2 DEF IsPayload
    <3>2. DOMAIN arrived = 1..0
      BY <2>2
    <3> QED
      BY <3>1, <3>2 DEF Content
  <2> QED
    BY <2>1, <2>2
<1>5. whole \in Seq(Nat) /\ <<>> \in Seq(Nat)
  BY <1>1
<1>6. ~IsPayload(e, chunked) => got = <<>>
  <2> SUFFICES ASSUME ~IsPayload(e, chunked) PROVE got = <<>>
    OBVIOUS
  <2>1. DOMAIN arrived = 1..0
    BY DEF IsPayload
  <2> QED
    BY <2>1 DEF Content
<1>11. ASSUME accepted, right
       PROVE  handedOver' = [handedOver EXCEPT ![e] = Append(@, got)]
  <2>1. labelled /\ IsPayload(e, chunked)
    BY <1>1, <1>11, SentWhole DEF AsSent
  <2> QED
    BY <1>3, <1>11, <2>1 DEF HandOver
<1>7. accepted => handedOver[e] = <<>> /\ e \in seen'
  BY <1>2, <1>3 DEF HandedOnce
<1>13. relabelled \subseteq relabelled' /\ mishandled \subseteq mishandled'
  BY <1>3
\* What is handed over is the whole, or a session key under other labels.
<1>14. \/ handedOver' = handedOver
       \/ /\ accepted /\ handedOver' = [handedOver EXCEPT ![e] = Append(@, got)]
          /\ got = whole \/ (got = <<>> /\ e \in relabelled')
  <2>1. CASE ~accepted
    BY <1>3, <2>1
  <2>2. CASE accepted
    <3>1. \/ handedOver' = handedOver
          \/ /\ labelled => IsPayload(e, chunked)
             /\ handedOver' = [handedOver EXCEPT ![e] = Append(@, got)]
      BY <1>3, <2>2 DEF HandOver
    <3>2. ASSUME labelled => IsPayload(e, chunked)
          PROVE  got = whole \/ (got = <<>> /\ e \in relabelled')
      <4>1. CASE IsPayload(e, chunked)
        BY <1>4, <2>2, <4>1
      <4>2. CASE ~IsPayload(e, chunked)
        <5>1. ~labelled /\ ~chunked /\ packages[e].total # 0
          BY <3>2, <4>2 DEF IsPayload
        <5>2. packages[e].total > 0
          BY <1>1, <5>1
        <5>3. Relabelled(e, labelled, chunked)
          BY <5>1, <5>2 DEF Relabelled
        <5>4. e \in relabelled'
          BY <1>3, <2>2, <5>3
        <5> QED
          BY <1>6, <4>2, <5>4
      <4> QED
        BY <4>1, <4>2
    <3> HIDE DEF accepted, got, whole
    <3> QED
      BY <2>2, <3>1, <3>2
  <2> QED
    BY <2>1, <2>2
<1> HIDE DEF verified, got, accepted, whole, right
<1>8. /\ handedOver' \in [1..MaxPackages -> Seq(Seq(Nat))]
      /\ \A d \in 1..MaxPackages : d # e => handedOver'[d] = handedOver[d]
      /\ handedOver'[e] = handedOver[e] \/ (accepted /\ handedOver'[e] = Append(handedOver[e], got)
                                                /\ (got = whole \/ (got = <<>> /\ e \in relabelled')))
  <2>1. CASE handedOver' = handedOver
    BY <1>0, <2>1
  <2>2. CASE /\ accepted /\ handedOver' = [handedOver EXCEPT ![e] = Append(@, got)]
             /\ got = whole \/ (got = <<>> /\ e \in relabelled')
    <3>1. Append(handedOver[e], got) \in Seq(Seq(Nat))
      BY <1>2, <1>5, <2>2, AppendProperties
    <3>2. PICK more \in Seq(Seq(Nat)) : more = Append(handedOver[e], got)
      BY <3>1
    <3>3. handedOver' = [handedOver EXCEPT ![e] = more]
      BY <2>2, <3>2
    <3>4. /\ handedOver' \in [1..MaxPackages -> Seq(Seq(Nat))]
          /\ \A d \in 1..MaxPackages : d # e => handedOver'[d] = handedOver[d]
          /\ handedOver'[e] = more
      BY <1>0, <1>1, <3>2, <3>3
    <3> QED
      BY <2>2, <3>2, <3>4
  <2> QED
    BY <1>14, <2>1, <2>2
<1>9. ASSUME NEW d \in 1..MaxPackages PROVE HandedOnce(d)'
  <2>1. HandedOnce(d)
    BY DEF PackageIInv
  <2>2. seen \subseteq seen'
    BY <1>3
  <2>3. CASE handedOver'[d] = handedOver[d]
    BY <1>0, <1>13, <2>1, <2>2, <2>3 DEF HandedOnce
  <2>4. CASE /\ d = e /\ accepted /\ handedOver'[e] = Append(handedOver[e], got)
             /\ got = whole \/ (got = <<>> /\ e \in relabelled')
    <3>1. handedOver[e] = <<>> /\ e \in seen'
      BY <1>7, <2>4
    <3>2. handedOver'[e] = <<got>>
      BY <1>5, <2>4, <3>1
    <3>3. whole = [m \in 1..packages'[e].total |-> m]
      BY <1>0 DEF whole
    <3>4. Len(handedOver'[e]) = 1 /\ handedOver'[e][1] = got
      BY <3>2
    <3>5. /\ Len(handedOver'[e]) <= 1
          /\ \A i \in 1..Len(handedOver'[e]) : handedOver'[e][i] = got
      BY <3>4
    <3>6. got = [m \in 1..packages'[e].total |-> m] \/ (got = <<>> /\ e \in relabelled')
      BY <2>4, <3>3
    <3> QED
      BY <2>4, <3>1, <3>5, <3>6 DEF HandedOnce
  <2> QED
    BY <1>8, <2>3, <2>4
<1>10. ASSUME NEW d \in seen' PROVE handedOver'[d] # <<>> \/ d \in mishandled'
  <2>1. CASE d \in seen
    <3>1. d \in 1..MaxPackages
      <4>1. d \in DOMAIN packages
        BY <1>0, <2>1
      <4> QED
        BY <1>0, <1>1, <4>1, LenProperties DEF PackageIInv
    <3>2. handedOver'[d] = handedOver[d]
      BY <1>8, <2>1, <3>1 DEF accepted
    <3> QED
      BY <1>13, <2>1, <3>2 DEF PackageIInv
  <2>2. CASE d \notin seen
    <3>1. d = e /\ verified /\ e \notin seen
      BY <1>3, <1>10, <2>2
    <3>2. CASE ~right
      BY <1>3, <3>1, <3>2
    <3>3. CASE right
      <4>1. accepted
        BY <1>1, <3>1, <3>3, SentWhole DEF accepted, right, verified
      <4>2. handedOver' = [handedOver EXCEPT ![e] = Append(@, got)]
        BY <1>11, <3>3, <4>1
      <4>3. handedOver'[e] = Append(handedOver[e], got) /\ handedOver[e] = <<>>
        BY <1>0, <1>1, <1>7, <4>1, <4>2
      <4>4. handedOver'[e] = <<got>>
        BY <4>3
      <4> QED
        BY <3>1, <4>4
    <3> QED
      BY <3>2, <3>3
  <2> QED
    BY <2>1, <2>2
<1>12. PackageTypeOK'
  <2>1. seen' \cup mishandled' \cup relabelled' \subseteq DOMAIN packages
    BY <1>0, <1>3
  <2> QED
    BY <1>0, <1>8, <2>1 DEF PackageTypeOK
<1> QED
  BY <1>0, <1>9, <1>10, <1>12 DEF PackageIInv

LEMMA PackageStepInv == PackageIInv /\ [PackageNext]_packageVars => PackageIInv'
<1> SUFFICES ASSUME PackageIInv, [PackageNext]_packageVars PROVE PackageIInv'
  OBVIOUS
<1>1. ASSUME UNCHANGED <<packages, tooLarge, seen, handedOver, mishandled, relabelled>>, IdentitiesTyped'
      PROVE  PackageIInv'
  BY <1>1 DEF PackageIInv, PackageTypeOK, HandedOnce, IdentitiesTyped
<1>2. IdentitiesTyped
  BY DEF PackageIInv, PackageTypeOK, IdentitiesTyped
<1>3. CASE IdentityStep
  BY <1>1, <1>2, <1>3, IdentityStepKeeps
<1>4. ASSUME NEW size \in Sizes, Send(size) PROVE PackageIInv'
  BY <1>4, SendKeeps
<1>5. ASSUME NEW e \in DOMAIN packages, ReceiveDamaged(e) PROVE PackageIInv'
  BY <1>1, <1>2, <1>5 DEF ReceiveDamaged, MarkEnvelope, CardVerifies, identityVars, IdentitiesTyped
<1>6. ASSUME NEW e \in DOMAIN packages, NEW labelled \in BOOLEAN,
             Receive(e, labelled, FALSE, <<>>)
      PROVE  PackageIInv'
  <2>1. DOMAIN <<>> = 1..0 /\ Len(<<>>) = 0
    OBVIOUS
  <2> QED
    BY <1>6, <2>1, ReceiveKeeps
<1>7. ASSUME NEW e \in DOMAIN packages, NEW labelled \in BOOLEAN, NEW arrived \in Arrivals,
             Receive(e, labelled, TRUE, arrived)
      PROVE  PackageIInv'
  <2>1. PICK n \in Nat : DOMAIN arrived = 1..n /\ arrived \in Seq(SealedChunks)
    BY ArrivalsAreSequences
  <2>2. Len(arrived) = n /\ (arrived = <<>> <=> n = 0)
    BY <2>1
  <2> QED
    BY <1>7, <2>1, <2>2, ReceiveKeeps
<1>8. CASE UNCHANGED packageVars
  BY <1>1, <1>2, <1>8 DEF packageVars, IdentitiesTyped
<1> QED
  BY <1>3, <1>4, <1>5, <1>6, <1>7, <1>8 DEF PackageNext, IdentityStep

(* Identities, cards and packages keep their types (rotate_keys(), save(), *)
(* load(), Send() and Receive()).                                          *)
THEOREM PackageTyped == PackageSpec => []PackageTypeOK
<1>1. PackageIInv => PackageTypeOK
  BY DEF PackageIInv
<1> QED
  BY <1>1, PackageInitInv, PackageStepInv, PTL DEF PackageSpec

(* However labels and chunks of packages are mixed up and whichever keys   *)
(* rotate, Receive() returns a package once, in whole or, under labels     *)
(* that were both changed, the session key of its envelope; and nothing    *)
(* but an arrival in another form or with other keys uses up its nonce in  *)
(* vain.                                                                   *)
THEOREM PackageReturnedAsSent == PackageSpec => []ReturnedAsSent
<1>1. PackageIInv => ReturnedAsSent
  <2> SUFFICES ASSUME PackageIInv, NEW e \in DOMAIN packages
               PROVE  /\ Len(handedOver[e]) <= 1
                      /\ \A i \in DOMAIN handedOver[e] :
                             \/ handedOver[e][i] = [n \in 1..packages[e].total |-> n]
                             \/ handedOver[e][i] = <<>> /\ e \in relabelled
                      /\ e \in seen => handedOver[e] # <<>> \/ e \in mishandled
    BY DEF ReturnedAsSent
  <2>1. e \in 1..MaxPackages /\ handedOver[e] \in Seq(Seq(Nat))
    BY PackageConstants, LenProperties DEF PackageIInv, PackageTypeOK
  <2>2. DOMAIN handedOver[e] = 1..Len(handedOver[e])
    BY <2>1
  <2> QED
    BY <2>1, <2>2 DEF PackageIInv, HandedOnce
<1> QED
  BY <1>1, PackageInitInv, PackageStepInv, PTL DEF PackageSpec

-----------------------------------------------------------------------------
(* The calls of fetch()                                                    *)
(*                                                                         *)
(* ExchangeOnce counts what was carried out. It is inductive together with *)
(* what the requests that are still under way may yet do (MayApply): a     *)
(* package may be opened by each guard that has not marked it, a call that *)
(* gives one up and sends another is the fallback, and what a restart adds *)
(* to the guards that may open a package it adds to those started.         *)

One(condition) == IF condition THEN 1 ELSE 0

MayOpen(f) == IF "uxsp" \in mail[f] THEN Cardinality(guards \ openedBy[f]) ELSE 0

\* How often the operation was carried out, or still may be by what is in the mail.
MayApply(f) ==
    applied[f] + One("plain" \in mail[f]) + One("probe" \in mail[f]) + MayOpen(f)

CallKept(f) ==
    /\ fetch[f].step = "idle" =>
           mail[f] = {} /\ applied[f] = 0 /\ ~fetch[f].fellBack /\ ~sentPlain[f]
    /\ fetch[f].step = "uxsp" => ~fetch[f].fellBack
    /\ MayApply(f) <= started + One(fetch[f].fellBack)
    /\ sentPlain[f] =>
           /\ ~fetch[f].force
           /\ fetch[f].known = "yes" => fetch[f].allow /\ fetch[f].fellBack
    /\ fetch[f].answer = "package" => applied[f] >= 1

GuardsStarted == 1 <= started /\ Cardinality(guards) <= started

HttpIInv == HttpTypeOK /\ GuardsStarted /\ \A f \in Fetches : CallKept(f)

LEMMA GuardsCounted ==
    ASSUME HttpTypeOK, NEW G \in SUBSET guards
    PROVE  IsFiniteSet(G) /\ Cardinality(G) \in Nat /\ Cardinality(G) <= Cardinality(guards)
<1>1. IsFiniteSet(guards)
  BY HttpAssumption, FS_Subset DEF HttpTypeOK
<1>2. IsFiniteSet(G) /\ Cardinality(G) <= Cardinality(guards)
  BY <1>1, FS_Subset
<1> QED
  BY <1>2, FS_CardinalityType

LEMMA MayOpenTyped ==
    ASSUME HttpTypeOK, NEW f \in Fetches
    PROVE  MayOpen(f) \in Nat /\ MayOpen(f) <= Cardinality(guards)
<1>1. Cardinality(guards \ openedBy[f]) \in Nat
      /\ Cardinality(guards \ openedBy[f]) <= Cardinality(guards)
  BY GuardsCounted
<1>2. Cardinality(guards) \in Nat
  BY GuardsCounted
<1> QED
  BY <1>1, <1>2 DEF MayOpen

\* A package that one more guard has opened may be opened by one guard less.
LEMMA OneGuardLess ==
    ASSUME HttpTypeOK, NEW marked \in SUBSET Guards, NEW g \in guards \ marked
    PROVE  Cardinality(guards \ (marked \cup {g})) = Cardinality(guards \ marked) - 1
<1>1. IsFiniteSet(guards \ marked)
  BY GuardsCounted
<1>2. guards \ (marked \cup {g}) = (guards \ marked) \ {g}
  OBVIOUS
<1>3. Cardinality((guards \ marked) \ {g}) = Cardinality(guards \ marked) - 1
  BY <1>1, FS_RemoveElement
<1> QED
  BY <1>2, <1>3

\* Guards that have lost their marks may open what they have opened before.
LEMMA MoreGuards ==
    ASSUME HttpTypeOK, NEW marked \in SUBSET Guards, NEW new \in SUBSET guards
    PROVE  Cardinality(guards \ (marked \ new))
               <= Cardinality(guards \ marked) + Cardinality(new)
<1> DEFINE before == guards \ marked
           after  == guards \ (marked \ new)
<1>1. IsFiniteSet(before) /\ IsFiniteSet(new) /\ IsFiniteSet(before \cap new)
  BY GuardsCounted
<1>2. /\ IsFiniteSet(before \cup new)
      /\ Cardinality(before \cup new)
             = Cardinality(before) + Cardinality(new) - Cardinality(before \cap new)
  BY <1>1, FS_Union
<1>3. after \in SUBSET (before \cup new)
  OBVIOUS
<1>4. Cardinality(after) <= Cardinality(before \cup new)
  BY <1>2, <1>3, FS_Subset
<1>5. /\ Cardinality(before) \in Nat /\ Cardinality(new) \in Nat
      /\ Cardinality(before \cap new) \in Nat /\ Cardinality(after) \in Nat
  BY GuardsCounted
<1> QED
  BY <1>2, <1>4, <1>5

LEMMA HttpInitInv == HttpInit => HttpIInv
<1> SUFFICES ASSUME HttpInit PROVE HttpIInv
  OBVIOUS
<1>b. guards \in (SUBSET Guards) \ {{}} /\ started = Cardinality(guards)
  BY Zenon DEF HttpInit
<1>0. guards \in SUBSET Guards /\ guards # {} /\ started = Cardinality(guards)
  BY <1>b
<1>c. IsFiniteSet(Guards)
  BY HttpAssumption
<1>1. IsFiniteSet(guards)
  BY <1>0, <1>c, FS_Subset
<1>2. started \in Nat /\ 1 <= started
  BY <1>0, <1>1, FS_EmptySet, FS_CardinalityType
<1>3. HttpTypeOK
  BY <1>2 DEF HttpInit, HttpTypeOK, FetchStates
<1>4. GuardsStarted
  BY <1>0, <1>2 DEF GuardsStarted
<1>5. ASSUME NEW f \in Fetches PROVE CallKept(f)
  <2>1. /\ fetch[f].fellBack = FALSE /\ fetch[f].answer = "none" /\ sentPlain[f] = FALSE
        /\ fetch[f].step = "idle" /\ applied[f] = 0 /\ mail[f] = {}
    BY DEF HttpInit
  <2> QED
    BY <1>2, <2>1 DEF CallKept, MayApply, MayOpen, One
<1> QED
  BY <1>3, <1>4, <1>5 DEF HttpIInv

LEMMA CallBegun ==
    ASSUME NEW s \in FetchStates, NEW step \in {"plain", "probe", "uxsp", "failed"},
           NEW force \in BOOLEAN, NEW allow \in BOOLEAN, NEW known \in {"unknown", "yes", "no"}
    PROVE  [s EXCEPT !.step = step, !.force = force, !.allow = allow, !.known = known]
               \in FetchStates
<1>1. [s EXCEPT !.step = step] \in FetchStates
  BY DEF FetchStates
<1>2. \A r \in FetchStates : [r EXCEPT !.force = force] \in FetchStates
  BY DEF FetchStates
<1>3. \A r \in FetchStates : [r EXCEPT !.allow = allow] \in FetchStates
  BY DEF FetchStates
<1>4. \A r \in FetchStates : [r EXCEPT !.known = known] \in FetchStates
  BY DEF FetchStates
<1> QED
  BY <1>1, <1>2, <1>3, <1>4, Zenon

LEMMA BegunTyped ==
    ASSUME HttpTypeOK, NEW f \in Fetches, NEW force \in BOOLEAN, NEW allow \in BOOLEAN,
           NEW step \in {"plain", "probe", "uxsp", "failed"}, Begin(f, step, force, allow)
    PROVE  fetch' \in [Fetches -> FetchStates]
<1>1. fetch[f] \in FetchStates /\ fetch \in [Fetches -> FetchStates]
      /\ capability \in {"unknown", "yes", "no"}
  BY DEF HttpTypeOK
<1>2. [fetch[f] EXCEPT !.step = step, !.force = force, !.allow = allow, !.known = capability]
          \in FetchStates
  BY <1>1, CallBegun
<1> QED
  BY <1>1, <1>2 DEF Begin

LEMMA FallenBackTyped ==
    ASSUME HttpTypeOK, NEW f \in Fetches, FallBack(f)
    PROVE  /\ fetch' \in [Fetches -> FetchStates]
           /\ mail' \in [Fetches -> SUBSET {"plain", "probe", "uxsp"}]
           /\ sentPlain' \in [Fetches -> BOOLEAN]
<1>1. \A s \in FetchStates :
          /\ [s EXCEPT !.step = "failed"] \in FetchStates
          /\ [s EXCEPT !.step = "plain"] \in FetchStates
          /\ [s EXCEPT !.answer = "none"] \in FetchStates
          /\ [s EXCEPT !.fellBack = TRUE] \in FetchStates
  BY DEF FetchStates
<1>2. fetch \in [Fetches -> FetchStates]
  BY DEF HttpTypeOK
<1>3. [fetch[f] EXCEPT !.step = "plain", !.answer = "none", !.fellBack = TRUE] \in FetchStates
  <2>1. fetch[f] \in FetchStates
    BY <1>2
  <2> QED
    BY <1>1, <2>1, Zenon
<1>4. fetch' \in [Fetches -> FetchStates]
  BY <1>1, <1>2, <1>3 DEF FallBack, Finish
<1>5. mail' \in [Fetches -> SUBSET {"plain", "probe", "uxsp"}]
  BY DEF FallBack, HttpTypeOK
<1>6. sentPlain' \in [Fetches -> BOOLEAN]
  BY DEF FallBack, HttpTypeOK
<1> QED
  BY <1>4, <1>5, <1>6

LEMMA HttpTypeStep == HttpTypeOK /\ [HttpNext]_httpVars => HttpTypeOK'
<1> SUFFICES ASSUME HttpTypeOK, [HttpNext]_httpVars PROVE HttpTypeOK'
  OBVIOUS
<1> USE DEF HttpTypeOK, FetchStates, serverVars, hostGuardVars
<1>1. ASSUME NEW f \in Fetches, NEW force \in BOOLEAN, NEW allow \in BOOLEAN,
             NEW carded \in BOOLEAN, StartFetch(f, force, allow, carded)
      PROVE  HttpTypeOK'
  <2>1. PICK step \in {"plain", "probe", "uxsp", "failed"} : Begin(f, step, force, allow)
    BY <1>1 DEF StartFetch, SendsUxsp
  <2>2. fetch' \in [Fetches -> FetchStates]
    BY <2>1, BegunTyped
  <2>3. mail' \in [Fetches -> SUBSET {"plain", "probe", "uxsp"}]
    BY <2>1 DEF Begin
  <2>4. sentPlain' \in [Fetches -> BOOLEAN]
    BY <2>1 DEF Begin
  <2>5. UNCHANGED <<clientFallback, capability, serverMode, guards, durable, openedBy, started,
                  applied>>
    BY <1>1 DEF StartFetch
  <2> QED
    BY <2>2, <2>3, <2>4, <2>5
<1>2. ASSUME NEW f \in Fetches, UxspFails(f) PROVE HttpTypeOK'
  BY <1>2, FallenBackTyped DEF UxspFails
<1>3. ASSUME NEW f \in Fetches, PlainFails(f) PROVE HttpTypeOK'
  BY <1>3 DEF PlainFails, Finish
<1>4. ASSUME NEW f \in Fetches, PlainAnswered(f) PROVE HttpTypeOK'
  BY <1>4 DEF PlainAnswered, Finish
<1>5. ASSUME NEW f \in Fetches, ProbeAnswered(f) PROVE HttpTypeOK'
  BY <1>5 DEF ProbeAnswered, Finish
<1>6. ASSUME NEW f \in Fetches, UxspAnswered(f) PROVE HttpTypeOK'
  <2>1. CASE FallBack(f)
    BY <1>6, <2>1, FallenBackTyped DEF UxspAnswered
  <2>2. CASE Finish(f, "done") /\ UNCHANGED <<mail, sentPlain>>
    BY <1>6, <2>2 DEF UxspAnswered, Finish
  <2> QED
    BY <1>6, <2>1, <2>2 DEF UxspAnswered
<1>7. ASSUME NEW f \in Fetches, NEW request \in {"plain", "probe"}, ServePlain(f, request)
      PROVE  HttpTypeOK'
  BY <1>7 DEF ServePlain, Apply, Answers
<1>8. ASSUME NEW f \in Fetches, NEW request \in {"plain", "probe"},
             NEW answer \in {"bare", "selected"}, RefusePlain(f, request, answer)
      PROVE  HttpTypeOK'
  BY <1>8 DEF RefusePlain, Answers
<1>9. ASSUME NEW f \in Fetches, NEW g \in guards,
             NEW answer \in {"package", "unreadable", "bare"}, ServePackage(f, g, answer)
      PROVE  HttpTypeOK'
  BY <1>9 DEF ServePackage, Apply, Answers
<1>10. ASSUME NEW f \in Fetches, RefusePackage(f) PROVE HttpTypeOK'
  BY <1>10 DEF RefusePackage, Answers
<1>11. CASE Forget
  BY <1>11 DEF Forget
<1>12. ASSUME NEW mode \in {"hybrid", "strict", "none"}, NEW new \in SUBSET guards,
              RestartWorkers(mode, new)
       PROVE  HttpTypeOK'
  <2>1. Cardinality(new) \in Nat
    BY GuardsCounted
  <2>2. started' \in Nat /\ openedBy' \in [Fetches -> SUBSET Guards]
    BY <1>12, <2>1 DEF RestartWorkers
  <2> QED
    BY <1>12, <2>2 DEF RestartWorkers
<1>13. CASE UNCHANGED httpVars
  BY <1>13 DEF httpVars
<1> HIDE DEF HttpTypeOK, FetchStates, serverVars, hostGuardVars
<1> QED
  BY <1>1, <1>2, <1>3, <1>4, <1>5, <1>6, <1>7, <1>8, <1>9, <1>10, <1>11, <1>12, <1>13
  DEF HttpNext

\* What concerns the call g stays as it is.
CallStill(g) ==
    UNCHANGED <<fetch[g], mail[g], guards, openedBy[g], started, applied[g], sentPlain[g]>>

\* A step of the client or of the server concerns one call.
OnlyCall(f) == \A g \in Fetches \ {f} : CallStill(g)

LEMMA StillCallKept ==
    ASSUME NEW g \in Fetches, CallKept(g), CallStill(g)
    PROVE  CallKept(g)'
BY DEF CallKept, CallStill, MayApply, MayOpen, One

\* What the client or the server may do for one call.
FetchStep(f) ==
    \/ \E force, allow, carded \in BOOLEAN : StartFetch(f, force, allow, carded)
    \/ UxspFails(f) \/ PlainFails(f) \/ PlainAnswered(f) \/ ProbeAnswered(f)
    \/ UxspAnswered(f)
    \/ \E request \in {"plain", "probe"} :
          \/ ServePlain(f, request)
          \/ \E answer \in {"bare", "selected"} : RefusePlain(f, request, answer)
    \/ \E g \in guards, answer \in {"package", "unreadable", "bare"} :
          ServePackage(f, g, answer)
    \/ RefusePackage(f)

LEMMA FetchStepGuards == \A f \in Fetches : FetchStep(f) => UNCHANGED <<guards, started>>
BY DEF FetchStep, StartFetch, UxspFails, PlainFails, PlainAnswered, ProbeAnswered, UxspAnswered,
       ServePlain, RefusePlain, ServePackage, RefusePackage, serverVars, hostGuardVars

LEMMA HttpCallStep ==
    ASSUME HttpIInv, HttpTypeOK', NEW f \in Fetches, FetchStep(f)
    PROVE  OnlyCall(f) /\ CallKept(f)'
<1> USE DEF HttpTypeOK, serverVars, hostGuardVars, OnlyCall, CallStill
<1>0. HttpTypeOK /\ GuardsStarted /\ CallKept(f)
  BY DEF HttpIInv
<1>a. /\ applied[f] \in Nat /\ applied'[f] \in Nat
      /\ fetch[f] \in FetchStates
      /\ fetch \in [Fetches -> FetchStates]
      /\ started \in Nat
  BY <1>0
<1>b. MayOpen(f) \in Nat
  BY <1>0, MayOpenTyped
<1>1. ASSUME NEW force \in BOOLEAN, NEW allow \in BOOLEAN,
             NEW carded \in BOOLEAN, StartFetch(f, force, allow, carded)
      PROVE  OnlyCall(f) /\ CallKept(f)'
  <2>1. PICK step \in {"plain", "probe", "uxsp", "failed"} :
            /\ Begin(f, step, force, allow)
            /\ step \in {"plain", "probe"} => ~force /\ capability # "yes"
    BY <1>1 DEF StartFetch, SendsUxsp
  <2>2. UNCHANGED <<clientFallback, capability, serverMode, hostGuardVars, applied>>
        /\ fetch[f].step = "idle"
    BY <1>1 DEF StartFetch
  <2>3. OnlyCall(f)
    BY <1>0, <2>1, <2>2 DEF Begin
  <2>4. /\ fetch'[f].step = step /\ fetch'[f].force = force /\ fetch'[f].allow = allow
        /\ fetch'[f].known = capability /\ fetch'[f].fellBack = fetch[f].fellBack
        /\ fetch'[f].answer = fetch[f].answer
    BY <1>a, <2>1 DEF Begin, FetchStates
  <2>5. /\ mail'[f] = mail[f] \/ mail'[f] = mail[f] \cup {step}
        /\ sentPlain'[f] = (sentPlain[f] \/ step \in {"plain", "probe"})
        /\ applied'[f] = applied[f] /\ started' = started
    BY <1>0, <2>1, <2>2 DEF Begin
  <2>6. mail[f] = {} /\ applied[f] = 0 /\ ~fetch[f].fellBack /\ ~sentPlain[f]
    BY <1>0, <2>2 DEF CallKept
  <2>7. MayOpen(f)' \in Nat /\ MayOpen(f)' <= started
    <3>1. /\ Cardinality(guards \ openedBy[f]) \in Nat
          /\ Cardinality(guards \ openedBy[f]) <= Cardinality(guards)
          /\ Cardinality(guards) \in Nat
      BY <1>0, GuardsCounted
    <3>2. MayOpen(f)' \in {0, Cardinality(guards \ openedBy[f])}
      BY <2>2 DEF MayOpen
    <3> QED
      BY <1>0, <1>a, <3>1, <3>2 DEF GuardsStarted
  <2>8. step # "uxsp" => MayOpen(f)' = 0
    BY <2>5, <2>6 DEF MayOpen
  <2>9. MayApply(f)' <= started'
    BY <1>0, <1>a, <2>5, <2>6, <2>7, <2>8 DEF MayApply, One, GuardsStarted
  <2>10. /\ ~fetch'[f].fellBack
         /\ fetch'[f].step # "idle"
         /\ sentPlain'[f] = (step \in {"plain", "probe"})
    BY <2>1, <2>4, <2>5, <2>6
  <2>11. fetch'[f].answer = "package" => applied'[f] >= 1
    BY <1>0, <2>4, <2>5 DEF CallKept
  <2>12. CallKept(f)'
    BY <1>a, <2>1, <2>4, <2>5, <2>9, <2>10, <2>11 DEF CallKept, One
  <2> QED
    BY <2>3, <2>12
<1>2. ASSUME FallBack(f), UNCHANGED <<hostGuardVars, applied>>, fetch[f].step = "uxsp"
      PROVE  OnlyCall(f) /\ CallKept(f)'
  <2>1. OnlyCall(f)
    BY <1>0, <1>2 DEF FallBack, Finish
  <2>2. CASE ~fetch[f].allow \/ fetch[f].force
    <3>1. /\ fetch'[f] = [fetch[f] EXCEPT !.step = "failed"]
          /\ UNCHANGED <<mail, sentPlain, guards, openedBy, started, applied>>
      BY <1>a, <1>2, <2>2 DEF FallBack, Finish
    <3>2. MayApply(f)' = MayApply(f)
      BY <3>1 DEF MayApply, MayOpen
    <3> QED
      BY <1>0, <1>a, <2>1, <3>1, <3>2 DEF CallKept, One, FetchStates
  <2>3. CASE fetch[f].allow /\ ~fetch[f].force
    <3>1. fetch'[f] = [fetch[f] EXCEPT !.step = "plain", !.answer = "none", !.fellBack = TRUE]
      BY <1>a, <1>2, <2>3 DEF FallBack
    <3>2. /\ fetch'[f].step = "plain" /\ fetch'[f].answer = "none" /\ fetch'[f].fellBack
          /\ fetch'[f].allow = fetch[f].allow /\ fetch'[f].force = fetch[f].force
      BY <1>a, <3>1 DEF FetchStates
    <3>3. mail'[f] = mail[f] \cup {"plain"} /\ sentPlain'[f]
          /\ applied'[f] = applied[f] /\ UNCHANGED <<guards, openedBy, started>>
      BY <1>0, <1>2, <2>3 DEF FallBack
    <3>4. MayOpen(f)' = MayOpen(f)
      BY <3>3 DEF MayOpen
    <3>5. /\ MayApply(f)' <= MayApply(f) + 1
          /\ MayApply(f) \in Nat /\ MayApply(f)' \in Nat
      BY <1>a, <1>b, <3>3, <3>4 DEF MayApply, One
    <3>6. MayApply(f) <= started /\ (fetch[f].answer = "package" => applied[f] >= 1)
      BY <1>0, <1>2, <1>a DEF CallKept, One
    <3>7. MayApply(f)' <= started' + 1
      BY <1>a, <3>3, <3>5, <3>6
    <3> QED
      BY <1>0, <1>a, <1>2, <2>1, <2>3, <3>2, <3>3, <3>7 DEF CallKept, One
  <2> QED
    BY <1>a, <2>2, <2>3 DEF FetchStates
<1>3. ASSUME NEW step \in {"failed", "done"}, Finish(f, step),
             UNCHANGED <<mail, sentPlain, hostGuardVars, applied>>
      PROVE  OnlyCall(f) /\ CallKept(f)'
  <2>1. MayApply(f)' = MayApply(f)
    BY <1>3 DEF MayApply, MayOpen
  <2>2. OnlyCall(f)
    BY <1>a, <1>3 DEF Finish
  <2>3. /\ fetch'[f].step = step /\ fetch'[f].force = fetch[f].force
        /\ fetch'[f].allow = fetch[f].allow /\ fetch'[f].known = fetch[f].known
        /\ fetch'[f].fellBack = fetch[f].fellBack /\ fetch'[f].answer = fetch[f].answer
    BY <1>a, <1>3 DEF Finish, FetchStates
  <2> QED
    BY <1>0, <1>a, <1>3, <2>1, <2>2, <2>3 DEF CallKept, One
<1>4. UxspFails(f) => OnlyCall(f) /\ CallKept(f)'
  BY <1>2 DEF UxspFails
<1>5. PlainFails(f) \/ PlainAnswered(f) \/ ProbeAnswered(f) => OnlyCall(f) /\ CallKept(f)'
  BY <1>3 DEF PlainFails, PlainAnswered, ProbeAnswered
<1>6. UxspAnswered(f) => OnlyCall(f) /\ CallKept(f)'
  BY <1>2, <1>3 DEF UxspAnswered
<1>7. ASSUME NEW request, NEW answer, Answers(f, request, answer)
      PROVE  /\ \A g \in Fetches \ {f} : fetch'[g] = fetch[g]
             /\ fetch'[f].step = fetch[f].step /\ fetch'[f].force = fetch[f].force
             /\ fetch'[f].allow = fetch[f].allow /\ fetch'[f].known = fetch[f].known
             /\ fetch'[f].fellBack = fetch[f].fellBack
             /\ fetch'[f].answer = fetch[f].answer \/ fetch'[f].answer = answer
  BY <1>a, <1>7 DEF Answers, FetchStates
<1>8. ASSUME NEW request \in {"plain", "probe"}, ServePlain(f, request)
      PROVE  OnlyCall(f) /\ CallKept(f)'
  <2>1. PICK answer \in {"bare", "selected"} : Answers(f, request, answer)
    BY <1>8 DEF ServePlain
  <2>2. /\ mail' = [mail EXCEPT ![f] = @ \ {request}]
        /\ applied' = [applied EXCEPT ![f] = @ + 1]
        /\ request \in mail[f]
        /\ UNCHANGED <<guards, openedBy, started, sentPlain>>
    BY <1>8 DEF ServePlain, Apply
  <2>3. OnlyCall(f)
    BY <1>0, <1>7, <2>1, <2>2
  <2>4. /\ mail'[f] = mail[f] \ {request} /\ applied'[f] = applied[f] + 1
        /\ sentPlain'[f] = sentPlain[f]
    BY <1>0, <2>2
  <2>5. MayOpen(f)' = MayOpen(f)
    BY <2>2, <2>4 DEF MayOpen
  <2>6. MayApply(f)' = MayApply(f)
    BY <1>a, <1>b, <2>2, <2>4, <2>5 DEF MayApply, One
  <2> QED
    BY <1>0, <1>a, <1>7, <2>1, <2>2, <2>3, <2>4, <2>6 DEF CallKept, One
<1>9. ASSUME NEW request \in {"plain", "probe"}, NEW answer \in {"bare", "selected"},
             RefusePlain(f, request, answer)
      PROVE  OnlyCall(f) /\ CallKept(f)'
  <2>1. Answers(f, request, answer)
    BY <1>9 DEF RefusePlain
  <2>2. /\ mail' = [mail EXCEPT ![f] = @ \ {request}]
        /\ request \in mail[f]
        /\ UNCHANGED <<applied, guards, openedBy, started, sentPlain>>
    BY <1>9 DEF RefusePlain
  <2>3. OnlyCall(f)
    BY <1>0, <1>7, <2>1, <2>2
  <2>4. /\ mail'[f] = mail[f] \ {request} /\ applied'[f] = applied[f]
        /\ sentPlain'[f] = sentPlain[f]
    BY <1>0, <2>2
  <2>5. MayOpen(f)' = MayOpen(f)
    BY <2>2, <2>4 DEF MayOpen
  <2>6. /\ MayApply(f)' = MayApply(f) - 1
        /\ MayApply(f) \in Nat /\ MayApply(f)' \in Nat
    BY <1>a, <1>b, <2>2, <2>4, <2>5 DEF MayApply, One
  <2>7. MayApply(f)' <= started' + One(fetch[f].fellBack)
    BY <1>0, <1>a, <2>2, <2>6 DEF CallKept, One
  <2> QED
    BY <1>0, <1>a, <1>7, <2>1, <2>3, <2>4, <2>7 DEF CallKept, One
<1>10. ASSUME NEW g \in guards, NEW answer \in {"package", "unreadable", "bare"},
              ServePackage(f, g, answer)
       PROVE  OnlyCall(f) /\ CallKept(f)'
  <2>1. Answers(f, "uxsp", answer)
    BY <1>10 DEF ServePackage
  <2>2. /\ openedBy' = [openedBy EXCEPT ![f] = @ \cup {g}]
        /\ applied' = [applied EXCEPT ![f] = @ + 1]
        /\ "uxsp" \in mail[f] /\ g \in guards \ openedBy[f]
        /\ UNCHANGED <<guards, started, mail, sentPlain>>
    BY <1>10 DEF ServePackage, Apply
  <2>3. OnlyCall(f)
    BY <1>0, <1>7, <2>1, <2>2
  <2>4. /\ openedBy'[f] = openedBy[f] \cup {g} /\ applied'[f] = applied[f] + 1
        /\ mail'[f] = mail[f] /\ sentPlain'[f] = sentPlain[f]
    BY <1>0, <2>2
  <2>5. MayOpen(f)' = MayOpen(f) - 1
    <3>1. openedBy[f] \in SUBSET Guards
      BY <1>0
    <3>2. Cardinality(guards \ (openedBy[f] \cup {g})) = Cardinality(guards \ openedBy[f]) - 1
      BY <1>0, <2>2, <3>1, OneGuardLess
    <3>3. (guards \ openedBy[f])' = guards \ (openedBy[f] \cup {g})
      BY <2>2, <2>4
    <3> QED
      BY <2>2, <2>4, <3>2, <3>3 DEF MayOpen
  <2>6. MayApply(f)' = MayApply(f)
    BY <1>a, <1>b, <2>4, <2>5 DEF MayApply, One
  <2> QED
    BY <1>0, <1>a, <1>7, <2>1, <2>2, <2>3, <2>4, <2>6 DEF CallKept, One
<1>11. RefusePackage(f) => OnlyCall(f) /\ CallKept(f)'
  <2> SUFFICES ASSUME RefusePackage(f) PROVE OnlyCall(f) /\ CallKept(f)'
    OBVIOUS
  <2>1. /\ Answers(f, "uxsp", "bare")
        /\ UNCHANGED <<mail, applied, guards, openedBy, started, sentPlain>>
    BY DEF RefusePackage
  <2>2. MayApply(f)' = MayApply(f)
    BY <2>1 DEF MayApply, MayOpen
  <2> QED
    BY <1>0, <1>7, <2>1, <2>2 DEF CallKept, One
<1> QED
  BY <1>1, <1>4, <1>5, <1>6, <1>8, <1>9, <1>10, <1>11 DEF FetchStep

LEMMA RestartCounted ==
    ASSUME HttpIInv, NEW mode \in {"hybrid", "strict", "none"}, NEW new \in SUBSET guards,
           RestartWorkers(mode, new)
    PROVE  GuardsStarted'
<1>1. HttpTypeOK /\ GuardsStarted
  BY DEF HttpIInv
<1>2. started \in Nat /\ Cardinality(new) \in Nat /\ Cardinality(guards) \in Nat
  BY <1>1, GuardsCounted DEF HttpTypeOK
<1>3. guards' = guards /\ (started' = started \/ started' = started + Cardinality(new))
  BY DEF RestartWorkers
<1> QED
  BY <1>1, <1>2, <1>3 DEF GuardsStarted

LEMMA RestartKept ==
    ASSUME HttpIInv, HttpTypeOK', NEW mode \in {"hybrid", "strict", "none"},
           NEW new \in SUBSET guards, RestartWorkers(mode, new), NEW f \in Fetches
    PROVE  CallKept(f)'
<1>1. HttpTypeOK /\ CallKept(f)
  BY DEF HttpIInv
<1>2. UNCHANGED <<guards, fetch, mail, applied, sentPlain>>
  BY DEF RestartWorkers
<1>3. CASE durable
  <2>1. UNCHANGED <<openedBy, started>>
    BY <1>3 DEF RestartWorkers
  <2> QED
    BY <1>1, <1>2, <2>1, StillCallKept DEF CallStill
<1>4. CASE ~durable
  <2>1. /\ started' = started + Cardinality(new)
        /\ openedBy' = [g \in Fetches |-> openedBy[g] \ new]
    BY <1>4 DEF RestartWorkers
  <2>2. /\ started \in Nat /\ Cardinality(new) \in Nat /\ Cardinality(guards) \in Nat
        /\ applied[f] \in Nat /\ openedBy[f] \in SUBSET Guards
    BY <1>1, GuardsCounted DEF HttpTypeOK
  <2>4. MayOpen(f)' <= MayOpen(f) + Cardinality(new)
    <3>1. Cardinality(guards \ (openedBy[f] \ new))
              <= Cardinality(guards \ openedBy[f]) + Cardinality(new)
      BY <1>1, <2>2, MoreGuards
    <3>2. (guards \ openedBy[f])' = guards \ (openedBy[f] \ new) /\ mail'[f] = mail[f]
      BY <1>2, <2>1
    <3>3. Cardinality(guards \ openedBy[f])' = Cardinality(guards \ (openedBy[f] \ new))
      BY <3>2
    <3> QED
      BY <2>2, <3>1, <3>2, <3>3 DEF MayOpen
  <2>5. MayOpen(f) \in Nat /\ MayOpen(f)' \in Nat
    <3>1. Cardinality(guards \ (openedBy[f] \ new)) \in Nat
      BY <1>1, GuardsCounted
    <3>2. (guards \ openedBy[f])' = guards \ (openedBy[f] \ new)
      BY <1>2, <2>1
    <3>3. Cardinality(guards \ openedBy[f])' = Cardinality(guards \ (openedBy[f] \ new))
      BY <3>2
    <3> QED
      BY <1>1, <3>1, <3>3, MayOpenTyped DEF MayOpen
  <2>6. /\ MayApply(f)' <= MayApply(f) + Cardinality(new)
        /\ MayApply(f) \in Nat /\ MayApply(f)' \in Nat
    BY <1>2, <2>2, <2>4, <2>5 DEF MayApply, One
  <2>7. MayApply(f)' <= started' + One(fetch[f].fellBack)
    BY <1>1, <2>1, <2>2, <2>6 DEF CallKept, One
  <2> QED
    BY <1>1, <1>2, <2>7 DEF CallKept
<1> QED
  BY <1>3, <1>4

LEMMA HttpStepInv == HttpIInv /\ [HttpNext]_httpVars => HttpIInv'
<1> SUFFICES ASSUME HttpIInv, [HttpNext]_httpVars PROVE HttpIInv'
  OBVIOUS
<1>1. HttpTypeOK'
  BY HttpTypeStep DEF HttpIInv
<1>2. ASSUME NEW f \in Fetches, OnlyCall(f) /\ CallKept(f)' PROVE \A g \in Fetches : CallKept(g)'
  BY <1>2, StillCallKept DEF OnlyCall, HttpIInv
<1>3. ASSUME UNCHANGED <<fetch, mail, guards, openedBy, started, applied, sentPlain>>
      PROVE  GuardsStarted' /\ \A g \in Fetches : CallKept(g)'
  BY <1>3, StillCallKept DEF CallStill, HttpIInv, GuardsStarted
<1>4. Forget \/ UNCHANGED httpVars =>
          UNCHANGED <<fetch, mail, guards, openedBy, started, applied, sentPlain>>
  BY DEF Forget, httpVars, serverVars, hostGuardVars
<1>5. ASSUME NEW mode \in {"hybrid", "strict", "none"}, NEW new \in SUBSET guards,
             RestartWorkers(mode, new)
      PROVE  HttpIInv'
  <2>1. \A f \in Fetches : CallKept(f)'
    BY <1>1, <1>5, RestartKept
  <2>2. GuardsStarted'
    BY <1>5, RestartCounted
  <2> QED
    BY <1>1, <2>1, <2>2 DEF HttpIInv
<1>6. ASSUME NEW f \in Fetches, FetchStep(f) PROVE HttpIInv'
  <2>1. OnlyCall(f) /\ CallKept(f)'
    BY <1>1, <1>6, HttpCallStep
  <2>2. UNCHANGED <<guards, started>>
    BY <1>6, FetchStepGuards
  <2> QED
    BY <1>1, <1>2, <2>1, <2>2 DEF HttpIInv, GuardsStarted
<1> QED
  BY <1>1, <1>3, <1>4, <1>5, <1>6 DEF HttpIInv, HttpNext, FetchStep

(* The capability cache, the calls of fetch() and the nonces of the        *)
(* middleware keep their types.                                            *)
THEOREM HttpTyped == HttpSpec => []HttpTypeOK
<1>1. HttpIInv => HttpTypeOK
  BY DEF HttpIInv
<1> QED
  BY <1>1, HttpInitInv, HttpStepInv, PTL DEF HttpSpec

(* However requests are delayed, answers are lost, packages arrive again   *)
(* at any worker and processes are started again: fetch() sends nothing in *)
(* plain that was forced, and an operation is carried out once by every    *)
(* guard that began without a mark, and once more after a fallback, so     *)
(* once in all behind one store that outlives the processes.               *)
THEOREM ExchangedOnce == HttpSpec => []ExchangeOnce
<1>1. HttpIInv => ExchangeOnce
  <2>1. ASSUME HttpIInv, NEW f \in Fetches
        PROVE  applied[f] <= started + IF fetch[f].fellBack THEN 1 ELSE 0
    <3>1. applied[f] \in Nat /\ started \in Nat /\ CallKept(f) /\ MayOpen(f) \in Nat
      BY <2>1, MayOpenTyped DEF HttpIInv, HttpTypeOK
    <3>2. MayApply(f) \in Nat /\ applied[f] <= MayApply(f)
      BY <3>1 DEF MayApply, One
    <3> QED
      BY <3>1, <3>2 DEF CallKept, One
  <2> QED
    BY <2>1 DEF HttpIInv, ExchangeOnce, CallKept
<1> QED
  BY <1>1, HttpInitInv, HttpStepInv, PTL DEF HttpSpec

-----------------------------------------------------------------------------
(* The frames of a live session                                            *)
(*                                                                         *)
(* An epoch and a count of frames in it are one number, the frames a peer  *)
(* has gone through (GoneOf). A listener has gone through no more than its *)
(* sender has sealed, however many of them it missed: skipping to a later  *)
(* epoch only leaves frames out.                                           *)

\* The frames a peer has gone through when it is in this epoch with this count.
Gone(e, count) == e * FrameLimit + count
GoneOf(p) == Gone(epoch[p], frameCount[p])

\* Who has sealed nothing has heard no more than what was sealed.
Listens(p, q) ==
    /\ GoneOf(q) = sentFrames[q]
    /\ \A f \in sealed : f.from = q /\ Gone(f.epoch, 0) <= f.seq
    /\ ~upset => /\ GoneOf(p) <= sentFrames[q]
                 /\ frameCount[p] = 0 \/ GoneOf(p) <= lastSeq[p] + 1

LiveIInv ==
    /\ LiveTypeOK
    /\ \A f \in sealed : f.seq < sentFrames[f.from]
    /\ \A p, q \in Peers : sentFrames[p] = 0 /\ p # q => Listens(p, q)

LEMMA LiveConstants ==
    /\ FrameLimit \in Nat /\ FrameLimit > 0 /\ EpochLimit \in Nat /\ LastFrame \in Nat
    /\ \A p, q, r \in Peers : p # q /\ r # p => r = q
BY LiveAssumption

LEMMA GoneTyped == \A e, count \in Nat : Gone(e, count) \in Nat
BY LiveConstants DEF Gone

LEMMA GoneEpochs ==
    ASSUME NEW e1 \in Nat, NEW e2 \in Nat, NEW c1 \in 0..(FrameLimit - 1),
           NEW c2 \in 0..(FrameLimit - 1), Gone(e1, c1) <= Gone(e2, c2)
    PROVE  e1 <= e2
<1> SUFFICES ASSUME e1 >= e2 + 1 PROVE FALSE
  OBVIOUS
<1>1. FrameLimit \in Nat /\ FrameLimit > 0
  BY LiveConstants
<1>2. e1 * FrameLimit >= (e2 + 1) * FrameLimit
  <2> DEFINE d == e1 - e2 - 1
  <2>1. d \in Nat /\ e1 = (e2 + 1) + d
    OBVIOUS
  <2>2. e1 * FrameLimit = (e2 + 1) * FrameLimit + d * FrameLimit
    BY <1>1, <2>1
  <2>3. d * FrameLimit \in Nat /\ (e2 + 1) * FrameLimit \in Nat
    BY <1>1, <2>1
  <2> QED
    BY <2>2, <2>3
<1>3. (e2 + 1) * FrameLimit = e2 * FrameLimit + FrameLimit
  BY <1>1
<1>4. e1 * FrameLimit \in Nat /\ e2 * FrameLimit \in Nat
  BY <1>1
<1> QED
  BY <1>1, <1>2, <1>3, <1>4 DEF Gone

\* What Advance() does to one peer.
LEMMA Advanced ==
    ASSUME LiveTypeOK, NEW p \in Peers, NEW to \in Nat, NEW n \in 0..1, to >= epoch[p],
           Advance(p, to, n)
    PROVE  /\ epoch' \in [Peers -> Nat]
           /\ frameCount' \in [Peers -> 0..(FrameLimit - 1)]
           /\ \A q \in Peers \ {p} : epoch'[q] = epoch[q] /\ frameCount'[q] = frameCount[q]
           /\ GoneOf(p)' = IF to > epoch[p] THEN Gone(to, 0) + n ELSE GoneOf(p) + n
           /\ n = 0 /\ to > epoch[p] => frameCount'[p] = 0
           /\ n = 0 /\ to = epoch[p] => frameCount'[p] = frameCount[p]
<1>0. FrameLimit \in Nat /\ FrameLimit > 0
  BY LiveConstants
<1>1. PICK count : count = (IF to > epoch[p] THEN 0 ELSE frameCount[p]) + n
  OBVIOUS
<1>2. /\ epoch \in [Peers -> Nat] /\ frameCount \in [Peers -> 0..(FrameLimit - 1)]
      /\ epoch[p] \in Nat /\ frameCount[p] \in 0..(FrameLimit - 1)
  BY DEF LiveTypeOK
<1>3. /\ epoch' = [epoch EXCEPT ![p] = IF count >= FrameLimit THEN to + 1 ELSE to]
      /\ frameCount' = [frameCount EXCEPT ![p] = IF count >= FrameLimit THEN 0 ELSE count]
  BY <1>1 DEF Advance
<1>4. count \in 0..FrameLimit
  BY <1>0, <1>1, <1>2
<1>5. epoch' \in [Peers -> Nat] /\ frameCount' \in [Peers -> 0..(FrameLimit - 1)]
  BY <1>0, <1>2, <1>3, <1>4
<1>6. \A q \in Peers \ {p} : epoch'[q] = epoch[q] /\ frameCount'[q] = frameCount[q]
  BY <1>2, <1>3
<1>7. GoneOf(p)' = Gone(to, count)
  <2>1. CASE count >= FrameLimit
    <3>1. count = FrameLimit /\ epoch'[p] = to + 1 /\ frameCount'[p] = 0
      BY <1>0, <1>2, <1>3, <1>4, <2>1
    <3>2. (to + 1) * FrameLimit + 0 = to * FrameLimit + FrameLimit
      BY <1>0
    <3> QED
      BY <3>1, <3>2 DEF GoneOf, Gone
  <2>2. CASE ~(count >= FrameLimit)
    <3>1. epoch'[p] = to /\ frameCount'[p] = count
      BY <1>2, <1>3, <2>2
    <3> QED
      BY <3>1 DEF GoneOf, Gone
  <2> QED
    BY <2>1, <2>2
<1>8. Gone(to, count) = IF to > epoch[p] THEN Gone(to, 0) + n ELSE GoneOf(p) + n
  <2>1. to * FrameLimit \in Nat /\ epoch[p] * FrameLimit \in Nat
    BY <1>0, <1>2
  <2>2. CASE to > epoch[p]
    BY <1>1, <1>2, <2>1, <2>2 DEF Gone
  <2>3. CASE to = epoch[p]
    BY <1>1, <1>2, <2>1, <2>3 DEF Gone, GoneOf
  <2> QED
    BY <1>2, <2>2, <2>3
<1>9. /\ n = 0 /\ to > epoch[p] => frameCount'[p] = 0
      /\ n = 0 /\ to = epoch[p] => frameCount'[p] = frameCount[p]
  BY <1>0, <1>1, <1>2, <1>3
<1> QED
  BY <1>5, <1>6, <1>7, <1>8, <1>9

LEMMA LiveInitInv == LiveInit => LiveIInv
<1> SUFFICES ASSUME LiveInit PROVE LiveIInv
  OBVIOUS
<1>0. FrameLimit \in Nat /\ FrameLimit > 0 /\ Caller \in Peers
  BY LiveAssumption
<1>1. LiveTypeOK
  <2>1. epoch \in [Peers -> Nat] /\ sentFrames \in [Peers -> Nat]
    BY DEF LiveInit
  <2>2. frameCount \in [Peers -> 0..(FrameLimit - 1)]
    BY <1>0 DEF LiveInit
  <2>3. -1 \in Nat \cup {-1}
    OBVIOUS
  <2>4. lastSeq \in [Peers -> Nat \cup {-1}]
    BY <2>3, Zenon DEF LiveInit
  <2>5. joined \subseteq Peers /\ sealed \subseteq Frames /\ upset \in BOOLEAN
    BY <1>0 DEF LiveInit
  <2> QED
    BY <2>1, <2>2, <2>4, <2>5 DEF LiveTypeOK
<1>2. ASSUME NEW p \in Peers, NEW q \in Peers PROVE Listens(p, q)
  <2>1. /\ epoch[p] = 0 /\ epoch[q] = 0 /\ frameCount[p] = 0 /\ frameCount[q] = 0
        /\ sentFrames[q] = 0 /\ sealed = {}
    BY DEF LiveInit
  <2>2. Gone(0, 0) = 0
    BY <1>0 DEF Gone
  <2> QED
    BY <2>1, <2>2 DEF Listens, GoneOf
<1>3. sealed = {}
  BY DEF LiveInit
<1> QED
  BY <1>1, <1>2, <1>3 DEF LiveIInv

LEMMA LiveTypeStep == LiveTypeOK /\ [LiveNext]_liveVars => LiveTypeOK'
<1> SUFFICES ASSUME LiveTypeOK, [LiveNext]_liveVars PROVE LiveTypeOK'
  OBVIOUS
<1>0. FrameLimit \in Nat /\ FrameLimit > 0 /\ EpochLimit \in Nat
  BY LiveConstants
<1>1. ASSUME NEW p \in Peers, Join(p) PROVE LiveTypeOK'
  BY <1>1 DEF Join, LiveTypeOK
<1>2. ASSUME NEW p \in Peers, EncryptFrame(p) PROVE LiveTypeOK'
  <2>1. epoch[p] \in Nat /\ sentFrames[p] \in Nat
    BY DEF LiveTypeOK
  <2>2. epoch' \in [Peers -> Nat] /\ frameCount' \in [Peers -> 0..(FrameLimit - 1)]
    BY <1>2, <2>1, Advanced DEF EncryptFrame
  <2>3. [from |-> p, epoch |-> epoch[p], seq |-> sentFrames[p]] \in Frames
    BY <1>0, <1>2, <2>1 DEF EncryptFrame, Frames
  <2>4. sealed' \subseteq Frames /\ sentFrames' \in [Peers -> Nat]
    BY <1>2, <2>3 DEF EncryptFrame, LiveTypeOK
  <2> QED
    BY <1>2, <2>2, <2>4 DEF EncryptFrame, LiveTypeOK
<1>3. ASSUME NEW p \in Peers, NEW f \in sealed, NEW numbered \in BOOLEAN,
             DecryptFrame(p, f, numbered)
      PROVE  LiveTypeOK'
  <2>0. f \in Frames /\ f.epoch \in Nat /\ f.seq \in Nat /\ epoch[p] \in Nat
    BY <1>0 DEF LiveTypeOK, Frames
  <2>1. epoch' \in [Peers -> Nat] /\ frameCount' \in [Peers -> 0..(FrameLimit - 1)]
    BY <1>3, <2>0, Advanced DEF DecryptFrame, LiveTypeOK
  <2>2. lastSeq' \in [Peers -> Nat \cup {-1}]
    BY <1>3, <2>0 DEF DecryptFrame, LiveTypeOK
  <2>3. upset' \in BOOLEAN
    BY <1>3 DEF DecryptFrame, LiveTypeOK
  <2> QED
    BY <1>3, <2>1, <2>2, <2>3 DEF DecryptFrame, LiveTypeOK
<1>4. ASSUME NEW p \in Peers, NEW f \in sealed, NEW claimed \in 0..(EpochLimit - 1),
             DecryptDamaged(p, f, claimed)
      PROVE  LiveTypeOK'
  <2>0. claimed \in Nat /\ epoch[p] \in Nat
    BY <1>0 DEF LiveTypeOK
  <2>1. Later(claimed, epoch[p]) \in Nat /\ Later(claimed, epoch[p]) >= epoch[p]
    BY <2>0 DEF Later
  <2>2. epoch' \in [Peers -> Nat] /\ frameCount' \in [Peers -> 0..(FrameLimit - 1)]
    BY <1>4, <2>1, Advanced DEF DecryptDamaged
  <2>3. upset' \in BOOLEAN
    BY <1>4 DEF DecryptDamaged, LiveTypeOK
  <2> QED
    BY <1>4, <2>2, <2>3 DEF DecryptDamaged, LiveTypeOK
<1>5. CASE UNCHANGED liveVars
  BY <1>5 DEF liveVars, LiveTypeOK
<1> QED
  BY <1>1, <1>2, <1>3, <1>4, <1>5 DEF LiveNext, DecryptVoice

LEMMA LiveStepInv == LiveIInv /\ [LiveNext]_liveVars => LiveIInv'
<1> SUFFICES ASSUME LiveIInv, [LiveNext]_liveVars PROVE LiveIInv'
  OBVIOUS
<1>0. /\ FrameLimit \in Nat /\ FrameLimit > 0 /\ EpochLimit \in Nat
      /\ \A p, q, r \in Peers : p # q /\ r # p => r = q
  BY LiveConstants
<1>t. LiveTypeOK /\ LiveTypeOK'
  BY LiveTypeStep DEF LiveIInv
<1>r. /\ \A p \in Peers : /\ epoch[p] \in Nat /\ sentFrames[p] \in Nat
                          /\ frameCount[p] \in 0..(FrameLimit - 1)
                          /\ frameCount[p] \in Nat
                          /\ lastSeq[p] \in Int
                          /\ GoneOf(p) \in Nat
      /\ \A f \in sealed : f.from \in Peers /\ f.epoch \in Nat /\ f.seq \in Nat
                           /\ Gone(f.epoch, 0) \in Nat
  <2>1. \A p \in Peers : /\ epoch[p] \in Nat /\ sentFrames[p] \in Nat
                         /\ frameCount[p] \in 0..(FrameLimit - 1)
                         /\ lastSeq[p] \in Int
    BY <1>t DEF LiveTypeOK
  <2>2. \A f \in sealed : f.from \in Peers /\ f.epoch \in Nat /\ f.seq \in Nat
    BY <1>0, <1>t DEF LiveTypeOK, Frames
  <2>3. \A p \in Peers : frameCount[p] \in Nat
    BY <1>0, <2>1
  <2>4. \A p \in Peers : GoneOf(p) \in Nat
    BY <2>1, <2>3, GoneTyped, Zenon DEF GoneOf
  <2>5. 0 \in Nat /\ \A f \in sealed : Gone(f.epoch, 0) \in Nat
    BY <2>2, GoneTyped
  <2> QED
    BY <2>1, <2>2, <2>3, <2>4, <2>5
<1>1. ASSUME NEW p \in Peers, EncryptFrame(p)
      PROVE  LiveIInv'
  <2> DEFINE new == [from |-> p, epoch |-> epoch[p], seq |-> sentFrames[p]]
  <2>1. /\ sealed' = sealed \cup {new}
        /\ sentFrames' = [sentFrames EXCEPT ![p] = @ + 1]
        /\ lastSeq' = lastSeq /\ upset' = upset
    BY <1>1 DEF EncryptFrame
  <2>2. /\ \A q \in Peers \ {p} : epoch'[q] = epoch[q] /\ frameCount'[q] = frameCount[q]
        /\ GoneOf(p)' = GoneOf(p) + 1
    BY <1>1, <1>t, <1>r, Advanced DEF EncryptFrame
  <2>3. /\ sentFrames'[p] = sentFrames[p] + 1
        /\ \A q \in Peers \ {p} : sentFrames'[q] = sentFrames[q]
    BY <1>t, <2>1 DEF LiveTypeOK
  <2>4. new.from = p /\ new.seq = sentFrames[p] /\ new.epoch = epoch[p]
    OBVIOUS
  <2>5. \A f \in sealed' : f.seq < sentFrames'[f.from]
    BY <1>r, <2>1, <2>3, <2>4 DEF LiveIInv
  <2>6. ASSUME NEW l \in Peers, NEW q \in Peers, sentFrames'[l] = 0, l # q
        PROVE  Listens(l, q)'
    <3>1. l # p /\ q = p /\ sentFrames[l] = 0
      BY <1>0, <1>r, <2>3, <2>6
    <3>2. Listens(l, p)
      BY <2>6, <3>1 DEF LiveIInv
    <3>3. Gone(epoch[p], 0) <= GoneOf(p)
      BY <1>0, <1>r DEF Gone, GoneOf
    <3>4. GoneOf(l)' = GoneOf(l) /\ frameCount'[l] = frameCount[l]
      BY <2>2, <3>1 DEF GoneOf
    <3>5. \A f \in sealed' : f.from = p /\ Gone(f.epoch, 0) <= f.seq
      BY <2>1, <2>4, <3>2, <3>3 DEF Listens
    <3> QED
      BY <1>r, <2>1, <2>2, <2>3, <3>1, <3>2, <3>4, <3>5 DEF Listens
  <2> QED
    BY <1>t, <2>5, <2>6 DEF LiveIInv
<1>2. ASSUME NEW p \in Peers, NEW f \in sealed, f.from # p,
             UNCHANGED <<sealed, sentFrames>>,
             \A q \in Peers \ {p} : /\ epoch'[q] = epoch[q] /\ frameCount'[q] = frameCount[q]
                                    /\ lastSeq'[q] = lastSeq[q],
             upset' \in BOOLEAN, upset => upset',
             \A q \in Peers : q # p /\ sentFrames[p] = 0 /\ ~upset' =>
                  /\ GoneOf(p)' <= sentFrames[q]
                  /\ frameCount'[p] = 0 \/ GoneOf(p)' <= lastSeq'[p] + 1
      PROVE  LiveIInv'
  <2>1. ASSUME NEW l \in Peers, NEW q \in Peers, sentFrames[l] = 0, l # q
        PROVE  Listens(l, q)'
    <3>1. f.from = q /\ Listens(l, q) /\ l = p
      BY <1>0, <1>2, <2>1 DEF LiveIInv, Listens
    <3>2. GoneOf(q)' = GoneOf(q)
      BY <1>2, <2>1, <3>1 DEF GoneOf
    <3> QED
      BY <1>2, <2>1, <3>1, <3>2 DEF Listens
  <2> QED
    BY <1>2, <1>t, <2>1 DEF LiveIInv
<1>3. ASSUME NEW p \in Peers, NEW f \in sealed, NEW numbered \in BOOLEAN,
             DecryptFrame(p, f, numbered)
      PROVE  LiveIInv'
  <2>1. /\ f.from # p /\ UNCHANGED <<sealed, sentFrames>>
        /\ upset' \in BOOLEAN /\ (upset => upset') /\ (~upset' => numbered)
    BY <1>3, <1>t DEF DecryptFrame, LiveTypeOK
  <2>2. CASE f.epoch >= epoch[p]
    <3>1. /\ Advance(p, f.epoch, 1)
          /\ lastSeq' = IF numbered THEN [lastSeq EXCEPT ![p] = f.seq] ELSE lastSeq
          /\ numbered => f.seq > lastSeq[p]
      BY <1>3, <2>2 DEF DecryptFrame
    <3>2. /\ \A q \in Peers \ {p} : epoch'[q] = epoch[q] /\ frameCount'[q] = frameCount[q]
          /\ GoneOf(p)' = IF f.epoch > epoch[p] THEN Gone(f.epoch, 0) + 1 ELSE GoneOf(p) + 1
      BY <1>r, <1>t, <2>2, <3>1, Advanced
    <3>3. \A q \in Peers \ {p} : lastSeq'[q] = lastSeq[q]
      BY <1>t, <3>1 DEF LiveTypeOK
    <3>4. ASSUME NEW q \in Peers, q # p, sentFrames[p] = 0, ~upset'
          PROVE  /\ GoneOf(p)' <= sentFrames[q]
                 /\ frameCount'[p] = 0 \/ GoneOf(p)' <= lastSeq'[p] + 1
      <4>1. Listens(p, q) /\ ~upset /\ numbered
        BY <2>1, <3>4 DEF LiveIInv
      <4>2. /\ f.from = q /\ Gone(f.epoch, 0) <= f.seq /\ f.seq < sentFrames[q]
        BY <4>1 DEF Listens, LiveIInv
      <4>3. lastSeq'[p] = f.seq /\ f.seq > lastSeq[p]
        BY <1>t, <3>1, <4>1 DEF LiveTypeOK
      <4>4. frameCount[p] = 0 => GoneOf(p) = Gone(epoch[p], 0)
        BY DEF GoneOf
      <4>5. frameCount[p] = 0 \/ GoneOf(p) <= lastSeq[p] + 1
        BY <4>1 DEF Listens
      <4>6. GoneOf(p)' <= f.seq + 1
        <5>1. CASE f.epoch > epoch[p]
          BY <1>r, <3>2, <4>2, <5>1
        <5>2. CASE f.epoch = epoch[p]
          BY <1>r, <3>2, <4>2, <4>3, <4>4, <4>5, <5>2
        <5> QED
          BY <1>r, <2>2, <5>1, <5>2
      <4>7. GoneOf(p)' \in Nat
        BY <1>r, <3>2
      <4> QED
        BY <1>r, <4>2, <4>3, <4>6, <4>7
    <3> QED
      BY <1>2, <2>1, <3>2, <3>3, <3>4
  <2>3. CASE ~(f.epoch >= epoch[p])
    <3>1. UNCHANGED <<epoch, frameCount, lastSeq>>
      BY <1>3, <2>3 DEF DecryptFrame
    <3>2. GoneOf(p)' = GoneOf(p)
      BY <3>1 DEF GoneOf
    <3>3. \A q \in Peers : q # p /\ sentFrames[p] = 0 /\ ~upset' =>
                  /\ GoneOf(p)' <= sentFrames[q]
                  /\ frameCount'[p] = 0 \/ GoneOf(p)' <= lastSeq'[p] + 1
      BY <2>1, <3>1, <3>2 DEF LiveIInv, Listens
    <3> QED
      BY <1>2, <2>1, <3>1, <3>3
  <2> QED
    BY <2>2, <2>3
<1>4. ASSUME NEW p \in Peers, NEW f \in sealed, NEW claimed \in 0..(EpochLimit - 1),
             DecryptDamaged(p, f, claimed)
      PROVE  LiveIInv'
  <2>1. /\ f.from # p /\ UNCHANGED <<sealed, sentFrames, lastSeq>>
        /\ upset' \in BOOLEAN /\ (upset => upset') /\ (~upset' => claimed = f.epoch)
        /\ Advance(p, Later(claimed, epoch[p]), 0)
    BY <1>4, <1>t DEF DecryptDamaged, LiveTypeOK
  <2> DEFINE to == Later(claimed, epoch[p])
  <2>2. to \in Nat /\ to >= epoch[p] /\ (to > epoch[p] => to = claimed)
    BY <1>0, <1>r DEF Later
  <2>3. /\ \A q \in Peers \ {p} : epoch'[q] = epoch[q] /\ frameCount'[q] = frameCount[q]
        /\ GoneOf(p)' = IF to > epoch[p] THEN Gone(to, 0) + 0 ELSE GoneOf(p) + 0
        /\ to > epoch[p] => frameCount'[p] = 0
        /\ to = epoch[p] => frameCount'[p] = frameCount[p]
    BY <1>t, <2>1, <2>2, Advanced
  <2>4. ASSUME NEW q \in Peers, q # p, sentFrames[p] = 0, ~upset'
        PROVE  /\ GoneOf(p)' <= sentFrames[q]
               /\ frameCount'[p] = 0 \/ GoneOf(p)' <= lastSeq'[p] + 1
    <3>1. Listens(p, q) /\ ~upset /\ claimed = f.epoch
      BY <2>1, <2>4 DEF LiveIInv
    <3>2. f.from = q /\ Gone(f.epoch, 0) <= f.seq /\ f.seq < sentFrames[q]
      BY <3>1 DEF Listens, LiveIInv
    <3>3. CASE to > epoch[p]
      BY <1>r, <2>2, <2>3, <3>1, <3>2, <3>3
    <3>4. CASE to = epoch[p]
      <4>1. GoneOf(p)' = GoneOf(p) /\ frameCount'[p] = frameCount[p] /\ lastSeq'[p] = lastSeq[p]
        BY <1>r, <2>1, <2>3, <3>4
      <4> QED
        BY <3>1, <4>1 DEF Listens
    <3> QED
      BY <1>r, <2>2, <3>3, <3>4
  <2> QED
    BY <1>2, <2>1, <2>3, <2>4
<1>5. ASSUME UNCHANGED <<epoch, frameCount, lastSeq, sealed, sentFrames, upset>>
      PROVE  LiveIInv'
  BY <1>5, <1>t DEF LiveIInv, Listens, GoneOf
<1>6. (\E p \in Peers : Join(p)) \/ UNCHANGED liveVars =>
          UNCHANGED <<epoch, frameCount, lastSeq, sealed, sentFrames, upset>>
  BY DEF Join, liveVars
<1> QED
  BY <1>1, <1>3, <1>4, <1>5, <1>6 DEF LiveNext, DecryptVoice

(* The ratchets of both ends and the frames under way keep their types     *)
(* (encrypt_frame() and decrypt_frame()).                                  *)
THEOREM LiveTyped == LiveSpec => []LiveTypeOK
<1>1. LiveIInv => LiveTypeOK
  BY DEF LiveIInv
<1> QED
  BY <1>1, LiveInitInv, LiveStepInv, PTL DEF LiveSpec

(* Whatever is lost, repeated or reordered, and for any length of epoch, a *)
(* peer that only calls decrypt_frame() is never in a later epoch than the *)
(* one it listens to, as long as its frames are numbered and no damaged    *)
(* header led it on.                                                       *)
THEOREM ListenerStaysInStep == LiveSpec => []ListenerInStep
<1>1. LiveIInv => ListenerInStep
  <2> SUFFICES ASSUME LiveIInv, NEW p \in Peers, sentFrames[p] = 0, ~upset,
                      NEW q \in Peers, q # p
               PROVE  epoch[p] <= epoch[q]
    BY DEF ListenerInStep
  <2>1. /\ epoch[p] \in Nat /\ frameCount[p] \in 0..(FrameLimit - 1)
        /\ epoch[q] \in Nat /\ frameCount[q] \in 0..(FrameLimit - 1)
    BY DEF LiveIInv, LiveTypeOK
  <2>2. GoneOf(p) <= GoneOf(q)
    BY DEF LiveIInv, Listens
  <2> QED
    BY <2>1, <2>2, GoneEpochs DEF GoneOf
<1> QED
  BY <1>1, LiveInitInv, LiveStepInv, PTL DEF LiveSpec

-----------------------------------------------------------------------------
(* The packages of a stream                                                *)
(*                                                                         *)
(* What was used up is what was written, lost or truncated, and the output *)
(* ascends. Where nothing was disturbed, the packages used up are the      *)
(* first ones, so that a call which began at the start and still goes on   *)
(* has written them all.                                                   *)

\* As long as nothing was disturbed, the packages the guard knows are the first ones.
FirstOpened == \E n \in 0..sentPkgs : openedPkgs = 1..n /\ position <= n + 1

\* What a call has written that began at the start.
WrittenFromStart ==
    position > 1 => Len(output) = position - 1 /\ \A i \in 1..Len(output) : output[i] = i

Ascending(s, strictly) ==
    \A i, j \in 1..Len(s) : i < j => IF strictly THEN s[i] < s[j] ELSE s[i] # s[j]

\* StreamTypeOK, variable by variable.
StreamFields ==
    /\ toFile \in BOOLEAN /\ sourceEnded \in BOOLEAN /\ inReceive \in BOOLEAN
    /\ disturbed \in BOOLEAN /\ returned \in BOOLEAN
    /\ sentPkgs \in 0..LastPackage
    /\ begun \in 1..(LastPackage + 1) /\ position \in 1..(LastPackage + 1)
    /\ openedPkgs \subseteq 1..sentPkgs
    /\ output \in Seq(Packages)
    /\ lost \subseteq openedPkgs /\ truncated \subseteq openedPkgs
    /\ ruined \subseteq openedPkgs

\* Each of the packages of "all" is in one of the four sets, and in one alone.
Parted(all, written, failed, cut, spoilt) ==
    /\ all = written \cup failed \cup cut \cup spoilt
    /\ written \cap failed = {} /\ written \cap cut = {} /\ written \cap spoilt = {}
    /\ failed \cap cut = {} /\ failed \cap spoilt = {} /\ cut \cap spoilt = {}

StreamIInv ==
    /\ StreamFields
    /\ Parted(openedPkgs, Range(output), lost, truncated, ruined)
    /\ Ascending(output, ~disturbed)
    /\ sourceEnded => sentPkgs > 0
    /\ ~disturbed => FirstOpened
    /\ ~disturbed /\ inReceive /\ begun = 1 => WrittenFromStart
    /\ returned => /\ ~inReceive /\ sourceEnded
                   /\ Len(output) = sentPkgs /\ \A i \in 1..Len(output) : output[i] = i

LEMMA StreamConstants == LastPackage \in Nat /\ LastPackage > 0 /\ Packages \subseteq Nat
BY StreamAssumption DEF Packages

LEMMA StreamTypes == (StreamTypeOK <=> StreamFields) /\ (StreamTypeOK' <=> StreamFields')
BY DEF StreamTypeOK, StreamFields

\* One more package goes one of the ways, and what was written may be truncated.
LEMMA OneMore ==
    ASSUME NEW all, NEW written, NEW failed, NEW cut, NEW spoilt, NEW x, x \notin all,
           Parted(all, written, failed, cut, spoilt)
    PROVE  /\ Parted(all \cup {x}, written \cup {x}, failed, cut, spoilt)
           /\ Parted(all \cup {x}, written, failed \cup {x}, cut, spoilt)
           /\ Parted(all \cup {x}, written, failed, cut, spoilt \cup {x})
BY DEF Parted

LEMMA FourWays ==
    ASSUME NEW all, NEW written, NEW failed, NEW cut, NEW spoilt, NEW fates,
           fates = <<written, failed, cut, spoilt>>, Parted(all, written, failed, cut, spoilt)
    PROVE  /\ UNION Range(fates) = all
           /\ \A a, b \in DOMAIN fates : a # b => fates[a] \cap fates[b] = {}
<1>1. DOMAIN fates = 1..4
  OBVIOUS
<1>2. fates[1] = written /\ fates[2] = failed /\ fates[3] = cut /\ fates[4] = spoilt
  OBVIOUS
<1>3. \A a \in DOMAIN fates : a = 1 \/ a = 2 \/ a = 3 \/ a = 4
  BY <1>1
<1>4. Range(fates) = {written, failed, cut, spoilt}
  BY <1>1, <1>2, <1>3 DEF Range
<1>5. UNION Range(fates) = all
  BY <1>4 DEF Parted
<1> QED
  BY <1>2, <1>3, <1>5 DEF Parted

LEMMA CutOff ==
    ASSUME NEW all, NEW written, NEW failed, NEW cut, NEW spoilt,
           Parted(all, written, failed, cut, spoilt)
    PROVE  Parted(all, {}, failed, cut \cup written, spoilt)
BY DEF Parted

LEMMA Written ==
    ASSUME NEW s \in Seq(Packages), NEW x \in Packages
    PROVE  /\ Append(s, x) \in Seq(Packages)
           /\ Len(s) \in Nat /\ Len(Append(s, x)) = Len(s) + 1
           /\ \A i \in 1..Len(s) : Append(s, x)[i] = s[i]
           /\ Append(s, x)[Len(s) + 1] = x
           /\ \A i \in 1..Len(s) : s[i] \in Packages /\ s[i] \in Nat /\ s[i] \in Range(s)
           /\ Range(Append(s, x)) = Range(s) \cup {x}
           /\ Range(s) = {} => Len(s) = 0
<1>1. /\ Append(s, x) \in Seq(Packages) /\ Len(s) \in Nat
      /\ Len(Append(s, x)) = Len(s) + 1
      /\ \A i \in 1..Len(s) : Append(s, x)[i] = s[i]
      /\ Append(s, x)[Len(s) + 1] = x
      /\ DOMAIN s = 1..Len(s) /\ DOMAIN Append(s, x) = 1..(Len(s) + 1)
  OBVIOUS
<1>2. \A i \in 1..Len(s) : s[i] \in Packages /\ s[i] \in Nat /\ s[i] \in Range(s)
  BY <1>1, ElementOfSeq, StreamConstants DEF Range
<1>3. Range(Append(s, x)) = Range(s) \cup {x}
  BY <1>1 DEF Range
<1>4. Range(s) = {} => Len(s) = 0
  BY <1>1, <1>2
<1> QED
  BY <1>1, <1>2, <1>3, <1>4

\* A number that is not in the sequence, or is beyond all that are, keeps the order.
LEMMA AppendAscends ==
    ASSUME NEW s \in Seq(Packages), NEW x \in Packages, NEW before \in BOOLEAN,
           NEW after \in BOOLEAN, after => before, Ascending(s, before),
           x \notin Range(s),
           after => \A y \in Range(s) : y < x
    PROVE  Ascending(Append(s, x), after)
<1> SUFFICES ASSUME NEW i \in 1..Len(Append(s, x)), NEW j \in 1..Len(Append(s, x)), i < j
             PROVE  IF after THEN Append(s, x)[i] < Append(s, x)[j]
                    ELSE Append(s, x)[i] # Append(s, x)[j]
  BY DEF Ascending
<1>1. i \in 1..Len(s) /\ Append(s, x)[i] = s[i] /\ s[i] \in Range(s) /\ s[i] \in Nat
  BY Written
<1>2. CASE j \in 1..Len(s)
  <2>1. Append(s, x)[j] = s[j] /\ s[j] \in Nat
    BY <1>2, Written
  <2>2. IF before THEN s[i] < s[j] ELSE s[i] # s[j]
    BY <1>1, <1>2 DEF Ascending
  <2> QED
    BY <1>1, <2>1, <2>2
<1>3. CASE j = Len(s) + 1
  <2>1. Append(s, x)[j] = x
    BY <1>3, Written
  <2> QED
    BY <1>1, <2>1
<1> QED
  BY <1>2, <1>3, Written

LEMMA AscendingWeaker ==
    ASSUME NEW s \in Seq(Packages), Ascending(s, TRUE)
    PROVE  Ascending(s, FALSE)
<1>1. \A i \in 1..Len(s) : s[i] \in Nat
  BY ElementOfSeq, StreamConstants
<1> QED
  BY <1>1 DEF Ascending

LEMMA StreamInitInv == StreamInit => StreamIInv
<1> SUFFICES ASSUME StreamInit PROVE StreamIInv
  OBVIOUS
<1>1. StreamFields
  <2>1. output \in Seq(Packages)
    BY EmptySeq DEF StreamInit
  <2>2. toFile \in BOOLEAN /\ sentPkgs \in 0..LastPackage /\ begun \in 1..(LastPackage + 1) /\ position \in 1..(LastPackage + 1)
    BY StreamConstants DEF StreamInit
  <2> QED
    BY <2>1, <2>2 DEF StreamInit, StreamFields
<1>2. Range(output) = {} /\ Len(output) = 0
  BY DEF StreamInit, Range
<1>3. FirstOpened
  <2>1. 0 \in 0..sentPkgs /\ openedPkgs = 1..0 /\ position <= 0 + 1
    BY DEF StreamInit
  <2> QED
    BY <2>1 DEF FirstOpened
<1> QED
  BY <1>1, <1>2, <1>3 DEF StreamInit, StreamIInv, Ascending, Parted

LEMMA StreamTypeStep == StreamIInv /\ [StreamNext]_streamVars => StreamFields'
<1> SUFFICES ASSUME StreamIInv, [StreamNext]_streamVars PROVE StreamFields'
  OBVIOUS
<1>1. LastPackage \in Nat /\ LastPackage > 0 /\ StreamFields
      /\ Range(output) \subseteq openedPkgs
  BY StreamConstants DEF StreamIInv, Parted
<1> USE DEF senderVars, StreamFields
<1>2. CASE SendPackage
  BY <1>1, <1>2 DEF SendPackage
<1>3. CASE EndSource
  BY <1>1, <1>3 DEF EndSource
<1>4. ASSUME NEW from \in {1, position}, BeginReceive(from) PROVE StreamFields'
  <2>1. position' \in 1..(LastPackage + 1) /\ begun' \in 1..(LastPackage + 1)
    BY <1>1, <1>4 DEF BeginReceive
  <2>2. output' \in Seq(Packages) /\ truncated' \subseteq openedPkgs
    <3>1. CASE toFile
      BY <1>1, <1>4, <3>1, EmptySeq DEF BeginReceive
    <3>2. CASE ~toFile
      BY <1>1, <1>4, <3>2 DEF BeginReceive
    <3> QED
      BY <3>1, <3>2
  <2>3. inReceive' \in BOOLEAN /\ returned' \in BOOLEAN
        /\ UNCHANGED <<toFile, sentPkgs, sourceEnded, openedPkgs, lost, ruined, disturbed>>
    BY <1>4 DEF BeginReceive
  <2> QED
    BY <1>1, <2>1, <2>2, <2>3
<1>5. ASSUME NEW i \in Packages, ReceivePackage(i) PROVE StreamFields'
  <2>1. i \in 1..LastPackage /\ i <= sentPkgs /\ position' \in 1..(LastPackage + 1)
        /\ disturbed' \in BOOLEAN
    BY <1>1, <1>5 DEF ReceivePackage, Packages
  <2>2. CASE i \in openedPkgs
    BY <1>1, <1>5, <2>1, <2>2 DEF ReceivePackage, Raise
  <2>3. CASE i \notin openedPkgs /\ Write(i)
    <3>1. output' \in Seq(Packages)
      BY <1>1, <2>3, Written DEF Write
    <3> QED
      <4>1. openedPkgs' = openedPkgs \cup {i} /\ openedPkgs' \subseteq 1..sentPkgs
        <5>1. openedPkgs' = openedPkgs \cup {i}
          BY <1>5, <2>3 DEF ReceivePackage
        <5>2. openedPkgs \subseteq 1..sentPkgs /\ i \in 1..sentPkgs
          BY <1>1, <2>1
        <5> QED
          BY <5>1, <5>2
      <4>2. UNCHANGED <<toFile, sentPkgs, sourceEnded, begun, truncated, ruined, returned, inReceive, lost>>
        BY <1>5, <2>3 DEF ReceivePackage, Write
      <4> QED
        BY <1>1, <2>1, <3>1, <4>1, <4>2
  <2>4. CASE i \notin openedPkgs /\ WriteFails(i)
    <3>1. openedPkgs' = openedPkgs \cup {i} /\ lost' = lost \cup {i} /\ inReceive' = FALSE
          /\ UNCHANGED <<toFile, sentPkgs, sourceEnded, begun, truncated, ruined, returned, output>>
      BY <1>5, <2>4 DEF ReceivePackage, WriteFails
    <3>2. openedPkgs' \subseteq 1..sentPkgs /\ lost' \subseteq openedPkgs'
      <4>1. openedPkgs \subseteq 1..sentPkgs /\ i \in 1..sentPkgs /\ lost \subseteq openedPkgs
        BY <1>1, <2>1
      <4> QED
        BY <3>1, <4>1
    <3> QED
      BY <1>1, <2>1, <3>1, <3>2
  <2> QED
    BY <1>5, <2>2, <2>3, <2>4 DEF ReceivePackage
<1>6. ASSUME NEW i \in Packages, DamagedPackage(i) PROVE StreamFields'
  <2>1. i \in 1..LastPackage /\ i \in 1..sentPkgs /\ position' \in 1..(LastPackage + 1)
    BY <1>1, <1>6 DEF DamagedPackage, Packages
  <2>2. disturbed' \in BOOLEAN /\ inReceive' \in BOOLEAN
    BY <1>6 DEF DamagedPackage
  <2>3. UNCHANGED <<toFile, sentPkgs, sourceEnded, begun, output, lost, truncated, returned>>
    BY <1>6 DEF DamagedPackage
  <2>4. \/ UNCHANGED <<openedPkgs, ruined>>
        \/ openedPkgs' = openedPkgs \cup {i} /\ ruined' = ruined \cup {i}
    BY <1>6 DEF DamagedPackage
  <2>5. /\ openedPkgs' \subseteq 1..sentPkgs /\ lost \subseteq openedPkgs'
        /\ truncated \subseteq openedPkgs' /\ ruined' \subseteq openedPkgs'
    BY <1>1, <2>1, <2>4
  <2> QED
    BY <1>1, <2>1, <2>2, <2>3, <2>5
<1>7. CASE EndReceive
  BY <1>1, <1>7 DEF EndReceive
<1>8. CASE UNCHANGED streamVars
  BY <1>1, <1>8 DEF streamVars
<1> QED
  BY <1>2, <1>3, <1>4, <1>5, <1>6, <1>7, <1>8 DEF StreamNext

\* What is known of the packages when nothing was disturbed.
LEMMA NextIsNew ==
    ASSUME StreamIInv, ~disturbed, position \in Packages, position <= sentPkgs,
           position \notin openedPkgs
    PROVE  /\ openedPkgs = 1..(position - 1)
           /\ openedPkgs \cup {position} = 1..position
           /\ \A y \in Range(output) : y < position
<1>1. PICK n \in 0..sentPkgs : openedPkgs = 1..n /\ position <= n + 1
  BY DEF StreamIInv, FirstOpened
<1>2. position \in Nat /\ position >= 1 /\ sentPkgs \in Nat /\ n \in Nat
  BY <1>1, StreamConstants DEF StreamIInv, StreamFields
<1>3. n = position - 1
  BY <1>1, <1>2
<1>4. Range(output) \subseteq 1..n
  BY <1>1 DEF StreamIInv, Parted
<1> QED
  BY <1>1, <1>2, <1>3, <1>4

LEMMA ReceiveInv ==
    ASSUME StreamIInv, StreamFields', NEW i \in Packages, ReceivePackage(i)
    PROVE  StreamIInv'
<1>0. /\ output \in Seq(Packages) /\ inReceive /\ i <= sentPkgs
      /\ position' = i + 1 /\ disturbed' = (disturbed \/ i # position)
      /\ UNCHANGED <<sentPkgs, sourceEnded, begun, truncated, ruined, returned>>
      /\ ~returned
  BY DEF StreamIInv, StreamFields, ReceivePackage, senderVars
<1>1. /\ i \in Nat /\ i >= 1 /\ sentPkgs \in Nat /\ position \in Nat /\ position >= 1
      /\ disturbed \in BOOLEAN /\ disturbed' \in BOOLEAN
  BY <1>0, StreamConstants DEF StreamIInv, StreamFields, Packages
<1>2. Parted(openedPkgs, Range(output), lost, truncated, ruined)
  BY DEF StreamIInv
<1>3. sourceEnded' => sentPkgs' > 0
  BY <1>0 DEF StreamIInv
<1>4. CASE i \in openedPkgs
  <2>1. inReceive' = FALSE /\ UNCHANGED <<openedPkgs, output, lost>>
    BY <1>4 DEF ReceivePackage, Raise
  <2>2. Ascending(output', ~disturbed')
    BY <1>0, <1>1, <2>1, AscendingWeaker DEF StreamIInv
  <2>3. ~disturbed' => FirstOpened'
    <3> SUFFICES ASSUME ~disturbed' PROVE FirstOpened'
      OBVIOUS
    <3>1. ~disturbed /\ i = position
      BY <1>0
    <3>2. PICK n \in 0..sentPkgs : openedPkgs = 1..n /\ position <= n + 1
      BY <3>1 DEF StreamIInv, FirstOpened
    <3>3. i + 1 <= n + 1
      BY <1>1, <1>4, <3>2
    <3> QED
      BY <1>0, <2>1, <3>2, <3>3 DEF FirstOpened
  <2> QED
    BY <1>0, <1>2, <1>3, <2>1, <2>2, <2>3 DEF StreamIInv
<1>5. CASE i \notin openedPkgs
  <2>1. openedPkgs' = openedPkgs \cup {i} /\ (Write(i) \/ WriteFails(i))
    BY <1>5 DEF ReceivePackage
  <2>2. i \notin Range(output)
    BY <1>2, <1>5 DEF Parted
  <2>3. ASSUME ~disturbed'
        PROVE  /\ ~disturbed /\ i = position
               /\ openedPkgs = 1..(i - 1) /\ openedPkgs' = 1..i
               /\ \A y \in Range(output) : y < i
    <3>1. ~disturbed /\ i = position
      BY <1>0, <2>3
    <3>2. /\ openedPkgs = 1..(position - 1) /\ openedPkgs \cup {position} = 1..position
          /\ \A y \in Range(output) : y < position
      BY <1>0, <1>5, <3>1, NextIsNew
    <3> QED
      BY <2>1, <3>1, <3>2
  <2>4. ~disturbed' => FirstOpened'
    <3> SUFFICES ASSUME ~disturbed' PROVE FirstOpened'
      OBVIOUS
    <3>1. i \in 0..sentPkgs' /\ openedPkgs' = 1..i /\ position' <= i + 1
      BY <1>0, <1>1, <2>3
    <3> QED
      BY <3>1 DEF FirstOpened
  <2>5. CASE WriteFails(i)
    <3>1. inReceive' = FALSE /\ lost' = lost \cup {i} /\ output' = output
      BY <2>5 DEF WriteFails
    <3>2. Ascending(output', ~disturbed')
      BY <1>0, <1>1, <3>1, AscendingWeaker DEF StreamIInv
    <3>3. Parted(openedPkgs, Range(output), lost, truncated, ruined)'
      <4>1. truncated' = truncated /\ ruined' = ruined
        BY <1>0
      <4>2. Parted(openedPkgs \cup {i}, Range(output), lost \cup {i}, truncated, ruined)
        BY <1>2, <1>5, OneMore
      <4> QED
        BY <2>1, <3>1, <4>1, <4>2
    <3> QED
      BY <1>0, <1>3, <2>4, <3>1, <3>2, <3>3 DEF StreamIInv
  <2>6. CASE Write(i)
    <3>1. inReceive' = inReceive /\ lost' = lost /\ output' = Append(output, i)
      BY <2>6 DEF Write
    <3>2. Ascending(output', ~disturbed')
      <4>1. Ascending(output, ~disturbed) /\ (~disturbed' => ~disturbed)
        BY <1>0 DEF StreamIInv
      <4>2. (~disturbed) \in BOOLEAN /\ (~disturbed') \in BOOLEAN
        OBVIOUS
      <4> QED
        BY <1>0, <2>2, <2>3, <3>1, <4>1, <4>2, AppendAscends
    <3>3. Parted(openedPkgs, Range(output), lost, truncated, ruined)'
      <4>1. Range(output)' = Range(output) \cup {i}
        BY <1>0, <3>1, Written
      <4>2. truncated' = truncated /\ ruined' = ruined
        BY <1>0
      <4>3. Parted(openedPkgs \cup {i}, Range(output) \cup {i}, lost, truncated, ruined)
        BY <1>2, <1>5, OneMore
      <4> QED
        BY <2>1, <3>1, <4>1, <4>2, <4>3
    <3>4. ~disturbed' /\ inReceive' /\ begun' = 1 => WrittenFromStart'
      <4> SUFFICES ASSUME ~disturbed', inReceive', begun' = 1 PROVE WrittenFromStart'
        OBVIOUS
      <4>1. WrittenFromStart /\ ~disturbed /\ i = position
        BY <1>0, <2>3 DEF StreamIInv
      <4>2. /\ Len(output) \in Nat /\ Len(output') = Len(output) + 1
            /\ \A k \in 1..Len(output) : output'[k] = output[k]
            /\ output'[Len(output) + 1] = i
            /\ Range(output) = {} => Len(output) = 0
        BY <1>0, <3>1, Written
      <4>3. Len(output) = position - 1 /\ \A k \in 1..Len(output) : output[k] = k
        <5>1. CASE position > 1
          BY <4>1, <5>1 DEF WrittenFromStart
        <5>2. CASE position = 1
          <6>1. openedPkgs = {}
            BY <2>3, <4>1, <5>2
          <6> QED
            BY <1>2, <4>2, <5>2, <6>1 DEF Parted
        <5> QED
          BY <1>1, <5>1, <5>2
      <4>4. Len(output') = i /\ \A k \in 1..Len(output') : output'[k] = k
        BY <1>1, <4>1, <4>2, <4>3
      <4> QED
        BY <1>0, <1>1, <4>4 DEF WrittenFromStart
    <3> QED
      BY <1>0, <1>3, <2>4, <3>1, <3>2, <3>3, <3>4 DEF StreamIInv
  <2> QED
    BY <2>1, <2>5, <2>6
<1> QED
  BY <1>4, <1>5

LEMMA StreamStepInv == StreamIInv /\ [StreamNext]_streamVars => StreamIInv'
<1> SUFFICES ASSUME StreamIInv, [StreamNext]_streamVars PROVE StreamIInv'
  OBVIOUS
<1>0. StreamFields /\ StreamFields'
  BY StreamTypeStep DEF StreamIInv
<1>n. /\ sentPkgs \in Nat /\ sentPkgs' \in Nat /\ position \in Nat /\ position >= 1
      /\ output \in Seq(Packages)
  BY <1>0, StreamConstants DEF StreamFields
<1>a. Ascending(output, ~disturbed) /\ Parted(openedPkgs, Range(output), lost, truncated, ruined)
  BY DEF StreamIInv
<1>1. ASSUME UNCHANGED <<inReceive, begun, position, openedPkgs, output, lost, truncated,
                         ruined, disturbed, returned>>,
             sentPkgs' >= sentPkgs, returned => UNCHANGED <<sentPkgs, sourceEnded>>,
             sourceEnded' => sentPkgs' > 0
      PROVE  StreamIInv'
  <2>1. FirstOpened => FirstOpened'
    <3> SUFFICES ASSUME FirstOpened PROVE FirstOpened'
      OBVIOUS
    <3>1. PICK n \in 0..sentPkgs : openedPkgs = 1..n /\ position <= n + 1
      BY DEF FirstOpened
    <3>2. n \in 0..sentPkgs'
      BY <1>1, <1>n, <3>1
    <3> QED
      BY <1>1, <3>1, <3>2 DEF FirstOpened
  <2> QED
    BY <1>0, <1>1, <1>a, <2>1 DEF StreamIInv, WrittenFromStart
<1>2. CASE SendPackage
  BY <1>1, <1>2, <1>n DEF SendPackage, StreamIInv
<1>3. CASE EndSource
  <2>1. /\ ~sourceEnded /\ sentPkgs' = IF sentPkgs = 0 THEN 1 ELSE sentPkgs
        /\ UNCHANGED <<inReceive, begun, position, openedPkgs, output, lost, truncated,
                       ruined, disturbed, returned>>
    BY <1>3 DEF EndSource
  <2>2. sentPkgs' >= sentPkgs /\ sentPkgs' > 0
    BY <1>n, <2>1
  <2>3. ~returned
    BY <2>1 DEF StreamIInv
  <2> QED
    BY <1>1, <2>1, <2>2, <2>3
<1>4. ASSUME NEW from \in {1, position}, BeginReceive(from) PROVE StreamIInv'
  <2>1. /\ from <= position /\ from >= 1 /\ position' = from /\ begun' = from /\ ~returned'
        /\ UNCHANGED <<sentPkgs, sourceEnded, openedPkgs, lost, ruined, disturbed>>
    BY <1>4, <1>n DEF BeginReceive, senderVars
  <2>2. Ascending(output', ~disturbed')
    <3>1. CASE toFile
      <4>1. output' = <<>> /\ Len(output') = 0
        BY <1>4, <3>1 DEF BeginReceive
      <4> QED
        BY <4>1 DEF Ascending
    <3>2. CASE ~toFile
      BY <1>4, <1>a, <2>1, <3>2 DEF BeginReceive
    <3> QED
      BY <3>1, <3>2
  <2>5. Parted(openedPkgs, Range(output), lost, truncated, ruined)'
    <3>1. CASE toFile
      <4>1. Range(output)' = {} /\ truncated' = truncated \cup Range(output)
        BY <1>4, <3>1 DEF BeginReceive, Range
      <4>2. Parted(openedPkgs, {}, lost, truncated \cup Range(output), ruined)
        BY <1>a, CutOff
      <4> QED
        BY <2>1, <4>1, <4>2
    <3>2. CASE ~toFile
      <4>1. UNCHANGED <<openedPkgs, output, lost, truncated, ruined>>
        BY <1>4, <2>1, <3>2 DEF BeginReceive
      <4> QED
        BY <1>a, <4>1
    <3> QED
      BY <3>1, <3>2
  <2>3. FirstOpened => FirstOpened'
    <3> SUFFICES ASSUME FirstOpened PROVE FirstOpened'
      OBVIOUS
    <3>1. PICK n \in 0..sentPkgs : openedPkgs = 1..n /\ position <= n + 1
      BY DEF FirstOpened
    <3>2. n \in 0..sentPkgs' /\ openedPkgs' = 1..n
      BY <2>1, <3>1
    <3>3. n \in Nat /\ position' \in Nat /\ position' <= position
      BY <1>0, <1>n, <2>1, <3>1, StreamConstants DEF StreamFields
    <3>4. position' <= n + 1
      BY <1>n, <3>1, <3>3
    <3> QED
      BY <3>2, <3>4 DEF FirstOpened
  <2>4. begun' = 1 => WrittenFromStart'
    BY <2>1 DEF WrittenFromStart
  <2> QED
    BY <1>0, <2>1, <2>2, <2>3, <2>4, <2>5 DEF StreamIInv
<1>5. ASSUME NEW i \in Packages, ReceivePackage(i) PROVE StreamIInv'
  BY <1>0, <1>5, ReceiveInv
<1>6. ASSUME NEW i \in Packages, DamagedPackage(i) PROVE StreamIInv'
  <2>1. /\ disturbed' /\ inReceive' = FALSE /\ inReceive
        /\ UNCHANGED <<sentPkgs, sourceEnded, output, lost, truncated, returned>>
    BY <1>6 DEF DamagedPackage, senderVars
  <2>2. Ascending(output', ~disturbed')
    <3>1. disturbed \in BOOLEAN /\ Ascending(output, FALSE)
      BY <1>0, <1>a, <1>n, AscendingWeaker DEF StreamFields
    <3>2. (~disturbed') = FALSE
      BY <2>1
    <3> QED
      BY <2>1, <3>1, <3>2
  <2>3. Parted(openedPkgs, Range(output), lost, truncated, ruined)'
    <3>1. CASE UNCHANGED <<openedPkgs, ruined>>
      BY <1>a, <2>1, <3>1
    <3>2. CASE i \notin openedPkgs /\ openedPkgs' = openedPkgs \cup {i}
               /\ ruined' = ruined \cup {i}
      <4>1. Parted(openedPkgs \cup {i}, Range(output), lost, truncated, ruined \cup {i})
        BY <1>a, <3>2, OneMore
      <4> QED
        BY <2>1, <3>2, <4>1
    <3> QED
      BY <1>6, <3>1, <3>2 DEF DamagedPackage
  <2> QED
    BY <1>0, <2>1, <2>2, <2>3 DEF StreamIInv
<1>7. CASE EndReceive
  <2>1. /\ inReceive /\ inReceive' = FALSE
        /\ returned' = (begun = 1 /\ ~disturbed /\ sourceEnded /\ position > sentPkgs)
        /\ UNCHANGED <<sentPkgs, sourceEnded, begun, position, openedPkgs, output, lost,
                       truncated, ruined, disturbed>>
    BY <1>7 DEF EndReceive, senderVars
  <2>2. ASSUME returned'
        PROVE  Len(output) = sentPkgs /\ (\A i \in 1..Len(output) : output[i] = i) /\ sourceEnded
    <3>1. begun = 1 /\ ~disturbed /\ sourceEnded /\ position > sentPkgs
      BY <2>1, <2>2
    <3>2. PICK n \in 0..sentPkgs : position <= n + 1
      BY <3>1 DEF StreamIInv, FirstOpened
    <3>3. position = sentPkgs + 1 /\ position > 1
      BY <1>n, <3>1, <3>2 DEF StreamIInv
    <3>4. WrittenFromStart
      BY <2>1, <3>1 DEF StreamIInv
    <3> QED
      BY <1>n, <3>1, <3>3, <3>4 DEF WrittenFromStart
  <2>3. FirstOpened => FirstOpened'
    BY <2>1 DEF FirstOpened
  <2> QED
    BY <1>0, <1>a, <2>1, <2>2, <2>3 DEF StreamIInv
<1>8. CASE UNCHANGED streamVars
  BY <1>1, <1>8, <1>n DEF streamVars, StreamIInv
<1> QED
  BY <1>2, <1>3, <1>4, <1>5, <1>6, <1>7, <1>8 DEF StreamNext

(* The packages, the output file and the call of ReceiveStream() keep      *)
(* their types.                                                            *)
THEOREM StreamTyped == StreamSpec => []StreamTypeOK
<1>1. StreamIInv => StreamTypeOK
  BY StreamTypes DEF StreamIInv
<1> QED
  BY <1>1, StreamInitInv, StreamStepInv, PTL DEF StreamSpec

(* Whatever fails and is received again, every package that                *)
(* ReceiveStream() used up is in the output once, or was truncated, or its *)
(* write failed, or came in a copy with a damaged chunk; without a         *)
(* disturbance a call that returned has written all of them in order.      *)
THEOREM StreamKeptAccount == StreamSpec => []StreamAccounted
<1>1. StreamIInv => StreamAccounted
  <2> SUFFICES ASSUME StreamIInv PROVE StreamAccounted
    OBVIOUS
  <2>1. output \in Seq(Packages) /\ DOMAIN output = 1..Len(output)
        /\ Len(output) \in Nat /\ disturbed \in BOOLEAN
    BY LenProperties DEF StreamIInv, StreamFields
  <2>2. \A i, j \in DOMAIN output : i < j =>
           IF disturbed THEN output[i] # output[j] ELSE output[i] < output[j]
    BY <2>1 DEF StreamIInv, Ascending
  <2>3. ASSUME returned PROVE output = [i \in 1..sentPkgs |-> i]
    <3>1. Len(output) = sentPkgs /\ \A i \in 1..Len(output) : output[i] = i
      BY <2>3 DEF StreamIInv
    <3>2. output \in [1..Len(output) -> Packages]
      BY <2>1, LenProperties
    <3> QED
      BY <3>1, <3>2
  <2>4. /\ Parted(openedPkgs, Range(output), lost, truncated, ruined)
        /\ Fates = <<Range(output), lost, truncated, ruined>>
    BY DEF StreamIInv, Fates
  <2>5. UNION Range(Fates) = openedPkgs
        /\ \A a, b \in DOMAIN Fates : a # b => Fates[a] \cap Fates[b] = {}
    BY <2>4, FourWays
  <2> QED
    BY <2>2, <2>3, <2>5 DEF StreamAccounted
<1> QED
  BY <1>1, StreamInitInv, StreamStepInv, PTL DEF StreamSpec

-----------------------------------------------------------------------------
(* The chunks of a file                                                    *)
(*                                                                         *)
(* TransferIsSource speaks of the end of a transfer. What carries it there *)
(* is, for every chunk that was ever sealed, which content its hash and    *)
(* its body come from (ChunkKept): the hash is that of the first content,  *)
(* or the writer came in pass 1 and every body is one of the second. The   *)
(* chunks of one call that pass the checks are then as many as the first   *)
(* content has, in as many different places, so each place is taken once;  *)
(* what they are joined to is read off block by block, and if the hash is  *)
(* no shorter than the second content, the two contents have one length.   *)
(*                                                                         *)
(* FlattenSeq() is recursive: that it returns the blocks in their order is *)
(* proved with the least place at which it would not (LeastNumber).        *)

Source(t) == sending[t].held[1]
Expected(t) == Total(Len(Source(t)))
ChunksOf(t) == {c \in chunks : c.transfer = t}

\* The first k chunks of a file that does not change.
Sent(t, k) ==
    {Chunk(t, i, Expected(t), Source(t), Read(Source(t), i)) : i \in 1..k}

\* Of a file that changed once, the hash is that of the first content, or the change came
\* in pass 1, and the chunks are of the second.
HashKept(c) ==
    LET held == sending[c.transfer].held
    IN  \/ c.file_hash = held[1]
        \/ /\ Len(held) = 2
           /\ Len(c.file_hash) >= Len(held[2])
           /\ Len(held[1]) > 0 => c.index <= Len(held[2]) /\ c.body = <<held[2][c.index]>>

ChunkKept(c) ==
    LET s == sending[c.transfer]
    IN  /\ s.step \in {"emit", "done"}
        /\ s.step = "emit" => c.index < s.at
        /\ c.total = Expected(c.transfer)
        /\ Len(Source(c.transfer)) = 0 => c.body = <<>>
        /\ Len(Source(c.transfer)) > 0 => \E b \in Blocks : c.body = <<b>>
        /\ Len(s.held) <= 2 => HashKept(c)

ChunksDistinct ==
    \A c, d \in chunks : c.transfer = d.transfer /\ c.index = d.index => c = d

\* What pass 1 has read of a file that has not changed, and what it ends with otherwise.
HashingKept(t) ==
    LET s == sending[t]
    IN  /\ s.size = Len(Source(t))
        /\ Len(s.hash) = s.at - 1
        /\ Len(s.held) = 1 => /\ content = s.held[1]
                             /\ s.at <= Len(content) + 1
                             /\ \A i \in 1..(s.at - 1) : s.hash[i] = content[i]
        /\ Len(s.held) = 2 => content = s.held[2]

EmittingKept(t) ==
    LET s == sending[t]
    IN  /\ s.size = Len(Source(t))
        /\ Len(s.held) = 1 => /\ content = s.held[1] /\ s.hash = s.held[1]
                             /\ s.at <= Expected(t) + 1 /\ ChunksOf(t) = Sent(t, s.at - 1)
        /\ Len(s.held) = 2 => /\ content = s.held[2]
                             /\ (s.hash = s.held[1] \/ Len(s.hash) >= Len(s.held[2]))

SenderKept(t) ==
    LET s == sending[t]
    IN  /\ s.at >= 1
        /\ s.step = "idle" => s.at = 1 /\ s.hash = <<>>
        /\ s.step # "idle" => Len(s.held) >= 1
        /\ s.step = "hash" => HashingKept(t)
        /\ s.step = "emit" => EmittingKept(t)
        /\ s.step = "done" /\ Len(s.held) = 1 => ChunksOf(t) = Sent(t, Expected(t))

\* A transfer that was delivered has no chunk left to be opened.
DeliveredKept(t) ==
    results[t] # <<>> =>
        /\ sending[t].step \in {"emit", "done"}
        /\ Len(results[t]) = 1
        /\ Len(sending[t].held) <= 2 =>
               \E i \in 1..Len(sending[t].held) : results[t][1] = sending[t].held[i]
        /\ \A i \in 1..Expected(t) :
               \E c \in opened \ rawChunks : c.transfer = t /\ c.index = i

ChunkIInv ==
    /\ ChunkTypeOK
    /\ IsFiniteSet(rawChunks)
    /\ \A c \in chunks : ChunkKept(c)
    /\ ChunksDistinct
    /\ \A t \in Transfers : SenderKept(t) /\ DeliveredKept(t)

\* Every set of numbers that is not empty has a least one.
LEMMA LeastNumber ==
    ASSUME NEW S, S \subseteq Nat, S # {}
    PROVE  \E x \in S : \A y \in S : x <= y
<1>1. PICK x \in S : \A y \in S : <<y, x>> \notin OpToRel(<, Nat)
  BY NatLessThanWellFounded, WFMin, Zenon
<1>2. \A y \in S : ~(y < x)
  BY <1>1 DEF OpToRel
<1> QED
  BY <1>2

\* What SetToSeq() makes of a finite set.
LEMMA ListOfSet ==
    ASSUME NEW S, IsFiniteSet(S)
    PROVE  /\ Cardinality(S) \in Nat
           /\ SetToSeq(S) \in [1..Cardinality(S) -> S]
           /\ \A i, j \in 1..Cardinality(S) : SetToSeq(S)[i] = SetToSeq(S)[j] => i = j
           /\ \A c \in S : \E i \in 1..Cardinality(S) : SetToSeq(S)[i] = c
<1>1. Cardinality(S) \in Nat /\ ExistsBijection(1..Cardinality(S), S)
  BY FS_CardinalityType
<1>2. PICK f : f \in Bijection(1..Cardinality(S), S)
  BY <1>1 DEF ExistsBijection
<1>3. f \in [1..Cardinality(S) -> S] /\ IsInjective(f)
  BY <1>2 DEF Bijection, Injection, IsInjective
<1>4. SetToSeq(S) \in [1..Cardinality(S) -> S] /\ IsInjective(SetToSeq(S))
  BY <1>3, Zenon DEF SetToSeq
<1>5. PICK g \in [1..Cardinality(S) -> S] : g = SetToSeq(S) /\ IsInjective(g)
  BY <1>4
<1>6. \A i, j \in 1..Cardinality(S) : g[i] = g[j] => i = j
  BY <1>5 DEF IsInjective
<1>7. g \in Injection(1..Cardinality(S), S)
  BY <1>5, <1>6 DEF Injection, IsInjective
<1>8. IsFiniteSet(1..Cardinality(S)) /\ Cardinality(1..Cardinality(S)) = Cardinality(S)
  BY <1>1, FS_Interval
<1>9. g \in Surjection(1..Cardinality(S), S)
  BY <1>7, <1>8, FS_Injection
<1>10. \A c \in S : \E i \in 1..Cardinality(S) : g[i] = c
  BY <1>9 DEF Surjection
<1> QED
  BY <1>1, <1>5, <1>6, <1>10

\* n different numbers from 1 to n are all of them.
LEMMA AllNumbers ==
    ASSUME NEW n \in Nat, NEW f \in [1..n -> 1..n],
           \A i, j \in 1..n : f[i] = f[j] => i = j
    PROVE  \A k \in 1..n : \E i \in 1..n : f[i] = k
<1>1. f \in Injection(1..n, 1..n)
  BY DEF Injection, IsInjective
<1>2. IsFiniteSet(1..n)
  BY FS_Interval
<1>3. f \in Surjection(1..n, 1..n)
  BY <1>1, <1>2, FS_Injection
<1> QED
  BY <1>3 DEF Surjection

\* A strictly ascending list of all numbers from 1 to n is in the place of each.
LEMMA AscendingIsIdentity ==
    ASSUME NEW n \in Nat, NEW f \in [1..n -> 1..n],
           \A i, j \in 1..n : i < j => f[i] < f[j],
           \A k \in 1..n : \E i \in 1..n : f[i] = k
    PROVE  \A k \in 1..n : f[k] = k
<1> DEFINE S == {k \in 1..n : f[k] # k}
<1> SUFFICES ASSUME S # {} PROVE FALSE
  OBVIOUS
<1>1. PICK k \in S : \A j \in S : k <= j
  <2>1. S \subseteq Nat
    OBVIOUS
  <2> HIDE DEF S
  <2> QED
    BY <2>1, LeastNumber
<1>2. k \in 1..n /\ f[k] # k /\ f[k] \in 1..n
  BY <1>1
<1>3. \A j \in 1..n : j < k => f[j] = j
  BY <1>1
<1>4. f[k] > k
  <2> SUFFICES ASSUME f[k] < k PROVE FALSE
    BY <1>2
  <2>1. f[f[k]] = f[k]
    BY <1>2, <1>3
  <2>2. f[f[k]] < f[k]
    BY <1>2
  <2> QED
    BY <1>2, <2>1, <2>2
<1>5. PICK i \in 1..n : f[i] = k
  BY <1>2
<1>6. CASE i < k
  BY <1>2, <1>3, <1>5, <1>6
<1>7. CASE i = k
  BY <1>2, <1>5, <1>7
<1>8. CASE i > k
  BY <1>2, <1>4, <1>5, <1>8
<1> QED
  BY <1>2, <1>6, <1>7, <1>8

\* n chunks whose indices are the numbers from 1 to n.
Complete(given, n) ==
    /\ DOMAIN given = 1..n
    /\ \A i \in 1..n : given[i].index \in 1..n
    /\ \A i, j \in 1..n : given[i].index = given[j].index => i = j

EachIndex(given, n) == \A k \in 1..n : \E i \in 1..n : given[i].index = k

BlockEach(given) == \A i \in DOMAIN given : \E b \in Blocks : given[i].body = <<b>>

\* No place is left empty.
LEMMA CompleteIndices ==
    ASSUME NEW n \in Nat, NEW given, Complete(given, n)
    PROVE  EachIndex(given, n)
<1> DEFINE at == [i \in 1..n |-> given[i].index]
<1>1. at \in [1..n -> 1..n] /\ \A i, j \in 1..n : at[i] = at[j] => i = j
  BY DEF Complete
<1>2. \A k \in 1..n : \E i \in 1..n : at[i] = k
  BY <1>1, AllNumbers
<1> QED
  BY <1>2 DEF EachIndex

\* sorted() brings a complete list of chunks into the order of the file.
LEMMA InOrderSorts ==
    ASSUME NEW n \in Nat, NEW given, Complete(given, n)
    PROVE  /\ InOrder(given) \in [1..n -> Range(given)]
           /\ \A k \in 1..n : InOrder(given)[k].index = k
<1> USE DEF Complete
<1> DEFINE place(k) == CHOOSE i \in 1..n : given[i].index = k
           ordered == [k \in 1..n |-> given[place(k)]]
<1>1. \A k \in 1..n : \E i \in 1..n : given[i].index = k
  <2>1. EachIndex(given, n)
    <3> HIDE DEF Complete
    <3> QED
      BY CompleteIndices
  <2> QED
    BY <2>1 DEF EachIndex
<1>2. \A k \in 1..n : place(k) \in 1..n /\ given[place(k)].index = k
  BY <1>1, Zenon
<1>3. \A i \in 1..n : place(given[i].index) = i
  BY <1>2
<1> HIDE DEF place
<1>4. Range(given) = {given[i] : i \in 1..n}
  BY Zenon DEF Range
<1>5. ordered \in [1..n -> Range(given)] /\ DOMAIN ordered = 1..n
  BY <1>2, <1>4
<1>6. Range(ordered) = Range(given)
  <2>1. Range(ordered) = {ordered[k] : k \in 1..n}
    BY <1>5, Zenon DEF Range
  <2>2. \A i \in 1..n : ordered[given[i].index] = given[i]
    BY <1>3
  <2> HIDE DEF ordered
  <2>3. ASSUME NEW c \in Range(given) PROVE c \in Range(ordered)
    BY <1>4, <2>1, <2>2, <2>3
  <2>4. ASSUME NEW c \in Range(ordered) PROVE c \in Range(given)
    BY <1>5, <2>1, <2>4
  <2> QED
    BY <2>3, <2>4
<1>7. \A i, j \in 1..n : i < j => ordered[i].index < ordered[j].index
  BY <1>2
<1> HIDE DEF ordered
<1>8. /\ InOrder(given) \in [1..n -> Range(given)]
      /\ Range(InOrder(given)) = Range(given)
      /\ \A i, j \in DOMAIN InOrder(given) : i < j => InOrder(given)[i].index < InOrder(given)[j].index
  BY <1>5, <1>6, <1>7, Zenon DEF InOrder
<1>9. PICK s \in [1..n -> Range(given)] :
          /\ s = InOrder(given)
          /\ Range(s) = Range(given)
          /\ \A i, j \in 1..n : i < j => s[i].index < s[j].index
  BY <1>8, Zenon
<1> DEFINE f == [k \in 1..n |-> s[k].index]
<1>10. \A k \in 1..n : \E i \in 1..n : s[k] = given[i]
  BY <1>4, <1>9
<1>11. f \in [1..n -> 1..n]
  BY <1>10
<1>12. \A i, j \in 1..n : i < j => f[i] < f[j]
  BY <1>9
<1>13. \A k \in 1..n : \E i \in 1..n : f[i] = k
  <2> SUFFICES ASSUME NEW k \in 1..n PROVE \E i \in 1..n : f[i] = k
    OBVIOUS
  <2>1. PICK j \in 1..n : given[j].index = k
    BY <1>1
  <2>2. given[j] \in Range(s)
    BY <1>4, <1>9
  <2>3. Range(s) = {s[i] : i \in 1..n}
    BY <1>9, Zenon DEF Range
  <2>4. PICK i \in 1..n : s[i] = given[j]
    BY <2>2, <2>3
  <2> QED
    BY <2>1, <2>4
<1>14. \A k \in 1..n : f[k] = k
  <2> HIDE DEF f
  <2> QED
    BY <1>11, <1>12, <1>13, AscendingIsIdentity
<1> QED
  BY <1>9, <1>14

\* b"".join() of bodies that are one block each.
LEMMA FlattenBlocks ==
    ASSUME NEW n \in Nat, n > 0, NEW b \in [1..n -> Blocks],
           NEW s, s = [i \in 1..n |-> <<b[i]>>]
    PROVE  FlattenSeq(s) = b
<1> DEFINE upto(i) == [k \in 1..i |-> b[k]]
           g == [i \in 1..n |-> upto(i)]
           P(f) == f = [i \in 1..n |-> IF i = 1 THEN s[i] ELSE f[i - 1] \o s[i]]
           flat == CHOOSE f : P(f)
<1>1. \A i \in 1..n : upto(i) \in Seq(Blocks) /\ Len(upto(i)) = i
  OBVIOUS
<1>2. upto(1) = s[1]
  BY DEF upto
<1>3. \A i \in 2..n : upto(i - 1) \o s[i] = upto(i)
  <2> TAKE i \in 2..n
  <2>1. i - 1 \in 1..n /\ i \in 1..n /\ upto(i - 1) \in Seq(Blocks) /\ Len(upto(i - 1)) = i - 1
    BY <1>1
  <2>2. s[i] = <<b[i]>> /\ b[i] \in Blocks
    BY <2>1
  <2> QED
    BY <2>1, <2>2
<1>4. P(g)
  <2>1. \A i \in 1..n : g[i] = upto(i)
    OBVIOUS
  <2>2. \A i \in 1..n : g[i] = IF i = 1 THEN s[i] ELSE g[i - 1] \o s[i]
    <3> HIDE DEF g, upto
    <3> TAKE i \in 1..n
    <3>1. CASE i = 1
      BY <1>2, <2>1, <3>1
    <3>2. CASE i # 1
      <4>1. i \in 2..n /\ i - 1 \in 1..n
        BY <3>2
      <4>2. g[i] = upto(i) /\ g[i - 1] = upto(i - 1)
        BY <2>1, <4>1
      <4> QED
        BY <1>3, <3>2, <4>1, <4>2
    <3> QED
      BY <3>1, <3>2
  <2>3. g = [i \in 1..n |-> g[i]]
    OBVIOUS
  <2> HIDE DEF g
  <2> QED
    BY <2>2, <2>3
<1>5. P(flat)
  <2> HIDE DEF P, g
  <2> QED
    BY <1>4, Zenon
<1>6. PICK f : f = flat /\ P(f)
  BY <1>5
<1> HIDE DEF flat, g
<1>7. f[1] = s[1] /\ \A i \in 2..n : f[i] = f[i - 1] \o s[i]
  <2>1. f = [i \in 1..n |-> IF i = 1 THEN s[i] ELSE f[i - 1] \o s[i]]
    BY <1>6
  <2>2. \A i \in 1..n : f[i] = IF i = 1 THEN s[i] ELSE f[i - 1] \o s[i]
    BY <2>1, Zenon
  <2>3. 1 \in 1..n /\ \A i \in 2..n : i \in 1..n /\ i # 1
    OBVIOUS
  <2> QED
    BY <2>2, <2>3, Zenon
<1> DEFINE S == {i \in 1..n : f[i] # upto(i)}
<1>8. S = {}
  <2> SUFFICES ASSUME S # {} PROVE FALSE
    OBVIOUS
  <2>1. PICK i \in S : \A j \in S : i <= j
    <3>1. S \subseteq Nat
      OBVIOUS
    <3> HIDE DEF S
    <3> QED
      BY <3>1, LeastNumber
  <2>2. i \in 1..n /\ f[i] # upto(i)
    BY <2>1
  <2>3. CASE i = 1
    BY <1>2, <1>7, <2>2, <2>3
  <2>4. CASE i # 1
    <3>1. i \in 2..n /\ i - 1 \in 1..n /\ i - 1 < i
      BY <2>2, <2>4
    <3> HIDE DEF upto
    <3>2. i - 1 \notin S
      <4> HIDE DEF S
      <4> QED
        BY <2>1, <2>2, <3>1
    <3>3. f[i - 1] = upto(i - 1)
      BY <3>1, <3>2
    <3> QED
      BY <1>3, <1>7, <2>2, <3>1, <3>3
  <2> QED
    BY <2>3, <2>4
<1>9. f[n] = upto(n)
  <2> HIDE DEF upto
  <2>1. n \in 1..n
    OBVIOUS
  <2> QED
    BY <1>8, <2>1
<1>10. FlattenSeq(s) = f[n]
  <2>1. Len(s) = n /\ DOMAIN s = 1..n
    OBVIOUS
  <2>2. FlattenSeq(s) = flat[Len(s)]
    BY <2>1 DEF FlattenSeq, flat, P
  <2> QED
    BY <1>6, <2>1, <2>2
<1>11. upto(n) = b
  OBVIOUS
<1> QED
  BY <1>9, <1>10, <1>11

\* b"".join() of one body.
LEMMA FlattenOne == ASSUME NEW x, NEW s, s = <<x>> PROVE FlattenSeq(s) = x
<1> DEFINE P(f) == f = [i \in 1..Len(s) |-> IF i = 1 THEN s[i] ELSE f[i - 1] \o s[i]]
           flat == CHOOSE f : P(f)
<1>1. Len(s) = 1 /\ s[1] = x
  OBVIOUS
<1>2. P([i \in 1..1 |-> x])
  BY <1>1
<1>3. P(flat)
  BY <1>2, Zenon
<1>4. flat[1] = x
  BY <1>1, <1>3
<1> QED
  BY <1>1, <1>4 DEF FlattenSeq

\* What a complete list of chunks of one block each is joined to.
LEMMA AssembledBlocks ==
    ASSUME NEW n \in Nat, n > 0, NEW given, Complete(given, n),
           BlockEach(given)
    PROVE  /\ Assembled(given) \in [1..n -> Blocks]
           /\ \A i \in 1..n : given[i].body = <<Assembled(given)[given[i].index]>>
<1>c. /\ DOMAIN given = 1..n
      /\ \A i \in 1..n : given[i].index \in 1..n
      /\ \A i, j \in 1..n : given[i].index = given[j].index => i = j
      /\ \A i \in 1..n : \E b \in Blocks : given[i].body = <<b>>
  BY DEF Complete, BlockEach
<1>1. PICK ordered \in [1..n -> Range(given)] :
          ordered = InOrder(given) /\ \A k \in 1..n : ordered[k].index = k
  BY InOrderSorts, Zenon
<1>2. \A i \in 1..n : ordered[given[i].index] = given[i]
  <2>1. Range(given) = {given[i] : i \in 1..n}
    BY <1>c, Zenon DEF Range
  <2>2. \A k \in 1..n : \E j \in 1..n : ordered[k] = given[j]
    BY <1>1, <2>1
  <2> TAKE i \in 1..n
  <2>3. PICK j \in 1..n : ordered[given[i].index] = given[j]
    BY <1>c, <2>2
  <2>4. given[j].index = given[i].index
    BY <1>c, <1>1, <2>3
  <2> QED
    BY <1>c, <2>3, <2>4
<1>3. \A k \in 1..n : \E b \in Blocks : ordered[k].body = <<b>>
  <2>1. \A k \in 1..n : \E i \in 1..n : given[i].index = k
    <3>1. EachIndex(given, n)
      BY CompleteIndices
    <3> QED
      BY <3>1 DEF EachIndex
  <2> TAKE k \in 1..n
  <2>2. PICK i \in 1..n : given[i].index = k
    BY <2>1
  <2>3. ordered[k] = given[i]
    BY <1>2, <2>2
  <2>4. PICK b \in Blocks : given[i].body = <<b>>
    BY <1>c
  <2> QED
    BY <2>3, <2>4
<1> DEFINE block(k) == CHOOSE b \in Blocks : ordered[k].body = <<b>>
           b == [k \in 1..n |-> block(k)]
           s == [k \in 1..n |-> ordered[k].body]
<1>4. \A k \in 1..n : block(k) \in Blocks /\ ordered[k].body = <<block(k)>>
  BY <1>3, Zenon
<1> HIDE DEF block
<1>5. b \in [1..n -> Blocks] /\ \A k \in 1..n : ordered[k].body = <<b[k]>>
  BY <1>4
<1>6. s = [k \in 1..n |-> <<b[k]>>]
  BY <1>5
<1>7. Assembled(given) = FlattenSeq(s)
  BY <1>c, <1>1, Zenon DEF Assembled
<1> HIDE DEF s, b
<1>8. FlattenSeq(s) = b
  BY <1>5, <1>6, FlattenBlocks
<1> QED
  BY <1>c, <1>2, <1>5, <1>7, <1>8

\* What the one chunk of an empty file is joined to.
LEMMA AssembledEmpty ==
    ASSUME NEW given, DOMAIN given = 1..1, given[1].index = 1, given[1].body = <<>>
    PROVE  Assembled(given) = <<>>
<1>1. PICK ordered \in [1..1 -> Range(given)] : ordered = InOrder(given)
  <2>1. /\ 1 \in Nat
        /\ \A i \in 1..1 : given[i].index \in 1..1
        /\ \A i, j \in 1..1 : given[i].index = given[j].index => i = j
    OBVIOUS
  <2> QED
    BY <2>1, InOrderSorts, Zenon DEF Complete
<1>2. ordered[1] = given[1]
  <2>1. Range(given) = {given[i] : i \in 1..1}
    BY Zenon DEF Range
  <2> QED
    BY <1>1, <2>1
<1> DEFINE s == [i \in 1..1 |-> ordered[i].body]
<1>3. Assembled(given) = FlattenSeq(s)
  BY <1>1, Zenon DEF Assembled
<1>4. s = << <<>> >>
  BY <1>2
<1> QED
  BY <1>3, <1>4, FlattenOne

-----------------------------------------------------------------------------
(* The invariant                                                           *)

USE ChunkAssumption

LEMMA FilesTyped == Files \subseteq Seq(Blocks)
<1> SUFFICES ASSUME NEW n \in 0..MaxBlocks, NEW f \in [1..n -> Blocks]
             PROVE  f \in Seq(Blocks)
  BY Zenon DEF Files
<1>1. n \in Nat
  OBVIOUS
<1> QED
  BY <1>1

\* The i-th chunk of a content that does not change.
LEMMA ChunkOfFile ==
    ASSUME NEW t \in Transfers, NEW f \in Seq(Blocks), NEW i \in 1..Total(Len(f)),
           NEW c, c = Chunk(t, i, Total(Len(f)), f, Read(f, i))
    PROVE  /\ c \in Chunks
           /\ c.transfer = t /\ c.index = i /\ c.total = Total(Len(f)) /\ c.file_hash = f
           /\ Len(f) = 0 => c.body = <<>>
           /\ Len(f) > 0 => i <= Len(f) /\ f[i] \in Blocks /\ c.body = <<f[i]>>
<1>1. Len(f) \in Nat /\ Total(Len(f)) \in Nat \ {0} /\ i \in Nat
  BY DEF Total
<1>2. c.transfer = t /\ c.index = i /\ c.total = Total(Len(f)) /\ c.file_hash = f
      /\ c.body = Read(f, i)
  BY Zenon DEF Chunk
<1>3. Len(f) > 0 => i <= Len(f) /\ f[i] \in Blocks /\ Read(f, i) = <<f[i]>>
  BY DEF Total, Read
<1>4. Len(f) = 0 => Read(f, i) = <<>>
  BY DEF Read
<1>5. Read(f, i) \in Seq(Blocks)
  <2>1. CASE Len(f) = 0
    BY <1>4, <2>1
  <2>2. CASE Len(f) > 0
    <3>1. \A b \in Blocks : <<b>> \in Seq(Blocks)
      OBVIOUS
    <3> QED
      BY <1>3, <2>2, <3>1
  <2> QED
    BY <1>1, <2>1, <2>2
<1>6. c \in Chunks
  BY <1>1, <1>5 DEF Chunk, Chunks
<1> QED
  BY <1>2, <1>3, <1>4, <1>6

LEMMA ChunkStays ==
    ASSUME NEW c, ChunkKept(c), sending'[c.transfer] = sending[c.transfer]
    PROVE  ChunkKept(c)'
BY DEF ChunkKept, HashKept, Expected, Source

LEMMA SenderStays ==
    ASSUME NEW t, SenderKept(t), sending'[t] = sending[t], ChunksOf(t)' = ChunksOf(t),
           content' = content \/ sending[t].step \notin {"hash", "emit"}
    PROVE  SenderKept(t)'
<1>1. Source(t)' = Source(t) /\ Expected(t)' = Expected(t)
  BY DEF Source, Expected
<1>2. \A k : Sent(t, k)' = Sent(t, k)
  BY <1>1 DEF Sent
<1>3. sending[t].step = "hash" => HashingKept(t)'
  BY <1>1 DEF SenderKept, HashingKept
<1>4. sending[t].step = "emit" => EmittingKept(t)'
  BY <1>1, <1>2 DEF SenderKept, EmittingKept
<1> QED
  BY <1>1, <1>2, <1>3, <1>4 DEF SenderKept

LEMMA DeliveredStays ==
    ASSUME NEW t, DeliveredKept(t), results'[t] = results[t],
           sending'[t] = sending[t], opened \ rawChunks \subseteq (opened \ rawChunks)'
    PROVE  DeliveredKept(t)'
<1>1. Expected(t)' = Expected(t)
  BY DEF Source, Expected
<1> QED
  BY <1>1 DEF DeliveredKept

\* Before the first chunk there is none, and nothing was delivered.
LEMMA NothingSent ==
    ASSUME ChunkIInv, NEW t \in Transfers, sending[t].step \in {"idle", "hash"}
    PROVE  ChunksOf(t) = {} /\ results[t] = <<>>
<1>1. \A c \in chunks : c.transfer # t
  BY DEF ChunkIInv, ChunkKept
<1> QED
  BY <1>1 DEF ChunkIInv, ChunksOf, DeliveredKept

LEMMA ChunkInitInv == ASSUME ChunkInit PROVE ChunkIInv
<1>1. ChunkTypeOK
  <2> DEFINE fresh == [step |-> "idle", size |-> 0, hash |-> <<>>, at |-> 1, held |-> <<>>]
  <2>1. fresh \in Progress
    <3>1. <<>> \in Seq(Blocks) /\ <<>> \in Seq(Seq(Blocks))
      BY EmptySeq
    <3> QED
      BY <3>1 DEF Progress
  <2>2. sending \in [Transfers -> Progress]
    <3>1. sending = [t \in Transfers |-> fresh]
      BY Zenon DEF ChunkInit
    <3> HIDE DEF fresh
    <3> QED
      BY <2>1, <3>1
  <2>3. content \in Seq(Blocks)
    BY FilesTyped DEF ChunkInit
  <2>4. results \in [Transfers -> Seq(Seq(Blocks))]
    <3>1. <<>> \in Seq(Seq(Blocks)) /\ results = [t \in Transfers |-> <<>>]
      BY EmptySeq DEF ChunkInit
    <3> QED
      BY <3>1
  <2>5. changes \in 0..MaxChanges
    BY DEF ChunkInit
  <2>6. chunks = {} /\ opened = {} /\ rawChunks = {} /\ receiving \in BOOLEAN
    BY DEF ChunkInit
  <2> QED
    BY <2>2, <2>3, <2>4, <2>5, <2>6 DEF ChunkTypeOK
<1>2. \A t \in Transfers : SenderKept(t) /\ DeliveredKept(t)
  BY DEF ChunkInit, SenderKept, DeliveredKept
<1> QED
  BY <1>1, <1>2, FS_EmptySet DEF ChunkInit, ChunkIInv, ChunksDistinct

\* One step of the sender of t that sends no chunk and delivers nothing.
LEMMA SenderStep ==
    ASSUME ChunkIInv, NEW t \in Transfers, NEW s \in Progress,
           sending' = [sending EXCEPT ![t] = s],
           UNCHANGED <<content, changes, chunks, opened, receiving, rawChunks, results>>,
           sending[t].step \in {"idle", "hash"}, SenderKept(t)'
    PROVE  ChunkIInv'
<1>1. ChunkTypeOK'
  BY DEF ChunkIInv, ChunkTypeOK
<1>2. ChunksOf(t) = {} /\ results[t] = <<>>
  BY NothingSent
<1>3. \A u \in Transfers : u # t => sending'[u] = sending[u]
  BY DEF ChunkIInv, ChunkTypeOK
<1>4. ASSUME NEW c \in chunks' PROVE ChunkKept(c)'
  <2>1. c \in chunks /\ c.transfer \in Transfers /\ c.transfer # t
    BY <1>2 DEF ChunkIInv, ChunkTypeOK, Chunks, ChunksOf
  <2>2. sending'[c.transfer] = sending[c.transfer] /\ ChunkKept(c)
    BY <1>3, <2>1 DEF ChunkIInv
  <2> QED
    BY <2>2, ChunkStays
<1>5. ASSUME NEW u \in Transfers PROVE SenderKept(u)' /\ DeliveredKept(u)'
  <2>1. CASE u = t
    BY <1>2, <2>1 DEF DeliveredKept
  <2>2. CASE u # t
    <3>1. SenderKept(u) /\ DeliveredKept(u)
      BY DEF ChunkIInv
    <3>2. ChunksOf(u)' = ChunksOf(u)
      BY DEF ChunksOf
    <3> QED
      BY <1>3, <2>2, <3>1, <3>2, SenderStays, DeliveredStays
  <2> QED
    BY <2>1, <2>2
<1> QED
  BY <1>1, <1>4, <1>5 DEF ChunkIInv, ChunksDistinct

LEMMA StatFileKeeps ==
    ASSUME ChunkIInv, NEW t \in Transfers, StatFile(t)
    PROVE  ChunkIInv'
<1> DEFINE s == [sending[t] EXCEPT !.step = "hash", !.size = Len(content), !.held = <<content>>]
<1>1. /\ sending[t] \in Progress /\ sending[t].step = "idle" /\ content \in Seq(Blocks)
      /\ sending[t].at = 1 /\ sending[t].hash = <<>>
  BY DEF ChunkIInv, ChunkTypeOK, SenderKept, StatFile
<1>2. /\ s.step = "hash" /\ s.size = Len(content) /\ s.held = <<content>>
      /\ s.at = 1 /\ s.hash = <<>>
  BY <1>1 DEF Progress
<1>3. s \in Progress
  <2>1. <<content>> \in Seq(Seq(Blocks)) /\ Len(content) \in Nat
    BY <1>1
  <2> QED
    BY <1>1, <2>1 DEF Progress
<1>4. sending' = [sending EXCEPT ![t] = s]
  BY Zenon DEF StatFile
<1> HIDE DEF s
<1>5. sending'[t] = s
  BY <1>4 DEF ChunkIInv, ChunkTypeOK
<1>6. SenderKept(t)'
  <2>1. Source(t)' = content /\ content' = content
    BY <1>2, <1>5 DEF Source, StatFile
  <2>2. HashingKept(t)'
    BY <1>1, <1>2, <1>5, <2>1 DEF HashingKept
  <2>3. sending'[t].step = "hash" /\ sending'[t].at = 1 /\ Len(sending'[t].held) = 1
    BY <1>2, <1>5
  <2> QED
    BY <2>2, <2>3 DEF SenderKept
<1> QED
  BY <1>1, <1>3, <1>4, <1>6, SenderStep DEF StatFile

LEMMA HashBlockKeeps ==
    ASSUME ChunkIInv, NEW t \in Transfers, HashBlock(t)
    PROVE  ChunkIInv'
<1>1. PICK s \in Progress, f \in Seq(Blocks) : s = sending[t] /\ f = content
  BY DEF ChunkIInv, ChunkTypeOK
<1>2. PICK at \in Nat, held \in Seq(Seq(Blocks)), read \in Seq(Blocks) :
          at = s.at /\ held = s.held /\ read = s.hash
  BY <1>1 DEF Progress
<1>3. /\ s.step = "hash" /\ at >= 1 /\ Len(held) >= 1 /\ s.size = Len(held[1])
      /\ Len(read) = at - 1
      /\ Len(held) = 1 => f = held[1] /\ at <= Len(f) + 1 /\ \A i \in 1..(at - 1) : read[i] = f[i]
      /\ Len(held) = 2 => f = held[2]
  BY <1>1, <1>2 DEF ChunkIInv, SenderKept, HashingKept, HashBlock, Source
<1>4. Len(held) \in Nat /\ Len(f) \in Nat /\ held[1] \in Seq(Blocks)
  <2>1. Len(held) \in Nat /\ 1 \in 1..Len(held)
    BY <1>3
  <2> QED
    BY <2>1, ElementOfSeq
<1>5. UNCHANGED <<content, changes, chunks, opened, receiving, rawChunks, results>>
  BY DEF HashBlock
<1>6. CASE at <= Len(f)
  <2>1. PICK b \in Blocks : b = f[at]
    BY <1>3, <1>6
  <2> DEFINE hash == Append(read, b)
  <2>2. /\ hash \in Seq(Blocks) /\ Len(hash) = at /\ hash[at] = b
        /\ \A i \in 1..(at - 1) : hash[i] = read[i]
    <3>1. Len(read) = at - 1
      BY <1>3
    <3>2. /\ hash \in Seq(Blocks) /\ Len(hash) = Len(read) + 1
          /\ \A i \in 1..Len(read) : hash[i] = read[i]
          /\ hash[Len(read) + 1] = b
      BY AppendProperties
    <3>3. Len(read) + 1 = at
      BY <3>1
    <3> QED
      BY <3>1, <3>2, <3>3
  <2> DEFINE next == at + 1
  <2>c. next \in Nat /\ next - 1 = at /\ next >= 1
    OBVIOUS
  <2> DEFINE more == [s EXCEPT !.hash = hash, !.at = next]
  <2> HIDE DEF next, hash
  <2>3. /\ more \in Progress
        /\ more.step = s.step /\ more.size = s.size /\ more.held = s.held
        /\ more.at = next /\ more.hash = hash
    BY <2>c, <2>2 DEF Progress
  <2>4. sending' = [sending EXCEPT ![t] = more]
    <3>1. sending' = [sending EXCEPT ![t].hash = Append(@, content[sending[t].at]),
                                     ![t].at = sending[t].at + 1]
      BY <1>1, <1>2, <1>6 DEF HashBlock
    <3> QED
      BY <1>1, <1>2, <2>1, <3>1 DEF next, hash
  <2>5. sending'[t] = more /\ content' = f
    BY <1>1, <2>4 DEF ChunkIInv, ChunkTypeOK, HashBlock
  <2> HIDE DEF more
  <2>6. Source(t)' = held[1]
    BY <1>2, <2>3, <2>5 DEF Source
  <2>7. Len(held) = 1 =>
            next <= Len(f) + 1 /\ \A i \in 1..(next - 1) : hash[i] = f[i]
    <3>1. \A i \in 1..(next - 1) : i \in 1..(at - 1) \/ i = at
      BY <2>c
    <3>2. next <= Len(f) + 1
      BY <1>4, <1>6 DEF next
    <3> QED
      BY <1>3, <2>1, <2>2, <3>1, <3>2
  <2>8. HashingKept(t)'
    <3>1. Len(hash) = next - 1
      BY <2>c, <2>2
    <3> QED
      BY <1>2, <1>3, <2>3, <2>5, <2>6, <2>7, <3>1 DEF HashingKept
  <2>9. SenderKept(t)'
    BY <1>2, <1>3, <2>c, <2>3, <2>5, <2>8 DEF SenderKept
  <2> QED
    BY <1>1, <1>3, <1>5, <2>3, <2>4, <2>9, SenderStep
<1>7. CASE at > Len(f)
  <2> DEFINE end == [s EXCEPT !.step = "emit", !.at = 1]
  <2>1. /\ end \in Progress
        /\ end.step = "emit" /\ end.size = s.size /\ end.held = s.held
        /\ end.at = 1 /\ end.hash = s.hash
    BY DEF Progress
  <2>2. sending' = [sending EXCEPT ![t] = end]
    <3>1. ~(at <= Len(f))
      BY <1>4, <1>7
    <3>2. sending' = [sending EXCEPT ![t].step = "emit", ![t].at = 1]
      BY <1>1, <1>2, <3>1 DEF HashBlock
    <3> QED
      BY <1>1, <3>2
  <2>3. sending'[t] = end /\ content' = f
    BY <1>1, <2>2 DEF ChunkIInv, ChunkTypeOK, HashBlock
  <2> HIDE DEF end
  <2>4. Source(t)' = held[1] /\ Expected(t)' = Total(Len(held[1]))
    BY <1>2, <2>1, <2>3 DEF Source, Expected
  <2>5. Len(held) = 1 => read = held[1]
    <3> SUFFICES ASSUME Len(held) = 1 PROVE read = f
      BY <1>3
    <3>1. Len(read) = Len(f) /\ \A i \in 1..Len(read) : read[i] = f[i]
      BY <1>3, <1>4, <1>7
    <3> QED
      BY <3>1, SeqEqual
  <2>6. Len(held) = 2 => Len(read) >= Len(held[2])
    BY <1>3, <1>4, <1>7
  <2>7. ChunksOf(t)' = Sent(t, 1 - 1)'
    <3>1. ChunksOf(t)' = {}
      BY <1>1, <1>3, NothingSent DEF ChunksOf, HashBlock
    <3> QED
      BY <3>1 DEF Sent
  <2>8. 1 <= Total(Len(held[1])) + 1
    BY <1>4 DEF Total
  <2>9. EmittingKept(t)'
    BY <1>2, <1>3, <2>1, <2>3, <2>4, <2>5, <2>6, <2>7, <2>8 DEF EmittingKept
  <2>10. SenderKept(t)'
    BY <1>2, <1>3, <2>1, <2>3, <2>9 DEF SenderKept
  <2> QED
    BY <1>1, <1>3, <1>5, <2>1, <2>2, <2>10, SenderStep
<1> QED
  BY <1>4, <1>6, <1>7

\* One step of the sender of t that sends chunks.
LEMMA ChunksStep ==
    ASSUME ChunkIInv, NEW t \in Transfers, NEW s \in Progress, NEW new \in SUBSET Chunks,
           sending' = [sending EXCEPT ![t] = s], chunks' = chunks \cup new,
           UNCHANGED <<content, changes, opened, receiving, rawChunks, results>>,
           \A c \in new : c.transfer = t /\ c.index \in 1..c.total,
           \A c \in ChunksOf(t) \cup new : ChunkKept(c)',
           \A c \in new, d \in ChunksOf(t) \cup new : c.index = d.index => c = d,
           SenderKept(t)', DeliveredKept(t)'
    PROVE  ChunkIInv'
<1>1. ChunkTypeOK'
  BY DEF ChunkIInv, ChunkTypeOK
<1>2. \A u \in Transfers : u # t => sending'[u] = sending[u]
  BY DEF ChunkIInv, ChunkTypeOK
<1>3. ASSUME NEW c \in chunks' PROVE ChunkKept(c)'
  <2>1. CASE c \in ChunksOf(t) \cup new
    BY <2>1
  <2>2. CASE c \notin ChunksOf(t) \cup new
    <3>1. c \in chunks /\ c.transfer \in Transfers /\ c.transfer # t
      BY <2>2 DEF ChunkIInv, ChunkTypeOK, Chunks, ChunksOf
    <3>2. sending'[c.transfer] = sending[c.transfer] /\ ChunkKept(c)
      BY <1>2, <3>1 DEF ChunkIInv
    <3> QED
      BY <3>2, ChunkStays
  <2> QED
    BY <2>1, <2>2
<1>4. ChunksDistinct'
  <2> SUFFICES ASSUME NEW c \in chunks', NEW d \in chunks',
                      c.transfer = d.transfer, c.index = d.index
               PROVE  c = d
    BY DEF ChunksDistinct
  <2>1. CASE c \in new
    BY <2>1 DEF ChunksOf
  <2>2. CASE d \in new
    BY <2>2 DEF ChunksOf
  <2>3. CASE c \in chunks /\ d \in chunks
    BY <2>3 DEF ChunkIInv, ChunksDistinct
  <2> QED
    BY <2>1, <2>2, <2>3
<1>5. ASSUME NEW u \in Transfers, u # t PROVE SenderKept(u)' /\ DeliveredKept(u)'
  <2>1. SenderKept(u) /\ DeliveredKept(u)
    BY DEF ChunkIInv
  <2>2. ChunksOf(u)' = ChunksOf(u)
    BY <1>5 DEF ChunksOf
  <2> QED
    BY <1>2, <1>5, <2>1, <2>2, SenderStays, DeliveredStays
<1>6. IsFiniteSet(rawChunks)'
  BY DEF ChunkIInv
<1> QED
  BY <1>1, <1>3, <1>4, <1>5, <1>6 DEF ChunkIInv

LEMMA SendWholeKeeps ==
    ASSUME ChunkIInv, NEW t \in Transfers, SendWhole(t)
    PROVE  ChunkIInv'
<1>1. PICK p \in Progress, f \in Seq(Blocks) : p = sending[t] /\ f = content
  BY DEF ChunkIInv, ChunkTypeOK
<1>2. p.step = "idle" /\ p.at = 1
  BY <1>1 DEF ChunkIInv, SenderKept, SendWhole
<1> DEFINE N == Total(Len(f))
           new == {Chunk(t, i, N, f, Read(f, i)) : i \in 1..N}
           s == [p EXCEPT !.step = "done", !.held = <<f>>]
<1>3. /\ s \in Progress
      /\ s.step = "done" /\ s.held = <<f>> /\ s.at = 1
  <2>1. <<f>> \in Seq(Seq(Blocks))
    OBVIOUS
  <2> QED
    BY <1>2, <2>1 DEF Progress
<1>4. /\ sending' = [sending EXCEPT ![t] = s] /\ chunks' = chunks \cup new
      /\ UNCHANGED <<content, changes, opened, receiving, rawChunks, results>>
  BY <1>1 DEF SendWhole
<1> HIDE DEF s
<1>5. sending'[t] = s
  BY <1>4 DEF ChunkIInv, ChunkTypeOK
<1>6. Source(t)' = f /\ Expected(t)' = N /\ Len(sending'[t].held) = 1
  <2>1. sending'[t].held = <<f>>
    BY <1>3, <1>5
  <2>2. Len(<<f>>) = 1 /\ <<f>>[1] = f
    OBVIOUS
  <2> QED
    BY <2>1, <2>2 DEF Source, Expected
<1>7. ChunksOf(t) = {} /\ results[t] = <<>>
  BY <1>1, <1>2, NothingSent
<1>8. ASSUME NEW c \in new
      PROVE  /\ c \in Chunks /\ c.transfer = t /\ c.index \in 1..N /\ c.total = N
             /\ c.file_hash = f
             /\ Len(f) = 0 => c.body = <<>>
             /\ Len(f) > 0 => \E b \in Blocks : c.body = <<b>>
  <2>1. PICK i \in 1..N : c = Chunk(t, i, N, f, Read(f, i))
    OBVIOUS
  <2> QED
    BY <2>1, ChunkOfFile
<1>9. \A c \in new, d \in new : c.index = d.index => c = d
  <2> SUFFICES ASSUME NEW i \in 1..N, NEW j \in 1..N,
                      Chunk(t, i, N, f, Read(f, i)).index = Chunk(t, j, N, f, Read(f, j)).index
               PROVE  i = j
    BY Zenon
  <2> QED
    BY DEF Chunk
<1>10. ChunksOf(t)' = new
  BY <1>4, <1>7, <1>8 DEF ChunksOf
<1>11. Sent(t, Expected(t))' = new
  BY <1>6 DEF Sent
<1> HIDE DEF new
<1>12. SenderKept(t)'
  <2>1. sending'[t].step = "done" /\ sending'[t].at = 1 /\ Len(sending'[t].held) = 1
    BY <1>3, <1>5, <1>6
  <2>2. ChunksOf(t)' = Sent(t, Expected(t))'
    BY <1>10, <1>11
  <2> QED
    BY <2>1, <2>2 DEF SenderKept
<1>13. DeliveredKept(t)'
  BY <1>4, <1>7 DEF DeliveredKept
<1>14. \A c \in new : ChunkKept(c)'
  <2> TAKE c \in new
  <2>1. HashKept(c)'
    BY <1>5, <1>6, <1>8 DEF HashKept, Source
  <2> QED
    BY <1>3, <1>5, <1>6, <1>8, <2>1 DEF ChunkKept
<1>15. new \in SUBSET Chunks /\ \A c \in new : c.transfer = t /\ c.index \in 1..c.total
  BY <1>8
<1>16. /\ \A c \in ChunksOf(t) \cup new : ChunkKept(c)'
       /\ \A c \in new, d \in ChunksOf(t) \cup new : c.index = d.index => c = d
  BY <1>7, <1>9, <1>14
<1> QED
  BY <1>3, <1>4, <1>12, <1>13, <1>15, <1>16, ChunksStep

\* While the chunks of t are sent, none of them is out of place for having been sent before,
\* and what was delivered stays delivered.
LEMMA EmitStays ==
    ASSUME ChunkIInv, NEW t \in Transfers, NEW s, sending[t].step = "emit",
           sending'[t] = s, s.held = sending[t].held,
           \/ s.step = "emit" /\ s.at = sending[t].at + 1
           \/ s.step = "done",
           UNCHANGED <<opened, rawChunks, results>>
    PROVE  /\ \A c \in ChunksOf(t) : c.index < sending[t].at /\ ChunkKept(c)'
           /\ DeliveredKept(t)'
           /\ Source(t)' = Source(t) /\ Expected(t)' = Expected(t)
<1>1. Source(t)' = Source(t) /\ Expected(t)' = Expected(t)
  BY DEF Source, Expected
<1>2. sending[t].at \in Nat
  BY DEF ChunkIInv, ChunkTypeOK, Progress
<1>3. ASSUME NEW c \in ChunksOf(t) PROVE c.index < sending[t].at /\ ChunkKept(c)'
  <2>1. c \in chunks /\ c.transfer = t /\ c.index \in Nat
    BY DEF ChunksOf, ChunkIInv, ChunkTypeOK, Chunks
  <2>2. ChunkKept(c)
    BY <2>1 DEF ChunkIInv
  <2>3. c.index < sending[t].at
    BY <2>1, <2>2 DEF ChunkKept
  <2>4. s.step = "emit" => c.index < s.at
    BY <1>2, <2>1, <2>3
  <2>5. HashKept(c)' = HashKept(c)
    BY <2>1 DEF HashKept
  <2> QED
    BY <1>1, <2>1, <2>2, <2>3, <2>4, <2>5 DEF ChunkKept
<1>4. DeliveredKept(t)'
  <2>1. DeliveredKept(t)
    BY DEF ChunkIInv
  <2> QED
    BY <1>1, <2>1 DEF DeliveredKept
<1> QED
  BY <1>1, <1>3, <1>4

LEMMA EmitChunkKeeps ==
    ASSUME ChunkIInv, NEW t \in Transfers, EmitChunk(t)
    PROVE  ChunkIInv'
<1>1. PICK p \in Progress, f \in Seq(Blocks) : p = sending[t] /\ f = content
  BY DEF ChunkIInv, ChunkTypeOK
<1>2. PICK at \in Nat, held \in Seq(Seq(Blocks)), hash \in Seq(Blocks) :
          at = p.at /\ held = p.held /\ hash = p.hash
  BY <1>1 DEF Progress
<1>3. PICK N : N = Total(Len(held[1]))
  OBVIOUS
<1>4. Source(t) = held[1] /\ Expected(t) = N
  BY <1>1, <1>2, <1>3 DEF Source, Expected
<1>5. /\ p.step = "emit" /\ at >= 1 /\ Len(held) >= 1 /\ p.size = Len(held[1])
      /\ Len(held) = 1 => /\ f = held[1] /\ hash = held[1]
                         /\ at <= N + 1 /\ ChunksOf(t) = Sent(t, at - 1)
      /\ Len(held) = 2 => f = held[2] /\ (hash = held[1] \/ Len(hash) >= Len(held[2]))
  BY <1>1, <1>2, <1>4 DEF ChunkIInv, SenderKept, EmittingKept, EmitChunk
<1>6. Len(held) \in Nat /\ Len(f) \in Nat /\ held[1] \in Seq(Blocks)
  <2>1. Len(held) \in Nat /\ 1 \in 1..Len(held)
    BY <1>5
  <2> QED
    BY <2>1, ElementOfSeq
<1>7. Len(held[1]) \in Nat /\ N \in Nat \ {0} /\ (Len(held[1]) > 0 => N = Len(held[1]))
      /\ (Len(held[1]) = 0 => N = 1)
  BY <1>3, <1>6 DEF Total
<1>8. UNCHANGED <<content, changes, opened, receiving, rawChunks, results>>
  BY DEF EmitChunk
<1> DEFINE body == IF Len(held[1]) = 0 THEN <<>> ELSE Read(f, at)
<1>9. CASE at <= N /\ (Len(held[1]) = 0 \/ body # <<>>)
  <2> DEFINE c == Chunk(t, at, N, hash, body)
             s == [p EXCEPT !.at = at + 1]
  <2>1. sending' = [sending EXCEPT ![t] = s] /\ chunks' = chunks \cup {c}
    <3>1. /\ chunks' = chunks \cup {c}
          /\ sending' = [sending EXCEPT ![t].at = @ + 1]
      BY <1>1, <1>2, <1>3, <1>5, <1>9 DEF EmitChunk
    <3> QED
      BY <1>1, <1>2, <3>1
  <2>2. s \in Progress /\ s.step = "emit" /\ s.size = p.size /\ s.held = held
        /\ s.at = at + 1 /\ s.hash = hash
    <3>1. at + 1 \in Nat
      OBVIOUS
    <3>2. s \in Progress
      BY <3>1 DEF Progress
    <3> QED
      BY <1>2, <1>5, <3>2 DEF Progress
  <2> HIDE DEF s
  <2>3. sending'[t] = s
    BY <2>1 DEF ChunkIInv, ChunkTypeOK
  <2>4. /\ \A d \in ChunksOf(t) : d.index < at /\ ChunkKept(d)'
        /\ DeliveredKept(t)'
        /\ Source(t)' = held[1] /\ Expected(t)' = N
    BY <1>1, <1>2, <1>4, <1>5, <1>8, <2>2, <2>3, EmitStays
  <2>5. Len(held[1]) > 0 => at <= Len(f) /\ f[at] \in Blocks /\ body = <<f[at]>>
    <3> SUFFICES ASSUME Len(held[1]) > 0
                 PROVE  at <= Len(f) /\ f[at] \in Blocks /\ body = <<f[at]>>
      OBVIOUS
    <3>1. Read(f, at) # <<>> /\ body = Read(f, at)
      BY <1>7, <1>9
    <3>2. at <= Len(f) /\ body = <<f[at]>>
      BY <3>1 DEF Read
    <3> QED
      BY <1>5, <1>6, <3>2
  <2>6. Len(held[1]) = 0 => body = <<>>
    OBVIOUS
  <2>7. Read(held[1], at) = <<>> \/ Len(held[1]) > 0
    BY <1>5, <1>7 DEF Read
  <2>8. Len(held) = 1 => body = Read(held[1], at)
    BY <1>5, <1>7, <2>7
  <2>9. body \in Seq(Blocks)
    <3> HIDE DEF body
    <3>1. <<>> \in Seq(Blocks) /\ \A b \in Blocks : <<b>> \in Seq(Blocks)
      OBVIOUS
    <3>2. body = <<>> \/ \E b \in Blocks : body = <<b>>
      BY <1>7, <2>5, <2>6
    <3> QED
      BY <3>1, <3>2
  <2> HIDE DEF body
  <2>10. /\ c \in Chunks /\ c.transfer = t /\ c.index = at /\ c.total = N
         /\ c.file_hash = hash /\ c.body = body
    BY <1>7, <2>9 DEF Chunk, Chunks
  <2>11. ChunksOf(t)' = ChunksOf(t) \cup {c}
    BY <2>1, <2>10 DEF ChunksOf
  <2>12. Len(held) = 1 => ChunksOf(t)' = Sent(t, at + 1 - 1)'
    <3> SUFFICES ASSUME Len(held) = 1
                 PROVE  ChunksOf(t)' = Sent(t, at + 1 - 1)'
      OBVIOUS
    <3> DEFINE G(i) == Chunk(t, i, N, held[1], Read(held[1], i))
    <3>1. c = G(at)
      BY <1>5, <2>8
    <3>2. ChunksOf(t) = {G(i) : i \in 1..(at - 1)}
      BY <1>4, <1>5 DEF Sent
    <3>3. Sent(t, at + 1 - 1)' = {G(i) : i \in 1..at}
      <4>1. at + 1 - 1 = at
        OBVIOUS
      <4> QED
        BY <2>4, <4>1 DEF Sent
    <3> HIDE DEF G, c
    <3>4. 1..at = (1..(at - 1)) \cup {at}
      BY <1>5
    <3> QED
      BY <2>11, <3>1, <3>2, <3>3, <3>4
  <2> HIDE DEF c
  <2>13. Len(held) <= 2 => HashKept(c)'
    <3> SUFFICES ASSUME Len(held) <= 2 PROVE HashKept(c)'
      OBVIOUS
    <3>1. sending'[c.transfer].held = held
      BY <2>2, <2>3, <2>10
    <3>2. CASE hash = held[1]
      BY <2>10, <3>1, <3>2 DEF HashKept
    <3>3. CASE Len(held) = 2 /\ Len(hash) >= Len(held[2])
      BY <1>5, <2>5, <2>10, <3>1, <3>3 DEF HashKept
    <3>4. Len(held) = 1 \/ Len(held) = 2
      <4>1. PICK n : n = Len(held) /\ n \in Nat /\ n >= 1 /\ n <= 2
        BY <1>5, <1>6, Zenon
      <4>2. n = 1 \/ n = 2
        BY <4>1
      <4> QED
        BY <4>1, <4>2, Zenon
    <3> QED
      BY <1>5, <3>2, <3>3, <3>4, Zenon
  <2>14. ChunkKept(c)'
    <3>1. at < at + 1
      OBVIOUS
    <3> QED
      BY <1>7, <2>2, <2>3, <2>4, <2>5, <2>6, <2>10, <2>13, <3>1 DEF ChunkKept
  <2>15. EmittingKept(t)'
    <3>1. at + 1 <= N + 1
      BY <1>7, <1>9
    <3> QED
      BY <1>1, <1>5, <1>8, <2>2, <2>3, <2>4, <2>12, <3>1 DEF EmittingKept
  <2>16. SenderKept(t)'
    BY <1>5, <2>2, <2>3, <2>15 DEF SenderKept
  <2>17. {c} \in SUBSET Chunks /\ \A d \in {c} : d.transfer = t /\ d.index \in 1..d.total
    BY <1>5, <1>7, <1>9, <2>10
  <2>18. \A d \in ChunksOf(t) : d.index # at
    BY <2>4
  <2>19. /\ \A d \in ChunksOf(t) \cup {c} : ChunkKept(d)'
         /\ \A d \in {c}, e \in ChunksOf(t) \cup {c} : d.index = e.index => d = e
    BY <2>4, <2>10, <2>14, <2>18
  <2> QED
    BY <1>8, <2>1, <2>2, <2>4, <2>16, <2>17, <2>19, ChunksStep
<1>10. CASE ~(at <= N /\ (Len(held[1]) = 0 \/ body # <<>>))
  <2> DEFINE s == [p EXCEPT !.step = "done"]
  <2>n. PICK new \in SUBSET Chunks : new = {}
    OBVIOUS
  <2>1. sending' = [sending EXCEPT ![t] = s] /\ chunks' = chunks \cup new
    <3>1. /\ chunks' = chunks
          /\ sending' = [sending EXCEPT ![t].step = "done"]
      BY <1>1, <1>2, <1>3, <1>5, <1>10 DEF EmitChunk
    <3> QED
      BY <1>1, <1>2, <2>n, <3>1
  <2>2. s \in Progress /\ s.step = "done" /\ s.size = p.size /\ s.held = held
        /\ s.at = at /\ s.hash = hash
    BY <1>2, <1>5 DEF Progress
  <2> HIDE DEF s
  <2>3. sending'[t] = s
    BY <2>1 DEF ChunkIInv, ChunkTypeOK
  <2>4. /\ \A d \in ChunksOf(t) : ChunkKept(d)'
        /\ DeliveredKept(t)'
        /\ Source(t)' = held[1] /\ Expected(t)' = N
    BY <1>1, <1>2, <1>4, <1>5, <1>8, <2>2, <2>3, EmitStays
  <2>5. Len(held) = 1 => ChunksOf(t)' = Sent(t, Expected(t))'
    <3> SUFFICES ASSUME Len(held) = 1 PROVE ChunksOf(t)' = Sent(t, Expected(t))'
      OBVIOUS
    <3>1. at = N + 1
      <4>1. CASE at <= N
        <5>1. Len(held[1]) > 0 /\ Read(f, at) = <<>>
          BY <1>7, <1>10, <4>1
        <5> QED
          BY <1>5, <1>6, <1>7, <4>1, <5>1 DEF Read
      <4>2. CASE at > N
        BY <1>5, <1>7, <4>2
      <4> QED
        BY <1>7, <4>1, <4>2
    <3>2. at - 1 = N
      BY <1>7, <3>1
    <3>3. ChunksOf(t)' = ChunksOf(t)
      BY <2>n, <2>1 DEF ChunksOf
    <3> QED
      BY <1>4, <1>5, <2>4, <3>2, <3>3 DEF Sent
  <2>6. SenderKept(t)'
    BY <1>5, <2>2, <2>3, <2>5 DEF SenderKept
  <2>7. /\ \A d \in new : d.transfer = t /\ d.index \in 1..d.total
        /\ \A d \in ChunksOf(t) \cup new : ChunkKept(d)'
        /\ \A d \in new, e \in ChunksOf(t) \cup new : d.index = e.index => d = e
    BY <2>n, <2>4
  <2> QED
    BY <1>8, <2>1, <2>2, <2>4, <2>6, <2>7, ChunksStep
<1> QED
  BY <1>9, <1>10

\* The content of a transfer that is being sent is one more it had.
LEMMA HeldMore ==
    ASSUME NEW p \in Progress, NEW f \in Seq(Blocks), Len(p.held) >= 1,
           NEW s, s = [p EXCEPT !.held = Append(@, f)]
    PROVE  /\ s \in Progress
           /\ s.step = p.step /\ s.size = p.size /\ s.hash = p.hash /\ s.at = p.at
           /\ Len(p.held) \in Nat /\ Len(s.held) = Len(p.held) + 1
           /\ s.held[1] = p.held[1] /\ s.held[Len(p.held) + 1] = f
           /\ \A i \in 1..Len(p.held) : s.held[i] = p.held[i]
<1>1. p.held \in Seq(Seq(Blocks))
  BY DEF Progress
<1> DEFINE more == Append(p.held, f)
<1>2. /\ more \in Seq(Seq(Blocks)) /\ Len(more) = Len(p.held) + 1 /\ Len(p.held) \in Nat
      /\ \A i \in 1..Len(p.held) : more[i] = p.held[i]
      /\ more[Len(p.held) + 1] = f
  BY <1>1, AppendProperties
<1>3. s = [p EXCEPT !.held = more]
  OBVIOUS
<1> HIDE DEF more
<1>4. s \in Progress
  BY <1>2, <1>3 DEF Progress
<1>5. s.held = more /\ s.step = p.step /\ s.size = p.size /\ s.hash = p.hash /\ s.at = p.at
  BY <1>3 DEF Progress
<1>6. 1 \in 1..Len(p.held)
  BY <1>2
<1> QED
  BY <1>2, <1>4, <1>5, <1>6

\* What holds of a transfer whose file changes while it is sent.
LEMMA ChangeSending ==
    ASSUME ChunkIInv, NEW t \in Transfers, NEW f \in Files, ChangeFile(f),
           sending[t].step \in {"hash", "emit"}
    PROVE  /\ sending'[t] \in Progress
           /\ \A c \in ChunksOf(t) : ChunkKept(c)'
           /\ SenderKept(t)' /\ DeliveredKept(t)'
<1>1. PICK p \in Progress, g \in Seq(Blocks) : p = sending[t] /\ g = f
  BY FilesTyped DEF ChunkIInv, ChunkTypeOK
<1>2. PICK held \in Seq(Seq(Blocks)) : held = p.held
  BY <1>1 DEF Progress
<1>3. PICK s : s = [p EXCEPT !.held = Append(@, g)] /\ sending'[t] = s
  BY <1>1 DEF ChangeFile
<1>4. SenderKept(t) /\ DeliveredKept(t) /\ Len(held) >= 1
  BY <1>1, <1>2 DEF ChunkIInv, SenderKept
<1>5. PICK after : after = s.held
  OBVIOUS
<1>6. /\ s \in Progress
      /\ s.step = p.step /\ s.size = p.size /\ s.hash = p.hash /\ s.at = p.at
      /\ Len(held) \in Nat /\ Len(after) = Len(held) + 1
      /\ after[1] = held[1] /\ after[Len(held) + 1] = g
      /\ \A i \in 1..Len(held) : after[i] = held[i]
  BY <1>2, <1>3, <1>4, <1>5, HeldMore
<1>7. Source(t)' = Source(t) /\ Expected(t)' = Expected(t) /\ Source(t) = held[1]
  BY <1>1, <1>2, <1>3, <1>5, <1>6 DEF Source, Expected
<1>8. content' = g /\ chunks' = chunks /\ results' = results
      /\ opened' = opened /\ rawChunks' = rawChunks
  BY <1>1 DEF ChangeFile
<1>9. Len(after) # 1 /\ Len(after) >= 1
      /\ (Len(after) = 2 => Len(held) = 1 /\ after[2] = g)
      /\ (Len(after) <= 2 => Len(held) = 1)
  <2>1. PICK n : n = Len(held) /\ n \in Nat /\ n >= 1 /\ Len(after) = n + 1 /\ after[n + 1] = g
    BY <1>4, <1>6, Zenon
  <2>2. n + 1 # 1 /\ n + 1 >= 1 /\ (n + 1 = 2 => n = 1) /\ (n + 1 <= 2 => n = 1)
    BY <2>1
  <2> QED
    BY <2>1, <2>2, Zenon
<1>10. ASSUME NEW c \in ChunksOf(t) PROVE ChunkKept(c)'
  <2>1. c \in chunks /\ c.transfer = t
    BY DEF ChunksOf
  <2>2. ChunkKept(c)
    BY <2>1 DEF ChunkIInv
  <2>3. Len(after) <= 2 => HashKept(c)'
    <3> SUFFICES ASSUME Len(after) <= 2 PROVE c.file_hash = after[1]
      BY <1>3, <1>5, <2>1 DEF HashKept
    <3>1. Len(held) = 1
      BY <1>9
    <3> QED
      BY <1>1, <1>2, <1>6, <2>1, <2>2, <3>1 DEF ChunkKept, HashKept
  <2> QED
    BY <1>1, <1>3, <1>5, <1>6, <1>7, <2>1, <2>2, <2>3 DEF ChunkKept
<1>11. SenderKept(t)'
  <2>1. CASE p.step = "hash"
    <3>1. HashingKept(t)
      BY <1>1, <1>4, <2>1 DEF SenderKept
    <3>2. HashingKept(t)'
      BY <1>1, <1>3, <1>5, <1>6, <1>7, <1>8, <1>9, <3>1 DEF HashingKept
    <3> QED
      BY <1>1, <1>3, <1>4, <1>5, <1>6, <1>9, <2>1, <3>2 DEF SenderKept
  <2>2. CASE p.step = "emit"
    <3>1. EmittingKept(t)
      BY <1>1, <1>4, <2>2 DEF SenderKept
    <3>2. EmittingKept(t)'
      BY <1>1, <1>2, <1>3, <1>5, <1>6, <1>7, <1>8, <1>9, <3>1 DEF EmittingKept
    <3> QED
      BY <1>1, <1>3, <1>4, <1>5, <1>6, <1>9, <2>2, <3>2 DEF SenderKept
  <2> QED
    BY <1>1, <2>1, <2>2
<1>12. DeliveredKept(t)'
  <2> SUFFICES ASSUME results[t] # <<>> PROVE DeliveredKept(t)'
    BY <1>8 DEF DeliveredKept
  <2>1. /\ sending[t].step \in {"emit", "done"}
        /\ Len(results[t]) = 1
        /\ Len(held) = 1 => \E i \in 1..Len(held) : results[t][1] = held[i]
        /\ \A i \in 1..Expected(t) : \E c \in opened \ rawChunks : c.transfer = t /\ c.index = i
    <3>1. sending[t].held = held
      BY <1>1, <1>2
    <3>2. Len(held) = 1 => Len(held) <= 2
      OBVIOUS
    <3> QED
      BY <1>4, <3>1, <3>2, Zenon DEF DeliveredKept
  <2>2. Len(after) <= 2 => \E i \in 1..Len(after) : results[t][1] = after[i]
    <3> SUFFICES ASSUME Len(after) <= 2 PROVE \E i \in 1..Len(after) : results[t][1] = after[i]
      OBVIOUS
    <3>1. Len(held) = 1 /\ 1 \in 1..Len(after)
      BY <1>6, <1>9
    <3>2. results[t][1] = held[1]
      BY <2>1, <3>1
    <3> QED
      BY <1>6, <3>1, <3>2
  <2> QED
    BY <1>1, <1>3, <1>5, <1>6, <1>7, <1>8, <2>1, <2>2 DEF DeliveredKept
<1> QED
  BY <1>3, <1>6, <1>10, <1>11, <1>12

LEMMA ChangeFileKeeps ==
    ASSUME ChunkIInv, NEW f \in Files, ChangeFile(f)
    PROVE  ChunkIInv'
<1>1. \A t \in Transfers : sending[t].step \notin {"hash", "emit"} => sending'[t] = sending[t]
  BY DEF ChangeFile
<1>2. UNCHANGED <<chunks, opened, receiving, rawChunks, results>>
  BY DEF ChangeFile
<1>3. ASSUME NEW t \in Transfers
      PROVE  /\ sending'[t] \in Progress
             /\ \A c \in ChunksOf(t) : ChunkKept(c)'
             /\ SenderKept(t)' /\ DeliveredKept(t)'
  <2>1. CASE sending[t].step \in {"hash", "emit"}
    BY <2>1, ChangeSending
  <2>2. CASE sending[t].step \notin {"hash", "emit"}
    <3>1. sending'[t] = sending[t]
      BY <1>1, <2>2
    <3>2. SenderKept(t) /\ DeliveredKept(t) /\ ChunksOf(t)' = ChunksOf(t)
          /\ sending[t] \in Progress
      BY <1>2 DEF ChunkIInv, ChunkTypeOK, ChunksOf
    <3>3. \A c \in ChunksOf(t) : ChunkKept(c) /\ c.transfer = t
      BY DEF ChunkIInv, ChunksOf
    <3> QED
      BY <1>2, <2>2, <3>1, <3>2, <3>3, ChunkStays, SenderStays, DeliveredStays
  <2> QED
    BY <2>1, <2>2
<1>4. ChunkTypeOK'
  <2>1. sending' \in [Transfers -> Progress]
    BY <1>3 DEF ChangeFile
  <2>2. content' \in Seq(Blocks) /\ changes' \in 0..MaxChanges
    BY FilesTyped DEF ChunkIInv, ChunkTypeOK, ChangeFile
  <2> QED
    BY <1>2, <2>1, <2>2 DEF ChunkIInv, ChunkTypeOK
<1>5. ASSUME NEW c \in chunks' PROVE ChunkKept(c)'
  <2>1. c.transfer \in Transfers /\ c \in ChunksOf(c.transfer)
    BY <1>2 DEF ChunkIInv, ChunkTypeOK, Chunks, ChunksOf
  <2> QED
    BY <1>3, <2>1
<1> QED
  BY <1>2, <1>3, <1>4, <1>5 DEF ChunkIInv, ChunksDistinct

\* A step of the receiver that delivers nothing.
LEMMA ReceiverStep ==
    ASSUME ChunkIInv, UNCHANGED <<content, changes, sending, chunks, results>>,
           opened' \subseteq chunks, receiving' \in BOOLEAN, rawChunks' \subseteq opened',
           IsFiniteSet(rawChunks'), opened \ rawChunks \subseteq opened' \ rawChunks'
    PROVE  ChunkIInv'
<1>1. ChunkTypeOK'
  BY DEF ChunkIInv, ChunkTypeOK
<1>2. ASSUME NEW c \in chunks' PROVE ChunkKept(c)'
  BY ChunkStays DEF ChunkIInv
<1>3. ASSUME NEW t \in Transfers PROVE SenderKept(t)' /\ DeliveredKept(t)'
  <2>1. SenderKept(t) /\ DeliveredKept(t) /\ ChunksOf(t)' = ChunksOf(t)
    BY DEF ChunkIInv, ChunksOf
  <2> QED
    BY <2>1, SenderStays, DeliveredStays
<1> QED
  BY <1>1, <1>2, <1>3 DEF ChunkIInv, ChunksDistinct

LEMMA OpenCallKeeps == ASSUME ChunkIInv, OpenCall PROVE ChunkIInv'
<1>1. opened \subseteq chunks
  BY DEF ChunkIInv, ChunkTypeOK
<1> QED
  BY <1>1, FS_EmptySet, ReceiverStep DEF OpenCall

LEMMA DamagedChunkKeeps ==
    ASSUME ChunkIInv, NEW c \in chunks, DamagedChunk(c)
    PROVE  ChunkIInv'
<1>1. opened \subseteq chunks
  BY DEF ChunkIInv, ChunkTypeOK
<1>2. opened' \subseteq chunks /\ opened \subseteq opened'
  BY <1>1 DEF DamagedChunk
<1>3. /\ receiving' = FALSE /\ rawChunks' = {}
      /\ UNCHANGED <<content, changes, sending, chunks, results>>
  BY DEF DamagedChunk
<1>4. IsFiniteSet({})
  BY FS_EmptySet
<1>5. /\ receiving' \in BOOLEAN /\ rawChunks' \subseteq opened' /\ IsFiniteSet(rawChunks')
      /\ opened \ rawChunks \subseteq opened' \ rawChunks'
  BY <1>2, <1>3, <1>4
<1> QED
  BY <1>2, <1>3, <1>5, ReceiverStep

LEMMA OpenChunkKeeps ==
    ASSUME ChunkIInv, NEW c \in chunks, OpenChunk(c)
    PROVE  ChunkIInv'
<1>1. /\ opened \subseteq chunks /\ rawChunks \subseteq opened /\ receiving \in BOOLEAN
      /\ IsFiniteSet(rawChunks)
  BY DEF ChunkIInv, ChunkTypeOK
<1>2. CASE c \in opened
  BY <1>1, <1>2, FS_EmptySet, ReceiverStep DEF OpenChunk
<1>3. CASE c \notin opened
  <2>1. IsFiniteSet(rawChunks \cup {c})
    BY <1>1, FS_AddElement
  <2>2. /\ opened' = opened \cup {c} /\ rawChunks' = rawChunks \cup {c} /\ receiving' = receiving
        /\ UNCHANGED <<content, changes, sending, chunks, results>>
    BY <1>3 DEF OpenChunk
  <2> QED
    BY <1>1, <1>3, <2>1, <2>2, ReceiverStep
<1> QED
  BY <1>2, <1>3

\* The chunks of one call that can be reassembled are all chunks of a transfer, and what
\* they are joined to is what the file had at one moment, if it changed once at most.
LEMMA ReassembledKept ==
    ASSUME ChunkIInv, NEW given, given = SetToSeq(rawChunks), Reassembles(given)
    PROVE  /\ given[1].transfer \in Transfers
           /\ Assembled(given) \in Seq(Blocks)
           /\ sending[given[1].transfer].step \in {"emit", "done"}
           /\ \A i \in 1..Expected(given[1].transfer) :
                  \E c \in rawChunks : c.transfer = given[1].transfer /\ c.index = i
           /\ Expected(given[1].transfer) >= 1
           /\ Len(sending[given[1].transfer].held) <= 2 =>
                  \E i \in 1..Len(sending[given[1].transfer].held) :
                      Assembled(given) = sending[given[1].transfer].held[i]
<1>1. PICK n \in Nat : n = Cardinality(rawChunks)
  BY FS_CardinalityType DEF ChunkIInv
<1>2. given \in [1..n -> rawChunks]
  BY <1>1, ListOfSet, Zenon DEF ChunkIInv
<1>3. DOMAIN given = 1..n /\ Len(given) = n
  BY <1>2
<1>4. /\ given # <<>> /\ n = given[1].total
      /\ \A i \in 1..n : /\ given[i].transfer = given[1].transfer
                         /\ given[i].total = given[1].total
                         /\ given[i].file_hash = given[1].file_hash
      /\ \A i, j \in 1..n : given[i].index = given[j].index => i = j
      /\ Assembled(given) = given[1].file_hash
  BY <1>3 DEF Reassembles, SameTransfer
<1>5. n > 0
  BY <1>1, <1>2, <1>4
<1>6. 1 \in 1..n
  BY <1>5
<1>7. PICK t \in Transfers, hash \in Seq(Blocks) :
          t = given[1].transfer /\ hash = given[1].file_hash
  <2>1. given[1] \in Chunks
    BY <1>2, <1>6 DEF ChunkIInv, ChunkTypeOK
  <2> QED
    BY <2>1 DEF Chunks
<1>8. ASSUME NEW i \in 1..n
      PROVE  /\ given[i] \in rawChunks /\ given[i].transfer = t
             /\ given[i].index \in 1..n /\ given[i].file_hash = hash
             /\ ChunkKept(given[i])
  <2>1. given[i] \in rawChunks /\ given[i] \in chunks
    BY <1>2 DEF ChunkIInv, ChunkTypeOK
  <2> QED
    BY <1>4, <1>7, <2>1 DEF ChunkIInv, ChunkTypeOK
<1>9. \A k \in 1..n : \E i \in 1..n : given[i].index = k
  <2>1. Complete(given, n)
    BY <1>3, <1>4, <1>8 DEF Complete
  <2> QED
    <3>1. EachIndex(given, n)
      BY <2>1, CompleteIndices
    <3> QED
      BY <3>1 DEF EachIndex
<1>10. sending[t].step \in {"emit", "done"} /\ n = Expected(t)
  BY <1>4, <1>6, <1>7, <1>8 DEF ChunkKept
<1>11. \A i \in 1..n : \E c \in rawChunks : c.transfer = t /\ c.index = i
  BY <1>8, <1>9
<1>12. PICK held \in Seq(Seq(Blocks)) : held = sending[t].held
  BY DEF ChunkIInv, ChunkTypeOK, Progress
<1>13. Len(held) >= 1 /\ Len(held) \in Nat
  BY <1>10, <1>12 DEF ChunkIInv, SenderKept
<1>14. held[1] \in Seq(Blocks) /\ (Len(held) = 2 => held[2] \in Seq(Blocks))
  <2>1. \A i \in 1..Len(held) : held[i] \in Seq(Blocks)
    BY ElementOfSeq
  <2>2. 1 \in 1..Len(held) /\ (Len(held) = 2 => 2 \in 1..Len(held))
    <3>1. PICK m \in Nat : m = Len(held) /\ m >= 1
      BY <1>13
    <3>2. 1 \in 1..m /\ (m = 2 => 2 \in 1..m)
      BY <3>1
    <3> QED
      BY <3>1, <3>2, Zenon
  <2> QED
    BY <2>1, <2>2
<1>15. ASSUME Len(held) <= 2
       PROVE  \E i \in 1..Len(held) : hash = held[i]
  <2>1. CASE hash = held[1]
    <3>1. 1 \in 1..Len(held)
      BY <1>13
    <3> QED
      BY <2>1, <3>1
  <2>2. CASE hash # held[1]
    <3>1. /\ Len(held) = 2 /\ Len(hash) >= Len(held[2])
          /\ \A i \in 1..n : Len(held[1]) > 0 =>
                 given[i].index <= Len(held[2]) /\ given[i].body = <<held[2][given[i].index]>>
      <4>1. \A i \in 1..n : HashKept(given[i])
        BY <1>8, <1>12, <1>15 DEF ChunkKept
      <4> QED
        BY <1>6, <1>8, <1>12, <2>2, <4>1 DEF HashKept
    <3>2. PICK second \in Seq(Blocks) : second = held[2]
      BY <1>14, <3>1
    <3>3. Len(held[1]) \in Nat /\ Source(t) = held[1] /\ n = Total(Len(held[1]))
      BY <1>10, <1>12, <1>14 DEF Source, Expected
    <3>4. CASE Len(held[1]) = 0
      <4>1. n = 1
        BY <3>3, <3>4 DEF Total
      <4>2. given[1].index = 1 /\ given[1].body = <<>>
        <5>1. given[1].index \in 1..n /\ ChunkKept(given[1]) /\ given[1].transfer = t
          BY <1>6, <1>8
        <5>2. given[1].index = 1
          BY <4>1, <5>1
        <5> QED
          BY <3>3, <3>4, <5>1, <5>2 DEF ChunkKept
      <4>3. Assembled(given) = <<>>
        BY <1>3, <4>1, <4>2, AssembledEmpty
      <4>4. held[1] = <<>>
        BY <1>14, <3>4, EmptySeq
      <4> QED
        BY <1>4, <1>7, <2>2, <4>3, <4>4
    <3>5. CASE Len(held[1]) > 0
      <4>1. \A i \in 1..n : \E b \in Blocks : given[i].body = <<b>>
        BY <1>8, <3>3, <3>5 DEF ChunkKept
      <4>2. /\ hash \in [1..n -> Blocks]
            /\ \A i \in 1..n : given[i].body = <<hash[given[i].index]>>
        <5>1. Complete(given, n) /\ BlockEach(given)
          BY <1>3, <1>4, <1>8, <4>1 DEF Complete, BlockEach
        <5>2. Assembled(given) = hash
          BY <1>4, <1>7
        <5> QED
          BY <1>5, <5>1, <5>2, AssembledBlocks
      <4>3. \A k \in 1..n : k <= Len(second) /\ hash[k] = second[k]
        <5> TAKE k \in 1..n
        <5>1. PICK i \in 1..n : given[i].index = k
          BY <1>9
        <5>2. given[i].index <= Len(held[2]) /\ given[i].body = <<held[2][given[i].index]>>
          BY <3>1, <3>5
        <5>3. k <= Len(second) /\ given[i].body = <<second[k]>>
          BY <3>2, <5>1, <5>2, Zenon
        <5>4. given[i].body = <<hash[k]>>
          BY <4>2, <5>1, Zenon
        <5> QED
          BY <5>3, <5>4
      <4>4. Len(hash) = n
        BY <4>2
      <4>5. n \in 1..n /\ Len(second) \in Nat
        BY <1>5
      <4>6. Len(second) = n
        BY <3>1, <3>2, <4>3, <4>4, <4>5
      <4>7. hash = second
        BY <4>3, <4>4, <4>6, SeqEqual
      <4>8. 2 \in 1..Len(held)
        BY <3>1
      <4> QED
        BY <3>2, <4>7, <4>8
    <3> QED
      BY <3>3, <3>4, <3>5
  <2> QED
    BY <2>1, <2>2
<1> QED
  BY <1>4, <1>5, <1>7, <1>10, <1>11, <1>12, <1>15

LEMMA EndCallKeeps == ASSUME ChunkIInv, EndCall PROVE ChunkIInv'
<1>1. PICK given : given = SetToSeq(rawChunks)
  OBVIOUS
<1>2. CASE ~Reassembles(given)
  <2>1. /\ UNCHANGED <<content, changes, sending, chunks, results>>
        /\ opened' = opened /\ rawChunks' = {} /\ receiving' = FALSE
    BY <1>1, <1>2 DEF EndCall
  <2>2. opened \subseteq chunks
    BY DEF ChunkIInv, ChunkTypeOK
  <2> QED
    BY <2>1, <2>2, FS_EmptySet, ReceiverStep
<1>3. CASE Reassembles(given)
  <2>1. PICK t \in Transfers, content1 \in Seq(Blocks) :
            t = given[1].transfer /\ content1 = Assembled(given)
    BY <1>1, <1>3, ReassembledKept
  <2>2. /\ sending[t].step \in {"emit", "done"}
        /\ \A i \in 1..Expected(t) : \E c \in rawChunks : c.transfer = t /\ c.index = i
        /\ Expected(t) >= 1
        /\ Len(sending[t].held) <= 2 =>
               \E i \in 1..Len(sending[t].held) : content1 = sending[t].held[i]
    BY <1>1, <1>3, <2>1, ReassembledKept
  <2>3. /\ UNCHANGED <<content, changes, sending, chunks>>
        /\ opened' = opened /\ rawChunks' = {} /\ receiving' = FALSE
        /\ results' = [results EXCEPT ![t] = Append(@, content1)]
    BY <1>1, <1>3, <2>1 DEF EndCall
  <2>4. results[t] = <<>>
    <3> SUFFICES ASSUME results[t] # <<>> PROVE FALSE
      OBVIOUS
    <3>1. 1 \in 1..Expected(t)
      <4>1. Expected(t) \in Nat
        <5>1. PICK held \in Seq(Seq(Blocks)) : held = sending[t].held
          BY DEF ChunkIInv, ChunkTypeOK, Progress
        <5>2. Len(held) \in Nat /\ Len(held) >= 1
          BY <2>2, <5>1 DEF ChunkIInv, SenderKept
        <5>3. 1 \in 1..Len(held)
          BY <5>2
        <5>4. held[1] \in Seq(Blocks)
          BY <5>3, ElementOfSeq
        <5> QED
          BY <5>1, <5>4 DEF Expected, Source, Total
      <4> QED
        BY <2>2, <4>1
    <3>2. PICK c \in opened \ rawChunks : c.transfer = t /\ c.index = 1
      BY <3>1 DEF ChunkIInv, DeliveredKept
    <3>3. PICK d \in rawChunks : d.transfer = t /\ d.index = 1
      BY <2>2, <3>1
    <3>4. c \in chunks /\ d \in chunks
      BY DEF ChunkIInv, ChunkTypeOK
    <3>5. c = d
      BY <3>2, <3>3, <3>4 DEF ChunkIInv, ChunksDistinct
    <3> QED
      BY <3>5
  <2> DEFINE got == <<content1>>
  <2>5. got \in Seq(Seq(Blocks)) /\ Len(got) = 1 /\ got[1] = content1 /\ got # <<>>
    OBVIOUS
  <2>6. results'[t] = got /\ \A u \in Transfers : u # t => results'[u] = results[u]
    <3>1. Append(results[t], content1) = got
      BY <2>4
    <3> HIDE DEF got
    <3> QED
      BY <2>3, <3>1 DEF ChunkIInv, ChunkTypeOK
  <2>7. ChunkTypeOK'
    <3>1. results' \in [Transfers -> Seq(Seq(Blocks))]
      <4>1. results' = [results EXCEPT ![t] = got]
        BY <2>3, <2>4
      <4> HIDE DEF got
      <4> QED
        BY <2>5, <4>1 DEF ChunkIInv, ChunkTypeOK
    <3> QED
      BY <2>3, <3>1 DEF ChunkIInv, ChunkTypeOK
  <2> HIDE DEF got
  <2>8. ASSUME NEW c \in chunks' PROVE ChunkKept(c)'
    BY <2>3, ChunkStays DEF ChunkIInv
  <2>9. ASSUME NEW u \in Transfers PROVE SenderKept(u)' /\ DeliveredKept(u)'
    <3>1. SenderKept(u) /\ DeliveredKept(u) /\ ChunksOf(u)' = ChunksOf(u)
      BY <2>3 DEF ChunkIInv, ChunksOf
    <3>2. SenderKept(u)'
      BY <2>3, <3>1, SenderStays
    <3>3. CASE u # t
      BY <2>3, <2>6, <3>1, <3>2, <3>3, DeliveredStays
    <3>4. CASE u = t
      <4>1. Expected(t)' = Expected(t)
        BY <2>3 DEF Expected, Source
      <4>2. \A i \in 1..Expected(t) : \E c \in opened' \ rawChunks' : c.transfer = t /\ c.index = i
        BY <2>2, <2>3 DEF ChunkIInv, ChunkTypeOK
      <4>3. DeliveredKept(t)'
        BY <2>2, <2>3, <2>5, <2>6, <4>1, <4>2 DEF DeliveredKept
      <4> QED
        BY <3>2, <3>4, <4>3
    <3> QED
      BY <3>3, <3>4
  <2> QED
    BY <2>3, <2>7, <2>8, <2>9, FS_EmptySet DEF ChunkIInv, ChunksDistinct
<1> QED
  BY <1>2, <1>3

\* The chunks of a file that did not change can be reassembled.
LEMMA SentReassembles ==
    ASSUME NEW t \in Transfers, NEW f \in Seq(Blocks), NEW N, N = Total(Len(f)),
           NEW all, all = {Chunk(t, i, N, f, Read(f, i)) : i \in 1..N}
    PROVE  Reassembles(SetToSeq(all))
<1>1. N \in Nat \ {0} /\ Len(f) \in Nat /\ (Len(f) > 0 => N = Len(f)) /\ (Len(f) = 0 => N = 1)
  BY DEF Total
<1> DEFINE G == [i \in 1..N |-> Chunk(t, i, N, f, Read(f, i))]
<1>2. ASSUME NEW i \in 1..N
      PROVE  /\ G[i] \in all
             /\ G[i].transfer = t /\ G[i].index = i /\ G[i].total = N /\ G[i].file_hash = f
             /\ Len(f) = 0 => G[i].body = <<>>
             /\ Len(f) > 0 => i <= Len(f) /\ f[i] \in Blocks /\ G[i].body = <<f[i]>>
  <2>1. PICK c : c = Chunk(t, i, Total(Len(f)), f, Read(f, i))
    OBVIOUS
  <2>2. G[i] = c /\ c \in all
    BY <2>1
  <2> QED
    BY <2>1, <2>2, ChunkOfFile
<1>3. \A c \in all : \E i \in 1..N : c = G[i]
  OBVIOUS
<1>4. DOMAIN G = 1..N
  OBVIOUS
<1>5. G \in [1..N -> all]
  OBVIOUS
<1> HIDE DEF G
<1>6. G \in Bijection(1..N, all)
  <2>1. G \in Injection(1..N, all)
    <3>1. \A i, j \in 1..N : G[i] = G[j] => i = j
      BY <1>2
    <3> QED
      BY <1>4, <1>5, <3>1 DEF Injection, IsInjective
  <2>2. G \in Surjection(1..N, all)
    BY <1>3, <1>5 DEF Surjection
  <2> QED
    BY <2>1, <2>2 DEF Bijection
<1>7. IsFiniteSet(all) /\ Cardinality(all) = N
  <2>1. IsFiniteSet(1..N) /\ Cardinality(1..N) = N
    BY <1>1, FS_Interval
  <2> QED
    BY <1>6, <2>1, FS_Bijection DEF ExistsBijection
<1>8. PICK given : given = SetToSeq(all)
  OBVIOUS
<1>9. /\ given \in [1..N -> all]
      /\ \A i, j \in 1..N : given[i] = given[j] => i = j
  BY <1>7, <1>8, ListOfSet
<1>10. DOMAIN given = 1..N /\ Len(given) = N /\ given # <<>> /\ 1 \in 1..N
  BY <1>1, <1>9
<1>11. ASSUME NEW k \in 1..N
       PROVE  /\ given[k].index \in 1..N /\ given[k] = G[given[k].index]
              /\ given[k].transfer = t /\ given[k].total = N /\ given[k].file_hash = f
              /\ Len(f) = 0 => given[k].body = <<>>
              /\ Len(f) > 0 => \E b \in Blocks :
                     given[k].body = <<b>> /\ b = f[given[k].index] /\ given[k].index <= Len(f)
  <2>1. PICK i \in 1..N : given[k] = G[i]
    BY <1>3, <1>9
  <2> QED
    BY <1>2, <2>1
<1>12. \A i, j \in 1..N : given[i].index = given[j].index => i = j
  <2> SUFFICES ASSUME NEW i \in 1..N, NEW j \in 1..N, given[i].index = given[j].index
               PROVE  i = j
    OBVIOUS
  <2>1. given[i] = given[j]
    BY <1>11
  <2> QED
    BY <1>9, <2>1
<1>13. Complete(given, N)
  BY <1>10, <1>11, <1>12 DEF Complete
<1>14. Assembled(given) = f
  <2>1. CASE Len(f) = 0
    <3>1. N = 1 /\ f = <<>>
      BY <1>1, <2>1, EmptySeq
    <3>2. given[1].index = 1 /\ given[1].body = <<>>
      BY <1>10, <1>11, <2>1, <3>1
    <3> QED
      BY <1>10, <3>1, <3>2, AssembledEmpty
  <2>2. CASE Len(f) > 0
    <3>1. BlockEach(given)
      BY <1>10, <1>11, <2>2 DEF BlockEach
    <3>2. PICK a : a = Assembled(given)
      OBVIOUS
    <3>3. a \in [1..N -> Blocks] /\ \A i \in 1..N : given[i].body = <<a[given[i].index]>>
      BY <1>1, <1>13, <3>1, <3>2, AssembledBlocks
    <3>4. \A k \in 1..N : a[k] = f[k]
      <4> TAKE k \in 1..N
      <4>1. EachIndex(given, N)
        BY <1>1, <1>13, CompleteIndices
      <4>2. PICK i \in 1..N : given[i].index = k
        BY <4>1 DEF EachIndex
      <4>3. given[i].body = <<a[k]>> /\ given[i].body = <<f[k]>>
        BY <1>11, <2>2, <3>3, <4>2
      <4> QED
        BY <4>3
    <3>5. a \in Seq(Blocks) /\ Len(a) = Len(f)
      BY <1>1, <2>2, <3>3
    <3> QED
      BY <1>1, <2>2, <3>2, <3>4, <3>5, SeqEqual
  <2> QED
    BY <1>1, <2>1, <2>2
<1>15. SameTransfer(given)
  BY <1>10, <1>11 DEF SameTransfer
<1> QED
  BY <1>8, <1>10, <1>11, <1>12, <1>14, <1>15 DEF Reassembles

\* The invariant that the theorems below are read off from: every step of the sender, of the
\* writer of the file and of stream_receive_chunks() keeps it.
THEOREM ChunkInductive == ChunkSpec => []ChunkIInv
<1>1. ChunkInit => ChunkIInv
  BY ChunkInitInv
<1>2. ChunkIInv /\ [ChunkNext]_chunkVars => ChunkIInv'
  <2> SUFFICES ASSUME ChunkIInv, [ChunkNext]_chunkVars PROVE ChunkIInv'
    OBVIOUS
  <2>1. ASSUME NEW t \in Transfers, SendWhole(t) PROVE ChunkIInv'
    BY <2>1, SendWholeKeeps
  <2>2. ASSUME NEW t \in Transfers, StatFile(t) PROVE ChunkIInv'
    BY <2>2, StatFileKeeps
  <2>3. ASSUME NEW t \in Transfers, HashBlock(t) PROVE ChunkIInv'
    BY <2>3, HashBlockKeeps
  <2>4. ASSUME NEW t \in Transfers, EmitChunk(t) PROVE ChunkIInv'
    BY <2>4, EmitChunkKeeps
  <2>5. ASSUME NEW f \in Files, ChangeFile(f) PROVE ChunkIInv'
    BY <2>5, ChangeFileKeeps
  <2>6. CASE OpenCall
    BY <2>6, OpenCallKeeps
  <2>7. ASSUME NEW c \in chunks, OpenChunk(c) PROVE ChunkIInv'
    BY <2>7, OpenChunkKeeps
  <2>8. ASSUME NEW c \in chunks, DamagedChunk(c) PROVE ChunkIInv'
    BY <2>8, DamagedChunkKeeps
  <2>9. CASE EndCall
    BY <2>9, EndCallKeeps
  <2>10. CASE UNCHANGED chunkVars
    BY <2>10, ReceiverStep DEF chunkVars, ChunkIInv, ChunkTypeOK
  <2> QED
    BY <2>1, <2>2, <2>3, <2>4, <2>5, <2>6, <2>7, <2>8, <2>9, <2>10 DEF ChunkNext
<1> QED
  BY <1>1, <1>2, PTL DEF ChunkSpec

\* Every chunk and every progress record that create_chunked_stream_transfer() leaves is well
\* formed, whatever the writer of the file does in between.
THEOREM ChunkTyped == ChunkSpec => []ChunkTypeOK
<1>1. ChunkIInv => ChunkTypeOK
  BY DEF ChunkIInv
<1> QED
  BY <1>1, ChunkInductive, PTL

\* What stream_receive_chunks() returns is a content the file had while it was sent, if it
\* changed once at most; the chunks of a file that nobody changed can be reassembled; and a
\* transfer is delivered once: for any number of blocks, changes and transfers, and packages
\* that are lost, repeated, reordered or damaged.
THEOREM TransferDelivers == ChunkSpec => []TransferIsSource
<1>1. ChunkIInv => TransferIsSource
  <2> SUFFICES ASSUME ChunkIInv, NEW t \in Transfers
               PROVE  /\ Len(sending[t].held) <= 2 => Range(results[t]) \subseteq Range(sending[t].held)
                      /\ sending[t].step = "done" /\ Len(sending[t].held) = 1 =>
                             Reassembles(SetToSeq({c \in chunks : c.transfer = t}))
                      /\ Len(results[t]) <= 1
    BY DEF TransferIsSource
  <2>1. PICK held \in Seq(Seq(Blocks)), got \in Seq(Seq(Blocks)) :
            held = sending[t].held /\ got = results[t]
    BY DEF ChunkIInv, ChunkTypeOK, Progress
  <2>2. SenderKept(t) /\ DeliveredKept(t)
    BY DEF ChunkIInv
  <2>3. Len(got) <= 1
    <3>1. CASE got = <<>>
      BY <3>1
    <3>2. CASE got # <<>>
      <4>1. results[t] # <<>>
        BY <2>1, <3>2
      <4>2. Len(results[t]) = 1
        BY <2>2, <4>1, Zenon DEF DeliveredKept
      <4>3. Len(got) = 1
        BY <2>1, <4>2, Zenon
      <4> QED
        BY <4>3
    <3> QED
      BY <3>1, <3>2
  <2>4. ASSUME Len(held) <= 2 PROVE Range(got) \subseteq Range(held)
    <3>1. Range(got) = {got[i] : i \in 1..Len(got)} /\ Range(held) = {held[i] : i \in 1..Len(held)}
      <4>1. DOMAIN got = 1..Len(got) /\ DOMAIN held = 1..Len(held)
        OBVIOUS
      <4> QED
        BY <4>1, Zenon DEF Range
    <3>2. CASE got = <<>>
      BY <3>1, <3>2
    <3>3. CASE got # <<>>
      <4>1. Len(got) = 1 /\ \E i \in 1..Len(held) : got[1] = held[i]
        <5>1. results[t] # <<>> /\ Len(sending[t].held) <= 2
          BY <2>1, <2>4, <3>3, Zenon
        <5>2. /\ Len(results[t]) = 1
              /\ \E i \in 1..Len(sending[t].held) : results[t][1] = sending[t].held[i]
          BY <2>2, <5>1, Zenon DEF DeliveredKept
        <5> QED
          BY <2>1, <5>2, Zenon
      <4>2. \A i \in 1..Len(got) : i = 1
        BY <4>1
      <4> QED
        BY <3>1, <4>1, <4>2
    <3> QED
      BY <3>2, <3>3
  <2>5. ASSUME sending[t].step = "done", Len(held) = 1
        PROVE  Reassembles(SetToSeq(ChunksOf(t)))
    <3>1. PICK f \in Seq(Blocks) : f = held[1]
      <4>1. 1 \in 1..Len(held)
        BY <2>5
      <4> QED
        BY <4>1, ElementOfSeq
    <3>2. PICK N : N = Total(Len(f))
      OBVIOUS
    <3>3. Source(t) = f /\ Expected(t) = N
      BY <2>1, <3>1, <3>2 DEF Source, Expected
    <3>4. PICK all : all = ChunksOf(t)
      OBVIOUS
    <3>5. all = {Chunk(t, i, N, f, Read(f, i)) : i \in 1..N}
      BY <2>1, <2>2, <2>5, <3>3, <3>4 DEF SenderKept, Sent
    <3> QED
      BY <3>2, <3>4, <3>5, SentReassembles
  <2> QED
    BY <2>1, <2>3, <2>4, <2>5 DEF ChunksOf
<1> QED
  BY <1>1, ChunkInductive, PTL
=============================================================================
