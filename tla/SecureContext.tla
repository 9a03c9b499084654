--------------------------- MODULE SecureContext ---------------------------
(***************************************************************************)
(* The global context of secure/_context.py and aio/secure.py: the local   *)
(* identity, the keystore with the peers' cards, and the replay guard; and *)
(* the calls that use it without holding its lock throughout, receiving a  *)
(* package (secure/_engine.py, aio/_engine.py) and revoke_peer().          *)
(*                                                                         *)
(* There is one peer.  Its cards are model values, each one an object of   *)
(* the application; a keystore in memory hands out the object it was       *)
(* given, so revoking it revokes it for whoever holds it, and the other    *)
(* keystores hand out copies.                                              *)
(***************************************************************************)
EXTENDS Integers, FiniteSets

CONSTANTS
    Workers,          \* the threads, or tasks, that call the context
    Identities,       \* local identities
    Me,               \* the one the packages are for
    DefaultIdentity,  \* the one get_identity() creates
    NoIdentity,       \* none is set
    PeerCards,        \* card objects of the peer
    SealedWith,       \* those with the keys it seals with
    NoPeer,           \* no card is registered
    KeyStores,        \* the keystores configure() is given
    NonceStores,      \* the nonce stores the guards are made of
    Inbox,            \* the packages the peer has sent
    MaxConfigured     \* bound of the model: how often the context is configured

ASSUME ContextAssumption ==
    /\ {Me, DefaultIdentity} \subseteq Identities
    /\ NoIdentity \notin Identities
    /\ NoPeer \notin PeerCards
    /\ SealedWith \subseteq PeerCards
    /\ KeyStores # {} /\ NonceStores # {} /\ Inbox # {}
    /\ MaxConfigured \in Nat

VARIABLES
    keyKind,    \* keystores in memory, those that hand out copies, and async ones
    asyncGuard, \* the nonce stores that are async
    identity,   \* _identity
    keystore,   \* _keystore
    guardStore, \* the nonce store of _replay_guard (_noncestore itself is never read)
    peerIn,     \* the peer's card in each keystore, and whether the copy is revoked
    ownIn,      \* the local identities with a card in each keystore
    tasks,      \* the put() calls of async keystores that are scheduled
    deadCards,  \* the shared objects that were revoked
    marks,      \* the packages each nonce store has seen
    worker,     \* the call each worker is in
    configured, \* how often the context was configured
    revoked,    \* history: the peer was revoked, and not registered again
    unlisted,   \* history: the last put() of the identity's card failed or was dropped
    delivered   \* history: how often each package was delivered under each nonce store

contextVars == <<keyKind, asyncGuard, identity, keystore, guardStore, peerIn, ownIn,
                 tasks, deadCards, marks, worker, configured, revoked, unlisted,
                 delivered>>

kindVars == <<keyKind, asyncGuard>>
stableVars == <<kindVars, configured>>
ownVars == <<identity, ownIn, tasks, unlisted>>
peerVars == <<peerIn, deadCards, revoked>>
guardVars == <<marks, delivered>>

\* "object": the card is the object itself, and not a copy.
Entries == [card : PeerCards \cup {NoPeer}, revoked : BOOLEAN, object : BOOLEAN]

\* "after" is history: the card was looked up when the peer was revoked.
WorkerStates ==
    [step : {"idle", "card", "receiver", "guard", "marked", "opened", "revoke"},
     entry : Entries, package : Inbox, store : NonceStores, after : BOOLEAN]

ContextTypeOK ==
    /\ keyKind \in [KeyStores -> {"memory", "copies", "async"}]
    /\ asyncGuard \subseteq NonceStores
    /\ {revoked, unlisted} \subseteq BOOLEAN
    /\ identity \in Identities \cup {NoIdentity}
    /\ keystore \in KeyStores
    /\ guardStore \in NonceStores
    /\ peerIn \in [KeyStores -> Entries]
    /\ ownIn \in [KeyStores -> SUBSET Identities]
    /\ tasks \subseteq KeyStores \X Identities
    /\ deadCards \subseteq PeerCards
    /\ marks \in [NonceStores -> SUBSET Inbox]
    /\ worker \in [Workers -> WorkerStates]
    /\ configured \in 0..MaxConfigured
    /\ delivered \in [NonceStores -> [Inbox -> Nat]]

Nobody == [card |-> NoPeer, revoked |-> FALSE, object |-> FALSE]

AtRest == [step |-> "idle", entry |-> Nobody, package |-> CHOOSE p \in Inbox : TRUE,
           store |-> CHOOSE s \in NonceStores : TRUE, after |-> FALSE]

ContextInit ==
    /\ identity = NoIdentity
    /\ keystore = CHOOSE k \in KeyStores : TRUE
    /\ guardStore = CHOOSE s \in NonceStores : TRUE
    /\ keyKind \in {kinds \in [KeyStores -> {"memory", "copies", "async"}] :
                       kinds[keystore] = "memory"}
    /\ asyncGuard \in SUBSET (NonceStores \ {guardStore})
    /\ peerIn = [k \in KeyStores |-> Nobody]
    /\ ownIn = [k \in KeyStores |-> {}]
    /\ tasks = {}
    /\ deadCards = {}
    /\ marks = [s \in NonceStores |-> {}]
    /\ worker = [w \in Workers |-> AtRest]
    /\ configured = 0
    /\ revoked = FALSE
    /\ unlisted = FALSE
    /\ delivered = [s \in NonceStores |-> [p \in Inbox |-> 0]]

\* One more change of the context by the application.
Configured ==
    /\ configured < MaxConfigured
    /\ configured' = configured + 1

----------------------------------------------------------------------------
(* The local identity.                                                     *)

(* _safe_put_card() of the card of id in each of the "stores".  The put()  *)
(* of an async keystore becomes a task, or is dropped when no loop is      *)
(* running; one that raises ends the call after what it had assigned.      *)
PutOwn(id, stores) ==
    \E put \in SUBSET stores :
        /\ ownIn' = [k \in KeyStores |->
                        IF k \in put /\ keyKind[k] # "async" THEN ownIn[k] \cup {id} ELSE ownIn[k]]
        /\ tasks' = tasks \cup {<<k, id>> : k \in {s \in put : keyKind[s] = "async"}}
        /\ unlisted' = (put # stores)

\* set_identity(), and configure() with an identity.
SetIdentity(id) ==
    /\ Configured
    /\ identity' = id
    /\ PutOwn(id, {keystore})
    /\ UNCHANGED <<kindVars, keystore, guardStore, peerVars, guardVars, worker>>

\* get_identity() of an application; those of a receive are in GetReceiver.
GetIdentity ==
    /\ identity = NoIdentity
    /\ identity' = DefaultIdentity
    /\ PutOwn(DefaultIdentity, {keystore})
    /\ UNCHANGED <<stableVars, keystore, guardStore, peerVars, guardVars, worker>>

\* The task of an async put() runs.
RunTask(t) ==
    /\ tasks' = tasks \ {t}
    /\ ownIn' = [ownIn EXCEPT ![t[1]] = @ \cup {t[2]}]
    /\ UNCHANGED <<stableVars, identity, unlisted, keystore, guardStore, peerVars, guardVars,
                   worker>>

----------------------------------------------------------------------------
(* configure() and reset() *)

\* Bug: the card of the identity does not go into the new keystore.
BadSetKeystore(k) ==
    /\ Configured
    /\ keystore' = k
    /\ revoked' = FALSE
    /\ UNCHANGED <<kindVars, ownVars, guardStore, peerIn, deadCards, guardVars, worker>>

\* configure() with a keystore: the identity, if there is one, follows.
SetKeystore(k) ==
    /\ Configured
    /\ keystore' = k
    /\ revoked' = FALSE
    /\ IF identity # NoIdentity
       THEN PutOwn(identity, {k}) /\ UNCHANGED identity
       ELSE UNCHANGED ownVars
    /\ UNCHANGED <<kindVars, guardStore, peerIn, deadCards, guardVars, worker>>

\* configure() with an identity and a keystore: the card goes into both.  When
\* the first put() raises, no more is done than by SetIdentity.
ConfigureBoth(id, k) ==
    /\ Configured
    /\ identity' = id
    /\ keystore' = k
    /\ revoked' = FALSE
    /\ PutOwn(id, {keystore, k})
    /\ UNCHANGED <<kindVars, guardStore, peerIn, deadCards, guardVars, worker>>

\* configure() with a noncestore or a replay_guard.
SetGuard(s) ==
    /\ Configured
    /\ guardStore' = s
    /\ UNCHANGED <<kindVars, ownVars, keystore, peerVars, guardVars, worker>>

\* reset(): a keystore and a nonce store in memory that nobody has used.
Reset(k, s) ==
    /\ Configured
    /\ keyKind[k] = "memory" /\ s \notin asyncGuard
    /\ peerIn[k] = Nobody /\ ownIn[k] = {} /\ marks[s] = {}
    /\ identity' = NoIdentity
    /\ keystore' = k
    /\ guardStore' = s
    /\ revoked' = FALSE
    /\ UNCHANGED <<kindVars, ownIn, tasks, unlisted, peerIn, deadCards, guardVars, worker>>

----------------------------------------------------------------------------
(* The peer.                                                               *)

RegisterPeer(c) ==
    /\ Configured
    /\ peerIn' = [peerIn EXCEPT ![keystore] =
                     [card |-> c, revoked |-> c \in deadCards,
                      object |-> keyKind[keystore] = "memory"]]
    /\ revoked' = FALSE
    /\ UNCHANGED <<kindVars, ownVars, keystore, guardStore, deadCards, guardVars, worker>>

Dead(entry) == entry.revoked \/ (entry.object /\ entry.card \in deadCards)

\* revoke_peer() takes the card, under the lock, and revokes it, without.
RevokeCard(w) ==
    /\ worker[w].step = "idle"
    /\ peerIn[keystore] # Nobody
    /\ worker' = [worker EXCEPT ![w].step = "revoke",
                                ![w].entry = [peerIn[keystore] EXCEPT !.revoked = TRUE]]
    /\ deadCards' = IF peerIn[keystore].object THEN deadCards \cup {peerIn[keystore].card}
                    ELSE deadCards
    /\ UNCHANGED <<stableVars, ownVars, keystore, guardStore, peerIn, revoked, guardVars>>

Idle(w) == worker' = [worker EXCEPT ![w] = AtRest]

\* Then the card goes back under the lock, into the keystore of that moment.
RevokePut(w) ==
    /\ worker[w].step = "revoke"
    /\ peerIn' = [peerIn EXCEPT ![keystore] = worker[w].entry]
    /\ revoked' = TRUE
    /\ Idle(w)
    /\ UNCHANGED <<stableVars, ownVars, keystore, guardStore, deadCards, guardVars>>

----------------------------------------------------------------------------
(* Receiving: the card, the identity and the guard are looked up one after *)
(* the other.                                                              *)

GetPeer(w, p) ==
    /\ worker[w].step = "idle"
    /\ peerIn[keystore] # Nobody
    /\ worker' = [worker EXCEPT ![w] = [@ EXCEPT !.step = "card", !.entry = peerIn[keystore],
                                                 !.package = p, !.after = revoked]]
    /\ UNCHANGED <<stableVars, ownVars, keystore, guardStore, peerVars, guardVars>>

\* A package for another identity is refused, after one was created if there was none.
GetReceiver(w) ==
    /\ worker[w].step = "card"
    /\ IF identity = NoIdentity
       THEN identity' = DefaultIdentity /\ PutOwn(DefaultIdentity, {keystore})
       ELSE UNCHANGED ownVars
    /\ IF identity' = Me /\ (identity = NoIdentity => ~unlisted')
       THEN worker' = [worker EXCEPT ![w].step = "receiver"]
       ELSE Idle(w)
    /\ UNCHANGED <<stableVars, keystore, guardStore, peerVars, guardVars>>

GetReplayGuard(w) ==
    /\ worker[w].step = "receiver"
    /\ worker' = [worker EXCEPT ![w].step = "guard", ![w].store = guardStore]
    /\ UNCHANGED <<stableVars, ownVars, keystore, guardStore, peerVars, guardVars>>

Verifies(w) == ~Dead(worker[w].entry) /\ worker[w].entry.card \in SealedWith

Mark(w) == marks' = [marks EXCEPT ![worker[w].store] = @ \cup {worker[w].package}]
Seen(w) == worker[w].package \in marks[worker[w].store]

\* open_from() checks the card, verifies, and marks; an expired envelope fails as well.
Open(w) ==
    /\ worker[w].step = "guard"
    /\ worker[w].store \notin asyncGuard
    /\ \/ Verifies(w) /\ ~Seen(w) /\ Mark(w) /\ worker' = [worker EXCEPT ![w].step = "opened"]
       \/ Idle(w) /\ UNCHANGED marks
    /\ UNCHANGED <<stableVars, ownVars, keystore, guardStore, peerVars, delivered>>

(* With an async store the nonce is marked first, for window_seconds.      *)
(* Marks do not expire here: the clocks of sender and receiver are taken   *)
(* to be in step, so that a package is no longer fresh by then, which      *)
(* ReplayGuard does not assume (its NoDoubleOpen fails on this path).      *)
MarkAsync(w) ==
    /\ worker[w].step = "guard"
    /\ worker[w].store \in asyncGuard
    /\ IF Seen(w)
       THEN Idle(w) /\ UNCHANGED marks
       ELSE Mark(w) /\ worker' = [worker EXCEPT ![w].step = "marked"]
    /\ UNCHANGED <<stableVars, ownVars, keystore, guardStore, peerVars, delivered>>

OpenMarked(w) ==
    /\ worker[w].step = "marked"
    /\ \/ Verifies(w) /\ worker' = [worker EXCEPT ![w].step = "opened"]
       \/ Idle(w)
    /\ UNCHANGED <<stableVars, ownVars, keystore, guardStore, peerVars, guardVars>>

\* A chunk that does not decrypt raises, and the package stays marked.
Deliver(w) ==
    /\ worker[w].step = "opened"
    /\ \/ delivered' = [delivered EXCEPT ![worker[w].store][worker[w].package] = @ + 1]
       \/ UNCHANGED delivered
    /\ Idle(w)
    /\ UNCHANGED <<stableVars, ownVars, keystore, guardStore, peerVars, marks>>

ContextNext ==
    \/ \E id \in Identities : SetIdentity(id)
    \/ GetIdentity
    \/ \E t \in tasks : RunTask(t)
    \/ \E k \in KeyStores : SetKeystore(k)
    \/ \E id \in Identities, k \in KeyStores : ConfigureBoth(id, k)
    \/ \E s \in NonceStores : SetGuard(s)
    \/ \E k \in KeyStores, s \in NonceStores : Reset(k, s)
    \/ \E c \in PeerCards : RegisterPeer(c)
    \/ \E w \in Workers :
          \/ RevokeCard(w)
          \/ RevokePut(w)
          \/ \E p \in Inbox : GetPeer(w, p)
          \/ GetReceiver(w)
          \/ GetReplayGuard(w)
          \/ Open(w)
          \/ MarkAsync(w)
          \/ OpenMarked(w)
          \/ Deliver(w)

ContextSpec == ContextInit /\ [][ContextNext]_contextVars

----------------------------------------------------------------------------
(* Whatever configure(), reset() and revoke_peer() do while packages are   *)
(* being received: a package is delivered once per nonce store that keeps  *)
(* its mark while it is fresh (for async stores see MarkAsync); one whose  *)
(* receiving began after revoke_peer() returned is not, until the peer is  *)
(* registered again; and the active identity is in the active keystore, or *)
(* about to be, unless its put() raised or found no loop to run in.        *)
ContextKept ==
    /\ \A s \in NonceStores : \A p \in Inbox : delivered[s][p] <= 1
    /\ \A w \in Workers : worker[w].after => worker[w].step # "opened"
    /\ identity # NoIdentity /\ ~unlisted =>
           identity \in ownIn[keystore] \/ <<keystore, identity>> \in tasks
=============================================================================
