--------------------------- MODULE StorageProofs ----------------------------
(***************************************************************************)
(* What the stores promise, for any number of processes, threads and       *)
(* clients, any cards, nonces and certificates, any times to live, and any *)
(* order of their steps.                                                   *)
(***************************************************************************)
EXTENDS CachingKeyStore, FileKeyStore, NonceStore, TrustStore,
        SequenceTheorems, FiniteSetTheorems, TLAPS

-----------------------------------------------------------------------------
(* The cache in front of a key store                                       *)
(*                                                                         *)
(* StaleCardEnds is not inductive: it says nothing of the cards that calls *)
(* under way are about to put into the cache. CardsIInv does.              *)

USE CardsAssumption

\* No change is in the future, and no cached card outlives its time to live.
TimesBounded ==
    \A e \in Entities :
        /\ changedAt[e] <= cardTime
        /\ cached[e].exp <= cardTime + CardTTL

\* A call that has spoken to the backend is in time.
CallsInTime ==
    \A t \in Clients : call[t].step \in {"fill", "put_cache", "delete_cache"} =>
        /\ call[t].since <= cardTime
        /\ cardTime <= call[t].since + MaxDelay

\* What a call is about to cache is in the table, or the table has changed since.
CallsJustified ==
    \A t \in Clients : call[t].step \in {"fill", "put_cache"} =>
        \/ call[t].card = table[call[t].eid]
        \/ call[t].since <= changedAt[call[t].eid]

\* A cached card is in the table, or expires in the time StaleCardEnds allows.
CacheJustified ==
    \A e \in Entities :
        \/ cached[e].card = NoCard
        \/ cached[e].card = table[e]
        \/ cached[e].exp <= changedAt[e] + MaxDelay + CardTTL

CardsIInv ==
    /\ CardsTypeOK
    /\ TimesBounded
    /\ CallsInTime
    /\ CallsJustified
    /\ CacheJustified

\* In the initial states the directory is empty and no call is under way.
LEMMA CardsInitInv == CardsInit => CardsIInv
<1> SUFFICES ASSUME CardsInit PROVE CardsIInv
    OBVIOUS
<1> DEFINE e0 == CHOOSE e \in Entities : TRUE
<1>1. e0 \in Entities
    OBVIOUS
<1>2. \A t \in Clients : call[t] = [step |-> "idle", eid |-> e0, card |-> NoCard, since |-> 0]
    BY DEF CardsInit
<1>3. call \in [Clients -> Calls]
    BY <1>1 DEF CardsInit, Calls, CallSteps
<1>4. CardsTypeOK
    BY <1>3 DEF CardsInit, CardsTypeOK
<1>5. TimesBounded /\ CallsInTime /\ CallsJustified /\ CacheJustified
    BY <1>2 DEF CardsInit, TimesBounded, CallsInTime, CallsJustified, CacheJustified
<1>6. QED
    BY <1>4, <1>5 DEF CardsIInv

\* A call that goes on to a step has that step, and no other call changes.
LEMMA EnterCall ==
    ASSUME CardsTypeOK, NEW t \in Clients, NEW step \in CallSteps, NEW e \in Entities,
           NEW c \in Cards \cup {NoCard}, Enter(t, step, e, c)
    PROVE  /\ call' \in [Clients -> Calls]
           /\ call'[t] = [step |-> step, eid |-> e, card |-> c, since |-> cardTime]
           /\ \A u \in Clients \ {t} : call'[u] = call[u]
BY DEF CardsTypeOK, Calls, Enter

\* A call that returns is idle, and no other call changes.
LEMMA ReturnCall ==
    ASSUME CardsTypeOK, NEW t \in Clients, Return(t)
    PROVE  /\ call' \in [Clients -> Calls]
           /\ call'[t].step = "idle"
           /\ \A u \in Clients \ {t} : call'[u] = call[u]
<1>1. call[t] \in Calls
    BY DEF CardsTypeOK
<1>2. [[call[t] EXCEPT !.step = "idle"] EXCEPT !.card = NoCard] \in Calls
    BY <1>1 DEF Calls, CallSteps
<1>3. call' = [call EXCEPT ![t] = [[call[t] EXCEPT !.step = "idle"] EXCEPT !.card = NoCard]]
    BY DEF CardsTypeOK, Return
<1>4. QED
    BY <1>1, <1>2, <1>3 DEF CardsTypeOK, Calls

\* A write to a row, at the present time, justifies what is cached and in flight.
LEMMA WriteRowInv ==
    ASSUME CardsIInv, NEW e \in Entities, NEW c \in Cards \cup {NoCard}, WriteRow(e, c),
           UNCHANGED <<cached, cardTime>>
    PROVE  /\ table' \in [Entities -> Cards \cup {NoCard}]
           /\ changedAt' \in [Entities -> Nat]
           /\ TimesBounded'
           /\ CacheJustified'
           /\ table'[e] = c
           /\ \A t \in Clients : call[t].step \in {"fill", "put_cache"} =>
                  \/ call[t].card = table'[call[t].eid]
                  \/ call[t].since <= changedAt'[call[t].eid]
<1>1. /\ table' \in [Entities -> Cards \cup {NoCard}] /\ changedAt' \in [Entities -> Nat]
      /\ table'[e] = c /\ changedAt'[e] = cardTime
      /\ \A d \in Entities \ {e} : table'[d] = table[d] /\ changedAt'[d] = changedAt[d]
    BY DEF CardsIInv, CardsTypeOK, WriteRow
<1>2. cached \in [Entities -> [card : Cards \cup {NoCard}, exp : Nat]] /\ cardTime \in Nat
    BY DEF CardsIInv, CardsTypeOK
<1>3. TimesBounded'
    BY <1>1, <1>2 DEF CardsIInv, TimesBounded
<1>4. CacheJustified'
    BY <1>1, <1>2 DEF CardsIInv, TimesBounded, CacheJustified
<1>5. ASSUME NEW t \in Clients, call[t].step \in {"fill", "put_cache"}
      PROVE  \/ call[t].card = table'[call[t].eid]
             \/ call[t].since <= changedAt'[call[t].eid]
  <2>1. call[t].eid \in Entities
      BY DEF CardsIInv, CardsTypeOK, Calls
  <2>2. call[t].since <= cardTime
      BY <1>5 DEF CardsIInv, CallsInTime
  <2>3. CASE call[t].eid = e
      BY <1>1, <2>2, <2>3
  <2>4. CASE call[t].eid # e
      BY <1>1, <1>5, <2>1, <2>4 DEF CardsIInv, CallsJustified
  <2>5. QED
      BY <2>3, <2>4
<1>6. QED
    BY <1>1, <1>3, <1>4, <1>5

\* A call in time that caches a card it may cache, or forgets one, keeps the cache justified.
LEMMA CacheInv ==
    ASSUME CardsIInv, NEW t \in Clients,
           \/ call[t].step \in {"fill", "put_cache"} /\ cached' = CacheWith(call[t].eid, call[t].card)
           \/ cached' = CacheWithout(call[t].eid)
           \/ UNCHANGED cached,
           UNCHANGED <<table, changedAt, cardTime>>
    PROVE  /\ cached' \in [Entities -> [card : Cards \cup {NoCard}, exp : Nat]]
           /\ TimesBounded'
           /\ CacheJustified'
<1> DEFINE e == call[t].eid
           c == call[t].card
<1>1. e \in Entities /\ c \in Cards \cup {NoCard} /\ call[t].since \in Nat
    BY DEF CardsIInv, CardsTypeOK, Calls
<1>2. /\ cached \in [Entities -> [card : Cards \cup {NoCard}, exp : Nat]]
      /\ cardTime \in Nat /\ changedAt \in [Entities -> Nat]
    BY DEF CardsIInv, CardsTypeOK
<1>3. CASE call[t].step \in {"fill", "put_cache"} /\ cached' = CacheWith(e, c)
  <2>1. c = table[e] \/ cardTime + CardTTL <= changedAt[e] + MaxDelay + CardTTL
      BY <1>1, <1>2, <1>3 DEF CardsIInv, CallsInTime, CallsJustified
  <2>2. /\ cached' \in [Entities -> [card : Cards \cup {NoCard}, exp : Nat]]
        /\ cached'[e] = [card |-> c, exp |-> cardTime + CardTTL]
        /\ \A d \in Entities \ {e} : cached'[d] = cached[d]
      BY <1>1, <1>2, <1>3 DEF CacheWith
  <2>3. TimesBounded'
      BY <1>1, <1>2, <2>2 DEF CardsIInv, TimesBounded
  <2>4. CacheJustified'
      BY <1>1, <1>2, <2>1, <2>2 DEF CardsIInv, CacheJustified
  <2>5. QED
      BY <2>2, <2>3, <2>4
<1>4. CASE cached' = CacheWithout(e)
  <2>1. /\ cached' \in [Entities -> [card : Cards \cup {NoCard}, exp : Nat]]
        /\ cached'[e] = [card |-> NoCard, exp |-> 0]
        /\ \A d \in Entities \ {e} : cached'[d] = cached[d]
      BY <1>1, <1>2, <1>4 DEF CacheWithout
  <2>2. cached'[e].card = NoCard /\ cached'[e].exp = 0
      BY <2>1
  <2>3. TimesBounded'
      BY <1>1, <1>2, <2>1, <2>2 DEF CardsIInv, TimesBounded
  <2>4. CacheJustified'
      BY <1>1, <1>2, <2>1, <2>2 DEF CardsIInv, CacheJustified
  <2>5. QED
      BY <2>1, <2>3, <2>4
<1>5. CASE UNCHANGED cached
    BY <1>2, <1>5 DEF CardsIInv, TimesBounded, CacheJustified
<1>6. QED
    BY <1>3, <1>4, <1>5

\* Every step of a client and of the clock keeps the invariant.
LEMMA CardsStepInv == CardsIInv /\ [CardsNext]_cardVars => CardsIInv'
<1> SUFFICES ASSUME CardsIInv, [CardsNext]_cardVars PROVE CardsIInv'
    OBVIOUS
<1>t. CardsTypeOK
    BY DEF CardsIInv
<1>1. ASSUME NEW t \in Clients, NEW e \in Entities, NEW c \in Cards, NEW overwrite \in BOOLEAN,
             PutBackend(t, e, c, overwrite)
      PROVE  CardsIInv'
  <2>1. /\ call' \in [Clients -> Calls]
        /\ \/ call'[t] = [step |-> "put_cache", eid |-> e, card |-> c, since |-> cardTime]
           \/ call'[t] = call[t]
        /\ \A u \in Clients \ {t} : call'[u] = call[u]
      BY <1>t, <1>1, EnterCall DEF PutBackend, CallSteps, CardsTypeOK
  <2>2. WriteRow(e, c) /\ UNCHANGED <<cached, cardTime>>
      BY <1>1 DEF PutBackend
  <2>3. CardsTypeOK' /\ TimesBounded' /\ CacheJustified'
      BY <1>t, <2>1, <2>2, WriteRowInv DEF CardsTypeOK
  <2>4. CallsInTime'
      BY <1>t, <2>1, <2>2 DEF CardsIInv, CallsInTime, CardsTypeOK
  <2>5. CallsJustified'
      BY <2>1, <2>2, WriteRowInv DEF CallsJustified
  <2>6. QED
      BY <2>3, <2>4, <2>5 DEF CardsIInv
<1>2. ASSUME NEW t \in Clients, NEW e \in Entities, GetCache(t, e)
      PROVE  CardsIInv'
  <2>1. /\ call' \in [Clients -> Calls]
        /\ call'[t].step = "get_backend"
        /\ \A u \in Clients \ {t} : call'[u] = call[u]
    <3>1. Enter(t, "get_backend", e, NoCard)
        BY <1>2 DEF GetCache
    <3>2. "get_backend" \in CallSteps /\ NoCard \in Cards \cup {NoCard}
        BY DEF CallSteps
    <3>3. /\ call' \in [Clients -> Calls]
          /\ call'[t] = [step |-> "get_backend", eid |-> e, card |-> NoCard, since |-> cardTime]
          /\ \A u \in Clients \ {t} : call'[u] = call[u]
        BY <1>t, <3>1, <3>2, EnterCall, Zenon
    <3>4. QED
        BY <3>3
  <2>2. CardsTypeOK' /\ TimesBounded' /\ CacheJustified'
      BY <1>2, <2>1 DEF GetCache, CardsIInv, CardsTypeOK, TimesBounded, CacheJustified
  <2>3. CallsInTime' /\ CallsJustified'
      BY <1>2, <2>1 DEF GetCache, CardsIInv, CallsInTime, CallsJustified
  <2>4. QED
      BY <2>2, <2>3 DEF CardsIInv
<1>3. ASSUME NEW t \in Clients, NEW e \in Entities, DeleteBackend(t, e)
      PROVE  CardsIInv'
  <2>1. /\ call' \in [Clients -> Calls]
        /\ \/ call'[t] = [step |-> "delete_cache", eid |-> e, card |-> NoCard, since |-> cardTime]
           \/ call'[t] = call[t]
        /\ \A u \in Clients \ {t} : call'[u] = call[u]
      BY <1>t, <1>3, EnterCall DEF DeleteBackend, CallSteps, CardsTypeOK
  <2>2. UNCHANGED <<cached, cardTime>>
      BY <1>3 DEF DeleteBackend
  <2>3. CallsInTime'
      BY <1>t, <2>1, <2>2 DEF CardsIInv, CallsInTime, CardsTypeOK
  <2>4. CASE WriteRow(e, NoCard)
    <3>1. CardsTypeOK' /\ TimesBounded' /\ CacheJustified'
        BY <1>t, <2>1, <2>2, <2>4, WriteRowInv DEF CardsTypeOK
    <3>2. CallsJustified'
        BY <2>1, <2>2, <2>4, WriteRowInv DEF CallsJustified
    <3>3. QED
        BY <2>3, <3>1, <3>2 DEF CardsIInv
  <2>5. CASE UNCHANGED <<table, changedAt>>
    <3>1. CardsTypeOK' /\ TimesBounded' /\ CacheJustified'
        BY <2>1, <2>2, <2>5 DEF CardsIInv, CardsTypeOK, TimesBounded, CacheJustified
    <3>2. CallsJustified'
        BY <2>1, <2>2, <2>5 DEF CardsIInv, CallsJustified
    <3>3. QED
        BY <2>3, <3>1, <3>2 DEF CardsIInv
  <2>6. QED
      BY <1>3, <2>4, <2>5 DEF DeleteBackend
<1>4. ASSUME NEW t \in Clients, PutCache(t) \/ FillCache(t) \/ DeleteCache(t)
      PROVE  CardsIInv'
  <2>1. Return(t) /\ UNCHANGED <<table, changedAt, cardTime>>
      BY <1>4 DEF PutCache, FillCache, DeleteCache
  <2>2. /\ call' \in [Clients -> Calls]
        /\ call'[t].step = "idle"
        /\ \A u \in Clients \ {t} : call'[u] = call[u]
      BY <1>t, <2>1, ReturnCall
  <2>3. /\ cached' \in [Entities -> [card : Cards \cup {NoCard}, exp : Nat]]
        /\ TimesBounded' /\ CacheJustified'
      BY <1>4, <2>1, CacheInv DEF PutCache, FillCache, DeleteCache
  <2>4. CardsTypeOK'
      BY <1>t, <2>1, <2>2, <2>3 DEF CardsTypeOK
  <2>5. CallsInTime' /\ CallsJustified'
      BY <2>1, <2>2 DEF CardsIInv, CallsInTime, CallsJustified
  <2>6. QED
      BY <2>3, <2>4, <2>5 DEF CardsIInv
<1>5. ASSUME NEW t \in Clients, GetBackend(t)
      PROVE  CardsIInv'
  <2> DEFINE e == call[t].eid
  <2>1. e \in Entities /\ table[e] \in Cards \cup {NoCard}
      BY <1>t DEF CardsTypeOK, Calls
  <2>2. Return(t) \/ Enter(t, "fill", e, table[e])
      BY <1>5 DEF GetBackend
  <2>3. /\ call' \in [Clients -> Calls]
        /\ \/ call'[t] = [step |-> "fill", eid |-> e, card |-> table[e], since |-> cardTime]
           \/ call'[t].step = "idle"
        /\ \A u \in Clients \ {t} : call'[u] = call[u]
      BY <1>t, <2>1, <2>2, EnterCall, ReturnCall DEF CallSteps
  <2>4. UNCHANGED <<table, cached, changedAt, cardTime>>
      BY <1>5 DEF GetBackend
  <2>5. CardsTypeOK' /\ TimesBounded' /\ CacheJustified'
      BY <2>3, <2>4 DEF CardsIInv, CardsTypeOK, TimesBounded, CacheJustified
  <2>6. CallsInTime'
      BY <1>t, <2>3, <2>4 DEF CardsIInv, CallsInTime, CardsTypeOK
  <2>7. CallsJustified'
      BY <2>3, <2>4 DEF CardsIInv, CallsJustified
  <2>8. QED
      BY <2>5, <2>6, <2>7 DEF CardsIInv
<1>6. CASE CardTick
  <2>1. \A t \in Clients : call[t].step \in {"fill", "put_cache", "delete_cache"} =>
            cardTime < call[t].since + MaxDelay
      BY <1>6 DEF CardTick, InTime
  <2>2. \A t \in Clients : call[t].since \in Nat
      BY <1>t DEF CardsTypeOK, Calls
  <2>3. cardTime \in Nat /\ cardTime' = cardTime + 1 /\ UNCHANGED <<table, cached, changedAt, call>>
      BY <1>6, <1>t DEF CardTick, CardsTypeOK
  <2>4. CallsInTime'
      BY <2>1, <2>2, <2>3 DEF CardsIInv, CallsInTime
  <2>5. CardsTypeOK' /\ CallsJustified' /\ CacheJustified'
      BY <2>3 DEF CardsIInv, CardsTypeOK, CallsJustified, CacheJustified
  <2>6. TimesBounded'
      BY <1>t, <2>3 DEF CardsIInv, CardsTypeOK, TimesBounded
  <2>7. QED
      BY <2>4, <2>5, <2>6 DEF CardsIInv
<1>7. CASE UNCHANGED cardVars
    BY <1>7 DEF cardVars, CardsIInv, CardsTypeOK, TimesBounded, CallsInTime,
                CallsJustified, CacheJustified
<1>8. QED
    BY <1>1, <1>2, <1>3, <1>4, <1>5, <1>6, <1>7 DEF CardsNext

\* The invariant holds in every reachable state.
LEMMA CardsAlwaysInv == CardsSpec => []CardsIInv
BY CardsInitInv, CardsStepInv, PTL DEF CardsSpec

\* The rows, the cache and the calls keep their types (CachingKeyStore).
THEOREM CardsTyped == CardsSpec => []CardsTypeOK
<1>1. CardsIInv => CardsTypeOK
    BY DEF CardsIInv
<1>2. QED
    BY <1>1, CardsAlwaysInv, PTL

\* The cache serves a card that was rotated or removed no longer than MaxDelay and one
\* ttl after the change (get(), put() and delete() of CachingKeyStore).
THEOREM CardsStaleOnlyBriefly == CardsSpec => []StaleCardEnds
<1>1. CardsIInv => StaleCardEnds
  <2> SUFFICES ASSUME CardsIInv, NEW e \in Entities, CacheHit(e), cached[e].card # table[e]
               PROVE  cardTime < changedAt[e] + MaxDelay + CardTTL
      BY DEF StaleCardEnds
  <2>1. cached[e].exp <= changedAt[e] + MaxDelay + CardTTL
      BY DEF CardsIInv, CacheJustified, CacheHit
  <2>2. cardTime \in Nat /\ cached[e].exp \in Nat /\ changedAt[e] \in Nat
      BY DEF CardsIInv, CardsTypeOK
  <2>3. QED
      BY <2>1, <2>2 DEF CacheHit
<1>2. QED
    BY <1>1, CardsAlwaysInv, PTL

HIDE CardsAssumption

-----------------------------------------------------------------------------
(* The file of cards                                                       *)
(*                                                                         *)
(* FileIsWhatWasWritten compares the file with the last update; what makes *)
(* it inductive is what each process believes of the file (Hashed below),  *)
(* and how its memory and the snapshot in its hands came from it.          *)

CardsOf(cards) == {e \in Ids : cards[e] # Absent}

\* A file holds finitely many cards, so that it has a size.
FewCards(cards) == IsFiniteSet(CardsOf(cards))

\* What a process has read or written it has hashed, unless it failed to write it.
CacheHashed(p) == view[p].loaded /\ p \notin pending => view[p].cache = view[p].hashed[1]

\* A process that takes the file for unchanged knows it.
CacheCurrent(p) == Untouched(p) /\ p \notin pending \cup blind => view[p].cache = disk.cards

FileIInv ==
    /\ FileTypeOK
    /\ disk.version <= MaxVersion
    /\ ~disk.exists => disk.cards = Empty
    /\ FewCards(disk.cards)
    /\ \A p \in Processes : FewCards(view[p].cache) /\ CacheHashed(p) /\ CacheCurrent(p)
    /\ FileIsWhatWasWritten

LEMMA FileConstants == MaxVersion \in Nat /\ LastFileTime \in Nat
BY FileAssumption

LEMMA SizeTyped == ASSUME NEW cards, FewCards(cards) PROVE SizeOf(cards) \in Nat
BY FS_CardinalityType DEF FewCards, CardsOf, SizeOf

LEMMA EmptyCards == Empty \in Contents /\ FewCards(Empty)
<1>1. CardsOf(Empty) = {}
    BY DEF CardsOf, Empty
<1> QED
    BY <1>1, FS_EmptySet DEF FewCards, Empty, Contents

\* A card more or less leaves finitely many.
LEMMA OneCardMore ==
    ASSUME NEW cards \in Contents, FewCards(cards), NEW e \in Ids, NEW c \in CardValues \cup {Absent}
    PROVE  [cards EXCEPT ![e] = c] \in Contents /\ FewCards([cards EXCEPT ![e] = c])
<1>1. CardsOf([cards EXCEPT ![e] = c]) \subseteq CardsOf(cards) \cup {e}
    BY DEF CardsOf, Contents
<1>2. IsFiniteSet(CardsOf(cards) \cup {e})
    BY FS_AddElement DEF FewCards
<1>3. FewCards([cards EXCEPT ![e] = c])
    BY <1>1, <1>2, FS_Subset DEF FewCards
<1> QED
    BY <1>3 DEF Contents

\* What a process knows when it has read or written the file.
LEMMA ReadTyped ==
    ASSUME NEW cards \in Contents, FewCards(cards), NEW version \in Nat, NEW mtime \in Nat
    PROVE  LET v == ReadFile(cards, version, mtime)
           IN  /\ v \in View /\ v.loaded /\ v.cache = cards /\ v.version = version
               /\ v.hashed[1] = cards
<1>1. SizeOf(cards) \in Nat
    BY SizeTyped
<1>2. <<cards, version>> \in Contents \X Nat
    OBVIOUS
<1> QED
    BY <1>1, <1>2 DEF ReadFile, View

LEMMA FileInitInv == FileInit => FileIInv
<1> SUFFICES ASSUME FileInit PROVE FileIInv
    OBVIOUS
<1>1. Fresh \in View /\ ~Fresh.loaded /\ Fresh.cache = Empty /\ Fresh.version = 0
    <2>1. <<Empty, 0>> \in Contents \X Nat
        BY EmptyCards
    <2> QED
        BY <2>1, EmptyCards DEF Fresh, View
<1>2. /\ disk \in File /\ disk.cards = Empty /\ disk.version = 0
    BY EmptyCards DEF FileInit, File
<1>3. \A p \in Processes : view[p] = Fresh
    BY DEF FileInit
<1>4. FileTypeOK
    <2>1. view \in [Processes -> View]
        BY <1>1 DEF FileInit
    <2>2. \A p \in Processes : view[p].version <= MaxVersion
        BY <1>1, <1>3, FileConstants
    <2> QED
        BY <1>2, <2>1, <2>2, EmptyCards DEF FileInit, FileTypeOK
<1>5. /\ disk.version <= MaxVersion /\ FewCards(disk.cards)
      /\ FileIsWhatWasWritten
    BY <1>2, EmptyCards, FileConstants DEF FileInit, FileIsWhatWasWritten
<1>6. ASSUME NEW p \in Processes
      PROVE  FewCards(view[p].cache) /\ CacheHashed(p) /\ CacheCurrent(p)
    BY <1>1, <1>3, EmptyCards DEF CacheHashed, CacheCurrent, Untouched
<1> QED
    BY <1>2, <1>4, <1>5, <1>6 DEF FileIInv

\* What _load() gives a process: the file, or a cache that it failed to write or
\* that missed a write.
LEMMA LoadedView ==
    ASSUME FileIInv, NEW p \in Processes
    PROVE  /\ Loaded(p) \in View /\ Loaded(p).loaded /\ Loaded(p).version <= MaxVersion
           /\ FewCards(Loaded(p).cache)
           /\ Kept(p) => Loaded(p).cache = view[p].cache
           /\ ~Kept(p) \/ p \notin pending => Loaded(p).cache = Loaded(p).hashed[1]
           /\ ~Kept(p) \/ p \notin pending \cup blind => Loaded(p).cache = disk.cards
<1>1. /\ disk \in File /\ view[p] \in View /\ view[p].version <= MaxVersion
      /\ disk.version <= MaxVersion /\ FewCards(disk.cards) /\ FewCards(view[p].cache)
      /\ CacheHashed(p) /\ CacheCurrent(p) /\ (~disk.exists => disk.cards = Empty)
    BY DEF FileIInv, FileTypeOK
<1>2. disk.cards \in Contents /\ disk.version \in Nat /\ disk.mtime \in Nat
    BY <1>1 DEF File
<1>3. CASE ~disk.exists
    <2>1. Loaded(p) = ReadFile(Empty, 0, 0) /\ ~Kept(p)
        BY <1>3 DEF Loaded, Kept
    <2> QED
        BY <1>1, <1>3, <2>1, EmptyCards, ReadTyped, FileConstants
<1>4. CASE disk.exists /\ Untouched(p)
    <2>1. Loaded(p) = view[p] /\ Kept(p)
        BY <1>4 DEF Loaded, Kept
    <2>2. view[p].loaded
        BY <1>4 DEF Untouched
    <2> QED
        BY <1>1, <1>4, <2>1, <2>2 DEF CacheHashed, CacheCurrent
<1>5. CASE disk.exists /\ ~Untouched(p) /\ SameHash(p)
    <2>1. Loaded(p) = [view[p] EXCEPT !.mtime = disk.mtime, !.size = SizeOf(disk.cards)] /\ Kept(p)
        BY <1>5 DEF Loaded, Kept
    <2>2. SizeOf(disk.cards) \in Nat
        BY <1>1, SizeTyped
    <2>3. /\ Loaded(p) \in View /\ Loaded(p).cache = view[p].cache /\ Loaded(p).hashed = view[p].hashed
          /\ Loaded(p).loaded = view[p].loaded /\ Loaded(p).version = view[p].version
        BY <1>1, <1>2, <2>1, <2>2 DEF View
    <2>4. view[p].loaded /\ view[p].hashed[1] = disk.cards
        BY <1>5 DEF SameHash
    <2> QED
        BY <1>1, <2>1, <2>3, <2>4 DEF CacheHashed
<1>6. CASE disk.exists /\ ~Untouched(p) /\ ~SameHash(p)
    <2>1. Loaded(p) = ReadFile(disk.cards, disk.version, disk.mtime) /\ ~Kept(p)
        BY <1>6 DEF Loaded, Kept
    <2> QED
        BY <1>1, <1>2, <2>1, ReadTyped
<1> QED
    BY <1>3, <1>4, <1>5, <1>6

\* A process that does not take part keeps what it knows; blind may grow by those
\* that take a new file for the one they know.
LEMMA OthersView ==
    ASSUME FileIInv, NEW q \in Processes, view'[q] = view[q],
           q \in pending' <=> q \in pending,
           \/ disk' = disk /\ (q \in blind => q \in blind')
           \/ Untouched(q)' => view[q].cache = disk.cards' \/ q \in blind'
    PROVE  /\ FewCards(view[q].cache)' /\ CacheHashed(q)' /\ CacheCurrent(q)'
           /\ view'[q] \in View /\ view'[q].version <= MaxVersion
BY DEF FileIInv, FileTypeOK, CacheHashed, CacheCurrent, Untouched, FewCards, CardsOf

\* A process that has loaded, and has not changed its cache since.
LEMMA LoadedKeeps ==
    ASSUME FileIInv, NEW p \in Processes, view'[p] = Loaded(p), UNCHANGED disk,
           p \in pending' <=> p \in pending /\ Kept(p),
           p \in blind' <=> p \in blind /\ Kept(p)
    PROVE  FewCards(view[p].cache)' /\ CacheHashed(p)' /\ CacheCurrent(p)'
<1>1. /\ FewCards(Loaded(p).cache)
      /\ ~Kept(p) \/ p \notin pending => Loaded(p).cache = Loaded(p).hashed[1]
      /\ ~Kept(p) \/ p \notin pending \cup blind => Loaded(p).cache = disk.cards
    BY LoadedView
<1> QED
    BY <1>1 DEF CacheHashed, CacheCurrent, FewCards, CardsOf

LEMMA FileStepInv == FileIInv /\ [FileNext]_fileVars => FileIInv'
<1> SUFFICES ASSUME FileIInv, [FileNext]_fileVars PROVE FileIInv'
    OBVIOUS
<1>t. /\ disk \in File /\ view \in [Processes -> View] /\ fileTime \in Nat
      /\ wanted \in Contents /\ pending \subseteq Processes /\ blind \subseteq Processes
      /\ spoilt \in BOOLEAN /\ \A p \in Processes : view[p].version <= MaxVersion
      /\ disk.cards \in Contents /\ disk.version \in Nat
    BY DEF FileIInv, FileTypeOK, File
<1>i. /\ disk.version <= MaxVersion /\ FewCards(disk.cards) /\ FileIsWhatWasWritten
      /\ ~disk.exists => disk.cards = Empty
      /\ \A p \in Processes : FewCards(view[p].cache) /\ CacheHashed(p) /\ CacheCurrent(p)
    BY DEF FileIInv
<1>1. ASSUME NEW p \in Processes, Get(p) PROVE FileIInv'
    <2>1. /\ view' = [view EXCEPT ![p] = Loaded(p)]
          /\ pending' = IF Kept(p) THEN pending ELSE pending \ {p}
          /\ blind' = IF Kept(p) THEN blind ELSE blind \ {p}
          /\ UNCHANGED <<disk, fileTime, wanted, spoilt>>
        BY <1>1 DEF Get
    <2>2. Loaded(p) \in View /\ Loaded(p).version <= MaxVersion
        BY LoadedView
    <2>3. view' \in [Processes -> View] /\ view'[p] = Loaded(p)
          /\ \A q \in Processes \ {p} : view'[q] = view[q]
        BY <1>t, <2>1, <2>2
    <2>4. \A q \in Processes : view'[q].version <= MaxVersion
        BY <1>t, <2>2, <2>3
    <2>5. FileTypeOK'
        BY <1>t, <2>1, <2>3, <2>4 DEF FileTypeOK
    <2>6. FewCards(view[p].cache)' /\ CacheHashed(p)' /\ CacheCurrent(p)'
        BY <2>1, <2>3, LoadedKeeps
    <2>7. ASSUME NEW q \in Processes \ {p}
          PROVE  FewCards(view[q].cache)' /\ CacheHashed(q)' /\ CacheCurrent(q)'
        BY <2>1, <2>3, OthersView
    <2>8. (disk.version <= MaxVersion /\ FewCards(disk.cards) /\ FileIsWhatWasWritten)'
        BY <1>i, <2>1 DEF FewCards, CardsOf, FileIsWhatWasWritten
    <2> QED
        BY <1>i, <2>1, <2>5, <2>6, <2>7, <2>8 DEF FileIInv
<1>2. ASSUME NEW p \in Processes, NEW e \in Ids, NEW c \in CardValues \cup {Absent}, Flush(p, e, c)
      PROVE  FileIInv'
    <2>1. PICK cards : cards = [Loaded(p).cache EXCEPT ![e] = c]
        OBVIOUS
    <2>2. PICK version : version = Loaded(p).version + 1
        OBVIOUS
    <2>3. /\ version <= MaxVersion
          /\ disk' = [exists |-> TRUE, cards |-> cards, version |-> version, mtime |-> fileTime]
          /\ view' = [view EXCEPT ![p] = ReadFile(cards, version, fileTime)]
          /\ wanted' = [wanted EXCEPT ![e] = c]
          /\ spoilt' = (spoilt \/ (Kept(p) /\ p \in pending \cup blind))
          /\ pending' = pending \ {p}
          /\ blind' = (blind \ {p}) \cup Misses(p, cards)
          /\ UNCHANGED fileTime
        BY <1>2, <2>1, <2>2 DEF Flush
    <2>4. /\ Loaded(p).cache \in Contents /\ Loaded(p).version \in Nat /\ FewCards(Loaded(p).cache)
          /\ ~Kept(p) \/ p \notin pending \cup blind => Loaded(p).cache = disk.cards
        BY LoadedView DEF View
    <2>5. cards \in Contents /\ FewCards(cards) /\ version \in Nat
        BY <2>1, <2>2, <2>4, OneCardMore
    <2>6. PICK v : v = ReadFile(cards, version, fileTime)
        OBVIOUS
    <2>7. v \in View /\ v.loaded /\ v.cache = cards /\ v.version = version /\ v.hashed[1] = cards
        BY <1>t, <2>5, <2>6, ReadTyped
    <2>8. view' \in [Processes -> View] /\ view'[p] = v
          /\ \A q \in Processes \ {p} : view'[q] = view[q]
        BY <1>t, <2>3, <2>6, <2>7
    <2>9. /\ disk' \in File /\ disk'.cards = cards /\ disk'.version = version
          /\ disk'.exists /\ disk'.mtime = fileTime
        BY <1>t, <2>3, <2>5 DEF File
    <2>10. FileTypeOK'
        <3>1. \A q \in Processes : view'[q].version <= MaxVersion
            BY <1>t, <2>3, <2>7, <2>8
        <3>2. wanted' \in Contents
            BY <1>t, <2>3 DEF Contents
        <3>3. blind' \subseteq Processes /\ pending' \subseteq Processes
            BY <1>t, <2>3 DEF Misses
        <3>4. spoilt' \in BOOLEAN
            BY <2>3
        <3>5. fileTime' \in Nat
            BY <1>t, <2>3
        <3> QED
            BY <2>8, <2>9, <3>1, <3>2, <3>3, <3>4, <3>5 DEF FileTypeOK
    <2>11. FewCards(view[p].cache)' /\ CacheHashed(p)' /\ CacheCurrent(p)'
        <3>1. FewCards(view'[p].cache)
            BY <2>5, <2>7, <2>8
        <3> QED
            BY <2>7, <2>8, <2>9, <3>1 DEF FewCards, CardsOf, CacheHashed, CacheCurrent
    <2>12. ASSUME NEW q \in Processes \ {p}
           PROVE  FewCards(view[q].cache)' /\ CacheHashed(q)' /\ CacheCurrent(q)'
        <3>1. Untouched(q)' => view[q].cache = disk.cards' \/ q \in blind'
            BY <2>3, <2>8, <2>9 DEF Untouched, Misses, SizeOf
        <3> QED
            BY <2>3, <2>8, <3>1, OthersView
    <2>13. FileIsWhatWasWritten'
        <3> SUFFICES ASSUME ~spoilt' PROVE disk'.cards = wanted'
            BY DEF FileIsWhatWasWritten
        <3>1. ~spoilt /\ Loaded(p).cache = disk.cards
            BY <2>3, <2>4
        <3>2. disk.cards = wanted
            BY <1>i, <3>1 DEF FileIsWhatWasWritten
        <3> QED
            BY <2>1, <2>3, <2>9, <3>1, <3>2
    <2>14. FewCards(disk'.cards) /\ disk'.version <= MaxVersion
        BY <2>3, <2>5, <2>9
    <2> QED
        BY <2>9, <2>10, <2>11, <2>12, <2>13, <2>14 DEF FileIInv, FewCards, CardsOf
<1>3. ASSUME NEW p \in Processes, NEW e \in Ids, NEW c \in CardValues \cup {Absent},
             FlushFails(p, e, c)
      PROVE  FileIInv'
    <2>1. PICK l : l = Loaded(p)
        OBVIOUS
    <2>2. /\ l \in View /\ FewCards(l.cache) /\ l.cache \in Contents /\ l.version \in Nat
        BY <2>1, LoadedView DEF View
    <2>3. PICK v : v = [[l EXCEPT !.cache = [l.cache EXCEPT ![e] = c]] EXCEPT !.version = l.version + 1]
        OBVIOUS
    <2>4. /\ v \in View /\ v.cache = [l.cache EXCEPT ![e] = c] /\ v.version = l.version + 1
        <3>1. PICK cards \in Contents : cards = [l.cache EXCEPT ![e] = c]
            BY <2>2, OneCardMore
        <3>2. PICK m : m = [l EXCEPT !.cache = cards]
            OBVIOUS
        <3>3. m \in View /\ m.cache = cards
            BY <2>2, <3>1, <3>2 DEF View
        <3>4. v = [m EXCEPT !.version = l.version + 1]
            BY <2>3, <3>1, <3>2
        <3>5. v \in View /\ v.cache = m.cache /\ v.version = l.version + 1
            BY <2>2, <3>3, <3>4 DEF View
        <3> QED
            BY <3>1, <3>3, <3>5
    <2>5. /\ l.version + 1 <= MaxVersion
          /\ view' = [view EXCEPT ![p] = v]
          /\ pending' = pending \cup {p}
          /\ blind' = IF Kept(p) THEN blind ELSE blind \ {p}
          /\ UNCHANGED <<disk, fileTime, wanted, spoilt>>
        BY <1>3, <2>1, <2>3 DEF FlushFails
    <2>6. view' \in [Processes -> View] /\ view'[p] = v
          /\ \A q \in Processes \ {p} : view'[q] = view[q]
        BY <1>t, <2>4, <2>5
    <2>7. FileTypeOK'
        <3>1. \A q \in Processes : view'[q].version <= MaxVersion
            BY <1>t, <2>4, <2>5, <2>6
        <3> QED
            BY <1>t, <2>5, <2>6, <3>1 DEF FileTypeOK
    <2>8. FewCards(view[p].cache)' /\ CacheHashed(p)' /\ CacheCurrent(p)'
        <3>1. FewCards(v.cache)
            BY <2>2, <2>4, OneCardMore
        <3> QED
            BY <2>5, <2>6, <3>1 DEF FewCards, CardsOf, CacheHashed, CacheCurrent
    <2>9. ASSUME NEW q \in Processes \ {p}
          PROVE  FewCards(view[q].cache)' /\ CacheHashed(q)' /\ CacheCurrent(q)'
        BY <2>5, <2>6, OthersView
    <2>10. (disk.version <= MaxVersion /\ FewCards(disk.cards) /\ FileIsWhatWasWritten)'
        BY <1>i, <2>5 DEF FewCards, CardsOf, FileIsWhatWasWritten
    <2> QED
        BY <1>i, <2>5, <2>7, <2>8, <2>9, <2>10 DEF FileIInv
<1>4. ASSUME NEW p \in Processes, Exit(p) PROVE FileIInv'
    <2>1. /\ view' = [view EXCEPT ![p] = Fresh]
          /\ pending' = pending \ {p} /\ blind' = blind \ {p}
          /\ UNCHANGED <<disk, fileTime, wanted, spoilt>>
        BY <1>4 DEF Exit
    <2>2. Fresh \in View /\ ~Fresh.loaded /\ Fresh.cache = Empty /\ Fresh.version <= MaxVersion
        <3>1. <<Empty, 0>> \in Contents \X Nat
            BY EmptyCards
        <3> QED
            BY <3>1, EmptyCards, FileConstants DEF Fresh, View
    <2>3. view' \in [Processes -> View] /\ view'[p] = Fresh
          /\ \A q \in Processes \ {p} : view'[q] = view[q]
        BY <1>t, <2>1, <2>2
    <2>4. FileTypeOK'
        <3>1. \A q \in Processes : view'[q].version <= MaxVersion
            BY <1>t, <2>2, <2>3
        <3> QED
            BY <1>t, <2>1, <2>3, <3>1 DEF FileTypeOK
    <2>5. FewCards(view[p].cache)' /\ CacheHashed(p)' /\ CacheCurrent(p)'
        BY <2>2, <2>3, EmptyCards DEF FewCards, CardsOf, CacheHashed, CacheCurrent, Untouched
    <2>6. ASSUME NEW q \in Processes \ {p}
          PROVE  FewCards(view[q].cache)' /\ CacheHashed(q)' /\ CacheCurrent(q)'
        BY <2>1, <2>3, OthersView
    <2>7. (disk.version <= MaxVersion /\ FewCards(disk.cards) /\ FileIsWhatWasWritten)'
        BY <1>i, <2>1 DEF FewCards, CardsOf, FileIsWhatWasWritten
    <2> QED
        BY <1>i, <2>1, <2>4, <2>5, <2>6, <2>7 DEF FileIInv
<1>5. ASSUME fileTime' \in {fileTime, fileTime + 1},
             UNCHANGED <<disk, view, wanted, pending, blind, spoilt>>
      PROVE  FileIInv'
    <2>1. FileTypeOK'
        BY <1>t, <1>5 DEF FileTypeOK
    <2>2. ASSUME NEW q \in Processes
          PROVE  FewCards(view[q].cache)' /\ CacheHashed(q)' /\ CacheCurrent(q)'
        BY <1>5, OthersView
    <2>3. (disk.version <= MaxVersion /\ FewCards(disk.cards) /\ FileIsWhatWasWritten)'
        BY <1>i, <1>5 DEF FewCards, CardsOf, FileIsWhatWasWritten
    <2> QED
        BY <1>i, <1>5, <2>1, <2>2, <2>3 DEF FileIInv
<1>6. CASE FileTick
    BY <1>5, <1>6 DEF FileTick
<1>7. CASE UNCHANGED fileVars
    BY <1>5, <1>7 DEF fileVars
<1> QED
    BY <1>1, <1>2, <1>3, <1>4, <1>6, <1>7 DEF FileNext, Put, Delete

LEMMA FileAlwaysInv == FileSpec => []FileIInv
BY FileInitInv, FileStepInv, PTL DEF FileSpec

\* The file and the caches keep their types (FileKeyStore).
THEOREM FileTyped == FileSpec => []FileTypeOK
<1>1. FileIInv => FileTypeOK
    BY DEF FileIInv
<1> QED
    BY <1>1, FileAlwaysInv, PTL

\* Whatever any number of processes read, write, fail to write and lose with their
\* end, the file is what the calls that returned have made it, as long as no process
\* wrote from a cache it failed to write or that missed a write of the same time and
\* size (put(), delete() and _load() of FileKeyStore).
THEOREM FileKeepsUpdates == FileSpec => []FileIsWhatWasWritten
<1>1. FileIInv => FileIsWhatWasWritten
    BY DEF FileIInv
<1> QED
    BY <1>1, FileAlwaysInv, PTL

-----------------------------------------------------------------------------
(* The nonce stores                                                        *)
(*                                                                         *)
(* AcceptedOncePerTTL looks at the calls that accepted a nonce; what makes *)
(* it inductive is that every one of them left a mark, and that whoever    *)
(* removed the mark read a clock that made it expired.                     *)

LEMMA NonceConstants ==
    /\ NonceCapacity \in Nat /\ CallsPerCleanup \in Nat /\ KeyGrace \in Nat
    /\ NonceSpread \in Nat /\ LastNonceTime \in Nat
    /\ \A ttl \in TTLs : ttl \in Nat
BY NonceAssumption

NonceMarkRecord == [at : Nat, ttl : TTLs]

\* What was marked is in the store until its time is over.
StillHeld(n, mark) ==
    /\ n \in held
    /\ expires[n] >= mark.at + mark.ttl - TimeSpread
    /\ nonceKind = "sortedSet" =>
          \E ttl \in TTLs : setExpires >= mark.at + ttl + KeyGrace

MarksSpaced(n) ==
    /\ \A i \in 1..Len(nonceMarks[n]) : nonceMarks[n][i].at <= nonceTime
    /\ \A i \in 1..(Len(nonceMarks[n]) - 1) :
          MayReturn(nonceMarks[n][i], nonceMarks[n][i + 1].at)

LastMarkHeld(n) ==
    LET k == Len(nonceMarks[n])
    IN  k > 0 => \/ MayReturn(nonceMarks[n][k], nonceTime)
                 \/ StillHeld(n, nonceMarks[n][k])

NonceIInv ==
    /\ NonceTypeOK
    /\ IsFiniteSet(held)
    /\ \A n \in MarkNonces : MarksSpaced(n) /\ LastMarkHeld(n)

LEMMA NonceInitInv == NonceInit => NonceIInv
<1> SUFFICES ASSUME NonceInit PROVE NonceIInv
    OBVIOUS
<1>1. <<>> \in Seq(NonceMarkRecord) /\ Len(<<>>) = 0
    OBVIOUS
<1>2. held = {} /\ IsFiniteSet(held) /\ Cardinality(held) = 0
    BY FS_EmptySet DEF NonceInit, held
<1>3. NonceTypeOK
    BY <1>1, <1>2, NonceConstants DEF NonceInit, NonceTypeOK, NonceMarkRecord, held
<1> QED
    BY <1>1, <1>2, <1>3, NonceConstants DEF NonceInit, NonceIInv, MarksSpaced, LastMarkHeld

\* An order between times carries over to what is due at them.
LEMMA DueLater ==
    ASSUME NEW e \in Int, NEW f \in Int, NEW a \in Nat, NEW b \in Nat, NEW ttl \in Nat,
           NEW c \in Int, e >= b + ttl + c, a <= b, e <= f
    PROVE  f >= a + ttl + c
OBVIOUS

\* Every entry of the history is a mark.
LEMMA MarksTyped ==
    ASSUME NonceTypeOK, NEW n \in MarkNonces
    PROVE  /\ Len(nonceMarks[n]) \in Nat
           /\ \A i \in 1..Len(nonceMarks[n]) :
                 /\ nonceMarks[n][i] \in NonceMarkRecord
                 /\ nonceMarks[n][i].at \in Nat /\ nonceMarks[n][i].ttl \in Nat
<1>1. PICK s \in Seq(NonceMarkRecord) : s = nonceMarks[n]
    BY DEF NonceTypeOK, NonceMarkRecord
<1>2. Len(s) \in Nat /\ \A i \in 1..Len(s) : s[i] \in NonceMarkRecord
    BY ElementOfSeq
<1>3. \A i \in 1..Len(s) : s[i].at \in Nat /\ s[i].ttl \in Nat
    BY <1>2, NonceConstants DEF NonceMarkRecord
<1> QED
    BY <1>1, <1>2, <1>3

\* What may return may return later.
LEMMA MayReturnLater ==
    ASSUME NEW mark, mark.at \in Nat, mark.ttl \in Nat,
           NEW t \in Nat, NEW later \in Nat, t <= later, MayReturn(mark, t)
    PROVE  MayReturn(mark, later)
<1>1. TimeSpread \in Nat
    BY NonceConstants DEF TimeSpread
<1>2. CASE t >= mark.at + mark.ttl - TimeSpread
    <2>1. later >= mark.at + mark.ttl - TimeSpread
        BY <1>1, <1>2
    <2> QED
        BY <2>1 DEF MayReturn
<1>3. CASE nonceKind = "sortedSet" /\ \E ttl \in TTLs : t >= mark.at + ttl + KeyGrace
    <2>1. PICK ttl \in TTLs : t >= mark.at + ttl + KeyGrace
        BY <1>3
    <2>2. later >= mark.at + ttl + KeyGrace
        BY <2>1, NonceConstants
    <2> QED
        BY <1>3, <2>2 DEF MayReturn
<1> QED
    BY <1>2, <1>3 DEF MayReturn

\* The nonces a step may take out of the store: they, or the whole set, have expired.
MayGo(n) ==
    \/ expires[n] <= nonceTime
    \/ nonceKind = "sortedSet" /\ setExpires <= nonceTime

\* A nonce that is not in the store, or may go, may be new again.
LEMMA GoneMayReturn ==
    ASSUME NonceIInv, NEW n \in MarkNonces, n \notin held \/ MayGo(n), Len(nonceMarks[n]) > 0
    PROVE  MayReturn(nonceMarks[n][Len(nonceMarks[n])], nonceTime)
<1>1. NonceTypeOK /\ LastMarkHeld(n)
    BY DEF NonceIInv
<1>2. PICK k \in Nat : k = Len(nonceMarks[n])
    BY <1>1, MarksTyped
<1>3. PICK mark : mark = nonceMarks[n][k]
    OBVIOUS
<1>4. mark.at \in Nat /\ mark.ttl \in Nat
    BY <1>1, <1>2, <1>3, MarksTyped
<1>5. TimeSpread \in Nat /\ nonceTime \in Nat /\ setExpires \in Nat
    BY <1>1, NonceConstants DEF TimeSpread, NonceTypeOK
<1> SUFFICES ASSUME StillHeld(n, mark) PROVE MayReturn(mark, nonceTime)
    BY <1>1, <1>2, <1>3 DEF LastMarkHeld
<1>6. n \in held /\ expires[n] \in Int
    BY <1>1 DEF StillHeld, NonceTypeOK
<1>7. CASE expires[n] <= nonceTime
    <2>1. expires[n] >= mark.at + mark.ttl - TimeSpread
        BY DEF StillHeld
    <2>2. ASSUME NEW e \in Int, NEW a \in Nat, NEW b \in Nat, NEW d \in Nat,
                 e >= a + b - d, e <= nonceTime
          PROVE  nonceTime >= a + b - d
        BY <1>5, <2>2
    <2>3. nonceTime >= mark.at + mark.ttl - TimeSpread
        BY <1>4, <1>5, <1>6, <1>7, <2>1, <2>2, Zenon
    <2> QED
        BY <2>3 DEF MayReturn
<1>8. CASE nonceKind = "sortedSet" /\ setExpires <= nonceTime
    <2>1. PICK ttl \in TTLs : setExpires >= mark.at + ttl + KeyGrace
        BY <1>8 DEF StillHeld
    <2>2. nonceTime >= mark.at + ttl + KeyGrace
        <3>1. ttl \in Nat /\ KeyGrace \in Int
            BY <2>1, NonceConstants
        <3>2. setExpires \in Int /\ nonceTime \in Int /\ setExpires <= nonceTime
            BY <1>5, <1>8
        <3>3. mark.at \in Nat /\ mark.at <= mark.at
            BY <1>4
        <3> QED
            BY <2>1, <3>1, <3>2, <3>3, DueLater
    <2> QED
        BY <1>8, <2>2 DEF MayReturn
<1> QED
    BY <1>6, <1>7, <1>8 DEF MayGo

\* Time passes, nonces go whose time is over, the set is kept longer: each step
\* does so to the nonces that it does not mark.
Aged(n) ==
    /\ nonceKind' = nonceKind /\ nonceMarks'[n] = nonceMarks[n]
    /\ nonceTime' \in Nat /\ nonceTime <= nonceTime'
    /\ setExpires' \in Nat
    /\ \/ setExpires <= setExpires'
       \/ \E ttl \in TTLs : setExpires' >= nonceTime + ttl + KeyGrace
    /\ \/ n \notin held \/ MayGo(n)
       \/ n \in held' /\ expires'[n] = expires[n]

LEMMA AgedInv ==
    ASSUME NonceIInv, NEW n \in MarkNonces, Aged(n)
    PROVE  MarksSpaced(n)' /\ LastMarkHeld(n)'
<1>1. NonceTypeOK /\ MarksSpaced(n) /\ LastMarkHeld(n)
    BY DEF NonceIInv
<1>2. PICK k \in Nat : k = Len(nonceMarks[n])
    BY <1>1, MarksTyped
<1>3. nonceMarks'[n] = nonceMarks[n] /\ nonceTime \in Nat /\ nonceTime' \in Nat
      /\ nonceTime <= nonceTime' /\ nonceKind' = nonceKind
    BY <1>1 DEF Aged, NonceTypeOK
<1>4. \A i \in 1..k : nonceMarks[n][i].at \in Nat /\ nonceMarks[n][i].ttl \in Nat
                      /\ nonceMarks[n][i].at <= nonceTime
    BY <1>1, <1>2, MarksTyped DEF MarksSpaced
<1>5. MarksSpaced(n)'
    <2>1. \A i \in 1..k : nonceMarks[n][i].at <= nonceTime'
        BY <1>3, <1>4
    <2> QED
        BY <1>1, <1>2, <1>3, <2>1 DEF MarksSpaced, MayReturn, TimeSpread
<1>6. ASSUME k > 0, MayReturn(nonceMarks[n][k], nonceTime) PROVE LastMarkHeld(n)'
    <2>1. MayReturn(nonceMarks[n][k], nonceTime')
        BY <1>3, <1>4, <1>6, MayReturnLater
    <2> QED
        BY <1>2, <1>3, <2>1 DEF LastMarkHeld, MayReturn, TimeSpread
<1>7. ASSUME k > 0, ~MayReturn(nonceMarks[n][k], nonceTime) PROVE LastMarkHeld(n)'
    <2>1. PICK mark : mark = nonceMarks[n][k]
        OBVIOUS
    <2>2. StillHeld(n, mark)
        BY <1>1, <1>2, <1>7, <2>1 DEF LastMarkHeld
    <2>3. n \in held' /\ expires'[n] = expires[n]
        BY <1>2, <1>7, GoneMayReturn DEF Aged
    <2>4. mark.at \in Nat /\ mark.at <= nonceTime
        BY <1>4, <1>7, <2>1
    <2>5. nonceKind = "sortedSet" => \E ttl \in TTLs : setExpires' >= mark.at + ttl + KeyGrace
        <3> SUFFICES ASSUME nonceKind = "sortedSet"
                     PROVE  \E ttl \in TTLs : setExpires' >= mark.at + ttl + KeyGrace
            OBVIOUS
        <3>1. setExpires \in Nat /\ setExpires' \in Nat
            BY <1>1 DEF NonceTypeOK, Aged
        <3>2. CASE setExpires <= setExpires'
            <4>1. PICK ttl \in TTLs : setExpires >= mark.at + ttl + KeyGrace
                BY <2>2 DEF StillHeld
            <4>2. setExpires' >= mark.at + ttl + KeyGrace
                <5>1. ttl \in Nat /\ KeyGrace \in Int /\ setExpires \in Int /\ setExpires' \in Int
                      /\ mark.at <= mark.at
                    BY <2>4, <3>1, <4>1, NonceConstants
                <5> QED
                    BY <2>4, <3>2, <4>1, <5>1, DueLater
            <4> QED
                BY <4>2
        <3>3. CASE \E ttl \in TTLs : setExpires' >= nonceTime + ttl + KeyGrace
            <4>1. PICK ttl \in TTLs : setExpires' >= nonceTime + ttl + KeyGrace
                BY <3>3
            <4>2. setExpires' >= mark.at + ttl + KeyGrace
                <5>1. ttl \in Nat /\ KeyGrace \in Int /\ setExpires' \in Int
                      /\ setExpires' <= setExpires'
                    BY <3>1, <4>1, NonceConstants
                <5> QED
                    BY <1>3, <2>4, <4>1, <5>1, DueLater
            <4> QED
                BY <4>2
        <3> QED
            BY <3>2, <3>3 DEF Aged
    <2>6. nonceMarks'[n][k] = mark
        BY <1>3, <2>1
    <2>7. StillHeld(n, nonceMarks[n][k])'
        BY <1>3, <2>2, <2>3, <2>5, <2>6 DEF StillHeld, TimeSpread
    <2> QED
        BY <1>2, <1>3, <2>7 DEF LastMarkHeld
<1> QED
    BY <1>2, <1>3, <1>5, <1>6, <1>7 DEF LastMarkHeld

\* The nonce that a step marks had expired, and is kept for its ttl.
Marked(n, ttl, t) ==
    /\ nonceKind' = nonceKind /\ nonceTime' = nonceTime
    /\ n \notin held \/ MayGo(n)
    /\ nonceMarks'[n] = Append(nonceMarks[n], [at |-> nonceTime, ttl |-> ttl])
    /\ n \in held' /\ expires'[n] = t + ttl /\ t >= nonceTime - TimeSpread
    /\ nonceKind = "sortedSet" => setExpires' = nonceTime + ttl + KeyGrace

LEMMA MarkedInv ==
    ASSUME NonceIInv, NEW n \in MarkNonces, NEW ttl \in TTLs, NEW t \in Int, Marked(n, ttl, t)
    PROVE  MarksSpaced(n)' /\ LastMarkHeld(n)'
<1>1. NonceTypeOK /\ MarksSpaced(n) /\ nonceTime \in Nat
    BY DEF NonceIInv, NonceTypeOK
<1>2. PICK k \in Nat : k = Len(nonceMarks[n])
    BY <1>1, MarksTyped
<1>3. PICK s \in Seq(NonceMarkRecord) : s = nonceMarks[n]
    BY <1>1 DEF NonceTypeOK, NonceMarkRecord
<1>4. PICK mark \in NonceMarkRecord : mark = [at |-> nonceTime, ttl |-> ttl]
    BY <1>1 DEF NonceMarkRecord
<1>5. mark.at = nonceTime /\ mark.ttl = ttl
    BY <1>4
<1>6. /\ Len(Append(s, mark)) = k + 1
      /\ Append(s, mark)[k + 1] = mark
      /\ \A i \in 1..k : Append(s, mark)[i] = s[i]
    BY <1>2, <1>3
<1>7. nonceMarks'[n] = Append(s, mark)
    BY <1>3, <1>4 DEF Marked
<1>8. /\ Len(nonceMarks'[n]) = k + 1
      /\ nonceMarks'[n][k + 1] = mark
      /\ \A i \in 1..k : nonceMarks'[n][i] = nonceMarks[n][i]
    BY <1>3, <1>6, <1>7
<1>9. nonceKind' = nonceKind /\ nonceTime' = nonceTime
    BY DEF Marked
<1>10. MarksSpaced(n)'
    <2>1. \A i \in 1..(k + 1) : nonceMarks'[n][i].at <= nonceTime
        <3> SUFFICES ASSUME NEW i \in 1..(k + 1) PROVE nonceMarks'[n][i].at <= nonceTime
            OBVIOUS
        <3>1. CASE i = k + 1
            BY <1>1, <1>5, <1>8, <3>1
        <3>2. CASE i # k + 1
            <4>1. i \in 1..k
                BY <1>2, <3>2
            <4> QED
                BY <1>1, <1>2, <1>8, <4>1 DEF MarksSpaced
        <3> QED
            BY <3>1, <3>2
    <2>2. \A i \in 1..k : MayReturn(nonceMarks'[n][i], nonceMarks'[n][i + 1].at)
        <3> SUFFICES ASSUME NEW i \in 1..k
                     PROVE  MayReturn(nonceMarks'[n][i], nonceMarks'[n][i + 1].at)
            OBVIOUS
        <3>1. CASE i = k
            <4>1. MayReturn(nonceMarks[n][k], nonceTime)
                BY <1>2, <3>1, GoneMayReturn DEF Marked
            <4> QED
                BY <1>2, <1>5, <1>8, <3>1, <4>1
        <3>2. CASE i # k
            <4>1. i \in 1..(k - 1) /\ i + 1 \in 1..k /\ i \in 1..k
                BY <1>2, <3>2
            <4>2. MayReturn(nonceMarks[n][i], nonceMarks[n][i + 1].at)
                BY <1>1, <1>2, <4>1 DEF MarksSpaced
            <4> QED
                BY <1>8, <4>1, <4>2
        <3> QED
            BY <3>1, <3>2
    <2>3. (k + 1) - 1 = k
        BY <1>2
    <2> QED
        BY <1>8, <1>9, <2>1, <2>2, <2>3 DEF MarksSpaced, MayReturn, TimeSpread
<1>11. StillHeld(n, mark)'
    <2>1. t + ttl >= mark.at + mark.ttl - TimeSpread
        <3>1. TimeSpread \in Nat /\ ttl \in Nat /\ t >= nonceTime - TimeSpread
            BY NonceConstants DEF TimeSpread, Marked
        <3> QED
            BY <1>1, <1>5, <3>1
    <2>2. nonceKind = "sortedSet" => setExpires' >= mark.at + ttl + KeyGrace
        <3>1. nonceTime + ttl + KeyGrace \in Nat
            BY <1>1, NonceConstants
        <3> QED
            BY <1>5, <3>1 DEF Marked
    <2> QED
        BY <1>9, <2>1, <2>2 DEF StillHeld, TimeSpread, Marked
<1>12. LastMarkHeld(n)'
    BY <1>2, <1>8, <1>11 DEF LastMarkHeld
<1> QED
    BY <1>10, <1>12

-----------------------------------------------------------------------------
\* Keep() and Insert(), as the rest of a step sees them.
LEMMA KeepHeld ==
    ASSUME NonceIInv, NEW left, left \subseteq held, Keep(left)
    PROVE  /\ held' = left /\ IsFiniteSet(left) /\ left \subseteq MarkNonces
           /\ expires' \in [held' -> Int]
           /\ \A m \in left : expires'[m] = expires[m]
           /\ Cardinality(left) \in Nat
           /\ nonceKind = "memory" => Cardinality(left) <= NonceCapacity
<1>1. NonceTypeOK /\ IsFiniteSet(held)
    BY DEF NonceIInv
<1>2. IsFiniteSet(left) /\ Cardinality(left) <= Cardinality(held)
      /\ Cardinality(left) \in Nat /\ Cardinality(held) \in Nat
    BY <1>1, FS_Subset, FS_CardinalityType
<1>3. expires' = [m \in left |-> expires[m]] /\ held' = left
    BY DEF Keep, held
<1>4. \A m \in left : expires[m] \in Int
    BY <1>1 DEF NonceTypeOK
<1>5. nonceKind = "memory" => Cardinality(held) <= NonceCapacity
    BY <1>1 DEF NonceTypeOK
<1>6. nonceKind = "memory" => Cardinality(left) <= NonceCapacity
    BY <1>2, <1>5, NonceConstants
<1>7. left \subseteq MarkNonces
    BY <1>1 DEF NonceTypeOK
<1> QED
    BY <1>2, <1>3, <1>4, <1>6, <1>7

LEMMA InsertHeld ==
    ASSUME NonceIInv, NEW left, left \subseteq held, NEW n \in MarkNonces, NEW t \in Int,
           NEW ttl \in TTLs, Insert(left, n, t, ttl),
           nonceKind = "memory" => Cardinality(left) < NonceCapacity
    PROVE  /\ held' = left \cup {n} /\ IsFiniteSet(held') /\ held' \subseteq MarkNonces
           /\ expires' \in [held' -> Int]
           /\ expires'[n] = t + ttl
           /\ \A m \in left \ {n} : expires'[m] = expires[m]
           /\ nonceKind = "memory" => Cardinality(held') <= NonceCapacity
<1>1. NonceTypeOK /\ IsFiniteSet(held)
    BY DEF NonceIInv
<1>2. IsFiniteSet(left) /\ Cardinality(left) \in Nat
    BY <1>1, FS_Subset, FS_CardinalityType
<1>3. /\ expires' = [m \in left \cup {n} |-> IF m = n THEN t + ttl ELSE expires[m]]
      /\ held' = left \cup {n}
    BY DEF Insert, held
<1>4. \A m \in left : expires[m] \in Int
    BY <1>1 DEF NonceTypeOK
<1>5. t + ttl \in Int
    BY NonceConstants
<1>6. expires' \in [left \cup {n} -> Int]
    BY <1>3, <1>4, <1>5
<1>7. IsFiniteSet(left \cup {n}) /\ Cardinality(left \cup {n}) <= Cardinality(left) + 1
      /\ Cardinality(left \cup {n}) \in Nat
    <2>1. /\ IsFiniteSet(left \cup {n})
          /\ Cardinality(left \cup {n}) = IF n \in left THEN Cardinality(left) ELSE Cardinality(left) + 1
        BY <1>2, FS_AddElement
    <2> QED
        BY <1>2, <2>1
<1>8. nonceKind = "memory" => Cardinality(left \cup {n}) <= NonceCapacity
    BY <1>2, <1>7, NonceConstants
<1>9. left \cup {n} \subseteq MarkNonces
    BY <1>1 DEF NonceTypeOK
<1> QED
    BY <1>3, <1>6, <1>7, <1>8, <1>9

\* The history with the answer to a call, if it arrives.
LEMMA AnswerTyped ==
    ASSUME NonceTypeOK, NEW n \in MarkNonces, NEW ttl \in TTLs, AnswerOrLost(n, ttl)
    PROVE  /\ nonceMarks' \in [MarkNonces -> Seq([at : Nat, ttl : TTLs])]
           /\ \A m \in MarkNonces \ {n} : nonceMarks'[m] = nonceMarks[m]
           /\ \/ nonceMarks'[n] = nonceMarks[n]
              \/ nonceMarks'[n] = Append(nonceMarks[n], [at |-> nonceTime, ttl |-> ttl])
<1>1. nonceMarks[n] \in Seq([at : Nat, ttl : TTLs]) /\ nonceTime \in Nat
    BY DEF NonceTypeOK
<1>2. PICK mark \in [at : Nat, ttl : TTLs] : mark = [at |-> nonceTime, ttl |-> ttl]
    BY <1>1
<1>3. Append(nonceMarks[n], mark) \in Seq([at : Nat, ttl : TTLs])
    BY <1>1, <1>2
<1>4. CASE Answer(n, ttl)
    <2>1. nonceMarks' = [nonceMarks EXCEPT ![n] = Append(nonceMarks[n], mark)]
        BY <1>2, <1>4 DEF Answer
    <2> QED
        BY <1>2, <1>3, <2>1 DEF NonceTypeOK
<1>5. CASE UNCHANGED nonceMarks
    BY <1>5 DEF NonceTypeOK
<1> QED
    BY <1>4, <1>5 DEF AnswerOrLost

-----------------------------------------------------------------------------
(* Every step of a store is of one of three kinds.                         *)

\* It only forgets nonces that may go.
Forgets(left) ==
    /\ Keep(left)
    /\ \A m \in held \ left : MayGo(m)
    /\ calls' \in 0..CallsPerCleanup
    /\ UNCHANGED <<nonceKind, nonceTime, setExpires, nonceMarks>>

\* It marks a nonce by the time that the caller read, and forgets nonces that may go.
Marks(left, n, t, ttl) ==
    /\ Insert(left, n, t, ttl)
    /\ AnswerOrLost(n, ttl)
    /\ \A m \in held \ left : MayGo(m)
    /\ n \in held => MayGo(n)
    /\ nonceKind = "memory" => Cardinality(left) < NonceCapacity
    /\ nonceKind = "sortedSet" /\ setExpires <= nonceTime => left = {}
    /\ t <= nonceTime /\ t >= nonceTime - TimeSpread
    /\ calls' \in 0..CallsPerCleanup
    /\ setExpires' = IF nonceKind = "sortedSet" THEN nonceTime + ttl + KeyGrace ELSE setExpires
    /\ UNCHANGED <<nonceKind, nonceTime>>

\* Time passes, if anything.
Waits ==
    /\ nonceTime' \in {nonceTime, nonceTime + 1}
    /\ UNCHANGED <<nonceKind, expires, calls, setExpires, nonceMarks>>

NonceStep ==
    \/ \E left \in SUBSET held : Forgets(left)
    \/ \E left \in SUBSET held, n \in MarkNonces, t \in Int, ttl \in TTLs : Marks(left, n, t, ttl)
    \/ Waits

LEMMA NonceStepKinds == NonceTypeOK /\ [NonceNext]_nonceVars => NonceStep
<1> SUFFICES ASSUME NonceTypeOK, [NonceNext]_nonceVars PROVE NonceStep
    OBVIOUS
<1>t. /\ nonceTime \in Nat /\ setExpires \in Nat
      /\ calls \in 0..CallsPerCleanup /\ expires \in [held -> Int]
      /\ held \subseteq MarkNonces
    BY DEF NonceTypeOK
<1>k. \A left \in SUBSET held : Forgets(left) => NonceStep
    BY DEF NonceStep
<1>m. \A left \in SUBSET held, n \in MarkNonces, t \in Int, ttl \in TTLs :
        Marks(left, n, t, ttl) => NonceStep
    BY DEF NonceStep
<1>u. \A t \in Int : /\ Unexpired(t) \subseteq held
                     /\ t <= nonceTime => \A m \in held \ Unexpired(t) : MayGo(m)
    BY <1>t DEF Unexpired, MayGo
<1>c. \A late \in 0..NonceSpread :
        /\ nonceTime - late \in Int /\ nonceTime - late <= nonceTime
        /\ nonceKind \in {"sortedSet", "postgres"} => nonceTime - late >= nonceTime - TimeSpread
    BY <1>t, NonceConstants DEF TimeSpread
<1>s. nonceTime \in Int /\ nonceTime <= nonceTime /\ nonceTime >= nonceTime - TimeSpread
    <2>1. TimeSpread \in Nat
        BY NonceConstants DEF TimeSpread
    <2> QED
        BY <1>t, <2>1
<1>1. ASSUME NEW n \in MarkNonces, NEW ttl \in TTLs, MemoryMark(n, ttl) PROVE NonceStep
    <2>1. /\ nonceKind = "memory" /\ calls' \in 0..CallsPerCleanup
          /\ UNCHANGED <<nonceKind, setExpires, nonceTime>>
        BY <1>1, <1>t, NonceConstants DEF MemoryMark
    <2>2. Swept \subseteq held /\ \A m \in held \ Swept : MayGo(m)
        BY <1>t, <1>u DEF Swept
    <2>3. Room \subseteq held /\ \A m \in held \ Room : MayGo(m)
        BY <1>t, <1>u, <2>2 DEF Room
    <2>4. CASE Keep(Swept) /\ UNCHANGED nonceMarks
        BY <1>k, <2>1, <2>2, <2>4 DEF Forgets
    <2>5. CASE Keep(Room) /\ UNCHANGED nonceMarks
        BY <1>k, <2>1, <2>3, <2>5 DEF Forgets
    <2>6. CASE n \notin Swept /\ Cardinality(Room) < NonceCapacity
               /\ Insert(Room, n, nonceTime, ttl) /\ Answer(n, ttl)
        <3>1. n \in held => MayGo(n)
            BY <2>2, <2>6
        <3>2. AnswerOrLost(n, ttl)
              /\ setExpires' = IF nonceKind = "sortedSet" THEN nonceTime + ttl + KeyGrace ELSE setExpires
            BY <2>1, <2>6 DEF AnswerOrLost
        <3>3. Marks(Room, n, nonceTime, ttl)
            BY <1>s, <2>1, <2>3, <2>6, <3>1, <3>2 DEF Marks
        <3> QED
            BY <1>m, <1>s, <2>3, <3>3
    <2> QED
        BY <1>1, <2>4, <2>5, <2>6 DEF MemoryMark
<1>2. ASSUME NEW n \in MarkNonces, MemorySeen(n) PROVE NonceStep
    <2>1. \A m \in held \ (held \ {n}) : MayGo(m)
        BY <1>2, <1>t DEF MemorySeen, MayGo
    <2>2. Keep(held \ {n}) /\ UNCHANGED <<nonceKind, calls, setExpires, nonceTime, nonceMarks>>
        BY <1>2 DEF MemorySeen
    <2>3. Forgets(held \ {n})
        BY <1>t, <2>1, <2>2 DEF Forgets
    <2> QED
        BY <1>k, <2>3
<1>3. ASSUME NEW n \in MarkNonces, NEW ttl \in TTLs, NEW late \in 0..NonceSpread,
             SetMark(n, ttl, late)
      PROVE  NonceStep
    <2>1. PICK t \in Int : t = nonceTime - late /\ t <= nonceTime
        BY <1>c
    <2>2. nonceKind = "sortedSet" /\ UNCHANGED <<nonceKind, calls, nonceTime>>
        BY <1>3 DEF SetMark
    <2>3. SetLeft(t) \subseteq held /\ \A m \in held \ SetLeft(t) : MayGo(m)
        <3>1. CASE setExpires <= nonceTime
            BY <2>2, <3>1 DEF SetLeft, MayGo
        <3>2. CASE ~(setExpires <= nonceTime)
            BY <1>u, <2>1, <3>2 DEF SetLeft
        <3> QED
            BY <3>1, <3>2
    <2>4. CASE n \in SetLeft(t)
        <3>1. Keep(SetLeft(t)) /\ UNCHANGED <<setExpires, nonceMarks>>
            BY <1>3, <2>1, <2>4 DEF SetMark
        <3>2. Forgets(SetLeft(t))
            BY <1>t, <2>2, <2>3, <3>1 DEF Forgets
        <3> QED
            BY <1>k, <2>3, <3>2
    <2>5. CASE n \notin SetLeft(t)
        <3>1. /\ Insert(SetLeft(t), n, t, ttl) /\ AnswerOrLost(n, ttl)
              /\ setExpires' = nonceTime + ttl + KeyGrace
            BY <1>3, <2>1, <2>5 DEF SetMark
        <3>2. n \in held => MayGo(n)
            BY <2>3, <2>5
        <3>3. /\ t >= nonceTime - TimeSpread /\ calls' \in 0..CallsPerCleanup
              /\ nonceKind # "memory"
              /\ setExpires <= nonceTime => SetLeft(t) = {}
              /\ setExpires' = IF nonceKind = "sortedSet" THEN nonceTime + ttl + KeyGrace ELSE setExpires
            BY <1>t, <1>c, <2>1, <2>2, <3>1 DEF SetLeft
        <3>4. Marks(SetLeft(t), n, t, ttl)
            BY <2>1, <2>2, <2>3, <3>1, <3>2, <3>3 DEF Marks
        <3> QED
            BY <1>m, <2>3, <3>4
    <2> QED
        BY <2>4, <2>5
<1>4. ASSUME NEW n \in MarkNonces, NEW ttl \in TTLs, RedisMark(n, ttl) PROVE NonceStep
    <2>1. /\ nonceKind = "redis" /\ Insert(held, n, nonceTime, ttl) /\ AnswerOrLost(n, ttl)
          /\ UNCHANGED <<nonceKind, calls, setExpires, nonceTime>>
        BY <1>4 DEF RedisMark
    <2>2. n \in held => MayGo(n)
        BY <1>4, <1>t DEF RedisMark, Unexpired, MayGo
    <2>3. /\ \A m \in held \ held : MayGo(m)
          /\ nonceKind # "memory" /\ calls' \in 0..CallsPerCleanup
          /\ setExpires' = IF nonceKind = "sortedSet" THEN nonceTime + ttl + KeyGrace ELSE setExpires
        BY <1>t, <2>1
    <2>4. Marks(held, n, nonceTime, ttl)
        BY <1>s, <2>1, <2>2, <2>3 DEF Marks
    <2> QED
        BY <1>m, <1>s, <2>4
<1>5. ASSUME NEW n \in MarkNonces, NEW ttl \in TTLs, NEW late \in 0..NonceSpread,
             PostgresMark(n, ttl, late)
      PROVE  NonceStep
    <2>1. PICK t \in Int : t = nonceTime - late /\ t <= nonceTime
        BY <1>c
    <2>2. /\ nonceKind = "postgres" /\ n \notin held /\ Insert(held, n, t, ttl)
          /\ AnswerOrLost(n, ttl) /\ UNCHANGED <<nonceKind, calls, setExpires, nonceTime>>
        BY <1>5, <2>1 DEF PostgresMark
    <2>3. /\ \A m \in held \ held : MayGo(m)
          /\ nonceKind # "memory" /\ calls' \in 0..CallsPerCleanup /\ t >= nonceTime - TimeSpread
          /\ setExpires' = IF nonceKind = "sortedSet" THEN nonceTime + ttl + KeyGrace ELSE setExpires
        BY <1>t, <1>c, <2>1, <2>2
    <2>4. Marks(held, n, t, ttl)
        BY <2>1, <2>2, <2>3 DEF Marks
    <2> QED
        BY <1>m, <2>4
<1>6. ASSUME NEW late \in 0..NonceSpread, NonceCleanup(late) PROVE NonceStep
    <2>1. PICK t \in Int : t = nonceTime - late /\ t <= nonceTime
        BY <1>c
    <2>2. Keep(held \ Removed(t)) /\ UNCHANGED <<nonceKind, calls, setExpires, nonceTime, nonceMarks>>
        BY <1>6, <2>1 DEF NonceCleanup
    <2>3. \A m \in Removed(t) : m \in held => MayGo(m)
        <3>1. CASE nonceKind = "postgres"
            BY <1>t, <2>1, <3>1 DEF Removed, MayGo
        <3>2. CASE nonceKind # "postgres"
            BY <1>t, <1>u, <2>1, <3>2 DEF Removed
        <3> QED
            BY <3>1, <3>2
    <2>4. Forgets(held \ Removed(t))
        BY <1>t, <2>2, <2>3 DEF Forgets
    <2> QED
        BY <1>k, <2>4
<1>7. CASE NonceTick
    BY <1>7 DEF NonceTick, NonceStep, Waits
<1>8. CASE UNCHANGED nonceVars
    BY <1>8 DEF nonceVars, NonceStep, Waits
<1> QED
    BY <1>1, <1>2, <1>3, <1>4, <1>5, <1>6, <1>7, <1>8 DEF NonceNext

LEMMA ForgetsInv ==
    ASSUME NonceIInv, NEW left, left \subseteq held, Forgets(left)
    PROVE  NonceIInv'
<1>1. NonceTypeOK
    BY DEF NonceIInv
<1>0. Keep(left) /\ UNCHANGED <<nonceKind, nonceTime, setExpires, nonceMarks>>
    BY DEF Forgets
<1>2. /\ held' = left /\ IsFiniteSet(left) /\ left \subseteq MarkNonces
      /\ expires' \in [held' -> Int]
      /\ \A m \in left : expires'[m] = expires[m]
      /\ nonceKind = "memory" => Cardinality(left) <= NonceCapacity
    BY <1>0, KeepHeld
<1>3. NonceTypeOK'
    BY <1>1, <1>2 DEF NonceTypeOK, Forgets
<1>4. ASSUME NEW m \in MarkNonces PROVE MarksSpaced(m)' /\ LastMarkHeld(m)'
    <2>1. Aged(m)
        BY <1>1, <1>2 DEF Aged, NonceTypeOK, Forgets
    <2> QED
        BY <2>1, AgedInv
<1> QED
    BY <1>2, <1>3, <1>4 DEF NonceIInv

LEMMA MarksInv ==
    ASSUME NonceIInv, NEW left, left \subseteq held, NEW n \in MarkNonces, NEW t \in Int,
           NEW ttl \in TTLs, Marks(left, n, t, ttl)
    PROVE  NonceIInv'
<1>0. /\ Insert(left, n, t, ttl) /\ AnswerOrLost(n, ttl)
      /\ \A m \in held \ left : MayGo(m)
      /\ n \in held => MayGo(n)
      /\ nonceKind = "memory" => Cardinality(left) < NonceCapacity
      /\ t >= nonceTime - TimeSpread
      /\ calls' \in 0..CallsPerCleanup
      /\ setExpires' = IF nonceKind = "sortedSet" THEN nonceTime + ttl + KeyGrace ELSE setExpires
      /\ UNCHANGED <<nonceKind, nonceTime>>
    BY DEF Marks
<1>1. NonceTypeOK /\ nonceTime \in Nat /\ setExpires \in Nat
    BY DEF NonceIInv, NonceTypeOK
<1>2. /\ held' = left \cup {n} /\ IsFiniteSet(held') /\ held' \subseteq MarkNonces
      /\ expires' \in [held' -> Int]
      /\ expires'[n] = t + ttl
      /\ \A m \in left \ {n} : expires'[m] = expires[m]
      /\ nonceKind = "memory" => Cardinality(held') <= NonceCapacity
    BY <1>0, InsertHeld
<1>3. /\ nonceMarks' \in [MarkNonces -> Seq([at : Nat, ttl : TTLs])]
      /\ \A m \in MarkNonces \ {n} : nonceMarks'[m] = nonceMarks[m]
      /\ \/ nonceMarks'[n] = nonceMarks[n]
         \/ nonceMarks'[n] = Append(nonceMarks[n], [at |-> nonceTime, ttl |-> ttl])
    BY <1>0, <1>1, AnswerTyped
<1>4. nonceTime + ttl + KeyGrace \in Nat /\ setExpires' \in Nat
    BY <1>0, <1>1, NonceConstants
<1>5. NonceTypeOK'
    BY <1>0, <1>1, <1>2, <1>3, <1>4 DEF NonceTypeOK
<1>6. \/ setExpires <= setExpires'
      \/ \E other \in TTLs : setExpires' >= nonceTime + other + KeyGrace
    BY <1>0, <1>1, <1>4
<1>7. ASSUME NEW m \in MarkNonces PROVE MarksSpaced(m)' /\ LastMarkHeld(m)'
    <2>1. CASE nonceMarks'[m] = nonceMarks[m]
        <3>1. \/ m \notin held \/ MayGo(m)
              \/ m \in held' /\ expires'[m] = expires[m]
            BY <1>0, <1>2
        <3>2. Aged(m)
            BY <1>0, <1>1, <1>4, <1>6, <2>1, <3>1 DEF Aged
        <3> QED
            BY <3>2, AgedInv
    <2>2. CASE m = n /\ nonceMarks'[n] = Append(nonceMarks[n], [at |-> nonceTime, ttl |-> ttl])
        <3>1. Marked(n, ttl, t)
            BY <1>0, <1>2, <2>2 DEF Marked
        <3> QED
            BY <2>2, <3>1, MarkedInv
    <2> QED
        BY <1>3, <2>1, <2>2
<1> QED
    BY <1>2, <1>5, <1>7 DEF NonceIInv

LEMMA WaitsInv ==
    ASSUME NonceIInv, Waits
    PROVE  NonceIInv'
<1>t. /\ NonceTypeOK /\ nonceTime \in Nat /\ setExpires \in Nat
    BY DEF NonceIInv, NonceTypeOK
<1>1. held' = held
    BY DEF held, Waits
<1>2. nonceTime' \in Nat /\ nonceTime <= nonceTime'
    BY <1>t DEF Waits
<1>3. NonceTypeOK'
    BY <1>t, <1>1, <1>2 DEF NonceTypeOK, Waits
<1>4. IsFiniteSet(held')
    BY <1>1 DEF NonceIInv
<1>5. ASSUME NEW m \in MarkNonces PROVE MarksSpaced(m)' /\ LastMarkHeld(m)'
    <2>1. Aged(m)
        BY <1>t, <1>1, <1>2 DEF Aged, Waits
    <2> QED
        BY <2>1, AgedInv
<1> QED
    BY <1>3, <1>4, <1>5 DEF NonceIInv

LEMMA NonceStepInv == NonceIInv /\ [NonceNext]_nonceVars => NonceIInv'
<1> SUFFICES ASSUME NonceIInv, [NonceNext]_nonceVars PROVE NonceIInv'
    OBVIOUS
<1>1. NonceStep
    BY NonceStepKinds DEF NonceIInv
<1> QED
    BY <1>1, ForgetsInv, MarksInv, WaitsInv DEF NonceStep

LEMMA NonceAlwaysInv == NonceSpec => []NonceIInv
BY NonceInitInv, NonceStepInv, PTL DEF NonceSpec

\* The stores keep their types, and MemoryNonceStore never holds more nonces than
\* MAX_NONCE_STORE_SIZE (mark_used() of the memory store).
THEOREM NoncesTyped == NonceSpec => []NonceTypeOK
<1>1. NonceIInv => NonceTypeOK
    BY DEF NonceIInv
<1> QED
    BY <1>1, NonceAlwaysInv, PTL

\* Each store accepts a nonce again only when its time is over, for any capacity,
\* any times to live and any difference of the callers' clocks (mark_used()).
THEOREM NonceHeldForTTL == NonceSpec => []AcceptedOncePerTTL
<1>1. NonceIInv => AcceptedOncePerTTL
    BY DEF NonceIInv, MarksSpaced, AcceptedOncePerTTL
<1> QED
    BY <1>1, NonceAlwaysInv, PTL

\* The times to live are less than the hour apart that EXPIRE adds.
GraceSuffices == \A ttl, other \in TTLs : ttl <= other + KeyGrace

NextMarkWaits(n) ==
    \A i \in 1..(Len(nonceMarks[n]) - 1) :
        nonceMarks[n][i + 1].at >= nonceMarks[n][i].at + nonceMarks[n][i].ttl - TimeSpread

\* The 90 seconds of a handshake and the window of a guard are less than an hour apart
\* unless the window is configured larger: then a sorted set that they share loses no
\* nonce to a shorter-lived one, and only the clocks matter (mark_used() of
\* SlidingWindowNonceStore).
THEOREM GraceKeepsNonces ==
    ASSUME GraceSuffices
    PROVE  NonceSpec => [](\A n \in MarkNonces : NextMarkWaits(n))
<1>1. ASSUME NEW mark \in NonceMarkRecord, NEW t \in Nat, MayReturn(mark, t)
      PROVE  t >= mark.at + mark.ttl - TimeSpread
    <2>1. /\ mark.at \in Nat /\ mark.ttl \in TTLs /\ mark.ttl \in Nat /\ KeyGrace \in Nat
          /\ TimeSpread \in Nat
        BY NonceConstants DEF NonceMarkRecord, TimeSpread
    <2>2. ASSUME NEW other \in TTLs, t >= mark.at + other + KeyGrace
          PROVE  t >= mark.at + mark.ttl - TimeSpread
        <3>1. mark.ttl <= other + KeyGrace
            BY <2>1 DEF GraceSuffices
        <3>2. other \in Nat
            BY NonceConstants
        <3> QED
            BY <2>1, <2>2, <3>1, <3>2
    <2> QED
        BY <1>1, <2>2 DEF MayReturn
<1>2. ASSUME NonceIInv, NEW n \in MarkNonces PROVE NextMarkWaits(n)
    <2>1. PICK marks \in Seq(NonceMarkRecord) : marks = nonceMarks[n]
        BY <1>2 DEF NonceIInv, NonceTypeOK, NonceMarkRecord
    <2>2. ASSUME NEW i \in 1..(Len(marks) - 1)
          PROVE  marks[i] \in NonceMarkRecord /\ marks[i + 1].at \in Nat
        <3>1. i \in 1..Len(marks) /\ i + 1 \in 1..Len(marks)
            BY <2>1
        <3>2. marks[i] \in NonceMarkRecord /\ marks[i + 1] \in NonceMarkRecord
            BY <2>1, <3>1
        <3> QED
            BY <3>2 DEF NonceMarkRecord
    <2>3. \A i \in 1..(Len(marks) - 1) : MayReturn(marks[i], marks[i + 1].at)
        BY <1>2, <2>1 DEF NonceIInv, MarksSpaced
    <2> QED
        BY <1>1, <2>1, <2>2, <2>3 DEF NextMarkWaits
<1>3. NonceIInv => \A n \in MarkNonces : NextMarkWaits(n)
    BY <1>2
<1> QED
    BY <1>3, NonceAlwaysInv, PTL

-----------------------------------------------------------------------------
(* Every store is the register. The steps above map to those of it: what   *)
(* is forgotten had lapsed, so that Forgets() changes nothing of the       *)
(* register; Marks() marks a lapsed nonce; Waits is the time that passes.  *)

LEMMA LapsedTyped ==
    ASSUME NonceTypeOK
    PROVE  /\ nonceTime \in Nat /\ setExpires \in Nat /\ TimeSpread \in Nat
           /\ \A m \in held : m \in MarkNonces /\ expires[m] \in Int
           /\ Remaining \in [MarkNonces -> Nat] /\ KeptYet \in Nat
<1>1. /\ nonceTime \in Nat /\ setExpires \in Nat /\ TimeSpread \in Nat
      /\ \A m \in held : m \in MarkNonces /\ expires[m] \in Int
    BY NonceConstants DEF NonceTypeOK, TimeSpread
<1>2. \A m \in MarkNonces : (IF Lapsed(m) THEN 0 ELSE expires[m] - nonceTime) \in Nat
    BY <1>1 DEF Lapsed
<1> QED
    BY <1>1, <1>2 DEF Remaining, KeptYet

\* The answers that callers heard, as the register counts them.
Heard == [n \in MarkNonces |-> Len(nonceMarks[n])]

LEMMA ForgetsIsNothing ==
    ASSUME NonceTypeOK, NEW left, left \subseteq held, Forgets(left)
    PROVE  UNCHANGED <<TimeSpread, nonceKind = "sortedSet", Remaining, KeptYet, Heard>>
<1>1. /\ Keep(left) /\ \A m \in held \ left : MayGo(m)
      /\ UNCHANGED <<nonceKind, nonceTime, setExpires, nonceMarks>>
    BY DEF Forgets
<1>2. held' = left /\ \A m \in left : expires'[m] = expires[m]
    BY <1>1 DEF Keep, held
<1>3. \A m \in MarkNonces : /\ Lapsed(m)' <=> Lapsed(m)
                            /\ ~Lapsed(m) => expires'[m] = expires[m]
    BY <1>1, <1>2 DEF Lapsed, MayGo
<1>4. Remaining' = Remaining
    BY <1>1, <1>3 DEF Remaining
<1> QED
    BY <1>1, <1>4 DEF TimeSpread, KeptYet, Heard

\* What a mark leaves to the nonces: the others keep theirs, its own gets the time to live
\* less the lateness of the caller's clock.
LEMMA MarksRemaining ==
    ASSUME NonceIInv, NEW left, left \subseteq held, NEW n \in MarkNonces, NEW t \in Int,
           NEW ttl \in TTLs, Marks(left, n, t, ttl), NEW late \in Nat, late = nonceTime - t
    PROVE  /\ Remaining[n] = 0
           /\ Remaining' = [Remaining EXCEPT ![n] = IF ttl > late THEN ttl - late ELSE 0]
<1>0. /\ Insert(left, n, t, ttl) /\ \A m \in held \ left : MayGo(m)
      /\ n \in held => MayGo(n)
      /\ nonceKind = "memory" => Cardinality(left) < NonceCapacity
      /\ nonceKind = "sortedSet" /\ setExpires <= nonceTime => left = {}
      /\ setExpires' = IF nonceKind = "sortedSet" THEN nonceTime + ttl + KeyGrace ELSE setExpires
      /\ UNCHANGED <<nonceKind, nonceTime>>
    BY DEF Marks
<1>1. NonceTypeOK
    BY DEF NonceIInv
<1>t. /\ nonceTime \in Nat /\ setExpires \in Nat /\ Remaining \in [MarkNonces -> Nat]
      /\ \A m \in held : m \in MarkNonces /\ expires[m] \in Int
    BY <1>1, LapsedTyped
<1>2. /\ held' = left \cup {n} /\ expires'[n] = t + ttl
      /\ \A m \in left \ {n} : expires'[m] = expires[m]
    BY <1>0 DEF Insert, held
<1>a. ttl \in Nat /\ ttl > 0 /\ KeyGrace \in Nat /\ t + ttl \in Int
    BY NonceAssumption
<1>3. nonceKind = "sortedSet" => ~(setExpires' <= nonceTime')
    <2>1. ~(nonceTime + ttl + KeyGrace <= nonceTime)
        BY <1>a, <1>t
    <2> QED
        BY <1>0, <2>1
<1>4. Lapsed(n)
    BY <1>0 DEF Lapsed, MayGo
<1>5. Remaining[n] = 0
    BY <1>4 DEF Remaining
<1>6. ASSUME NEW m \in MarkNonces \ {n} PROVE Remaining'[m] = Remaining[m]
    <2>1. CASE m \in left
        <3>1. m \in held /\ m \in held' /\ expires'[m] = expires[m]
            BY <1>2, <2>1
        <3>2. nonceKind = "sortedSet" => ~(setExpires <= nonceTime)
            BY <1>0, <2>1
        <3>3. Lapsed(m)' <=> Lapsed(m)
            BY <1>0, <1>3, <3>1, <3>2 DEF Lapsed
        <3> QED
            BY <1>0, <3>1, <3>3 DEF Remaining
    <2>2. CASE m \notin left
        <3>1. Lapsed(m)
            BY <1>0, <2>2 DEF Lapsed, MayGo
        <3>2. Lapsed(m)'
            BY <1>2, <2>2 DEF Lapsed
        <3> QED
            BY <3>1, <3>2 DEF Remaining
    <2> QED
        BY <2>1, <2>2
<1>7. Remaining'[n] = IF ttl > late THEN ttl - late ELSE 0
    <2>1. n \in held' /\ nonceTime' = nonceTime /\ nonceKind' = nonceKind
        BY <1>0, <1>2
    <2>2. Lapsed(n)' <=> t + ttl <= nonceTime
        BY <1>2, <1>3, <1>a, <1>t, <2>1 DEF Lapsed
    <2>3. Remaining'[n] = IF Lapsed(n)' THEN 0 ELSE expires'[n] - nonceTime'
        BY DEF Remaining
    <2>4. expires'[n] - nonceTime' = t + ttl - nonceTime
        <3>1. expires'[n] = t + ttl /\ nonceTime' = nonceTime
            BY <1>2, <2>1
        <3> QED
            BY <1>a, <1>t, <3>1
    <2> QED
        BY <1>t, <1>a, <2>2, <2>3, <2>4
<1>8. Remaining' = [m \in MarkNonces |-> Remaining'[m]]
    BY DEF Remaining
<1> QED
    BY <1>5, <1>6, <1>7, <1>8, <1>t

LEMMA MarksHeard ==
    ASSUME NonceTypeOK, NEW n \in MarkNonces, NEW ttl \in TTLs, AnswerOrLost(n, ttl)
    PROVE  Heard' = [Heard EXCEPT ![n] = @ + 1] \/ UNCHANGED Heard
<1>1. /\ \A m \in MarkNonces \ {n} : nonceMarks'[m] = nonceMarks[m]
      /\ \/ nonceMarks'[n] = nonceMarks[n]
         \/ nonceMarks'[n] = Append(nonceMarks[n], [at |-> nonceTime, ttl |-> ttl])
    BY AnswerTyped
<1>2. PICK marks \in Seq(NonceMarkRecord) : marks = nonceMarks[n]
    BY DEF NonceTypeOK, NonceMarkRecord
<1>3. PICK mark \in NonceMarkRecord : mark = [at |-> nonceTime, ttl |-> ttl]
    BY DEF NonceTypeOK, NonceMarkRecord
<1>4. Len(Append(marks, mark)) = Len(marks) + 1
    BY <1>2
<1>5. CASE nonceMarks'[n] = nonceMarks[n]
    BY <1>1, <1>5 DEF Heard
<1>6. CASE nonceMarks'[n] = Append(nonceMarks[n], [at |-> nonceTime, ttl |-> ttl])
    <2>1. Len(nonceMarks'[n]) = Len(nonceMarks[n]) + 1
        BY <1>2, <1>3, <1>4, <1>6
    <2> QED
        BY <1>1, <2>1 DEF Heard
<1> QED
    BY <1>1, <1>5, <1>6

LEMMA MarksIsMark ==
    ASSUME NonceIInv, NEW left, left \subseteq held, NEW n \in MarkNonces, NEW t \in Int,
           NEW ttl \in TTLs, Marks(left, n, t, ttl)
    PROVE  Register!Next
<1>0. /\ AnswerOrLost(n, ttl) /\ t <= nonceTime /\ t >= nonceTime - TimeSpread
      /\ setExpires' = IF nonceKind = "sortedSet" THEN nonceTime + ttl + KeyGrace ELSE setExpires
      /\ UNCHANGED <<nonceKind, nonceTime>>
    BY DEF Marks
<1>1. NonceTypeOK
    BY DEF NonceIInv
<1>t. /\ nonceTime \in Nat /\ setExpires \in Nat /\ TimeSpread \in Nat /\ ttl \in Nat \ {0}
      /\ KeyGrace \in Nat
    BY <1>1, LapsedTyped, NonceAssumption
<1>2. PICK late \in 0..TimeSpread : late = nonceTime - t
    BY <1>0, <1>t
<1>3. /\ Remaining[n] = 0
      /\ Remaining' = [Remaining EXCEPT ![n] = IF ttl > late THEN ttl - late ELSE 0]
    BY <1>2, <1>t, MarksRemaining
<1>4. KeptYet' = IF nonceKind = "sortedSet" THEN ttl + KeyGrace ELSE KeptYet
    BY <1>0, <1>t DEF KeptYet
<1>5. Heard' = [Heard EXCEPT ![n] = @ + 1] \/ UNCHANGED Heard
    BY <1>0, <1>1, MarksHeard
<1>6. UNCHANGED <<TimeSpread, nonceKind = "sortedSet">>
    BY <1>0 DEF TimeSpread
<1>7. Register!Mark(n, ttl, late)
    BY <1>3, <1>4, <1>5, <1>6 DEF Register!Mark, Register!terms, Heard
<1> QED
    BY <1>2, <1>7 DEF Register!Next

LEMMA WaitsIsPass ==
    ASSUME NonceTypeOK, Waits
    PROVE  Register!Next \/ UNCHANGED Register!vars
<1>t. /\ nonceTime \in Nat /\ setExpires \in Nat
      /\ \A m \in held : m \in MarkNonces /\ expires[m] \in Int
    BY LapsedTyped
<1>1. held' = held /\ UNCHANGED <<nonceKind, expires, setExpires, nonceMarks>>
    BY DEF held, Waits
<1>2. CASE nonceTime' = nonceTime
    <2>1. UNCHANGED <<TimeSpread, nonceKind = "sortedSet", Remaining, KeptYet, Heard>>
        BY <1>1, <1>2 DEF TimeSpread, Remaining, Lapsed, KeptYet, Heard
    <2> QED
        BY <2>1 DEF Register!vars, Register!terms, Heard
<1>3. CASE nonceTime' = nonceTime + 1
    <2>1. /\ KeptYet' = Register!Less(KeptYet)
          /\ nonceKind = "sortedSet" /\ KeptYet' = 0 <=>
                 nonceKind = "sortedSet" /\ setExpires <= nonceTime'
        BY <1>t, <1>1, <1>3 DEF KeptYet, Register!Less
    <2>2. ASSUME NEW m \in MarkNonces
          PROVE  Remaining'[m] = IF nonceKind = "sortedSet" /\ KeptYet' = 0
                                 THEN 0 ELSE Register!Less(Remaining[m])
        <3>1. /\ Remaining[m] = IF Lapsed(m) THEN 0 ELSE expires[m] - nonceTime
              /\ Remaining'[m] = IF Lapsed(m)' THEN 0 ELSE expires[m] - nonceTime'
            BY <1>1 DEF Remaining
        <3>2. CASE nonceKind = "sortedSet" /\ setExpires <= nonceTime'
            BY <1>1, <2>1, <3>1, <3>2 DEF Lapsed
        <3>3. CASE ~(nonceKind = "sortedSet" /\ setExpires <= nonceTime')
            <4>1. ~(nonceKind = "sortedSet" /\ setExpires <= nonceTime)
                BY <1>t, <1>3, <3>3
            <4>2. CASE m \notin held
                <5>1. Lapsed(m) /\ Lapsed(m)'
                    BY <1>1, <4>2 DEF Lapsed
                <5> QED
                    BY <2>1, <3>1, <3>3, <5>1 DEF Register!Less
            <4>3. CASE m \in held
                <5>1. /\ Lapsed(m) <=> expires[m] <= nonceTime
                      /\ Lapsed(m)' <=> expires[m] <= nonceTime'
                    BY <1>1, <3>3, <4>1, <4>3 DEF Lapsed
                <5> QED
                    BY <1>t, <1>3, <2>1, <3>1, <3>3, <4>3, <5>1 DEF Register!Less
            <4> QED
                BY <4>2, <4>3
        <3> QED
            BY <3>2, <3>3
    <2>3. Remaining' = [m \in MarkNonces |-> IF nonceKind = "sortedSet" /\ KeptYet' = 0
                                             THEN 0 ELSE Register!Less(Remaining[m])]
        BY <2>2 DEF Remaining
    <2>4. UNCHANGED <<TimeSpread, nonceKind = "sortedSet", Heard>>
        BY <1>1 DEF TimeSpread, Heard
    <2>5. Register!Pass
        BY <2>1, <2>3, <2>4 DEF Register!Pass, Register!terms, Heard
    <2> QED
        BY <2>5 DEF Register!Next
<1> QED
    BY <1>2, <1>3 DEF Waits

LEMMA RegisterInit == NonceInit => Register!Init
<1> SUFFICES ASSUME NonceInit PROVE Register!Init
    OBVIOUS
<1>1. TimeSpread \in Nat
    BY NonceConstants DEF TimeSpread
<1>2. Remaining = [n \in MarkNonces |-> 0] /\ KeptYet = 0
    BY DEF NonceInit, Remaining, Lapsed, held, KeptYet
<1>3. Heard = [n \in MarkNonces |-> 0]
    BY DEF NonceInit, Heard
<1> QED
    BY <1>1, <1>2, <1>3 DEF Register!Init, Heard

LEMMA RegisterStep == NonceIInv /\ [NonceNext]_nonceVars => [Register!Next]_(Register!vars)
<1> SUFFICES ASSUME NonceIInv, [NonceNext]_nonceVars
             PROVE  Register!Next \/ UNCHANGED Register!vars
    OBVIOUS
<1>1. NonceTypeOK
    BY DEF NonceIInv
<1>2. ASSUME NEW left \in SUBSET held, Forgets(left) PROVE UNCHANGED Register!vars
    <2>1. UNCHANGED <<TimeSpread, nonceKind = "sortedSet", Remaining, KeptYet, Heard>>
        BY <1>1, <1>2, ForgetsIsNothing
    <2> QED
        BY <2>1 DEF Register!vars, Register!terms, Heard
<1>3. ASSUME NEW left \in SUBSET held, NEW n \in MarkNonces, NEW t \in Int, NEW ttl \in TTLs,
             Marks(left, n, t, ttl)
      PROVE  Register!Next
    BY <1>3, MarksIsMark
<1>4. NonceStep
    BY <1>1, NonceStepKinds
<1> QED
    BY <1>1, <1>2, <1>3, <1>4, WaitsIsPass DEF NonceStep

\* Every kind of store is the register of nonces that ReplayGuard and Handshake rely on,
\* whatever it cleans up, prunes or refuses, for any times to live (mark_used(),
\* is_seen() and cleanup() of the stores).
THEOREM StoresAreRegisters == NonceSpec => ImplementsRegister
BY RegisterInit, RegisterStep, NonceAlwaysInv, PTL
DEF NonceSpec, ImplementsRegister, Register!Spec

-----------------------------------------------------------------------------
(* The trust store                                                         *)
(*                                                                         *)
(* verify() reads the issuer's keys before the registry of revocations. If *)
(* the keys are the ones that signed the card, the card was good at that   *)
(* moment unless its certificate was revoked, and then it is still revoked *)
(* when the registry is read, or was unrevoked in between (VerifyInv).     *)
(* Savers have the file lock from snapshot to replacement, so a later      *)
(* snapshot never reaches the file before an earlier one (SavesInv).       *)

USE TrustAssumption

VerifyInv(t) ==
    /\ At(t, "check revoked") /\ task[t].keys = task[t].signed =>
           wasGood[t] \/ cleared[t] \/ task[t].certs \cap revokedCerts # {}
    /\ At(t, "check signature") /\ task[t].keys = task[t].signed =>
           wasGood[t] \/ cleared[t]
    /\ At(t, "accepted") => wasGood[t] \/ cleared[t]

\* The revocations a save() owes are in the store, in its snapshot and in its file.
SavesInv ==
    /\ \A t \in Threads : Saving(t) => due[t] \subseteq revokedCerts
    /\ \A t \in Threads : At(t, "saved") => due[t] \subseteq trustFile.revokedCerts
    /\ \A u \in Threads : At(u, "replacing") =>
           \A t \in Threads :
               /\ At(t, "replacing") => t = u
               /\ t = u \/ At(t, "saved") => due[t] \subseteq task[u].image.revokedCerts

TrustIInv == TrustTypeOK /\ SavesInv /\ \A t \in Threads : VerifyInv(t)

\* A step of others: t stays where it is and keeps what its histories say.
VerifyUntouched(t) ==
    /\ task'[t] = task[t]
    /\ Verifying(t) =>
           /\ wasGood[t] => wasGood'[t]
           /\ cleared[t] => cleared'[t]
           /\ cleared'[t] \/ task[t].certs \cap revokedCerts \subseteq revokedCerts'

\* The savers stay where they are, and the store keeps what they still owe.
SavesUntouched ==
    /\ trustFile' = trustFile
    /\ \A t \in Threads : Saving(t)' =>
           /\ task'[t] = task[t]
           /\ due'[t] \subseteq due[t]
           /\ due'[t] \cap revokedCerts \subseteq revokedCerts'

----------------------------------------------------------------------------
\* What Watch says of each thread.
LEMMA WatchFacts ==
    ASSUME TrustTypeOK, Watch
    PROVE  /\ wasGood' \in [Threads -> BOOLEAN]
           /\ cleared' \in [Threads -> BOOLEAN]
           /\ due' \in [Threads -> SUBSET Certs]
           /\ \A t \in Threads : Verifying(t)' =>
                  (wasGood[t] => wasGood'[t]) /\ (cleared[t] => cleared'[t])
           /\ \A t \in Threads : due'[t] \subseteq due[t]
<1>1. wasGood' \in [Threads -> BOOLEAN] /\ cleared' \in [Threads -> BOOLEAN]
    BY DEF Watch
<1>2. due' \in [Threads -> SUBSET Certs]
    BY DEF Watch, TrustTypeOK
<1>3. \A t \in Threads : Verifying(t)' =>
          (wasGood[t] => wasGood'[t]) /\ (cleared[t] => cleared'[t])
    BY DEF Watch
<1>4. \A t \in Threads : due'[t] \subseteq due[t]
    BY DEF Watch
<1>5. QED
    BY <1>1, <1>2, <1>3, <1>4

\* A thread that a step does not touch keeps its invariant.
LEMMA VerifyUntouchedInv ==
    ASSUME NEW t \in Threads, VerifyInv(t), VerifyUntouched(t)
    PROVE  VerifyInv(t)'
BY DEF VerifyInv, VerifyUntouched, Verifying, At

\* A thread that is not in verify() has no promise to keep.
LEMMA NotVerifying ==
    ASSUME NEW t \in Threads, ~Verifying(t)'
    PROVE  VerifyInv(t)'
BY DEF VerifyInv, Verifying, At

\* Savers that a step does not touch keep theirs.
LEMMA SavesUntouchedInv ==
    ASSUME SavesInv, SavesUntouched
    PROVE  SavesInv'
<1>1. \A t \in Threads : Saving(t)' => due'[t] \subseteq revokedCerts'
    BY DEF SavesInv, SavesUntouched, Saving
<1>2. \A t \in Threads : At(t, "saved")' => due'[t] \subseteq trustFile'.revokedCerts
    BY DEF SavesInv, SavesUntouched, Saving, At
<1>3. ASSUME NEW u \in Threads, At(u, "replacing")', NEW t \in Threads
      PROVE  /\ At(t, "replacing")' => t = u
             /\ t = u \/ At(t, "saved")' => due'[t] \subseteq task'[u].image.revokedCerts
    BY <1>3 DEF SavesInv, SavesUntouched, Saving, At
<1>4. QED
    BY <1>1, <1>2, <1>3 DEF SavesInv

----------------------------------------------------------------------------
\* The records of a thread's call.
LEMMA TaskTyped ==
    /\ NoImage \in Image
    /\ NoTask \in [step : Steps, issuer : AnchorIds, keys : Keys, signed : Keys,
                   certs : SUBSET Certs, image : Image]
<1>1. NoImage \in Image
    BY DEF NoImage, Image, Keys
<1>2. (CHOOSE a \in AnchorIds : TRUE) \in AnchorIds
    OBVIOUS
<1>3. QED
    BY <1>1, <1>2 DEF NoTask, Steps, Keys

\* The empty store.
LEMMA TrustInitInv == TrustInit => TrustIInv
<1> SUFFICES ASSUME TrustInit PROVE TrustIInv
    OBVIOUS
<1>1. TrustTypeOK
    BY TaskTyped DEF TrustInit, TrustTypeOK, Keys
<1>2. \A t \in Threads : task[t].step = "idle"
    BY DEF TrustInit, NoTask
<1>3. SavesInv /\ \A t \in Threads : VerifyInv(t)
    BY <1>2 DEF SavesInv, VerifyInv, Saving, At
<1>4. QED
    BY <1>1, <1>3 DEF TrustIInv

----------------------------------------------------------------------------
\* Every step keeps the types.
LEMMA TypeStep == TrustTypeOK /\ [TrustNext]_trustVars => TrustTypeOK'
<1> SUFFICES ASSUME TrustTypeOK, [TrustNext]_trustVars PROVE TrustTypeOK'
    OBVIOUS
<1> DEFINE Tasks == [step : Steps, issuer : AnchorIds, keys : Keys, signed : Keys,
                     certs : SUBSET Certs, image : Image]
<1>t. /\ issued \in [Certs -> Keys]
      /\ validity \in [Certs -> {"before", "within", "after"}]
      /\ anchors \in [AnchorIds -> Keys]
      /\ revokedCerts \subseteq Certs
      /\ trustFile \in Image
      /\ task \in [Threads -> Tasks]
      /\ wasGood \in [Threads -> BOOLEAN]
      /\ cleared \in [Threads -> BOOLEAN]
      /\ due \in [Threads -> SUBSET Certs]
    BY DEF TrustTypeOK
<1>k. NoKey \in Keys /\ AnchorKeys \subseteq Keys /\ NoTask \in Tasks
    BY TaskTyped DEF Keys
<1>g. ASSUME NEW t \in Threads, NEW step \in Steps, Go(t, step)
      PROVE  task' \in [Threads -> Tasks]
    BY <1>t, <1>g DEF Go
<1>e. ASSUME NEW t \in Threads, EndTask(t)
      PROVE  task' \in [Threads -> Tasks]
    BY <1>t, <1>k, <1>e DEF EndTask
<1>1. ASSUME NEW c \in Certs, Revoke(c) \/ Unrevoke(c)
      PROVE  TrustTypeOK'
  <2>1. CASE Revoke(c)
      BY <1>t, <2>1, WatchFacts DEF Revoke, TrustTypeOK
  <2>2. CASE Unrevoke(c)
    <3>1. wasGood' \in [Threads -> BOOLEAN] /\ cleared' \in [Threads -> BOOLEAN]
        BY <2>2 DEF Unrevoke
    <3>2. due' \in [Threads -> SUBSET Certs]
        BY <1>t, <2>2 DEF Unrevoke
    <3>3. QED
        BY <1>t, <2>2, <3>1, <3>2 DEF Unrevoke, TrustTypeOK
  <2>3. QED
      BY <1>1, <2>1, <2>2
<1>2. ASSUME NEW c \in Certs, NEW k \in AnchorKeys, Issue(c, k)
      PROVE  TrustTypeOK'
    BY <1>t, <1>k, <1>2 DEF Issue, TrustTypeOK
<1>3. ASSUME NEW c \in Certs, ClockPasses(c)
      PROVE  TrustTypeOK'
    BY <1>t, <1>3 DEF ClockPasses, TrustTypeOK
<1>4. ASSUME NEW a \in AnchorIds, RemoveAnchor(a) \/ \E k \in AnchorKeys : Add(a, k)
      PROVE  TrustTypeOK'
  <2>1. CASE RemoveAnchor(a)
      BY <1>t, <1>k, <2>1, WatchFacts DEF RemoveAnchor, TrustTypeOK
  <2>2. ASSUME NEW k \in AnchorKeys, Add(a, k)
        PROVE  TrustTypeOK'
      BY <1>t, <1>k, <2>2, WatchFacts DEF Add, TrustTypeOK
  <2>3. QED
      BY <1>4, <2>1, <2>2
<1>5. ASSUME NEW t \in Threads, NEW a \in AnchorIds, NEW k \in Keys, NEW certs \in SUBSET Certs,
             BeginCrl(t, a, k, certs)
      PROVE  TrustTypeOK'
  <2>1. [NoTask EXCEPT !.step = "check crl", !.issuer = a, !.keys = anchors[a],
                       !.signed = k, !.certs = certs] \in Tasks
      BY <1>t, <1>k DEF Steps
  <2>2. task' \in [Threads -> Tasks]
      BY <1>t, <1>5, <2>1 DEF BeginCrl
  <2>3. QED
      BY <1>t, <1>5, <2>2, WatchFacts DEF BeginCrl, TrustTypeOK
<1>6. ASSUME NEW t \in Threads, CheckCrl(t) \/ CheckRevoked(t) \/ CheckSignature(t)
      PROVE  TrustTypeOK'
  <2>1. task' \in [Threads -> Tasks]
      BY <1>6, <1>g, <1>e DEF CheckCrl, CheckRevoked, CheckSignature, Steps
  <2>2. QED
      BY <1>t, <1>6, <2>1, WatchFacts
      DEF CheckCrl, CheckRevoked, CheckSignature, TrustTypeOK
<1>7. ASSUME NEW t \in Threads, ApplyCrl(t)
      PROVE  TrustTypeOK'
  <2>1. task[t].certs \subseteq Certs
      BY <1>t
  <2>2. QED
      BY <1>t, <1>e, <1>7, <2>1, WatchFacts DEF ApplyCrl, TrustTypeOK
<1>8. ASSUME NEW t \in Threads, NEW certs \in SUBSET Certs, TrustCrl(t, certs)
      PROVE  TrustTypeOK'
    BY <1>t, <1>e, <1>8, WatchFacts DEF TrustCrl, TrustTypeOK
<1>9. ASSUME NEW t \in Threads, NEW c \in Certs, NEW a \in AnchorIds, NEW genuine \in BOOLEAN,
             BeginVerify(t, c, a, genuine)
      PROVE  TrustTypeOK'
  <2>1. (IF genuine THEN issued[c] ELSE NoKey) \in Keys
      BY <1>t, <1>k
  <2>2. [NoTask EXCEPT !.step = "check revoked", !.issuer = a, !.keys = anchors[a],
                       !.signed = IF genuine THEN issued[c] ELSE NoKey, !.certs = {c}] \in Tasks
      BY <1>t, <1>k, <2>1 DEF Steps
  <2>3. task' \in [Threads -> Tasks]
      BY <1>t, <1>9, <2>2 DEF BeginVerify, StartVerify
  <2>4. wasGood' \in [Threads -> BOOLEAN]
      BY <1>t, <1>9 DEF BeginVerify, Good
  <2>5. QED
      BY <1>t, <1>9, <2>3, <2>4 DEF BeginVerify, TrustTypeOK
<1>10. ASSUME NEW t \in Threads, BeginSave(t)
       PROVE  TrustTypeOK'
  <2>1. [NoTask EXCEPT !.step = "waiting"] \in Tasks
      BY <1>k DEF Steps
  <2>2. QED
      BY <1>t, <1>10, <2>1 DEF BeginSave, TrustTypeOK
<1>11. ASSUME NEW t \in Threads, TakeSnapshot(t)
       PROVE  TrustTypeOK'
  <2>1. [anchors |-> anchors, revokedCerts |-> revokedCerts] \in Image
      BY <1>t DEF Image
  <2>2. PICK image \in Image : image = [anchors |-> anchors, revokedCerts |-> revokedCerts]
      BY <2>1
  <2>3. task' = [task EXCEPT ![t].step = "replacing", ![t].image = image]
      BY <1>11, <2>2 DEF TakeSnapshot
  <2>4. [task[t] EXCEPT !.step = "replacing", !.image = image] \in Tasks
      BY <1>t DEF Steps
  <2>5. task' = [task EXCEPT ![t] = [task[t] EXCEPT !.step = "replacing", !.image = image]]
      BY <1>t, <2>3
  <2>6. task' \in [Threads -> Tasks]
      BY <1>t, <2>4, <2>5
  <2>7. QED
      BY <1>t, <1>11, <2>6 DEF TakeSnapshot, TrustTypeOK
<1>12. ASSUME NEW t \in Threads, ReplaceFile(t)
       PROVE  TrustTypeOK'
  <2>1. trustFile' \in Image
      BY <1>t, <1>12 DEF ReplaceFile
  <2>2. "saved" \in Steps
      BY DEF Steps
  <2>3. task' \in [Threads -> Tasks]
      BY <1>g, <1>e, <1>12, <2>2 DEF ReplaceFile
  <2>4. QED
      BY <1>t, <1>12, <2>1, <2>3, WatchFacts DEF ReplaceFile, TrustTypeOK
<1>13. CASE Restart
  <2>1. anchors' \in [AnchorIds -> Keys] /\ revokedCerts' \subseteq Certs
      BY <1>t, <1>13 DEF Restart, Image
  <2>2. task' \in [Threads -> Tasks]
      BY <1>k, <1>13 DEF Restart
  <2>3. QED
      BY <1>t, <1>13, <2>1, <2>2, WatchFacts DEF Restart, TrustTypeOK
<1>14. CASE UNCHANGED trustVars
    BY <1>t, <1>14 DEF trustVars, TrustTypeOK
<1>15. QED
    BY <1>1, <1>2, <1>3, <1>4, <1>5, <1>6, <1>7, <1>8, <1>9, <1>10, <1>11, <1>12, <1>13, <1>14
    DEF TrustNext

----------------------------------------------------------------------------
\* A step of a thread that leaves it outside verify() and save(), and takes no
\* revocation back.
Elsewhere(t) ==
    /\ ~Verifying(t)' /\ ~Saving(t)'
    /\ \A u \in Threads \ {t} : task'[u] = task[u]
    /\ revokedCerts \subseteq revokedCerts'
    /\ trustFile' = trustFile
    /\ Watch

LEMMA ElsewhereInv ==
    ASSUME TrustIInv, NEW t \in Threads, Elsewhere(t)
    PROVE  SavesInv' /\ \A u \in Threads : VerifyInv(u)'
<1>1. TrustTypeOK /\ SavesInv /\ (\A u \in Threads : VerifyInv(u)) /\ Watch
    BY DEF TrustIInv, Elsewhere
<1>2. SavesUntouched
    BY <1>1, WatchFacts DEF SavesUntouched, Elsewhere
<1>3. ASSUME NEW u \in Threads
      PROVE  VerifyInv(u)'
  <2>1. CASE u = t
      BY <2>1, NotVerifying DEF Elsewhere
  <2>2. CASE u # t
    <3>1. task'[u] = task[u] /\ revokedCerts \subseteq revokedCerts'
        BY <2>2 DEF Elsewhere
    <3>2. Verifying(u) => Verifying(u)'
        BY <3>1 DEF Verifying
    <3>3. VerifyUntouched(u)
        BY <1>1, <3>1, <3>2, WatchFacts DEF VerifyUntouched
    <3>4. QED
        BY <1>1, <3>3, VerifyUntouchedInv
  <2>3. QED
      BY <2>1, <2>2
<1>4. QED
    BY <1>1, <1>2, <1>3, SavesUntouchedInv

\* A step of verify() of t, as the other threads and the savers see it.
VerifyStep(t) ==
    /\ ~Saving(t)'
    /\ \A u \in Threads \ {t} :
           task'[u] = task[u] /\ (Verifying(u) => (wasGood[u] => wasGood'[u]) /\ cleared'[u] = cleared[u])
    /\ \A u \in Threads : due'[u] \subseteq due[u]
    /\ revokedCerts' = revokedCerts
    /\ trustFile' = trustFile

LEMMA VerifyStepInv ==
    ASSUME TrustIInv, NEW t \in Threads, VerifyStep(t), VerifyInv(t)'
    PROVE  SavesInv' /\ \A u \in Threads : VerifyInv(u)'
<1>1. TrustTypeOK /\ SavesInv /\ (\A u \in Threads : VerifyInv(u))
    BY DEF TrustIInv
<1>2. SavesUntouched
    BY DEF SavesUntouched, VerifyStep
<1>3. ASSUME NEW u \in Threads \ {t}
      PROVE  VerifyInv(u)'
  <2>1. VerifyUntouched(u)
      BY <1>3 DEF VerifyUntouched, VerifyStep
  <2>2. QED
      BY <1>1, <1>3, <2>1, VerifyUntouchedInv
<1>4. QED
    BY <1>1, <1>2, <1>3, SavesUntouchedInv

\* Every step keeps the invariant.
LEMMA TrustStepInv == TrustIInv /\ [TrustNext]_trustVars => TrustIInv'
<1> SUFFICES ASSUME TrustIInv, [TrustNext]_trustVars
             PROVE  SavesInv' /\ \A u \in Threads : VerifyInv(u)'
    BY TypeStep DEF TrustIInv
<1>t. TrustTypeOK /\ TrustTypeOK' /\ SavesInv /\ \A u \in Threads : VerifyInv(u)
    BY TypeStep DEF TrustIInv
<1>f. task \in [Threads -> [step : Steps, issuer : AnchorIds, keys : Keys, signed : Keys,
                            certs : SUBSET Certs, image : Image]]
    BY <1>t DEF TrustTypeOK
<1>n. NoTask.step = "idle"
    BY DEF NoTask
<1>e. ASSUME NEW t \in Threads, EndTask(t)
      PROVE  /\ ~Verifying(t)' /\ ~Saving(t)'
             /\ \A u \in Threads \ {t} : task'[u] = task[u]
    BY <1>f, <1>n, <1>e DEF EndTask, Verifying, Saving
<1>1. ASSUME NEW c \in Certs, Unrevoke(c)
      PROVE  SavesInv' /\ \A u \in Threads : VerifyInv(u)'
  <2>1. task' = task /\ trustFile' = trustFile /\ revokedCerts' = revokedCerts \ {c}
      BY <1>1 DEF Unrevoke
  <2>2. ASSUME NEW u \in Threads
        PROVE  VerifyInv(u)'
    <3>1. Verifying(u) => (wasGood[u] => wasGood'[u]) /\ (cleared[u] => cleared'[u])
        BY <1>1 DEF Unrevoke
    <3>2. Verifying(u) /\ c \in task[u].certs => cleared'[u]
        BY <1>1 DEF Unrevoke
    <3>3. VerifyUntouched(u)
        BY <2>1, <3>1, <3>2 DEF VerifyUntouched
    <3>4. QED
        BY <1>t, <3>3, VerifyUntouchedInv
  <2>3. \A u \in Threads : due'[u] = due[u] \ {c}
      BY <1>1 DEF Unrevoke
  <2>4. SavesUntouched
      BY <2>1, <2>3 DEF SavesUntouched
  <2>5. QED
      BY <1>t, <2>2, <2>4, SavesUntouchedInv
<1>2. CASE \/ \E c \in Certs : Revoke(c)
           \/ \E a \in AnchorIds : RemoveAnchor(a) \/ \E k \in AnchorKeys : Add(a, k)
  <2>1. /\ Watch /\ task' = task /\ trustFile' = trustFile
        /\ revokedCerts \subseteq revokedCerts'
      BY <1>2 DEF Revoke, RemoveAnchor, Add
  <2>2. \A u \in Threads : Verifying(u)' <=> Verifying(u)
      BY <2>1 DEF Verifying
  <2>3. \A u \in Threads : VerifyUntouched(u)
      BY <1>t, <2>1, <2>2, WatchFacts DEF VerifyUntouched
  <2>4. SavesUntouched
      BY <1>t, <2>1, WatchFacts DEF SavesUntouched
  <2>5. QED
      BY <1>t, <2>3, <2>4, VerifyUntouchedInv, SavesUntouchedInv
<1>3. CASE \/ \E c \in Certs : ClockPasses(c) \/ \E k \in AnchorKeys : Issue(c, k)
           \/ UNCHANGED trustVars
  <2>1. UNCHANGED <<task, revokedCerts, trustFile, wasGood, cleared, due>>
      BY <1>3 DEF ClockPasses, Issue, trustVars
  <2>2. SavesUntouched /\ \A u \in Threads : VerifyUntouched(u)
      BY <2>1 DEF SavesUntouched, VerifyUntouched
  <2>3. QED
      BY <1>t, <2>2, VerifyUntouchedInv, SavesUntouchedInv
<1>4. ASSUME NEW t \in Threads, NEW a \in AnchorIds, NEW k \in Keys, NEW certs \in SUBSET Certs,
             BeginCrl(t, a, k, certs)
      PROVE  SavesInv' /\ \A u \in Threads : VerifyInv(u)'
  <2>1. /\ task'[t].step = "check crl"
        /\ \A u \in Threads \ {t} : task'[u] = task[u]
      BY <1>f, <1>4 DEF BeginCrl, NoTask
  <2>2. Elsewhere(t)
      BY <1>4, <2>1 DEF BeginCrl, Elsewhere, Verifying, Saving
  <2>3. QED
      BY <2>2, ElsewhereInv
<1>5. ASSUME NEW t \in Threads, CheckCrl(t)
      PROVE  SavesInv' /\ \A u \in Threads : VerifyInv(u)'
  <2>1. CASE Go(t, "apply crl")
    <3>1. /\ task'[t].step = "apply crl"
          /\ \A u \in Threads \ {t} : task'[u] = task[u]
        BY <1>f, <2>1 DEF Go
    <3>2. Elsewhere(t)
        BY <1>5, <3>1 DEF CheckCrl, Elsewhere, Verifying, Saving
    <3>3. QED
        BY <3>2, ElsewhereInv
  <2>2. CASE EndTask(t)
    <3>1. Elsewhere(t)
        BY <1>5, <1>e, <2>2 DEF CheckCrl, Elsewhere
    <3>2. QED
        BY <3>1, ElsewhereInv
  <2>3. QED
      BY <1>5, <2>1, <2>2 DEF CheckCrl
<1>6. ASSUME NEW t \in Threads,
             ApplyCrl(t) \/ \E certs \in (SUBSET Certs) \ {{}} : TrustCrl(t, certs)
      PROVE  SavesInv' /\ \A u \in Threads : VerifyInv(u)'
  <2>1. /\ EndTask(t) /\ Watch /\ trustFile' = trustFile
        /\ revokedCerts \subseteq revokedCerts'
      BY <1>6 DEF ApplyCrl, TrustCrl
  <2>2. Elsewhere(t)
      BY <1>e, <2>1 DEF Elsewhere
  <2>3. QED
      BY <2>2, ElsewhereInv
<1>7. ASSUME NEW t \in Threads, NEW c \in Certs, NEW a \in AnchorIds, NEW genuine \in BOOLEAN,
             BeginVerify(t, c, a, genuine)
      PROVE  SavesInv' /\ \A u \in Threads : VerifyInv(u)'
  <2>1. /\ task'[t].step = "check revoked" /\ task'[t].keys = anchors[a]
        /\ task'[t].issuer = a /\ task'[t].certs = {c}
        /\ \A u \in Threads \ {t} : task'[u] = task[u]
      BY <1>f, <1>7 DEF BeginVerify, StartVerify, NoTask
  <2>2. /\ anchors' = anchors /\ revokedCerts' = revokedCerts /\ trustFile' = trustFile
        /\ due' = due /\ anchors[a] # NoKey
        /\ wasGood' = [wasGood EXCEPT ![t] = Good(t)']
        /\ cleared' = [cleared EXCEPT ![t] = FALSE]
      BY <1>7 DEF BeginVerify
  <2>3. VerifyStep(t)
    <3>1. \A u \in Threads \ {t} : wasGood'[u] = wasGood[u] /\ cleared'[u] = cleared[u]
        BY <1>t, <2>2 DEF TrustTypeOK
    <3>2. QED
        BY <2>1, <2>2, <3>1 DEF VerifyStep, Saving
  <2>4. wasGood'[t] = Good(t)'
      BY <1>t, <2>2 DEF TrustTypeOK
  <2>5. VerifyInv(t)'
      BY <2>1, <2>2, <2>4 DEF VerifyInv, At, Good
  <2>6. QED
      BY <2>3, <2>5, VerifyStepInv
<1>8. ASSUME NEW t \in Threads, CheckRevoked(t) \/ CheckSignature(t)
      PROVE  SavesInv' /\ \A u \in Threads : VerifyInv(u)'
  <2>1. /\ UNCHANGED <<issued, validity, anchors, revokedCerts, trustFile>> /\ Watch
        /\ Verifying(t)
      BY <1>8 DEF CheckRevoked, CheckSignature, At, Verifying
  <2>2. CASE EndTask(t)
    <3>1. Elsewhere(t)
        BY <1>e, <2>1, <2>2 DEF Elsewhere
    <3>2. QED
        BY <3>1, ElsewhereInv
  <2>3. ASSUME NEW step \in {"check signature", "accepted"}, Go(t, step),
               task[t].keys = task[t].signed => wasGood[t] \/ cleared[t],
               step = "accepted" => task[t].keys = task[t].signed
        PROVE  SavesInv' /\ \A u \in Threads : VerifyInv(u)'
    <3>1. /\ task'[t].step = step
          /\ task'[t].keys = task[t].keys /\ task'[t].signed = task[t].signed
          /\ \A u \in Threads \ {t} : task'[u] = task[u]
        BY <1>f, <2>3 DEF Go
    <3>2. \A u \in Threads : Verifying(u) => Verifying(u)'
        BY <2>1, <3>1 DEF Verifying
    <3>3. \A u \in Threads : Verifying(u) =>
              (wasGood[u] => wasGood'[u]) /\ cleared'[u] = cleared[u]
        BY <1>t, <2>1, <3>2 DEF Watch, TrustTypeOK
    <3>4. VerifyStep(t)
        BY <1>t, <2>1, <3>1, <3>3, WatchFacts DEF VerifyStep, Saving
    <3>5. VerifyInv(t)'
        BY <2>1, <2>3, <3>1, <3>3 DEF VerifyInv, At
    <3>6. QED
        BY <3>4, <3>5, VerifyStepInv
  <2>4. CASE CheckRevoked(t) /\ Go(t, "check signature") /\ task[t].certs \cap revokedCerts = {}
    <3>1. task[t].keys = task[t].signed => wasGood[t] \/ cleared[t]
        BY <1>t, <2>4 DEF VerifyInv, CheckRevoked
    <3>2. QED
        BY <2>3, <2>4, <3>1
  <2>5. CASE CheckSignature(t) /\ Go(t, "accepted") /\ KeysFor(t) = task[t].signed
    <3>1. /\ task[t].keys = task[t].signed
          /\ wasGood[t] \/ cleared[t]
        BY <1>t, <2>5 DEF VerifyInv, CheckSignature, KeysFor
    <3>2. QED
        BY <2>3, <2>5, <3>1
  <2>6. QED
      BY <1>8, <2>2, <2>4, <2>5 DEF CheckRevoked, CheckSignature
<1>9. ASSUME NEW t \in Threads, BeginSave(t)
      PROVE  SavesInv' /\ \A u \in Threads : VerifyInv(u)'
  <2>1. /\ task'[t].step = "waiting"
        /\ \A u \in Threads \ {t} : task'[u] = task[u]
      BY <1>f, <1>9 DEF BeginSave, NoTask
  <2>2. /\ due'[t] = revokedCerts
        /\ \A u \in Threads \ {t} : /\ due'[u] = due[u]
                                    /\ wasGood'[u] = wasGood[u] /\ cleared'[u] = cleared[u]
        /\ revokedCerts' = revokedCerts /\ trustFile' = trustFile
      BY <1>t, <1>9 DEF BeginSave, TrustTypeOK
  <2>3. SavesInv'
    <3>1. \A u \in Threads : Saving(u)' => due'[u] \subseteq revokedCerts'
        BY <1>t, <2>1, <2>2 DEF SavesInv, Saving
    <3>2. \A u \in Threads : At(u, "saved")' => due'[u] \subseteq trustFile'.revokedCerts
        BY <1>t, <2>1, <2>2 DEF SavesInv, At
    <3>3. ASSUME NEW u \in Threads, At(u, "replacing")', NEW v \in Threads
          PROVE  /\ At(v, "replacing")' => v = u
                 /\ v = u \/ At(v, "saved")' => due'[v] \subseteq task'[u].image.revokedCerts
        BY <1>t, <2>1, <2>2, <3>3 DEF SavesInv, At
    <3>4. QED
        BY <3>1, <3>2, <3>3 DEF SavesInv
  <2>4. ASSUME NEW u \in Threads
        PROVE  VerifyInv(u)'
    <3>1. CASE u = t
        BY <2>1, <3>1, NotVerifying DEF Verifying
    <3>2. CASE u # t
      <4>1. VerifyUntouched(u)
          BY <2>1, <2>2, <3>2 DEF VerifyUntouched
      <4>2. QED
          BY <1>t, <4>1, VerifyUntouchedInv
    <3>3. QED
        BY <3>1, <3>2
  <2>5. QED
      BY <2>3, <2>4
<1>10. ASSUME NEW t \in Threads, TakeSnapshot(t)
       PROVE  SavesInv' /\ \A u \in Threads : VerifyInv(u)'
  <2> DEFINE taken == [anchors |-> anchors, revokedCerts |-> revokedCerts]
  <2>1. /\ task'[t].step = "replacing" /\ task'[t].image = taken
        /\ \A u \in Threads \ {t} : task'[u] = task[u]
      BY <1>f, <1>10 DEF TakeSnapshot
  <2>2. /\ UNCHANGED <<revokedCerts, trustFile, wasGood, cleared, due>>
        /\ At(t, "waiting") /\ \A u \in Threads : ~At(u, "replacing")
        /\ task'[t].image.revokedCerts = revokedCerts
      BY <1>10, <2>1 DEF TakeSnapshot, Unlocked
  <2> HIDE DEF taken
  <2>3. SavesInv'
    <3>1. \A u \in Threads : Saving(u)' => Saving(u)
        BY <2>1, <2>2 DEF Saving, At
    <3>2. \A u \in Threads : Saving(u)' => due'[u] \subseteq revokedCerts'
        BY <1>t, <2>2, <3>1 DEF SavesInv
    <3>3. \A u \in Threads : At(u, "saved")' => At(u, "saved")
        BY <2>1, <2>2 DEF At
    <3>4. \A u \in Threads : At(u, "saved")' => due'[u] \subseteq trustFile'.revokedCerts
        BY <1>t, <2>2, <3>3 DEF SavesInv
    <3>5. ASSUME NEW u \in Threads, At(u, "replacing")', NEW v \in Threads
          PROVE  /\ At(v, "replacing")' => v = u
                 /\ v = u \/ At(v, "saved")' => due'[v] \subseteq task'[u].image.revokedCerts
      <4>1. u = t
          BY <2>1, <2>2, <3>5 DEF At
      <4>2. At(v, "replacing")' => v = t
          BY <2>1, <2>2 DEF At
      <4>3. v = t \/ At(v, "saved")' => due'[v] \subseteq revokedCerts
          BY <1>t, <2>2, <3>3 DEF SavesInv, Saving, At
      <4>4. QED
          BY <2>2, <4>1, <4>2, <4>3
    <3>6. QED
        BY <3>2, <3>4, <3>5 DEF SavesInv
  <2>4. ASSUME NEW u \in Threads
        PROVE  VerifyInv(u)'
    <3>1. CASE u = t
        BY <2>1, <3>1, NotVerifying DEF Verifying
    <3>2. CASE u # t
      <4>1. VerifyUntouched(u)
          BY <2>1, <2>2, <3>2 DEF VerifyUntouched
      <4>2. QED
          BY <1>t, <4>1, VerifyUntouchedInv
    <3>3. QED
        BY <3>1, <3>2
  <2>5. QED
      BY <2>3, <2>4
<1>11. ASSUME NEW t \in Threads, ReplaceFile(t)
       PROVE  SavesInv' /\ \A u \in Threads : VerifyInv(u)'
  <2>1. At(t, "replacing") /\ Watch /\ revokedCerts' = revokedCerts
      BY <1>11 DEF ReplaceFile
  <2>2. CASE UNCHANGED trustFile /\ EndTask(t)
    <3>1. Elsewhere(t)
        BY <1>e, <2>1, <2>2 DEF Elsewhere
    <3>2. QED
        BY <3>1, ElsewhereInv
  <2>3. CASE trustFile' = task[t].image /\ Go(t, "saved")
    <3>1. /\ task'[t].step = "saved"
          /\ \A u \in Threads \ {t} : task'[u] = task[u]
        BY <1>f, <2>3 DEF Go
    <3>2. \A u \in Threads \ {t} : ~At(u, "replacing")
        BY <1>t, <2>1 DEF SavesInv
    <3>3. \A u \in Threads : due'[u] \subseteq due[u]
        BY <1>t, <2>1, WatchFacts
    <3>4. SavesInv'
      <4>1. \A u \in Threads : Saving(u)' => due'[u] \subseteq revokedCerts'
          BY <1>t, <2>1, <3>1, <3>3 DEF SavesInv, Saving, At
      <4>2. ASSUME NEW u \in Threads, At(u, "saved")'
            PROVE  due'[u] \subseteq trustFile'.revokedCerts
        <5>1. u = t \/ At(u, "saved")
            BY <3>1, <4>2 DEF At
        <5>2. due[u] \subseteq task[t].image.revokedCerts
            BY <1>t, <2>1, <5>1 DEF SavesInv
        <5>3. QED
            BY <2>3, <3>3, <5>2
      <4>3. \A u \in Threads : ~At(u, "replacing")'
          BY <3>1, <3>2 DEF At
      <4>4. QED
          BY <4>1, <4>2, <4>3 DEF SavesInv
    <3>5. ASSUME NEW u \in Threads
          PROVE  VerifyInv(u)'
      <4>1. CASE u = t
          BY <3>1, <4>1, NotVerifying DEF Verifying
      <4>2. CASE u # t
        <5>1. task'[u] = task[u]
            BY <3>1, <4>2
        <5>2. Verifying(u) => Verifying(u)'
            BY <5>1 DEF Verifying
        <5>3. VerifyUntouched(u)
            BY <1>t, <2>1, <5>1, <5>2, WatchFacts DEF VerifyUntouched
        <5>4. QED
            BY <1>t, <5>3, VerifyUntouchedInv
      <4>3. QED
          BY <4>1, <4>2
    <3>6. QED
        BY <3>4, <3>5
  <2>4. QED
      BY <1>11, <2>2, <2>3 DEF ReplaceFile
<1>12. CASE Restart
  <2>1. \A u \in Threads : task'[u].step = "idle"
      BY <1>n, <1>12 DEF Restart
  <2>2. QED
      BY <2>1 DEF SavesInv, VerifyInv, Saving, At
<1>13. QED
    BY <1>1, <1>2, <1>3, <1>4, <1>5, <1>6, <1>7, <1>8, <1>9, <1>10, <1>11, <1>12 DEF TrustNext

\* The invariant holds in every reachable state.
LEMMA TrustAlwaysInv == TrustSpec => []TrustIInv
BY TrustInitInv, TrustStepInv, PTL DEF TrustSpec

\* The store, its file and the calls of its threads keep their types.
THEOREM TrustTyped == TrustSpec => []TrustTypeOK
<1>1. TrustIInv => TrustTypeOK
    BY DEF TrustIInv
<1>2. QED
    BY <1>1, TrustAlwaysInv, PTL

\* A card that verify() returns was signed by a trusted key and not revoked at one moment of
\* the call, or its certificate was unrevoked during the call.
THEOREM VerifyIsAtomic == TrustSpec => []AcceptedWasGood
<1>1. TrustIInv => AcceptedWasGood
    BY DEF TrustIInv, VerifyInv, AcceptedWasGood
<1>2. QED
    BY <1>1, TrustAlwaysInv, PTL

\* When a save() returns, the file has what the store had when it was called.
THEOREM SaveIsDurable == TrustSpec => []SavedIsFresh
<1>1. TrustIInv => SavedIsFresh
    BY DEF TrustIInv, SavesInv, SavedIsFresh
<1>2. QED
    BY <1>1, TrustAlwaysInv, PTL
=============================================================================
